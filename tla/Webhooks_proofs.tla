-------------------------- MODULE Webhooks_proofs --------------------------
(***************************************************************************)
(* With any number of workers, jobs and events, whatever the batches,      *)
(* crashes, expiries and requeues: a job's final status is true, and an    *)
(* event arrives once more only for each fault or requeue (Webhooks, over  *)
(* JobTracking).                                                           *)
(***************************************************************************)
EXTENDS Webhooks, FiniteSetTheorems, WellFoundedInduction, TLAPS

\* A worker that has a job in hand.
Busy  == {"claim", "handle", "load", "post", "blocked", "arrived", "refused", "complete", "fail", "bury", "mark"}

BossJob    == [state : {"none", "created", "active", "completed", "failed"}, event : 0..NumEvents, tries : Nat]
TrackedRow == [boss : 0..NumJobs, event : 0..NumEvents, attempts : Nat, dead : BOOLEAN,
               status : {"NONE", "PENDING", "RUNNING", "COMPLETED", "FAILED", "DEAD_LETTERED"}]
AWorker    == [at : Busy \cup {"idle", "done", "throw", "down"}, batch : SUBSET JobId, todo : SUBSET JobId]
ARequeue   == [at : {"idle", "mark"}, row : 0..NumJobs, boss : 0..NumJobs]

QueueTypeOK ==
    /\ boss \in [JobId -> BossJob] /\ row \in [JobId -> TrackedRow] /\ worker \in [Workers -> AWorker]
    /\ admin \in ARequeue /\ faults \in Nat /\ requeues \in Nat
HookTypeOK ==
    /\ endpoint \in [exists : BOOLEAN, enabled : BOOLEAN] /\ sent \in 0..NumEvents
    /\ posts \in [EventId -> Nat] /\ attempts \in [EventId -> SUBSET BOOLEAN] /\ unusable \in SUBSET EventId

First(S) == CHOOSE b \in S : \A c \in S : b <= c

\* Delivered, or found undeliverable.
Settled == {e \in EventId : TRUE \in attempts[e] \/ e \in unusable}

GoodJob(j) ==
    /\ j.state # "none" => j.event \in EventId
    /\ j.state = "none" => j = NoBossJob
    /\ j.state = "created" => j.tries <= RetryLimit
    /\ j.tries <= RetryLimit + 1

\* Only what pg-boss gave up is buried, and only what is settled completed.
GoodWorker(v, jobs, settled) ==
    /\ v.todo \subseteq v.batch
    /\ \A b \in v.batch : jobs[b].state # "none"
    /\ v.at \in Busy => v.todo # {}
    /\ v.at \in {"idle", "down"} => v.batch = {}
    /\ v.at = "bury" => jobs[First(v.todo)].tries > RetryLimit
    /\ v.at = "complete" => jobs[First(v.todo)].event \in settled

\* A row is about the event of the job it was created for and of the one it
\* stands for now.
GoodRow(r, x, jobs, settled) ==
    /\ x.dead => x.status # "NONE" /\ jobs[x.boss].tries > RetryLimit
    /\ x.status # "NONE" => /\ x.boss \in JobId /\ jobs[x.boss].state # "none" /\ jobs[r].state # "none"
                            /\ x.event = jobs[x.boss].event /\ x.event = jobs[r].event
    /\ x.status = "COMPLETED" => x.event \in settled

GoodRequeue(a, table, jobs) ==
    a.at = "mark" => /\ a.row \in JobId /\ a.boss \in JobId /\ table[a.row].status # "NONE"
                     /\ jobs[a.boss].state # "none" /\ jobs[a.boss].event = table[a.row].event

QueueInv ==
    /\ QueueTypeOK
    /\ \A b \in JobId : GoodJob(boss[b])
    /\ \A w \in Workers : GoodWorker(worker[w], boss, Settled)
    /\ \A r \in JobId : GoodRow(r, row[r], boss, Settled)
    /\ GoodRequeue(admin, row, boss)

HookInv == HookTypeOK /\ QueueInv

-----------------------------------------------------------------------------
LEMMA Numbers ==
    /\ JobId \subseteq Nat /\ NoJob \notin JobId /\ EventId \subseteq Nat /\ NoEvent \notin EventId
    /\ JobId \subseteq 0..NumJobs /\ EventId \subseteq 0..NumEvents /\ RetryLimit \in Nat
    /\ NoJob \in 0..NumJobs /\ NoEvent \in 0..NumEvents
  BY JobTrackingAssumption DEF JobId, EventId, NoJob, NoEvent

LEMMA FirstIsIn ==
    ASSUME NEW S \in SUBSET JobId, S # {}
    PROVE  First(S) \in S
<1>1. S \subseteq Nat
  BY Numbers
<1>2. PICK x \in S : \A y \in S : ~(<<y, x>> \in OpToRel(<, Nat))
  BY <1>1, NatLessThanWellFounded, WFMin
<1>3. \A y \in S : ~(y < x)
  BY <1>1, <1>2 DEF OpToRel
<1>4. \A y \in S : x <= y
  BY <1>1, <1>3
<1> QED
  BY <1>4 DEF First

\* Jobs are never taken back, nor given another event.
Grows(old, new) ==
    \A b \in JobId : old[b].state # "none" =>
        new[b].state # "none" /\ new[b].event = old[b].event /\ new[b].tries >= old[b].tries

LEMMA WorkerStays ==
    ASSUME NEW v \in AWorker, NEW jobs, NEW jobs2, NEW S, NEW S2, GoodWorker(v, jobs, S), Grows(jobs, jobs2), S \subseteq S2,
           \A b \in JobId : jobs[b].tries \in Nat /\ jobs2[b].tries \in Nat
    PROVE  GoodWorker(v, jobs2, S2)
<1>1. v.batch \subseteq JobId /\ v.todo \subseteq v.batch
  BY DEF AWorker, GoodWorker
<1>2. v.at \in Busy => First(v.todo) \in v.batch
  BY <1>1, FirstIsIn DEF GoodWorker
<1>3. "bury" \in Busy /\ "complete" \in Busy
  BY DEF Busy
<1>4. ASSUME v.at = "bury" PROVE jobs2[First(v.todo)].tries > RetryLimit
  <2>1. PICK b \in JobId : b = First(v.todo) /\ jobs[b].state # "none" /\ jobs[b].tries > RetryLimit
    BY <1>1, <1>2, <1>3, <1>4 DEF GoodWorker
  <2>2. jobs2[b].tries >= jobs[b].tries
    BY <2>1 DEF Grows
  <2> QED
    BY <2>1, <2>2, Numbers
<1>5. ASSUME v.at = "complete" PROVE jobs2[First(v.todo)].event \in S2
  BY <1>1, <1>2, <1>3, <1>5 DEF GoodWorker, Grows
<1> QED
  BY <1>1, <1>4, <1>5 DEF GoodWorker, Grows

LEMMA RowStays ==
    ASSUME NEW r \in JobId, NEW x, NEW jobs, NEW jobs2, NEW S, NEW S2, GoodRow(r, x, jobs, S), Grows(jobs, jobs2), S \subseteq S2,
           \A b \in JobId : jobs[b].tries \in Nat /\ jobs2[b].tries \in Nat
    PROVE  GoodRow(r, x, jobs2, S2)
<1>1. ASSUME x.dead PROVE x.status # "NONE" /\ jobs2[x.boss].tries > RetryLimit
  <2>1. x.status # "NONE" /\ jobs[x.boss].tries > RetryLimit /\ x.boss \in JobId /\ jobs[x.boss].state # "none"
    BY <1>1 DEF GoodRow
  <2>2. jobs2[x.boss].tries >= jobs[x.boss].tries
    BY <2>1 DEF Grows
  <2>3. jobs[x.boss].tries \in Nat /\ jobs2[x.boss].tries \in Nat /\ RetryLimit \in Nat
    BY <2>1, Numbers
  <2> DEFINE t == jobs[x.boss].tries
             t2 == jobs2[x.boss].tries
  <2>4. t \in Nat /\ t2 \in Nat /\ t > RetryLimit /\ t2 >= t
    BY <2>1, <2>2, <2>3
  <2> HIDE DEF t, t2
  <2>5. t2 > RetryLimit
    BY <2>3, <2>4
  <2> QED
    BY <2>1, <2>5 DEF t2
<1>2. ASSUME x.status # "NONE"
      PROVE  /\ x.boss \in JobId /\ jobs2[x.boss].state # "none" /\ jobs2[r].state # "none"
             /\ x.event = jobs2[x.boss].event /\ x.event = jobs2[r].event
  BY <1>2 DEF GoodRow, Grows
<1>3. x.status = "COMPLETED" => x.event \in S2
  BY DEF GoodRow
<1> QED
  BY <1>1, <1>2, <1>3 DEF GoodRow

LEMMA RequeueStays ==
    ASSUME NEW a, NEW table, NEW jobs, NEW jobs2, GoodRequeue(a, table, jobs), Grows(jobs, jobs2)
    PROVE  GoodRequeue(a, table, jobs2)
  BY DEF GoodRequeue, Grows

LEMMA Tries == ASSUME QueueInv PROVE \A b \in JobId : boss[b].tries \in Nat
  BY DEF QueueInv, QueueTypeOK, BossJob

LEMMA NothingWritten ==
    ASSUME QueueInv, boss' = boss
    PROVE  Grows(boss, boss')
<1>1. \A b \in JobId : boss[b].tries >= boss[b].tries
  BY Tries
<1> QED
  BY <1>1 DEF Grows

\* One worker moves, whatever the others and the rows.
LEMMA OneWorkerMoves ==
    ASSUME QueueInv, NEW w \in Workers, NEW v \in AWorker, worker' = [worker EXCEPT ![w] = v],
           boss' \in [JobId -> BossJob], \A b \in JobId : GoodJob(boss'[b]), Grows(boss, boss'), Settled \subseteq Settled',
           GoodWorker(v, boss', Settled'),
           row' \in [JobId -> TrackedRow], \A r \in JobId : GoodRow(r, row'[r], boss', Settled'),
           admin' = admin, GoodRequeue(admin, row', boss'), faults' \in Nat, requeues' \in Nat
    PROVE  QueueInv'
<1>1. worker' \in [Workers -> AWorker] /\ \A u \in Workers : worker'[u] = IF u = w THEN v ELSE worker[u]
  BY DEF QueueInv, QueueTypeOK
<1>2. QueueTypeOK'
  BY <1>1 DEF QueueTypeOK, QueueInv
<1>3. \A b \in JobId : boss[b].tries \in Nat /\ boss'[b].tries \in Nat
  BY Tries DEF BossJob
<1>4. ASSUME NEW u \in Workers PROVE GoodWorker(worker'[u], boss', Settled')
  <2>1. CASE u = w
    BY <1>1, <2>1
  <2>2. CASE u # w
    <3>1. worker[u] \in AWorker /\ GoodWorker(worker[u], boss, Settled)
      BY DEF QueueInv, QueueTypeOK
    <3>2. GoodWorker(worker[u], boss', Settled')
      BY <1>3, <3>1, WorkerStays
    <3> QED
      BY <1>1, <2>2, <3>2
  <2> QED
    BY <2>1, <2>2
<1> QED
  BY <1>2, <1>4 DEF QueueInv

\* A worker that writes no row.
LEMMA WorkerMoves ==
    ASSUME QueueInv, NEW w \in Workers, NEW v \in AWorker, worker' = [worker EXCEPT ![w] = v],
           UNCHANGED <<boss, row, admin>>, Settled \subseteq Settled', GoodWorker(v, boss, Settled'),
           faults' \in Nat, requeues' \in Nat
    PROVE  QueueInv'
<1>1. Grows(boss, boss') /\ boss' = boss /\ row' = row /\ admin' = admin
  BY NothingWritten
<1>2. \A b \in JobId : boss[b].tries \in Nat
  BY Tries
<1>3. \A r \in JobId : GoodRow(r, row[r], boss, Settled')
  BY <1>1, <1>2, RowStays DEF QueueInv
<1> QED
  BY <1>1, <1>3, OneWorkerMoves DEF QueueInv, QueueTypeOK

LEMMA MovedTo ==
    ASSUME QueueInv, NEW w \in Workers, NEW step \in Busy \cup {"done", "throw"}, Moved(w, step)
    PROVE  /\ [worker[w] EXCEPT !.at = step] \in AWorker /\ worker' = [worker EXCEPT ![w] = [worker[w] EXCEPT !.at = step]]
           /\ [worker[w] EXCEPT !.at = step].at = step /\ [worker[w] EXCEPT !.at = step].batch = worker[w].batch
           /\ [worker[w] EXCEPT !.at = step].todo = worker[w].todo
           /\ worker[w] \in AWorker /\ GoodWorker(worker[w], boss, Settled)
<1>1. worker \in [Workers -> AWorker] /\ GoodWorker(worker[w], boss, Settled)
  BY DEF QueueInv, QueueTypeOK
<1> QED
  BY <1>1 DEF Moved, AWorker

\* The handler's steps write no row of the queue.
LEMMA HandlerMoves ==
    ASSUME QueueInv, NEW w \in Workers, NEW from \in Busy, NEW to \in Busy \ {"bury"}, Handler(w, from, to),
           Settled \subseteq Settled', to = "complete" => EventOf(w) \in Settled', faults' \in Nat
    PROVE  QueueInv'
<1> DEFINE v == [worker[w] EXCEPT !.at = to]
<1>1. worker[w].at = from /\ Moved(w, to) /\ UNCHANGED <<boss, row, admin, requeues>>
  BY DEF Handler, At
<1>2. /\ v \in AWorker /\ worker' = [worker EXCEPT ![w] = v] /\ v.at = to /\ v.batch = worker[w].batch
      /\ v.todo = worker[w].todo /\ GoodWorker(worker[w], boss, Settled)
  BY <1>1, MovedTo
<1>3. EventOf(w) = boss[First(worker[w].todo)].event
  BY DEF EventOf, Current, First
<1>4. requeues' \in Nat
  BY <1>1 DEF QueueInv, QueueTypeOK
<1> HIDE DEF v
<1>5. GoodWorker(v, boss, Settled')
  BY <1>1, <1>2, <1>3 DEF GoodWorker, Busy
<1> QED
  BY <1>1, <1>2, <1>4, <1>5, WorkerMoves

-----------------------------------------------------------------------------
(* pg-boss's rows.                                                         *)

\* No worker and no row of the table moves.
LEMMA JobsMove ==
    ASSUME QueueInv, boss' \in [JobId -> BossJob], \A b \in JobId : GoodJob(boss'[b]), Grows(boss, boss'),
           UNCHANGED <<row, worker>>, admin' \in ARequeue, GoodRequeue(admin', row, boss'), Settled \subseteq Settled',
           faults' \in Nat, requeues' \in Nat
    PROVE  QueueInv'
<1>1. QueueTypeOK' /\ \A b \in JobId : boss[b].tries \in Nat /\ boss'[b].tries \in Nat
  BY Tries DEF QueueInv, QueueTypeOK, BossJob
<1>2. \A w \in Workers : GoodWorker(worker[w], boss', Settled')
  <2>1. \A w \in Workers : worker[w] \in AWorker /\ GoodWorker(worker[w], boss, Settled)
    BY DEF QueueInv, QueueTypeOK
  <2> QED
    BY <1>1, <2>1, WorkerStays
<1>3. \A r \in JobId : GoodRow(r, row[r], boss', Settled')
  BY <1>1, RowStays DEF QueueInv
<1>4. row' = row /\ worker' = worker
  OBVIOUS
<1> QED
  BY <1>1, <1>2, <1>3, <1>4 DEF QueueInv

\* One job is sent that was not.
LEMMA JobSent ==
    ASSUME QueueInv, Unsent # {}, NEW e \in EventId, boss' = Sent(e)
    PROVE  /\ First(Unsent) \in Unsent /\ First(Unsent) \in JobId
           /\ boss' = [boss EXCEPT ![First(Unsent)] = [state |-> "created", event |-> e, tries |-> 0]]
           /\ boss' \in [JobId -> BossJob] /\ (\A b \in JobId : GoodJob(boss'[b])) /\ Grows(boss, boss')
<1>1. First(Unsent) \in Unsent /\ Unsent \subseteq JobId
  <2>1. Unsent \in SUBSET JobId
    BY DEF Unsent
  <2> QED
    BY <2>1, FirstIsIn
<1> DEFINE b == First(Unsent)
           j == [state |-> "created", event |-> e, tries |-> 0]
<1>2. b \in JobId /\ boss[b].state = "none"
  BY <1>1 DEF Unsent
<1>3. boss' = [boss EXCEPT ![b] = j]
  BY DEF Sent, First
<1> HIDE DEF b
<1>4. j \in BossJob /\ GoodJob(j)
  BY Numbers DEF BossJob, GoodJob
<1> HIDE DEF j
<1>5. boss' \in [JobId -> BossJob] /\ \A c \in JobId : boss'[c] = IF c = b THEN j ELSE boss[c]
  BY <1>3, <1>4 DEF QueueInv, QueueTypeOK
<1>6. \A c \in JobId : GoodJob(boss'[c])
  BY <1>4, <1>5 DEF QueueInv
<1>7. Grows(boss, boss')
  <2>1. \A c \in JobId : boss[c].tries >= boss[c].tries
    BY Tries
  <2> QED
    BY <1>2, <1>5, <2>1 DEF Grows
<1> QED
  BY <1>1, <1>2, <1>3, <1>5, <1>6, <1>7 DEF b, j

\* What an active job becomes.
GoesOn(old, new) ==
    /\ new \in BossJob /\ GoodJob(new)
    /\ new.state # "none" /\ new.event = old.event /\ new.tries >= old.tries

LEMMA RetriedGoesOn ==
    ASSUME QueueInv, NEW b \in JobId, boss[b].state = "active"
    PROVE  GoesOn(boss[b], Retried(b)) /\ GoesOn(boss[b], [boss[b] EXCEPT !.state = "completed"])
           /\ Retried(b).tries = boss[b].tries
<1>1. boss[b] \in BossJob /\ GoodJob(boss[b])
  BY DEF QueueInv, QueueTypeOK
<1>2. boss[b].event \in EventId /\ boss[b].tries <= RetryLimit + 1 /\ boss[b].tries \in Nat
  BY <1>1 DEF GoodJob, BossJob
<1>3. [boss[b] EXCEPT !.state = "completed"] \in BossJob /\ Retried(b) \in BossJob
  BY <1>1 DEF BossJob, Retried
<1>4. /\ Retried(b).event = boss[b].event /\ Retried(b).tries = boss[b].tries
      /\ Retried(b).state = IF boss[b].tries <= RetryLimit THEN "created" ELSE "failed"
      /\ [boss[b] EXCEPT !.state = "completed"].event = boss[b].event
      /\ [boss[b] EXCEPT !.state = "completed"].tries = boss[b].tries
      /\ [boss[b] EXCEPT !.state = "completed"].state = "completed"
  BY <1>1 DEF BossJob, Retried
<1> QED
  BY <1>2, <1>3, <1>4 DEF GoesOn, GoodJob

LEMMA AllGoOn ==
    ASSUME QueueInv, boss' = [b \in JobId |-> boss'[b]],
           \A b \in JobId : boss'[b] = boss[b] \/ GoesOn(boss[b], boss'[b])
    PROVE  boss' \in [JobId -> BossJob] /\ (\A b \in JobId : GoodJob(boss'[b])) /\ Grows(boss, boss')
<1>1. \A b \in JobId : boss[b] \in BossJob /\ GoodJob(boss[b]) /\ boss[b].tries >= boss[b].tries
  BY Tries DEF QueueInv, QueueTypeOK
<1>2. \A b \in JobId : boss'[b] \in BossJob /\ GoodJob(boss'[b])
  BY <1>1 DEF GoesOn
<1>3. Grows(boss, boss')
  BY <1>1 DEF GoesOn, Grows
<1> QED
  BY <1>2, <1>3

LEMMA JobExpires ==
    ASSUME QueueInv, NEW b \in JobId, ExpireJob(b), Settled' = Settled
    PROVE  QueueInv'
<1>1. boss[b].state = "active" /\ boss' = [boss EXCEPT ![b] = Retried(b)] /\ UNCHANGED <<row, worker, admin, requeues>>
      /\ faults' \in Nat
  BY DEF ExpireJob, QueueInv, QueueTypeOK
<1>2. boss' = [c \in JobId |-> boss'[c]] /\ \A c \in JobId : boss'[c] = IF c = b THEN Retried(b) ELSE boss[c]
  BY <1>1 DEF QueueInv, QueueTypeOK
<1>3. boss' \in [JobId -> BossJob] /\ (\A c \in JobId : GoodJob(boss'[c])) /\ Grows(boss, boss')
  BY <1>1, <1>2, RetriedGoesOn, AllGoOn
<1>4. GoodRequeue(admin', row, boss') /\ admin' \in ARequeue /\ requeues' \in Nat
  BY <1>1, <1>3, RequeueStays DEF QueueInv, QueueTypeOK
<1> QED
  BY <1>1, <1>3, <1>4, JobsMove

LEMMA SendKeeps ==
    ASSUME QueueInv, NEW e \in EventId, Unsent # {}, boss' = Sent(e), UNCHANGED <<row, worker, admin, faults, requeues>>,
           Settled' = Settled
    PROVE  QueueInv'
<1>1. boss' \in [JobId -> BossJob] /\ (\A b \in JobId : GoodJob(boss'[b])) /\ Grows(boss, boss')
  BY JobSent
<1>2. GoodRequeue(admin', row, boss') /\ admin' \in ARequeue /\ faults' \in Nat /\ requeues' \in Nat
  BY <1>1, RequeueStays DEF QueueInv, QueueTypeOK
<1> QED
  BY <1>1, <1>2, JobsMove

\* The new job is about the event of the dead row.
LEMMA RequeueKeeps ==
    ASSUME QueueInv, Requeue, Settled' = Settled
    PROVE  QueueInv'
<1>1. Unsent # {} /\ requeues' = requeues + 1 /\ UNCHANGED <<row, worker, faults>>
  BY DEF Requeue
<1>2. PICK r \in JobId : row[r].dead /\ boss' = Sent(row[r].event) /\ admin' = [at |-> "mark", row |-> r, boss |-> First(Unsent)]
  BY DEF Requeue, First
<1>3. row[r].status # "NONE" /\ row[r].event = boss[r].event /\ boss[r].state # "none"
  BY <1>2 DEF QueueInv, GoodRow
<1>4. row[r].event \in EventId
  BY <1>3 DEF QueueInv, GoodJob
<1>5. PICK e \in EventId : e = row[r].event
  BY <1>4
<1>6. /\ First(Unsent) \in JobId /\ boss' = [boss EXCEPT ![First(Unsent)] = [state |-> "created", event |-> e, tries |-> 0]]
      /\ boss' \in [JobId -> BossJob] /\ (\A b \in JobId : GoodJob(boss'[b])) /\ Grows(boss, boss')
  BY <1>1, <1>2, <1>5, JobSent
<1>7. boss'[First(Unsent)].state = "created" /\ boss'[First(Unsent)].event = row[r].event
  BY <1>5, <1>6 DEF QueueInv, QueueTypeOK
<1>8. admin' \in ARequeue /\ GoodRequeue(admin', row, boss')
  BY <1>2, <1>3, <1>6, <1>7, Numbers DEF ARequeue, GoodRequeue
<1>9. faults' \in Nat /\ requeues' \in Nat
  BY <1>1 DEF QueueInv, QueueTypeOK
<1> QED
  BY <1>1, <1>6, <1>8, <1>9, JobsMove

-----------------------------------------------------------------------------
(* The workers.                                                            *)

LEMMA FetchKeeps ==
    ASSUME QueueInv, NEW w \in Workers, Fetch(w), Settled' = Settled
    PROVE  QueueInv'
<1>1. PICK batch \in SUBSET {b \in JobId : boss[b].state = "created"} :
          /\ batch # {}
          /\ boss' = [b \in JobId |-> IF b \in batch THEN [boss[b] EXCEPT !.state = "active", !.tries = @ + 1] ELSE boss[b]]
          /\ worker' = [worker EXCEPT ![w] = [at |-> "claim", batch |-> batch, todo |-> batch]]
  BY DEF Fetch
<1>2. UNCHANGED <<row, admin, faults, requeues>>
  BY DEF Fetch
<1> DEFINE v == [at |-> "claim", batch |-> batch, todo |-> batch]
<1>3. ASSUME NEW b \in JobId PROVE boss'[b] = boss[b] \/ GoesOn(boss[b], boss'[b])
  <2>1. CASE b \in batch
    <3>1. boss[b].state = "created" /\ boss'[b] = [boss[b] EXCEPT !.state = "active", !.tries = @ + 1]
      BY <1>1, <2>1
    <3>2. boss[b] \in BossJob /\ GoodJob(boss[b])
      BY DEF QueueInv, QueueTypeOK
    <3>3. boss[b].tries \in Nat /\ boss[b].tries <= RetryLimit /\ boss[b].event \in EventId
      BY <3>1, <3>2 DEF GoodJob, BossJob
    <3>4. /\ boss'[b] \in BossJob /\ boss'[b].state = "active" /\ boss'[b].event = boss[b].event
          /\ boss'[b].tries = boss[b].tries + 1
      <4>1. boss[b] = [state |-> boss[b].state, event |-> boss[b].event, tries |-> boss[b].tries]
        BY <3>2 DEF BossJob
      <4>2. boss'[b] = [state |-> "active", event |-> boss[b].event, tries |-> boss[b].tries + 1]
        BY <3>1, <4>1
      <4>3. boss[b].event \in 0..NumEvents /\ boss[b].tries + 1 \in Nat
        BY <3>2, <3>3 DEF BossJob
      <4> QED
        BY <4>2, <4>3 DEF BossJob
    <3> QED
      BY <3>3, <3>4, Numbers DEF GoesOn, GoodJob
  <2>2. CASE b \notin batch
    BY <1>1, <2>2
  <2> QED
    BY <2>1, <2>2
<1>4. boss' \in [JobId -> BossJob] /\ (\A b \in JobId : GoodJob(boss'[b])) /\ Grows(boss, boss')
  BY <1>1, <1>3, AllGoOn
<1>5. v \in AWorker /\ v.at = "claim" /\ v.batch = batch /\ v.todo = batch
  BY <1>1 DEF AWorker, Busy
<1> HIDE DEF v
<1>6. \A b \in batch : boss'[b].state # "none"
  BY <1>1, <1>4 DEF Grows
<1>7. GoodWorker(v, boss', Settled')
  BY <1>1, <1>5, <1>6 DEF GoodWorker
<1>8. \A r \in JobId : GoodRow(r, row[r], boss', Settled')
  BY <1>4, Tries, RowStays DEF QueueInv, BossJob
<1>9. GoodRequeue(admin, row, boss')
  BY <1>4, RequeueStays DEF QueueInv
<1> QED
  BY <1>1, <1>2, <1>4, <1>5, <1>7, <1>8, <1>9, OneWorkerMoves DEF v, QueueInv, QueueTypeOK

LEMMA AtRest ==
    ASSUME NEW step \in {"idle", "down"}, NEW jobs, NEW S
    PROVE  LET v == [Resting EXCEPT !.at = step] IN v \in AWorker /\ v.at = step /\ v.batch = {} /\ GoodWorker(v, jobs, S)
  BY DEF Resting, AWorker, GoodWorker, Busy

LEMMA EndBatchKeeps ==
    ASSUME QueueInv, NEW w \in Workers, EndBatch(w), Settled' = Settled
    PROVE  QueueInv'
<1> DEFINE batch == worker[w].batch
           done == At(w, "done")
<1>1. boss' = Ended(batch, done) /\ worker' = [worker EXCEPT ![w] = Resting] /\ UNCHANGED <<row, admin, faults, requeues>>
  BY DEF EndBatch
<1> HIDE DEF batch, done
<1>2. /\ boss' = [b \in JobId |-> boss'[b]]
      /\ \A b \in JobId : boss'[b] = IF b \notin batch \/ boss[b].state # "active" THEN boss[b]
                                     ELSE IF done THEN [boss[b] EXCEPT !.state = "completed"] ELSE Retried(b)
  BY <1>1 DEF Ended
<1>3. boss' \in [JobId -> BossJob] /\ (\A b \in JobId : GoodJob(boss'[b])) /\ Grows(boss, boss')
  BY <1>2, RetriedGoesOn, AllGoOn
<1>4. Resting = [Resting EXCEPT !.at = "idle"]
  BY DEF Resting
<1>5. Resting \in AWorker /\ GoodWorker(Resting, boss', Settled')
  BY <1>4, AtRest
<1>6. \A r \in JobId : GoodRow(r, row[r], boss', Settled')
  BY <1>1, <1>3, Tries, RowStays DEF QueueInv, BossJob
<1>7. GoodRequeue(admin, row, boss')
  BY <1>3, RequeueStays DEF QueueInv
<1> QED
  BY <1>1, <1>3, <1>5, <1>6, <1>7, OneWorkerMoves DEF QueueInv, QueueTypeOK

LEMMA FaultKeeps ==
    ASSUME QueueInv, NEW w \in Workers, StatementFails(w) \/ Crash(w), Settled' = Settled
    PROVE  QueueInv'
<1>1. faults' = faults + 1 /\ UNCHANGED <<boss, row, admin, requeues>>
  BY DEF StatementFails, Crash
<1>2. faults' \in Nat /\ requeues' \in Nat
  BY <1>1 DEF QueueInv, QueueTypeOK
<1>3. CASE Crash(w)
  <2>1. worker' = [worker EXCEPT ![w] = [Resting EXCEPT !.at = "down"]]
    BY <1>3 DEF Crash
  <2>2. [Resting EXCEPT !.at = "down"] \in AWorker /\ GoodWorker([Resting EXCEPT !.at = "down"], boss, Settled')
    BY AtRest
  <2> QED
    BY <1>1, <1>2, <2>1, <2>2, WorkerMoves
<1>4. CASE StatementFails(w)
  <2>1. PICK step \in {"throw", "fail"} : Moved(w, step) /\ worker[w].at \in Busy
    BY <1>4 DEF StatementFails, At, Busy
  <2> DEFINE v == [worker[w] EXCEPT !.at = step]
  <2>2. /\ v \in AWorker /\ worker' = [worker EXCEPT ![w] = v] /\ v.at = step /\ v.batch = worker[w].batch
        /\ v.todo = worker[w].todo /\ GoodWorker(worker[w], boss, Settled)
    BY <2>1, MovedTo DEF Busy
  <2> HIDE DEF v
  <2>3. GoodWorker(v, boss, Settled')
    BY <2>1, <2>2 DEF GoodWorker, Busy
  <2> QED
    BY <1>1, <1>2, <2>2, <2>3, WorkerMoves
<1> QED
  BY <1>3, <1>4

-----------------------------------------------------------------------------
(* The jobs table.                                                         *)

\* A row that exists stays, with its event.
RowsKept(old, new) ==
    \A r \in JobId : old[r].status # "NONE" => new[r].status # "NONE" /\ new[r].event = old[r].event

LEMMA RequeueSees ==
    ASSUME NEW a, NEW table, NEW table2, NEW jobs, GoodRequeue(a, table, jobs), RowsKept(table, table2)
    PROVE  GoodRequeue(a, table2, jobs)
  BY DEF GoodRequeue, RowsKept

\* A worker that writes rows, and moves.
LEMMA WorkerWrites ==
    ASSUME QueueInv, NEW w \in Workers, NEW v \in AWorker, worker' = [worker EXCEPT ![w] = v],
           UNCHANGED <<boss, admin, faults, requeues>>, Settled' = Settled, GoodWorker(v, boss, Settled),
           row' \in [JobId -> TrackedRow], \A r \in JobId : GoodRow(r, row'[r], boss, Settled), RowsKept(row, row')
    PROVE  QueueInv'
<1>1. GoodRequeue(admin, row', boss)
  BY RequeueSees DEF QueueInv
<1> QED
  BY <1>1, NothingWritten, OneWorkerMoves DEF QueueInv, QueueTypeOK

LEMMA RowsAre ==
    ASSUME QueueInv
    PROVE  \A r \in JobId : row[r] \in TrackedRow /\ GoodRow(r, row[r], boss, Settled)
  BY DEF QueueInv, QueueTypeOK

LEMMA RowsSet ==
    ASSUME QueueInv, NEW w \in Workers, NEW status \in {"COMPLETED", "FAILED", "DEAD_LETTERED"}, NEW dead \in BOOLEAN,
           SetRow(w, status, dead), dead => boss[Current(w)].tries > RetryLimit,
           status = "COMPLETED" => EventOf(w) \in Settled
    PROVE  row' \in [JobId -> TrackedRow] /\ (\A r \in JobId : GoodRow(r, row'[r], boss, Settled)) /\ RowsKept(row, row')
<1>1. /\ row' = [r \in JobId |-> row'[r]]
      /\ \A r \in JobId : row'[r] = IF r \in Rows(Current(w))
                                    THEN [row[r] EXCEPT !.status = status, !.dead = dead \/ row[r].dead] ELSE row[r]
  BY DEF SetRow
<1>2. ASSUME NEW r \in JobId
      PROVE  /\ row'[r] \in TrackedRow /\ GoodRow(r, row'[r], boss, Settled)
             /\ row[r].status # "NONE" => row'[r].status # "NONE" /\ row'[r].event = row[r].event
  <2>1. row[r] \in TrackedRow /\ GoodRow(r, row[r], boss, Settled)
    BY RowsAre
  <2>2. CASE r \in Rows(Current(w))
    <3>1. row[r].status # "NONE" /\ row[r].boss = Current(w)
      BY <2>2 DEF Rows
    <3>2. /\ row'[r] \in TrackedRow /\ row'[r].boss = row[r].boss /\ row'[r].event = row[r].event
          /\ row'[r].status = status /\ (row'[r].dead <=> (dead \/ row[r].dead))
      <4> DEFINE buried == dead \/ row[r].dead
      <4>1. buried \in BOOLEAN
        OBVIOUS
      <4>2. row'[r] = [row[r] EXCEPT !.status = status, !.dead = buried]
        BY <1>1, <2>2
      <4>3. buried <=> (dead \/ row[r].dead)
        OBVIOUS
      <4> HIDE DEF buried
      <4>4. row'[r] \in TrackedRow /\ row'[r].boss = row[r].boss /\ row'[r].event = row[r].event
            /\ row'[r].status = status /\ row'[r].dead = buried
        BY <2>1, <4>1, <4>2 DEF TrackedRow
      <4> QED
        BY <4>3, <4>4
    <3> QED
      BY <2>1, <3>1, <3>2 DEF GoodRow, EventOf
  <2>3. CASE r \notin Rows(Current(w))
    BY <1>1, <2>1, <2>3
  <2> QED
    BY <2>2, <2>3
<1>3. \A r \in JobId : row'[r] \in TrackedRow
  BY <1>2
<1>4. row' \in [JobId -> TrackedRow]
  BY <1>1, <1>3
<1> QED
  BY <1>2, <1>4 DEF RowsKept

LEMMA InHand ==
    ASSUME QueueInv, NEW w \in Workers, worker[w].at \in Busy
    PROVE  /\ Current(w) \in JobId /\ Current(w) \in worker[w].todo /\ Current(w) \in worker[w].batch
           /\ boss[Current(w)].state # "none" /\ EventOf(w) \in EventId
           /\ Current(w) = First(worker[w].todo) /\ EventOf(w) = boss[First(worker[w].todo)].event
<1>1. worker[w] \in AWorker /\ GoodWorker(worker[w], boss, Settled)
  BY DEF QueueInv, QueueTypeOK
<1>2. worker[w].todo \subseteq JobId /\ worker[w].todo # {} /\ worker[w].todo \subseteq worker[w].batch
  BY <1>1 DEF AWorker, GoodWorker
<1>3. First(worker[w].todo) \in worker[w].todo
  BY <1>2, FirstIsIn
<1>4. Current(w) = First(worker[w].todo)
  BY DEF Current, First
<1>5. boss[Current(w)].state # "none" /\ Current(w) \in JobId
  BY <1>1, <1>2, <1>3, <1>4 DEF GoodWorker
<1>6. GoodJob(boss[Current(w)])
  BY <1>5 DEF QueueInv
<1> QED
  BY <1>2, <1>3, <1>4, <1>5, <1>6 DEF GoodJob, EventOf

LEMMA FailKeeps ==
    ASSUME QueueInv, NEW w \in Workers, FailJob(w), Settled' = Settled
    PROVE  QueueInv'
<1>1. Moved(w, "throw") /\ UNCHANGED <<boss, admin, faults, requeues>> /\ worker[w].at \in {"bury", "mark"}
  BY DEF FailJob, At
<1> DEFINE v == [worker[w] EXCEPT !.at = "throw"]
<1>2. /\ v \in AWorker /\ worker' = [worker EXCEPT ![w] = v] /\ v.at = "throw" /\ v.batch = worker[w].batch
      /\ v.todo = worker[w].todo /\ GoodWorker(worker[w], boss, Settled)
  BY <1>1, MovedTo
<1> HIDE DEF v
<1>3. GoodWorker(v, boss, Settled)
  BY <1>2 DEF GoodWorker, Busy
<1>4. worker[w].at = "bury" => boss[Current(w)].tries > RetryLimit
  <2>1. worker[w].at \in Busy
    BY <1>1 DEF Busy
  <2> QED
    BY <1>2, <2>1, InHand DEF GoodWorker
<1>5. row' \in [JobId -> TrackedRow] /\ (\A r \in JobId : GoodRow(r, row'[r], boss, Settled)) /\ RowsKept(row, row')
  <2>1. CASE worker[w].at = "bury"
    <3>1. SetRow(w, "DEAD_LETTERED", TRUE)
      BY <2>1 DEF FailJob, At
    <3> QED
      BY <1>4, <2>1, <3>1, RowsSet
  <2>2. CASE worker[w].at = "mark"
    <3>1. SetRow(w, "FAILED", FALSE)
      BY <2>2 DEF FailJob, At
    <3> QED
      BY <3>1, RowsSet
  <2> QED
    BY <1>1, <2>1, <2>2
<1> QED
  BY <1>1, <1>2, <1>3, <1>5, WorkerWrites

LEMMA CompleteKeeps ==
    ASSUME QueueInv, NEW w \in Workers, CompleteJob(w), Settled' = Settled
    PROVE  QueueInv'
<1>1. worker[w].at = "complete" /\ UNCHANGED <<boss, admin, faults, requeues>> /\ worker[w].at \in Busy
  BY DEF CompleteJob, At, Busy
<1>2. worker[w] \in AWorker /\ GoodWorker(worker[w], boss, Settled)
  BY DEF QueueInv, QueueTypeOK
<1>3. EventOf(w) \in Settled /\ Current(w) \in worker[w].todo
  BY <1>1, <1>2, InHand DEF GoodWorker
<1>4. CASE Tracked(w)
  <2> DEFINE left == worker[w].todo \ {Current(w)}
             step == IF left = {} THEN "done" ELSE "claim"
             v == [[worker[w] EXCEPT !.todo = left] EXCEPT !.at = step]
  <2>1. SetRow(w, "COMPLETED", FALSE) /\ worker' = [worker EXCEPT ![w].todo = left, ![w].at = step]
    BY <1>4 DEF CompleteJob
  <2>2. worker' = [worker EXCEPT ![w] = v]
    BY <2>1 DEF QueueInv, QueueTypeOK
  <2>3. v \in AWorker /\ v.at = step /\ v.todo = left /\ v.batch = worker[w].batch
    BY <1>2 DEF AWorker, Busy
  <2>4. left \subseteq worker[w].todo /\ (step = "done" \/ (step = "claim" /\ left # {}))
    <3>1. CASE left = {}
      BY <3>1
    <3>2. CASE left # {}
      BY <3>2
    <3> QED
      BY <3>1, <3>2
  <2> HIDE DEF v, left, step
  <2>5. GoodWorker(v, boss, Settled)
    BY <1>2, <2>3, <2>4 DEF GoodWorker, Busy
  <2>6. row' \in [JobId -> TrackedRow] /\ (\A r \in JobId : GoodRow(r, row'[r], boss, Settled)) /\ RowsKept(row, row')
    BY <1>3, <2>1, RowsSet
  <2> QED
    BY <1>1, <2>2, <2>3, <2>5, <2>6, WorkerWrites
<1>5. CASE ~Tracked(w)
  <2> DEFINE v == [worker[w] EXCEPT !.at = "fail"]
  <2>1. Moved(w, "fail") /\ UNCHANGED row
    BY <1>5 DEF CompleteJob
  <2>2. /\ v \in AWorker /\ worker' = [worker EXCEPT ![w] = v] /\ v.at = "fail" /\ v.batch = worker[w].batch
        /\ v.todo = worker[w].todo
    BY <2>1, MovedTo DEF Busy
  <2> HIDE DEF v
  <2>3. GoodWorker(v, boss, Settled')
    BY <1>1, <1>2, <2>2 DEF GoodWorker
  <2> QED
    BY <1>1, <2>1, <2>2, <2>3, WorkerMoves DEF QueueInv, QueueTypeOK
<1> QED
  BY <1>4, <1>5

LEMMA ClaimKeeps ==
    ASSUME QueueInv, NEW w \in Workers, ClaimJob(w), Settled' = Settled
    PROVE  QueueInv'
<1>1. worker[w].at = "claim" /\ UNCHANGED <<boss, admin, faults, requeues>> /\ worker[w].at \in Busy /\ Moved(w, "handle")
  BY DEF ClaimJob, At, Busy
<1> DEFINE v == [worker[w] EXCEPT !.at = "handle"]
           b == Current(w)
           new == [boss |-> b, event |-> EventOf(w), status |-> "RUNNING", attempts |-> 1, dead |-> FALSE]
<1>2. /\ v \in AWorker /\ worker' = [worker EXCEPT ![w] = v] /\ v.at = "handle" /\ v.batch = worker[w].batch
      /\ v.todo = worker[w].todo /\ GoodWorker(worker[w], boss, Settled)
  BY <1>1, MovedTo DEF Busy
<1> HIDE DEF v
<1>3. GoodWorker(v, boss, Settled)
  BY <1>1, <1>2 DEF GoodWorker
<1>4. b \in JobId /\ boss[b].state # "none" /\ EventOf(w) = boss[b].event /\ EventOf(w) \in EventId
  BY <1>1, InHand DEF EventOf
<1>5. new \in TrackedRow /\ GoodRow(b, new, boss, Settled) /\ new.event = boss[b].event /\ new.status = "RUNNING"
  BY <1>4, Numbers DEF TrackedRow, GoodRow
<1> HIDE DEF b, new
<1>6. ASSUME NEW r \in JobId
      PROVE  LET up == [row[r] EXCEPT !.status = "RUNNING", !.attempts = @ + 1]
             IN  /\ up \in TrackedRow /\ up.event = row[r].event /\ up.status = "RUNNING"
                 /\ r \in Rows(b) => GoodRow(r, up, boss, Settled)
  <2> DEFINE up == [row[r] EXCEPT !.status = "RUNNING", !.attempts = @ + 1]
  <2>1. row[r] \in TrackedRow /\ GoodRow(r, row[r], boss, Settled)
    BY RowsAre
  <2>2. up \in TrackedRow /\ up.event = row[r].event /\ up.status = "RUNNING" /\ up.boss = row[r].boss /\ up.dead = row[r].dead
    <3>1. row[r].attempts + 1 \in Nat /\ up = [[row[r] EXCEPT !.status = "RUNNING"] EXCEPT !.attempts = row[r].attempts + 1]
      BY <2>1 DEF TrackedRow
    <3> QED
      BY <2>1, <3>1 DEF TrackedRow
  <2> HIDE DEF up
  <2>3. r \in Rows(b) => GoodRow(r, up, boss, Settled)
    BY <2>1, <2>2 DEF GoodRow, Rows
  <2> QED
    BY <2>2, <2>3 DEF up
<1>7. CASE Tracked(w)
  <2>1. row' = [r \in JobId |-> IF r \in Rows(b) THEN [row[r] EXCEPT !.status = "RUNNING", !.attempts = @ + 1] ELSE row[r]]
    BY <1>7 DEF ClaimJob, b
  <2>2. row' \in [JobId -> TrackedRow]
    BY <1>6, <2>1, RowsAre
  <2>3. ASSUME NEW r \in JobId
        PROVE  /\ GoodRow(r, row'[r], boss, Settled)
               /\ row[r].status # "NONE" => row'[r].status # "NONE" /\ row'[r].event = row[r].event
    <3>1. CASE r \in Rows(b)
      BY <1>6, <2>1, <3>1
    <3>2. CASE r \notin Rows(b)
      BY <2>1, <3>2, RowsAre
    <3> QED
      BY <3>1, <3>2
  <2> QED
    BY <1>1, <1>2, <1>3, <2>2, <2>3, WorkerWrites DEF RowsKept
<1>8. CASE ~Tracked(w)
  <2>1. row' = [row EXCEPT ![b] = new]
    BY <1>8 DEF ClaimJob, b, new
  <2>2. row' \in [JobId -> TrackedRow] /\ \A r \in JobId : row'[r] = IF r = b THEN new ELSE row[r]
    BY <1>4, <1>5, <2>1 DEF QueueInv, QueueTypeOK
  <2>3. row[b].status # "NONE" => row[b].event = boss[b].event
    BY <1>4, RowsAre DEF GoodRow
  <2>4. ASSUME NEW r \in JobId
        PROVE  /\ GoodRow(r, row'[r], boss, Settled)
               /\ row[r].status # "NONE" => row'[r].status # "NONE" /\ row'[r].event = row[r].event
    BY <1>5, <2>2, <2>3, RowsAre
  <2> QED
    BY <1>1, <1>2, <1>3, <2>2, <2>4, WorkerWrites DEF RowsKept
<1> QED
  BY <1>7, <1>8

LEMMA RestartKeeps ==
    ASSUME QueueInv, NEW w \in Workers, Restart(w), Settled' = Settled
    PROVE  QueueInv'
<1>1. PICK stale \in SUBSET {r \in JobId : row[r].status = "RUNNING" /\ ~Held(row[r].boss)} :
          row' = [r \in JobId |-> IF r \in stale THEN [row[r] EXCEPT !.status = "FAILED"] ELSE row[r]]
  BY DEF Restart
<1>2. worker[w].at = "down" /\ Moved(w, "idle") /\ UNCHANGED <<boss, admin, faults, requeues>>
  BY DEF Restart, At
<1> DEFINE v == [worker[w] EXCEPT !.at = "idle"]
<1>3. worker[w] \in AWorker /\ GoodWorker(worker[w], boss, Settled)
  BY DEF QueueInv, QueueTypeOK
<1>4. /\ v \in AWorker /\ worker' = [worker EXCEPT ![w] = v] /\ v.at = "idle" /\ v.batch = worker[w].batch
      /\ v.todo = worker[w].todo
  BY <1>2, <1>3 DEF AWorker, Moved, QueueInv, QueueTypeOK
<1> HIDE DEF v
<1>5. GoodWorker(v, boss, Settled)
  BY <1>2, <1>3, <1>4 DEF GoodWorker, Busy
<1>6. ASSUME NEW r \in JobId
      PROVE  /\ row'[r] \in TrackedRow /\ GoodRow(r, row'[r], boss, Settled)
             /\ row[r].status # "NONE" => row'[r].status # "NONE" /\ row'[r].event = row[r].event
  <2>1. row[r] \in TrackedRow /\ GoodRow(r, row[r], boss, Settled)
    BY RowsAre
  <2>2. CASE r \in stale
    <3>1. row[r].status # "NONE"
      BY <1>1, <2>2
    <3>2. /\ row'[r] \in TrackedRow /\ row'[r].boss = row[r].boss /\ row'[r].event = row[r].event
          /\ row'[r].status = "FAILED" /\ row'[r].dead = row[r].dead
      BY <1>1, <2>1, <2>2 DEF TrackedRow
    <3> QED
      BY <2>1, <3>1, <3>2 DEF GoodRow
  <2>3. CASE r \notin stale
    BY <1>1, <2>1, <2>3
  <2> QED
    BY <2>2, <2>3
<1>7. row' \in [JobId -> TrackedRow]
  BY <1>1, <1>6
<1> QED
  BY <1>2, <1>4, <1>5, <1>6, <1>7, WorkerWrites DEF RowsKept

LEMMA MarkKeeps ==
    ASSUME QueueInv, MarkRequeued \/ AdminDies, Settled' = Settled
    PROVE  QueueInv'
<1>1. admin.at = "mark" /\ admin' = NoRequeue /\ UNCHANGED <<boss, worker, requeues>> /\ faults' \in Nat
  BY DEF MarkRequeued, AdminDies, QueueInv, QueueTypeOK
<1>2. admin' \in ARequeue /\ \A table, jobs : GoodRequeue(admin', table, jobs)
  BY <1>1, Numbers DEF NoRequeue, ARequeue, GoodRequeue
<1>3. admin \in ARequeue /\ GoodRequeue(admin, row, boss)
  BY DEF QueueInv, QueueTypeOK
<1> DEFINE r == admin.row
           new == [boss |-> admin.boss, event |-> row[r].event, status |-> "PENDING", attempts |-> 0, dead |-> FALSE]
<1>4. r \in JobId /\ admin.boss \in JobId /\ row[r].status # "NONE" /\ boss[admin.boss].state # "none"
      /\ boss[admin.boss].event = row[r].event
  BY <1>1, <1>3 DEF GoodRequeue
<1>5. row[r] \in TrackedRow /\ GoodRow(r, row[r], boss, Settled)
  BY <1>4, RowsAre
<1>6. new \in TrackedRow /\ GoodRow(r, new, boss, Settled)
  BY <1>4, <1>5, Numbers DEF GoodRow, TrackedRow
<1>7. row' = row \/ row' = [row EXCEPT ![r] = new]
  BY DEF MarkRequeued, AdminDies
<1> HIDE DEF r, new
<1>8. row' \in [JobId -> TrackedRow] /\ \A s \in JobId : row'[s] = row[s] \/ (s = r /\ row'[s] = new)
  BY <1>4, <1>6, <1>7 DEF QueueInv, QueueTypeOK
<1>9. \A s \in JobId : GoodRow(s, row'[s], boss, Settled)
  BY <1>6, <1>8, RowsAre
<1>10. QueueTypeOK'
  BY <1>1, <1>2, <1>8 DEF QueueInv, QueueTypeOK
<1> QED
  BY <1>1, <1>2, <1>9, <1>10 DEF QueueInv

-----------------------------------------------------------------------------
(* No job is claimed more often than it was fetched: the claims made, and  *)
(* those that workers who hold it have still to make.                      *)

WillClaim(v, b) == b \in v.todo /\ (v.at = "claim" \/ (v.at \in Busy /\ b # First(v.todo)))
ToClaim(b)      == {w \in Workers : WillClaim(worker[w], b)}

Counted(b) ==
    /\ IsFiniteSet(ToClaim(b)) /\ Cardinality(ToClaim(b)) <= boss[b].tries
    /\ \A r \in JobId : row[r].status # "NONE" /\ row[r].boss = b =>
          row[r].attempts + Cardinality(ToClaim(b)) <= boss[b].tries

CountInv == \A b \in JobId : Counted(b)

\* A row's attempts stay, or begin anew.
Recounts(old, new) ==
    \A r \in JobId : new[r].status # "NONE" =>
        new[r].attempts = 0 \/ (old[r].status # "NONE" /\ new[r].boss = old[r].boss /\ new[r].attempts = old[r].attempts)

LEMMA CountsKept ==
    ASSUME QueueInv, QueueInv', CountInv, Recounts(row, row'),
           \A b \in JobId : ToClaim(b)' \subseteq ToClaim(b) /\ boss'[b].tries >= boss[b].tries
    PROVE  CountInv'
<1>1. ASSUME NEW b \in JobId PROVE Counted(b)'
  <2>1. Counted(b) /\ IsFiniteSet(ToClaim(b)) /\ ToClaim(b)' \subseteq ToClaim(b)
    BY DEF CountInv, Counted
  <2>2. IsFiniteSet(ToClaim(b)') /\ Cardinality(ToClaim(b)') <= Cardinality(ToClaim(b))
    BY <2>1, FS_Subset
  <2>3. Cardinality(ToClaim(b)') \in Nat /\ Cardinality(ToClaim(b)) \in Nat
    BY <2>1, <2>2, FS_CardinalityType
  <2>4. boss[b].tries \in Nat /\ boss'[b].tries \in Nat /\ boss'[b].tries >= boss[b].tries
    BY DEF QueueInv, QueueTypeOK, BossJob
  <2>5. Cardinality(ToClaim(b)') <= boss'[b].tries
    BY <2>1, <2>2, <2>3, <2>4 DEF Counted
  <2>6. ASSUME NEW r \in JobId, row'[r].status # "NONE", row'[r].boss = b
        PROVE  row'[r].attempts + Cardinality(ToClaim(b)') <= boss'[b].tries
    <3>1. CASE row'[r].attempts = 0
      BY <2>3, <2>5, <3>1
    <3>2. CASE row[r].status # "NONE" /\ row'[r].boss = row[r].boss /\ row'[r].attempts = row[r].attempts
      <4>1. row[r].attempts + Cardinality(ToClaim(b)) <= boss[b].tries
        BY <2>1, <2>6, <3>2 DEF Counted
      <4>2. row[r].attempts \in Nat
        BY RowsAre DEF TrackedRow
      <4> QED
        BY <2>2, <2>3, <2>4, <3>2, <4>1, <4>2
    <3> QED
      BY <2>6, <3>1, <3>2 DEF Recounts
  <2> QED
    BY <2>2, <2>5, <2>6 DEF Counted
<1> QED
  BY <1>1 DEF CountInv

LEMMA WorkersAfter ==
    ASSUME QueueInv, NEW w \in Workers, NEW v, worker' = [worker EXCEPT ![w] = v]
    PROVE  \A u \in Workers : worker'[u] = IF u = w THEN v ELSE worker[u]
  BY DEF QueueInv, QueueTypeOK

LEMMA ClaimsNoMore ==
    ASSUME QueueInv, NEW w \in Workers, NEW v, worker' = [worker EXCEPT ![w] = v],
           \A b \in JobId : WillClaim(v, b) => WillClaim(worker[w], b)
    PROVE  \A b \in JobId : ToClaim(b)' \subseteq ToClaim(b)
  BY WorkersAfter DEF ToClaim

\* Whoever goes on with the job in hand, or ends, claims nothing new.
LEMMA GoingOnClaimsNoMore ==
    ASSUME NEW v, NEW old, NEW b, v.at \in Busy \ {"claim"} => v.todo = old.todo /\ old.at \in Busy, v.at # "claim",
           WillClaim(v, b)
    PROVE  WillClaim(old, b)
  BY DEF WillClaim

LEMMA MovedClaimsNoMore ==
    ASSUME QueueInv, NEW w \in Workers, worker[w].at \in Busy, NEW step \in (Busy \cup {"done", "throw"}) \ {"claim"}, Moved(w, step)
    PROVE  \A b \in JobId : ToClaim(b)' \subseteq ToClaim(b)
<1> DEFINE v == [worker[w] EXCEPT !.at = step]
<1>1. worker' = [worker EXCEPT ![w] = v] /\ v.at = step /\ v.todo = worker[w].todo
  BY MovedTo
<1> HIDE DEF v
<1>2. \A b \in JobId : WillClaim(v, b) => WillClaim(worker[w], b)
  BY <1>1, GoingOnClaimsNoMore
<1> QED
  BY <1>1, <1>2, ClaimsNoMore

LEMMA SameRows == ASSUME UNCHANGED row PROVE Recounts(row, row')
  BY DEF Recounts

LEMMA SameTries ==
    ASSUME QueueInv
    PROVE  /\ \A b \in JobId : boss[b].tries >= boss[b].tries
           /\ UNCHANGED boss => \A b \in JobId : boss'[b].tries >= boss[b].tries
           /\ UNCHANGED worker => \A b \in JobId : ToClaim(b)' \subseteq ToClaim(b)
<1>1. \A b \in JobId : boss[b].tries >= boss[b].tries
  BY Tries
<1> QED
  BY <1>1 DEF ToClaim

\* A fetch adds a claim to be made, and a try, to each job of the batch.
LEMMA FetchCounts ==
    ASSUME QueueInv, QueueInv', CountInv, NEW w \in Workers, Fetch(w)
    PROVE  CountInv'
<1>1. PICK batch \in SUBSET {b \in JobId : boss[b].state = "created"} :
          /\ boss' = [b \in JobId |-> IF b \in batch THEN [boss[b] EXCEPT !.state = "active", !.tries = @ + 1] ELSE boss[b]]
          /\ worker' = [worker EXCEPT ![w] = [at |-> "claim", batch |-> batch, todo |-> batch]]
  BY DEF Fetch
<1>2. worker[w].at = "idle" /\ row' = row
  BY DEF Fetch, At
<1>3. \A u \in Workers : worker'[u] = IF u = w THEN [at |-> "claim", batch |-> batch, todo |-> batch] ELSE worker[u]
  BY <1>1, WorkersAfter
<1>4. ASSUME NEW b \in JobId PROVE Counted(b)'
  <2>1. Counted(b) /\ IsFiniteSet(ToClaim(b)) /\ boss[b] \in BossJob
    BY DEF CountInv, Counted, QueueInv, QueueTypeOK
  <2>2. w \notin ToClaim(b)
    BY <1>2 DEF ToClaim, WillClaim, Busy
  <2>3. Cardinality(ToClaim(b)) \in Nat /\ boss[b].tries \in Nat
    BY <2>1, FS_CardinalityType DEF BossJob
  <2>4. CASE b \in batch
    <3>1. ToClaim(b)' = ToClaim(b) \cup {w}
      BY <1>2, <1>3, <2>4 DEF ToClaim, WillClaim, Busy
    <3>2. IsFiniteSet(ToClaim(b)') /\ Cardinality(ToClaim(b)') = Cardinality(ToClaim(b)) + 1
      BY <2>1, <2>2, <3>1, FS_AddElement
    <3>3. boss'[b].tries = boss[b].tries + 1
      BY <1>1, <2>1, <2>3, <2>4 DEF BossJob
    <3>4. \A r \in JobId : row[r].attempts \in Nat
      BY RowsAre DEF TrackedRow
    <3> QED
      BY <1>2, <2>1, <2>3, <3>2, <3>3, <3>4 DEF Counted
  <2>5. CASE b \notin batch
    <3>1. ToClaim(b)' = ToClaim(b)
      BY <1>2, <1>3, <2>5 DEF ToClaim, WillClaim, Busy
    <3>2. boss'[b] = boss[b]
      BY <1>1, <2>5
    <3> QED
      BY <1>2, <2>1, <3>1, <3>2 DEF Counted
  <2> QED
    BY <2>4, <2>5
<1> QED
  BY <1>4 DEF CountInv

\* A claim that was to be made is made.
LEMMA ClaimCounts ==
    ASSUME QueueInv, QueueInv', CountInv, NEW w \in Workers, ClaimJob(w)
    PROVE  CountInv'
<1>1. worker[w].at = "claim" /\ boss' = boss /\ Moved(w, "handle") /\ worker[w].at \in Busy
  BY DEF ClaimJob, At, Busy
<1> DEFINE own == Current(w)
           v == [worker[w] EXCEPT !.at = "handle"]
<1>2. own \in JobId /\ own \in worker[w].todo /\ own = First(worker[w].todo)
  BY <1>1, InHand
<1>3. worker' = [worker EXCEPT ![w] = v] /\ v.at = "handle" /\ v.todo = worker[w].todo
  BY <1>1, MovedTo DEF Busy
<1>4. \A u \in Workers : worker'[u] = IF u = w THEN v ELSE worker[u]
  BY <1>3, WorkersAfter
<1> HIDE DEF v
<1>5. \A r \in JobId : row[r] \in TrackedRow /\ row[r].attempts \in Nat
  BY RowsAre DEF TrackedRow
<1>6. ASSUME NEW r \in JobId, row'[r].status # "NONE"
      PROVE  \/ row'[r].boss = own /\ row'[r].attempts = 1
             \/ row'[r].boss = own /\ row[r].boss = own /\ row[r].status # "NONE" /\ row'[r].attempts = row[r].attempts + 1
             \/ row'[r] = row[r] /\ row[r].boss # own
  <2>1. CASE Tracked(w)
    <3>1. row'[r] = IF r \in Rows(own) THEN [row[r] EXCEPT !.status = "RUNNING", !.attempts = @ + 1] ELSE row[r]
      BY <2>1 DEF ClaimJob
    <3>2. r \in Rows(own) <=> row[r].status # "NONE" /\ row[r].boss = own
      BY DEF Rows
    <3>3. CASE r \in Rows(own)
      <4>1. row'[r] = [row[r] EXCEPT !.status = "RUNNING", !.attempts = row[r].attempts + 1]
        BY <3>1, <3>3
      <4>2. row'[r].boss = row[r].boss /\ row'[r].attempts = row[r].attempts + 1
        BY <1>5, <4>1 DEF TrackedRow
      <4> QED
        BY <3>2, <3>3, <4>2
    <3>4. CASE r \notin Rows(own)
      BY <1>6, <3>1, <3>2, <3>4
    <3> QED
      BY <3>3, <3>4
  <2>2. CASE ~Tracked(w)
    <3>1. row' = [row EXCEPT ![own] = [boss |-> own, event |-> EventOf(w), status |-> "RUNNING", attempts |-> 1, dead |-> FALSE]]
      BY <2>2 DEF ClaimJob
    <3>2. row'[r] = IF r = own THEN [boss |-> own, event |-> EventOf(w), status |-> "RUNNING", attempts |-> 1, dead |-> FALSE]
                    ELSE row[r]
      BY <1>2, <3>1 DEF QueueInv, QueueTypeOK
    <3>3. Rows(own) = {}
      BY <2>2 DEF Tracked
    <3>4. row[r].status # "NONE" => row[r].boss # own
      BY <3>3 DEF Rows
    <3> QED
      BY <1>6, <3>2, <3>4
  <2> QED
    BY <2>1, <2>2
<1> HIDE DEF own
<1>7. ASSUME NEW b \in JobId PROVE Counted(b)'
  <2>1. Counted(b) /\ IsFiniteSet(ToClaim(b)) /\ boss[b].tries \in Nat
    BY Tries DEF CountInv, Counted
  <2>2. Cardinality(ToClaim(b)) \in Nat
    BY <2>1, FS_CardinalityType
  <2>3. CASE b = own
    <3>1. ToClaim(b)' = ToClaim(b) \ {w} /\ w \in ToClaim(b)
      BY <1>1, <1>2, <1>3, <1>4, <2>3 DEF ToClaim, WillClaim, Busy
    <3>2. IsFiniteSet(ToClaim(b)') /\ Cardinality(ToClaim(b)') = Cardinality(ToClaim(b)) - 1
      BY <2>1, <3>1, FS_RemoveElement
    <3>3. Cardinality(ToClaim(b)') <= boss'[b].tries
      BY <1>1, <2>1, <2>2, <3>2 DEF Counted
    <3>4. ASSUME NEW r \in JobId, row'[r].status # "NONE", row'[r].boss = b
          PROVE  row'[r].attempts + Cardinality(ToClaim(b)') <= boss'[b].tries
      <4>1. row'[r].attempts = 1 \/ (row[r].boss = own /\ row[r].status # "NONE" /\ row'[r].attempts = row[r].attempts + 1)
        BY <1>6, <2>3, <3>4
      <4> QED
        BY <1>1, <1>5, <2>1, <2>2, <2>3, <3>2, <4>1 DEF Counted
    <3> QED
      BY <3>2, <3>3, <3>4 DEF Counted
  <2>4. CASE b # own
    <3>1. ToClaim(b)' = ToClaim(b)
      BY <1>1, <1>2, <1>3, <1>4, <2>4 DEF ToClaim, WillClaim, Busy
    <3>2. ASSUME NEW r \in JobId, row'[r].status # "NONE", row'[r].boss = b
          PROVE  row[r].status # "NONE" /\ row[r].boss = b /\ row'[r].attempts = row[r].attempts
      BY <1>6, <2>4, <3>2
    <3> QED
      BY <1>1, <2>1, <3>1, <3>2 DEF Counted
  <2> QED
    BY <2>3, <2>4
<1> QED
  BY <1>7 DEF CountInv

\* Dead-lettered is only what pg-boss has given up.
LEMMA ReadKeeps ==
    ASSUME QueueInv, CountInv, NEW w \in Workers, ReadAttempts(w), Settled' = Settled
    PROVE  QueueInv'
<1>1. worker[w].at = "fail" /\ worker[w].at \in Busy /\ UNCHANGED <<boss, row, admin, faults, requeues>>
  BY DEF ReadAttempts, At, Busy
<1>2. PICK step \in {"bury", "mark"} :
          /\ Moved(w, step)
          /\ step = "bury" => \E r \in Rows(Current(w)) : Exhausted(row[r].attempts)
  BY DEF ReadAttempts
<1> DEFINE v == [worker[w] EXCEPT !.at = step]
           b == Current(w)
<1>3. /\ v \in AWorker /\ worker' = [worker EXCEPT ![w] = v] /\ v.at = step /\ v.batch = worker[w].batch
      /\ v.todo = worker[w].todo /\ GoodWorker(worker[w], boss, Settled)
  BY <1>2, MovedTo DEF Busy
<1>4. b \in JobId /\ b = First(worker[w].todo)
  BY <1>1, InHand
<1> HIDE DEF v, b
<1>5. ASSUME step = "bury" PROVE boss[b].tries > RetryLimit
  <2>1. PICK r \in JobId : row[r].status # "NONE" /\ row[r].boss = b /\ Exhausted(row[r].attempts)
    BY <1>2, <1>5 DEF Rows, b
  <2>2. Counted(b) /\ IsFiniteSet(ToClaim(b))
    BY <1>4 DEF CountInv, Counted
  <2>3. Cardinality(ToClaim(b)) \in Nat /\ row[r].attempts \in Nat /\ boss[b].tries \in Nat
    BY <1>4, <2>2, FS_CardinalityType, RowsAre, Tries DEF TrackedRow
  <2>4. row[r].attempts + Cardinality(ToClaim(b)) <= boss[b].tries
    BY <2>1, <2>2 DEF Counted
  <2> QED
    BY <2>1, <2>3, <2>4, Numbers DEF Exhausted
<1>6. GoodWorker(v, boss, Settled')
  BY <1>1, <1>2, <1>3, <1>4, <1>5 DEF GoodWorker
<1> QED
  BY <1>1, <1>3, <1>6, WorkerMoves DEF QueueInv, QueueTypeOK

LEMMA SetRecounts ==
    ASSUME QueueInv, NEW w \in Workers, NEW status, NEW dead \in BOOLEAN, SetRow(w, status, dead)
    PROVE  Recounts(row, row')
<1>1. ASSUME NEW r \in JobId, row'[r].status # "NONE"
      PROVE  row[r].status # "NONE" /\ row'[r].boss = row[r].boss /\ row'[r].attempts = row[r].attempts
  <2>1. row'[r] = IF r \in Rows(Current(w)) THEN [row[r] EXCEPT !.status = status, !.dead = dead \/ row[r].dead] ELSE row[r]
    BY DEF SetRow
  <2>2. row[r] \in TrackedRow
    BY RowsAre
  <2>3. CASE r \in Rows(Current(w))
    BY <2>1, <2>2, <2>3 DEF TrackedRow, Rows
  <2>4. CASE r \notin Rows(Current(w))
    BY <1>1, <2>1, <2>4
  <2> QED
    BY <2>3, <2>4
<1> QED
  BY <1>1 DEF Recounts

\* The job completed was claimed before; those left were left already.
LEMMA CompleteClaimsNoMore ==
    ASSUME QueueInv, NEW w \in Workers, CompleteJob(w)
    PROVE  \A b \in JobId : ToClaim(b)' \subseteq ToClaim(b)
<1>1. worker[w].at = "complete" /\ worker[w] \in AWorker /\ worker[w].at \in Busy
  BY DEF CompleteJob, At, Busy, QueueInv, QueueTypeOK
<1>2. Current(w) = First(worker[w].todo)
  BY <1>1, InHand
<1>3. CASE Tracked(w)
  <2> DEFINE left == worker[w].todo \ {Current(w)}
             step == IF left = {} THEN "done" ELSE "claim"
             v == [[worker[w] EXCEPT !.todo = left] EXCEPT !.at = step]
  <2>1. worker' = [worker EXCEPT ![w].todo = left, ![w].at = step]
    BY <1>3 DEF CompleteJob
  <2>2. worker' = [worker EXCEPT ![w] = v] /\ v.todo = left
    BY <1>1, <2>1 DEF QueueInv, QueueTypeOK, AWorker
  <2> HIDE DEF v
  <2>3. \A b \in JobId : WillClaim(v, b) => WillClaim(worker[w], b)
    BY <1>1, <1>2, <2>2 DEF WillClaim
  <2> QED
    BY <2>2, <2>3, ClaimsNoMore
<1>4. CASE ~Tracked(w)
  <2>1. Moved(w, "fail")
    BY <1>4 DEF CompleteJob
  <2> QED
    BY <1>1, <2>1, MovedClaimsNoMore DEF Busy
<1> QED
  BY <1>3, <1>4

LEMMA EndedTries ==
    ASSUME QueueInv, NEW batch, NEW completed, boss' = Ended(batch, completed)
    PROVE  \A b \in JobId : boss'[b].tries = boss[b].tries
<1>1. ASSUME NEW b \in JobId PROVE boss'[b].tries = boss[b].tries
  <2>1. boss'[b] = IF b \notin batch \/ boss[b].state # "active" THEN boss[b]
                   ELSE IF completed THEN [boss[b] EXCEPT !.state = "completed"] ELSE Retried(b)
    BY DEF Ended
  <2>2. boss[b] \in BossJob
    BY DEF QueueInv, QueueTypeOK
  <2>3. [boss[b] EXCEPT !.state = "completed"].tries = boss[b].tries
    BY <2>2 DEF BossJob
  <2> QED
    BY <2>1, <2>3, RetriedGoesOn
<1> QED
  BY <1>1

LEMMA SentTries ==
    ASSUME QueueInv, Unsent # {}, NEW e \in EventId, boss' = Sent(e)
    PROVE  \A b \in JobId : boss'[b].tries >= boss[b].tries
<1> DEFINE new == First(Unsent)
           j == [state |-> "created", event |-> e, tries |-> 0]
<1>1. new \in Unsent /\ new \in JobId /\ boss' = [boss EXCEPT ![new] = j] /\ j.tries = 0
  BY JobSent
<1> HIDE DEF new, j
<1>2. \A b \in JobId : boss'[b] = IF b = new THEN j ELSE boss[b]
  BY <1>1 DEF QueueInv, QueueTypeOK
<1>3. boss[new] = NoBossJob
  BY <1>1 DEF Unsent, QueueInv, GoodJob
<1>4. boss[new].tries = 0
  BY <1>3 DEF NoBossJob
<1> QED
  BY <1>1, <1>2, <1>4, SameTries

LEMMA RequeueSends ==
    ASSUME QueueInv, Requeue
    PROVE  Unsent # {} /\ \E e \in EventId : boss' = Sent(e)
<1>1. PICK r \in JobId : row[r].dead /\ boss' = Sent(row[r].event)
  BY DEF Requeue
<1>2. row[r].status # "NONE" /\ row[r].event = boss[r].event /\ boss[r].state # "none"
  BY <1>1 DEF QueueInv, GoodRow
<1>3. row[r].event \in EventId
  BY <1>2 DEF QueueInv, GoodJob
<1> QED
  BY <1>1, <1>3 DEF Requeue

-----------------------------------------------------------------------------
(* Every step.                                                             *)

LEMMA HandlerCounts ==
    ASSUME QueueInv, QueueInv', CountInv, NEW w \in Workers, NEW from \in Busy, NEW to \in Busy \ {"claim"}, Handler(w, from, to)
    PROVE  CountInv'
<1>1. worker[w].at = from /\ Moved(w, to) /\ boss' = boss /\ row' = row
  BY DEF Handler, At
<1>2. \A b \in JobId : ToClaim(b)' \subseteq ToClaim(b)
  BY <1>1, MovedClaimsNoMore
<1> QED
  BY <1>1, <1>2, CountsKept, SameRows, SameTries

LEMMA HandlerStep ==
    ASSUME QueueInv, CountInv, NEW w \in Workers, NEW from \in Busy, NEW to \in Busy \ {"bury", "claim"}, Handler(w, from, to),
           Settled \subseteq Settled', to = "complete" => EventOf(w) \in Settled', faults' \in Nat
    PROVE  QueueInv' /\ CountInv'
<1>1. QueueInv'
  BY HandlerMoves
<1> QED
  BY <1>1, HandlerCounts

LEMMA HandlerStarts ==
    ASSUME QueueInv, NEW w \in Workers, NEW from \in Busy, NEW to, Handler(w, from, to)
    PROVE  EventOf(w) \in EventId /\ faults \in Nat
<1>1. worker[w].at \in Busy
  BY DEF Handler, At
<1> QED
  BY <1>1, InHand DEF QueueInv, QueueTypeOK

LEMMA RecordedSettles ==
    ASSUME HookTypeOK, NEW w \in Workers, NEW ok \in BOOLEAN, EventOf(w) \in EventId, Recorded(w, ok), unusable \subseteq unusable'
    PROVE  /\ attempts' \in [EventId -> SUBSET BOOLEAN] /\ Settled \subseteq Settled'
           /\ \A e \in EventId : attempts'[e] = IF endpoint.exists /\ e = EventOf(w) THEN attempts[e] \cup {ok} ELSE attempts[e]
<1>1. attempts \in [EventId -> SUBSET BOOLEAN]
  BY DEF HookTypeOK
<1>2. \A e \in EventId : attempts'[e] = IF endpoint.exists /\ e = EventOf(w) THEN attempts[e] \cup {ok} ELSE attempts[e]
  BY <1>1 DEF Recorded
<1>3. attempts' \in [EventId -> SUBSET BOOLEAN]
  <2> DEFINE e == EventOf(w)
             more == attempts[e] \cup {ok}
  <2>1. more \in SUBSET BOOLEAN /\ e \in EventId
    BY <1>1
  <2>2. attempts' = [attempts EXCEPT ![e] = more] \/ attempts' = attempts
    BY DEF Recorded
  <2> HIDE DEF e, more
  <2> QED
    BY <1>1, <2>1, <2>2
<1>4. Settled \subseteq Settled'
  BY <1>2 DEF Settled
<1> QED
  BY <1>2, <1>3, <1>4

LEMMA DeliverStep ==
    ASSUME HookInv, CountInv, NEW w \in Workers, Deliver(w)
    PROVE  HookInv' /\ CountInv'
<1> USE DEF HookInv
<1> DEFINE e == EventOf(w)
<1>0. Busy \ {"bury", "claim"} = {"handle", "load", "post", "blocked", "arrived", "refused", "complete", "fail", "mark"}
  BY DEF Busy
<1>1. CASE ReplayGuard(w)
  <2>1. UNCHANGED hookVars /\ faults' = faults /\ Handler(w, "handle", IF AlreadyDelivered(e) THEN "complete" ELSE "load")
    BY <1>1 DEF ReplayGuard
  <2>2. HookTypeOK' /\ Settled' = Settled
    BY <2>1 DEF HookTypeOK, Settled, hookVars
  <2>3. e \in EventId /\ faults \in Nat
    BY <2>1, HandlerStarts DEF Busy
  <2>4. CASE AlreadyDelivered(e)
    <3>1. Handler(w, "handle", "complete") /\ e \in Settled
      BY <2>1, <2>3, <2>4 DEF AlreadyDelivered, Settled
    <3> QED
      BY <1>0, <2>1, <2>2, <2>3, <3>1, HandlerStep
  <2>5. CASE ~AlreadyDelivered(e)
    <3>1. Handler(w, "handle", "load")
      BY <2>1, <2>5
    <3> QED
      BY <1>0, <2>1, <2>2, <2>3, <3>1, HandlerStep
  <2> QED
    BY <2>4, <2>5
<1>2. CASE LoadEndpoint(w)
  <2>1. UNCHANGED <<endpoint, sent, posts, attempts, faults>> /\ unusable' = IF Usable THEN unusable ELSE unusable \cup {e}
    BY <1>2 DEF LoadEndpoint
  <2>2. PICK to \in {"post", "blocked", "complete"} : Handler(w, "load", to) /\ (to = "complete" => ~Usable)
    BY <1>2 DEF LoadEndpoint
  <2>3. e \in EventId /\ faults \in Nat
    BY <2>2, HandlerStarts DEF Busy
  <2>4. HookTypeOK' /\ Settled \subseteq Settled' /\ (~Usable => e \in Settled')
    BY <2>1, <2>3 DEF HookTypeOK, Settled
  <2> QED
    BY <1>0, <2>1, <2>2, <2>3, <2>4, HandlerStep
<1>3. CASE Post(w)
  <2>1. PICK arrives \in BOOLEAN, ok \in BOOLEAN :
          /\ faults' = IF arrives /\ ~ok THEN faults + 1 ELSE faults
          /\ Handler(w, "post", IF ok THEN "arrived" ELSE "refused")
          /\ posts' = IF arrives THEN [posts EXCEPT ![e] = @ + 1] ELSE posts
    BY <1>3 DEF Post
  <2>2. PICK to \in {"arrived", "refused"} : Handler(w, "post", to)
    BY <2>1
  <2>3. e \in EventId /\ faults \in Nat
    BY <2>2, HandlerStarts DEF Busy
  <2>4. UNCHANGED <<endpoint, sent, attempts, unusable>> /\ faults' \in Nat
    BY <1>3, <2>1, <2>3 DEF Post
  <2>5. HookTypeOK' /\ Settled' = Settled
    BY <2>1, <2>3, <2>4 DEF HookTypeOK, Settled
  <2> QED
    BY <1>0, <2>2, <2>4, <2>5, HandlerStep
<1>4. CASE RecordAttempt(w)
  <2>1. PICK ok \in BOOLEAN :
          /\ Handler(w, IF ok THEN "arrived" ELSE "refused", IF endpoint.exists THEN Outcome(ok) ELSE "fail")
          /\ Recorded(w, ok)
    BY <1>4 DEF RecordAttempt
  <2>2. PICK from \in {"arrived", "refused"}, to \in {"complete", "fail"} :
            Handler(w, from, to) /\ (to = "complete" => ok /\ endpoint.exists)
    BY <2>1 DEF Outcome
  <2>3. e \in EventId /\ faults \in Nat
    BY <2>2, HandlerStarts DEF Busy
  <2>4. UNCHANGED <<endpoint, sent, posts, unusable, faults>>
    BY <1>4 DEF RecordAttempt
  <2>5. /\ attempts' \in [EventId -> SUBSET BOOLEAN] /\ Settled \subseteq Settled'
        /\ attempts'[e] = IF endpoint.exists THEN attempts[e] \cup {ok} ELSE attempts[e]
    BY <2>1, <2>3, <2>4, RecordedSettles
  <2>6. HookTypeOK' /\ (to = "complete" => e \in Settled')
    BY <2>2, <2>3, <2>4, <2>5 DEF HookTypeOK, Settled
  <2> QED
    BY <1>0, <2>2, <2>3, <2>4, <2>5, <2>6, HandlerStep
<1>5. CASE RecordBlocked(w)
  <2>1. PICK to \in {"complete", "fail"} : Handler(w, "blocked", to) /\ (to = "complete" => endpoint.exists)
    BY <1>5 DEF RecordBlocked
  <2>2. Recorded(w, FALSE) /\ UNCHANGED <<endpoint, sent, posts, faults>>
        /\ unusable' = IF endpoint.exists THEN unusable \cup {e} ELSE unusable
    BY <1>5 DEF RecordBlocked
  <2>3. e \in EventId /\ faults \in Nat
    BY <2>1, HandlerStarts DEF Busy
  <2>4. attempts' \in [EventId -> SUBSET BOOLEAN] /\ Settled \subseteq Settled'
    BY <2>2, <2>3, RecordedSettles
  <2>5. HookTypeOK' /\ (to = "complete" => e \in Settled')
    BY <2>1, <2>2, <2>3, <2>4 DEF HookTypeOK, Settled
  <2> QED
    BY <1>0, <2>1, <2>2, <2>3, <2>4, <2>5, HandlerStep
<1>6. CASE HandlerFails(w)
  <2>1. PICK from \in {"handle", "load", "arrived", "refused", "blocked"} : Handler(w, from, "fail")
    BY <1>6 DEF HandlerFails
  <2>2. UNCHANGED hookVars /\ faults' = faults + 1
    BY <1>6 DEF HandlerFails
  <2>3. faults' \in Nat
    BY <2>2 DEF QueueInv, QueueTypeOK
  <2>4. HookTypeOK' /\ Settled' = Settled
    BY <2>2 DEF HookTypeOK, Settled, hookVars
  <2> QED
    BY <1>0, <2>1, <2>3, <2>4, HandlerStep
<1> QED
  BY <1>1, <1>2, <1>3, <1>4, <1>5, <1>6 DEF Deliver

\* What a worker does to its own jobs.
LEMMA TrackingStep ==
    ASSUME QueueInv, CountInv, Settled' = Settled, NEW w \in Workers, Tracking(w)
    PROVE  QueueInv' /\ CountInv'
<1>1. CASE Fetch(w)
  BY <1>1, FetchKeeps, FetchCounts
<1>2. CASE ClaimJob(w)
  BY <1>2, ClaimKeeps, ClaimCounts
<1>3. CASE ReadAttempts(w)
  <2>1. QueueInv'
    BY <1>3, ReadKeeps
  <2>2. PICK step \in {"bury", "mark"} : Moved(w, step) /\ worker[w].at = "fail"
    BY <1>3 DEF ReadAttempts, At
  <2>3. \A b \in JobId : ToClaim(b)' \subseteq ToClaim(b)
    BY <2>2, MovedClaimsNoMore DEF Busy
  <2>4. UNCHANGED <<row, boss>>
    BY <1>3 DEF ReadAttempts
  <2> QED
    BY <2>1, <2>3, <2>4, CountsKept, SameRows, SameTries
<1>4. CASE FailJob(w)
  <2>1. QueueInv' /\ boss' = boss /\ Moved(w, "throw") /\ worker[w].at \in {"bury", "mark"}
    BY <1>4, FailKeeps DEF FailJob, At
  <2>2. \A b \in JobId : ToClaim(b)' \subseteq ToClaim(b)
    BY <2>1, MovedClaimsNoMore DEF Busy
  <2>3. PICK status \in {"FAILED", "DEAD_LETTERED"}, dead \in BOOLEAN : SetRow(w, status, dead)
    BY <1>4 DEF FailJob
  <2>4. Recounts(row, row')
    BY <2>3, SetRecounts
  <2> QED
    BY <2>1, <2>2, <2>4, CountsKept, SameTries
<1>5. CASE CompleteJob(w)
  <2>1. QueueInv' /\ boss' = boss /\ worker[w].at = "complete"
    BY <1>5, CompleteKeeps DEF CompleteJob, At
  <2>2. Recounts(row, row')
    BY <1>5, SameRows, SetRecounts DEF CompleteJob
  <2>3. \A b \in JobId : ToClaim(b)' \subseteq ToClaim(b)
    BY <1>5, CompleteClaimsNoMore
  <2> QED
    BY <2>1, <2>2, <2>3, CountsKept, SameTries
<1>6. CASE EndBatch(w)
  <2>1. QueueInv' /\ row' = row /\ worker' = [worker EXCEPT ![w] = Resting]
    BY <1>6, EndBatchKeeps DEF EndBatch
  <2>2. \A b \in JobId : ToClaim(b)' \subseteq ToClaim(b)
    <3>1. \A b \in JobId : ~WillClaim(Resting, b)
      BY DEF WillClaim, Resting
    <3> QED
      BY <2>1, <3>1, ClaimsNoMore
  <2>3. \A b \in JobId : boss'[b].tries >= boss[b].tries
    <3>1. \A b \in JobId : boss'[b].tries = boss[b].tries
      BY <1>6, EndedTries DEF EndBatch
    <3> QED
      BY <3>1, SameTries
  <2> QED
    BY <2>1, <2>2, <2>3, CountsKept, SameRows
<1>7. CASE StatementFails(w) \/ Crash(w)
  <2>1. QueueInv' /\ UNCHANGED <<boss, row>>
    BY <1>7, FaultKeeps DEF StatementFails, Crash
  <2>2. \A b \in JobId : ToClaim(b)' \subseteq ToClaim(b)
    <3>1. CASE StatementFails(w)
      <4>1. PICK step \in {"throw", "fail"} : Moved(w, step) /\ worker[w].at \in Busy
        BY <3>1 DEF StatementFails, At, Busy
      <4> QED
        BY <4>1, MovedClaimsNoMore DEF Busy
    <3>2. CASE Crash(w)
      <4>1. worker' = [worker EXCEPT ![w] = [Resting EXCEPT !.at = "down"]]
        BY <3>2 DEF Crash
      <4>2. \A b \in JobId : ~WillClaim([Resting EXCEPT !.at = "down"], b)
        BY DEF WillClaim, Resting
      <4> QED
        BY <4>1, <4>2, ClaimsNoMore
    <3> QED
      BY <1>7, <3>1, <3>2
  <2> QED
    BY <2>1, <2>2, CountsKept, SameRows, SameTries
<1>8. CASE Restart(w)
  <2>1. QueueInv' /\ boss' = boss /\ Moved(w, "idle")
    BY <1>8, RestartKeeps DEF Restart
  <2> DEFINE v == [worker[w] EXCEPT !.at = "idle"]
  <2>2. v.at = "idle" /\ worker' = [worker EXCEPT ![w] = v]
    BY <2>1 DEF Moved, QueueInv, QueueTypeOK, AWorker
  <2> HIDE DEF v
  <2>3. \A b \in JobId : ~WillClaim(v, b)
    BY <2>2 DEF WillClaim, Busy
  <2>4. \A b \in JobId : ToClaim(b)' \subseteq ToClaim(b)
    BY <2>2, <2>3, ClaimsNoMore
  <2>5. Recounts(row, row')
    <3>1. PICK stale \in SUBSET {r \in JobId : row[r].status = "RUNNING" /\ ~Held(row[r].boss)} :
              row' = [r \in JobId |-> IF r \in stale THEN [row[r] EXCEPT !.status = "FAILED"] ELSE row[r]]
      BY <1>8 DEF Restart
    <3>2. ASSUME NEW r \in JobId, row'[r].status # "NONE"
          PROVE  row[r].status # "NONE" /\ row'[r].boss = row[r].boss /\ row'[r].attempts = row[r].attempts
      <4>1. row[r] \in TrackedRow
        BY RowsAre
      <4>2. CASE r \in stale
        BY <3>1, <4>1, <4>2 DEF TrackedRow
      <4>3. CASE r \notin stale
        BY <3>1, <3>2, <4>3
      <4> QED
        BY <4>2, <4>3
    <3> QED
      BY <3>2 DEF Recounts
  <2> QED
    BY <2>1, <2>4, <2>5, CountsKept, SameTries
<1> QED
  BY <1>1, <1>2, <1>3, <1>4, <1>5, <1>6, <1>7, <1>8 DEF Tracking

\* Expiry and the administrator.
LEMMA OutsideStep ==
    ASSUME QueueInv, CountInv, Settled' = Settled, (\E b \in JobId : ExpireJob(b)) \/ Administration
    PROVE  QueueInv' /\ CountInv'
<1>1. ASSUME NEW b \in JobId, ExpireJob(b) PROVE QueueInv' /\ CountInv'
  <2>1. QueueInv' /\ UNCHANGED <<row, worker>> /\ boss[b].state = "active" /\ boss' = [boss EXCEPT ![b] = Retried(b)]
    BY <1>1, JobExpires DEF ExpireJob
  <2>2. \A c \in JobId : boss'[c] = IF c = b THEN Retried(b) ELSE boss[c]
    BY <2>1 DEF QueueInv, QueueTypeOK
  <2>3. \A c \in JobId : boss'[c].tries >= boss[c].tries
    <3>1. Retried(b).tries = boss[b].tries
      BY <2>1, RetriedGoesOn
    <3>2. \A c \in JobId : boss'[c].tries = boss[c].tries
      BY <2>2, <3>1
    <3> QED
      BY <3>2, SameTries
  <2> QED
    BY <2>1, <2>3, CountsKept, SameRows, SameTries
<1>2. CASE Requeue
  <2>1. QueueInv' /\ UNCHANGED <<row, worker>> /\ \A b \in JobId : boss'[b].tries >= boss[b].tries
    BY <1>2, RequeueKeeps, RequeueSends, SentTries DEF Requeue
  <2> QED
    BY <2>1, CountsKept, SameRows, SameTries
<1>3. CASE MarkRequeued \/ AdminDies
  <2>1. QueueInv' /\ UNCHANGED <<boss, worker>>
    BY <1>3, MarkKeeps DEF MarkRequeued, AdminDies
  <2>2. Recounts(row, row')
    <3>1. CASE row' = row
      BY <3>1, SameRows
    <3>2. CASE row' # row
      <4> DEFINE new == [boss |-> admin.boss, event |-> row[admin.row].event, status |-> "PENDING", attempts |-> 0, dead |-> FALSE]
      <4>1. row' = [row EXCEPT ![admin.row] = new] /\ new.attempts = 0
        BY <1>3, <3>2 DEF MarkRequeued, AdminDies
      <4> HIDE DEF new
      <4>2. \A r \in JobId : row'[r] = new \/ row'[r] = row[r]
        BY <4>1 DEF QueueInv, QueueTypeOK
      <4> QED
        BY <4>1, <4>2 DEF Recounts
    <3> QED
      BY <3>1, <3>2
  <2> QED
    BY <2>1, <2>2, CountsKept, SameTries
<1> QED
  BY <1>1, <1>2, <1>3 DEF Administration

LEMMA QueueStep ==
    ASSUME HookInv, CountInv, Queue, UNCHANGED hookVars
    PROVE  HookInv' /\ CountInv'
<1>1. HookTypeOK' /\ Settled' = Settled
  BY DEF HookInv, HookTypeOK, Settled, hookVars
<1> QED
  BY <1>1, TrackingStep, OutsideStep DEF HookInv, Queue

LEMMA SendStep ==
    ASSUME HookInv, CountInv, NEW e, e = sent + 1, Send(e)
    PROVE  HookInv' /\ CountInv'
<1>1. e \in EventId
  BY JobTrackingAssumption DEF Send, HookInv, HookTypeOK, EventId
<1>2. Unsent # {} /\ boss' = Sent(e) /\ sent' = e /\ UNCHANGED <<row, worker, admin, faults, requeues>>
      /\ UNCHANGED <<endpoint, posts, attempts, unusable>>
  BY DEF Send
<1>3. HookTypeOK' /\ Settled' = Settled
  BY <1>1, <1>2, Numbers DEF HookInv, HookTypeOK, Settled
<1>4. QueueInv'
  BY <1>1, <1>2, <1>3, SendKeeps DEF HookInv
<1>5. \A b \in JobId : boss'[b].tries >= boss[b].tries
  BY <1>1, <1>2, SentTries DEF HookInv
<1> QED
  BY <1>2, <1>3, <1>4, <1>5, CountsKept, SameRows, SameTries DEF HookInv

LEMMA CustomerStep ==
    ASSUME HookInv, CountInv, UpdateEndpoint \/ DeleteEndpoint \/ UNCHANGED vars
    PROVE  HookInv' /\ CountInv'
<1>1. UNCHANGED <<queueVars, sent, posts, attempts, unusable>> /\ endpoint' \in [exists : BOOLEAN, enabled : BOOLEAN]
  <2>1. endpoint \in [exists : BOOLEAN, enabled : BOOLEAN]
    BY DEF HookInv, HookTypeOK
  <2>2. CASE UpdateEndpoint
    <3> DEFINE on == ~endpoint.enabled
    <3>1. on \in BOOLEAN /\ endpoint' = [endpoint EXCEPT !.enabled = on]
      BY <2>2 DEF UpdateEndpoint
    <3> HIDE DEF on
    <3>2. endpoint' \in [exists : BOOLEAN, enabled : BOOLEAN]
      BY <2>1, <3>1
    <3> QED
      BY <2>2, <3>2 DEF UpdateEndpoint
  <2>3. CASE DeleteEndpoint
    BY <2>3 DEF DeleteEndpoint
  <2>4. CASE UNCHANGED vars
    BY <2>1, <2>4 DEF vars
  <2> QED
    BY <2>2, <2>3, <2>4
<1>2. HookTypeOK' /\ Settled' = Settled
  BY <1>1 DEF HookInv, HookTypeOK, Settled
<1>3. boss' = boss /\ row' = row /\ worker' = worker /\ admin' = admin /\ faults' = faults /\ requeues' = requeues
  BY <1>1 DEF queueVars
<1>4. QueueInv'
  BY <1>2, <1>3 DEF HookInv, QueueInv, QueueTypeOK
<1> QED
  BY <1>2, <1>3, <1>4, CountsKept, SameRows, SameTries DEF HookInv

LEMMA HookFirst == ASSUME Init PROVE HookInv /\ CountInv
<1>1. HookTypeOK
  BY JobTrackingAssumption DEF Init, HookTypeOK
<1>2. \A b \in JobId : boss[b] = NoBossJob
  BY DEF Init, QueueInit
<1>3. NoBossJob \in BossJob /\ GoodJob(NoBossJob) /\ NoBossJob.tries = 0
  BY Numbers DEF NoBossJob, BossJob, GoodJob
<1>4. NoRow \in TrackedRow /\ NoRow.status = "NONE" /\ ~NoRow.dead
  BY Numbers DEF NoRow, TrackedRow
<1>5. Resting = [Resting EXCEPT !.at = "idle"]
  BY DEF Resting
<1>6. Resting \in AWorker /\ GoodWorker(Resting, boss, Settled)
  BY <1>5, AtRest
<1>7. NoRequeue \in ARequeue /\ NoRequeue.at = "idle"
  BY Numbers DEF NoRequeue, ARequeue
<1>8. \A r \in JobId : row[r] = NoRow
  BY DEF Init, QueueInit
<1>9. QueueTypeOK
  BY <1>3, <1>4, <1>6, <1>7 DEF Init, QueueInit, QueueTypeOK
<1>10. \A w \in Workers : worker[w] = Resting
  BY DEF Init, QueueInit
<1>11. QueueInv
  BY <1>2, <1>3, <1>4, <1>6, <1>7, <1>8, <1>9, <1>10 DEF QueueInv, GoodRow, GoodRequeue, Init, QueueInit
<1>12. ASSUME NEW b \in JobId PROVE Counted(b)
  <2>1. ToClaim(b) = {}
    BY <1>10 DEF ToClaim, WillClaim, Resting
  <2>2. IsFiniteSet({}) /\ Cardinality({}) = 0
    BY FS_EmptySet
  <2> QED
    BY <1>2, <1>3, <1>4, <1>8, <2>1, <2>2 DEF Counted
<1> QED
  BY <1>1, <1>11, <1>12 DEF HookInv, CountInv

LEMMA HookStep == ASSUME HookInv, CountInv, [Next]_vars PROVE HookInv' /\ CountInv'
<1>1. CASE DispatchEvent \/ TestEndpoint
  BY <1>1, SendStep DEF DispatchEvent, TestEndpoint
<1>2. CASE UpdateEndpoint \/ DeleteEndpoint \/ UNCHANGED vars
  BY <1>2, CustomerStep
<1>3. ASSUME NEW w \in Workers, Deliver(w) PROVE HookInv' /\ CountInv'
  BY <1>3, DeliverStep
<1>4. CASE Queue /\ UNCHANGED hookVars
  BY <1>4, QueueStep
<1> QED
  BY <1>1, <1>2, <1>3, <1>4 DEF Next

LEMMA HookInvImplies == ASSUME HookInv PROVE FinalStatusIsTrue
<1>1. ASSUME NEW r \in JobId PROVE row[r].dead => boss[row[r].boss].state # "created"
  <2>1. row[r] \in TrackedRow /\ GoodRow(r, row[r], boss, Settled)
    BY RowsAre DEF HookInv
  <2>2. ASSUME row[r].dead PROVE row[r].boss \in JobId /\ boss[row[r].boss].tries > RetryLimit
    BY <2>1, <2>2 DEF GoodRow
  <2>3. ASSUME NEW b \in JobId, boss[b].tries > RetryLimit PROVE boss[b].state # "created"
    <3>1. GoodJob(boss[b]) /\ boss[b].tries \in Nat /\ RetryLimit \in Nat
      BY Tries, Numbers DEF HookInv, QueueInv
    <3> QED
      BY <2>3, <3>1 DEF GoodJob
  <2> QED
    BY <2>2, <2>3
<1>2. ASSUME NEW r \in JobId, row[r].status = "COMPLETED" PROVE TRUE \in attempts[row[r].event] \/ row[r].event \in unusable
  BY <1>2, RowsAre DEF HookInv, GoodRow, Settled
<1> QED
  BY <1>1, <1>2 DEF FinalStatusIsTrue, DeadIsOver, CompletedIsTrue

\* Dead-lettered means that pg-boss will not run the job again by itself, and
\* COMPLETED that the event was delivered or found undeliverable: whatever the
\* batches that pg-boss repeats as a whole, the crashes between claim and
\* completion, and the requeues (JobTrackingService, SendWebhookHandler).
THEOREM FinalStatusAlwaysTrue == Spec => []FinalStatusIsTrue
<1>1. Init => HookInv /\ CountInv
  BY HookFirst
<1>2. HookInv /\ CountInv /\ [Next]_vars => (HookInv /\ CountInv)'
  BY HookStep
<1>3. HookInv => FinalStatusIsTrue
  BY HookInvImplies
<1> QED
  BY <1>1, <1>2, <1>3, PTL DEF Spec

-----------------------------------------------------------------------------
(* How often an event may still arrive.  A worker that holds a job may post *)
(* it once more while its success is not on record, or while it is past    *)
(* the look at that record; so may a worker to come, for a job that waits. *)

Alive(e) == endpoint.exists /\ TRUE \notin attempts[e]

Committed == {"load", "post", "arrived"}        \* past the look at what was delivered

May(step, exists, alive) ==
    \/ step = "post"
    \/ step = "load" /\ exists
    \/ step \notin Committed /\ alive

MayPost(v, b, exists, alive) == b \in v.batch /\ IF b = First(v.todo) THEN May(v.at, exists, alive) ELSE alive

Tickets(e) == {p \in Workers \X JobId : boss[p[2]].event = e /\ MayPost(worker[p[1]], p[2], endpoint.exists, Alive(e))}

Waits(b)   == boss[b].state = "created" \/ (boss[b].state = "active" /\ ~Held(b))
Waiting(e) == {b \in JobId : Alive(e) /\ boss[b].event = e /\ Waits(b)}

Affordable(e) ==
    /\ IsFiniteSet(Tickets(e))
    /\ posts[e] + Cardinality(Tickets(e)) + Cardinality(Waiting(e)) <= 1 + faults + requeues

BudgetInv ==
    /\ \A e \in EventId : Affordable(e) /\ (e > sent => posts[e] = 0)
    /\ \A b \in JobId : boss[b].event <= sent

Good == HookInv /\ CountInv /\ BudgetInv

-----------------------------------------------------------------------------
LEMMA JobsAreFew == ASSUME NEW S, S \subseteq JobId PROVE IsFiniteSet(S) /\ Cardinality(S) \in Nat
<1>1. NumJobs \in Int /\ 1 \in Int
  BY JobTrackingAssumption
<1>2. IsFiniteSet(JobId)
  BY <1>1, FS_Interval DEF JobId
<1>3. IsFiniteSet(S)
  BY <1>2, FS_Subset
<1> QED
  BY <1>3, FS_CardinalityType

LEMMA Amounts ==
    ASSUME HookInv, BudgetInv, NEW e \in EventId
    PROVE  /\ IsFiniteSet(Tickets(e)) /\ IsFiniteSet(Waiting(e)) /\ Cardinality(Tickets(e)) \in Nat /\ Cardinality(Waiting(e)) \in Nat
           /\ posts[e] \in Nat /\ faults \in Nat /\ requeues \in Nat
           /\ posts[e] + Cardinality(Tickets(e)) + Cardinality(Waiting(e)) <= 1 + faults + requeues
<1>1. IsFiniteSet(Tickets(e)) /\ Affordable(e)
  BY DEF BudgetInv, Affordable
<1>2. Waiting(e) \subseteq JobId
  BY DEF Waiting
<1> QED
  BY <1>1, <1>2, JobsAreFew, FS_CardinalityType DEF Affordable, HookInv, HookTypeOK, QueueInv, QueueTypeOK

\* Nothing is gained but what a fault or a requeue pays for.
LEMMA NothingGained ==
    ASSUME HookInv, HookInv', BudgetInv, NEW e \in EventId, Tickets(e)' \subseteq Tickets(e), Waiting(e)' \subseteq Waiting(e),
           posts'[e] + faults + requeues <= posts[e] + faults' + requeues'
    PROVE  Affordable(e)'
<1>1. IsFiniteSet(Tickets(e)) /\ IsFiniteSet(Waiting(e))
  BY Amounts
<1>2. IsFiniteSet(Tickets(e)') /\ Cardinality(Tickets(e)') <= Cardinality(Tickets(e))
  BY <1>1, FS_Subset
<1>3. IsFiniteSet(Waiting(e)') /\ Cardinality(Waiting(e)') <= Cardinality(Waiting(e))
  BY <1>1, FS_Subset
<1>4. Cardinality(Tickets(e)') \in Nat /\ Cardinality(Waiting(e)') \in Nat
  BY <1>2, <1>3, FS_CardinalityType
<1>5. posts'[e] \in Nat /\ faults' \in Nat /\ requeues' \in Nat
  BY DEF HookInv, HookTypeOK, QueueInv, QueueTypeOK
<1> QED
  BY <1>2, <1>3, <1>4, <1>5, Amounts DEF Affordable

LEMMA OneTicketGained ==
    ASSUME HookInv, HookInv', BudgetInv, NEW e \in EventId, NEW p, Tickets(e)' \subseteq Tickets(e) \cup {p}, Waiting(e)' \subseteq Waiting(e),
           posts'[e] = posts[e], faults' + requeues' = faults + requeues + 1
    PROVE  Affordable(e)'
<1>1. IsFiniteSet(Tickets(e)) /\ IsFiniteSet(Waiting(e)) /\ Cardinality(Tickets(e)) \in Nat
  BY Amounts
<1>2. IsFiniteSet(Tickets(e) \cup {p}) /\ Cardinality(Tickets(e) \cup {p}) <= Cardinality(Tickets(e)) + 1
  <2>1. /\ IsFiniteSet(Tickets(e) \cup {p})
        /\ Cardinality(Tickets(e) \cup {p}) = IF p \in Tickets(e) THEN Cardinality(Tickets(e)) ELSE Cardinality(Tickets(e)) + 1
    BY <1>1, FS_AddElement
  <2> QED
    BY <1>1, <2>1
<1>3. IsFiniteSet(Tickets(e)') /\ Cardinality(Tickets(e)') <= Cardinality(Tickets(e) \cup {p})
  BY <1>2, FS_Subset
<1>4. IsFiniteSet(Waiting(e)') /\ Cardinality(Waiting(e)') <= Cardinality(Waiting(e))
  BY <1>1, FS_Subset
<1>5. Cardinality(Tickets(e)') \in Nat /\ Cardinality(Waiting(e)') \in Nat /\ Cardinality(Tickets(e) \cup {p}) \in Nat
  BY <1>2, <1>3, <1>4, FS_CardinalityType
<1>6. posts'[e] \in Nat /\ faults' \in Nat /\ requeues' \in Nat
  BY DEF HookInv, HookTypeOK, QueueInv, QueueTypeOK
<1> QED
  BY <1>2, <1>3, <1>4, <1>5, <1>6, Amounts DEF Affordable

LEMMA OneWaits ==
    ASSUME HookInv, HookInv', BudgetInv, NEW e \in EventId, NEW b, Tickets(e)' \subseteq Tickets(e), Waiting(e)' \subseteq Waiting(e) \cup {b},
           posts'[e] = posts[e], faults' + requeues' = faults + requeues + 1
    PROVE  Affordable(e)'
<1>1. IsFiniteSet(Tickets(e)) /\ IsFiniteSet(Waiting(e)) /\ Cardinality(Waiting(e)) \in Nat
  BY Amounts
<1>2. IsFiniteSet(Waiting(e) \cup {b}) /\ Cardinality(Waiting(e) \cup {b}) <= Cardinality(Waiting(e)) + 1
  <2>1. /\ IsFiniteSet(Waiting(e) \cup {b})
        /\ Cardinality(Waiting(e) \cup {b}) = IF b \in Waiting(e) THEN Cardinality(Waiting(e)) ELSE Cardinality(Waiting(e)) + 1
    BY <1>1, FS_AddElement
  <2> QED
    BY <1>1, <2>1
<1>3. IsFiniteSet(Waiting(e)') /\ Cardinality(Waiting(e)') <= Cardinality(Waiting(e) \cup {b})
  BY <1>2, FS_Subset
<1>4. IsFiniteSet(Tickets(e)') /\ Cardinality(Tickets(e)') <= Cardinality(Tickets(e))
  BY <1>1, FS_Subset
<1>5. Cardinality(Tickets(e)') \in Nat /\ Cardinality(Waiting(e)') \in Nat /\ Cardinality(Waiting(e) \cup {b}) \in Nat
  BY <1>2, <1>3, <1>4, FS_CardinalityType
<1>6. posts'[e] \in Nat /\ faults' \in Nat /\ requeues' \in Nat
  BY DEF HookInv, HookTypeOK, QueueInv, QueueTypeOK
<1> QED
  BY <1>2, <1>3, <1>4, <1>5, <1>6, Amounts DEF Affordable

LEMMA TicketUsed ==
    ASSUME HookInv, HookInv', BudgetInv, NEW e \in EventId, NEW p \in Tickets(e), Tickets(e)' \subseteq Tickets(e) \ {p},
           Waiting(e)' \subseteq Waiting(e), posts'[e] = posts[e] + 1, faults' = faults, requeues' = requeues
    PROVE  Affordable(e)'
<1>1. IsFiniteSet(Tickets(e)) /\ IsFiniteSet(Waiting(e))
  BY Amounts
<1>2. IsFiniteSet(Tickets(e) \ {p}) /\ Cardinality(Tickets(e) \ {p}) = Cardinality(Tickets(e)) - 1
  BY <1>1, FS_RemoveElement
<1>3. IsFiniteSet(Tickets(e)') /\ Cardinality(Tickets(e)') <= Cardinality(Tickets(e) \ {p})
  BY <1>2, FS_Subset
<1>4. IsFiniteSet(Waiting(e)') /\ Cardinality(Waiting(e)') <= Cardinality(Waiting(e))
  BY <1>1, FS_Subset
<1>5. Cardinality(Tickets(e)') \in Nat /\ Cardinality(Waiting(e)') \in Nat
  BY <1>3, <1>4, FS_CardinalityType
<1> QED
  BY <1>2, <1>3, <1>4, <1>5, Amounts DEF Affordable

\* The pairs of one worker are as many as its jobs.
LEMMA Pairs ==
    ASSUME NEW w, NEW B, B \subseteq JobId
    PROVE  /\ IsFiniteSet(B) /\ IsFiniteSet({w} \X B) /\ Cardinality({w} \X B) = Cardinality(B) /\ Cardinality(B) \in Nat
<1>1. IsFiniteSet(B) /\ Cardinality(B) \in Nat
  BY JobsAreFew
<1>2. IsFiniteSet({w}) /\ Cardinality({w}) = 1
  BY FS_Singleton
<1>3. IsFiniteSet({w} \X B) /\ Cardinality({w} \X B) = Cardinality({w}) * Cardinality(B)
  BY <1>1, <1>2, FS_Product
<1>4. Cardinality({w}) * Cardinality(B) = Cardinality(B)
  BY <1>1, <1>2
<1> QED
  BY <1>1, <1>3, <1>4

\* A worker takes jobs that waited.
LEMMA JobsTaken ==
    ASSUME HookInv, HookInv', BudgetInv, NEW e \in EventId, NEW w, NEW B, B \subseteq Waiting(e),
           Tickets(e)' \subseteq Tickets(e) \cup ({w} \X B), Waiting(e)' \subseteq Waiting(e) \ B,
           posts' = posts, faults' = faults, requeues' = requeues
    PROVE  Affordable(e)'
<1>1. IsFiniteSet(Tickets(e)) /\ IsFiniteSet(Waiting(e)) /\ B \subseteq JobId
  BY Amounts DEF Waiting
<1>2. IsFiniteSet({w} \X B) /\ Cardinality({w} \X B) = Cardinality(B) /\ Cardinality(B) \in Nat
  BY <1>1, Pairs
<1> DEFINE more == Tickets(e) \cup ({w} \X B)
           both == Tickets(e) \cap ({w} \X B)
           fewer == Waiting(e) \ B
<1>3. IsFiniteSet(more) /\ Cardinality(more) = Cardinality(Tickets(e)) + Cardinality({w} \X B) - Cardinality(both)
  BY <1>1, <1>2, FS_Union
<1>4. IsFiniteSet(both)
  BY <1>1, FS_Intersection
<1>5. Cardinality(both) \in Nat
  BY <1>4, FS_CardinalityType
<1>6. IsFiniteSet(fewer) /\ Cardinality(fewer) = Cardinality(Waiting(e)) - Cardinality(Waiting(e) \cap B)
  BY <1>1, FS_Difference
<1>7. Waiting(e) \cap B = B
  OBVIOUS
<1>8. Tickets(e)' \subseteq more /\ Waiting(e)' \subseteq fewer
  OBVIOUS
<1> HIDE DEF more, both, fewer
<1>9. IsFiniteSet(Tickets(e)') /\ Cardinality(Tickets(e)') <= Cardinality(more)
  BY <1>3, <1>8, FS_Subset
<1>10. IsFiniteSet(Waiting(e)') /\ Cardinality(Waiting(e)') <= Cardinality(fewer)
  BY <1>6, <1>8, FS_Subset
<1>11. /\ Cardinality(Tickets(e)') \in Nat /\ Cardinality(Waiting(e)') \in Nat
       /\ Cardinality(more) \in Nat /\ Cardinality(fewer) \in Nat
  BY <1>3, <1>6, <1>9, <1>10, FS_CardinalityType
<1>12. Cardinality(Tickets(e)') + Cardinality(Waiting(e)') <= Cardinality(Tickets(e)) + Cardinality(Waiting(e))
  <2>1. Cardinality(Tickets(e)) \in Nat /\ Cardinality(Waiting(e)) \in Nat
    BY Amounts
  <2>2. Cardinality(more) <= Cardinality(Tickets(e)) + Cardinality(B)
    BY <1>2, <1>3, <1>5, <2>1
  <2>3. Cardinality(fewer) = Cardinality(Waiting(e)) - Cardinality(B)
    BY <1>6, <1>7
  <2> QED
    BY <1>2, <1>9, <1>10, <1>11, <2>1, <2>2, <2>3
<1> QED
  BY <1>9, <1>11, <1>12, Amounts DEF Affordable

\* A worker gives its jobs back; at worst one more waits than it could post.
LEMMA JobsGivenBack ==
    ASSUME HookInv, HookInv', BudgetInv, NEW e \in EventId, NEW w, NEW B, B \subseteq JobId, NEW S, {w} \X B \subseteq Tickets(e),
           Tickets(e)' \subseteq Tickets(e) \ ({w} \X B), Waiting(e)' \subseteq S, IsFiniteSet(S),
           Cardinality(S) <= Cardinality(Waiting(e) \cup B) + faults' - faults,
           posts' = posts, faults' \in Nat, faults' >= faults, requeues' = requeues
    PROVE  Affordable(e)'
<1>1. IsFiniteSet(Tickets(e)) /\ IsFiniteSet(Waiting(e)) /\ IsFiniteSet(B)
  BY Amounts, JobsAreFew
<1>2. Cardinality({w} \X B) = Cardinality(B) /\ Cardinality(B) \in Nat
  BY Pairs
<1> DEFINE fewer == Tickets(e) \ ({w} \X B)
           more == Waiting(e) \cup B
           both == Waiting(e) \cap B
<1>3. IsFiniteSet(fewer) /\ Cardinality(fewer) = Cardinality(Tickets(e)) - Cardinality(Tickets(e) \cap ({w} \X B))
  BY <1>1, FS_Difference
<1>4. Tickets(e) \cap ({w} \X B) = {w} \X B
  OBVIOUS
<1>5. IsFiniteSet(more) /\ Cardinality(more) = Cardinality(Waiting(e)) + Cardinality(B) - Cardinality(both)
  BY <1>1, FS_Union
<1>6. IsFiniteSet(both)
  BY <1>1, FS_Intersection
<1>7. Cardinality(both) \in Nat
  BY <1>6, FS_CardinalityType
<1>8. Tickets(e)' \subseteq fewer /\ Cardinality(S) <= Cardinality(more) + faults' - faults
  OBVIOUS
<1> HIDE DEF fewer, more, both
<1>9. IsFiniteSet(Tickets(e)') /\ Cardinality(Tickets(e)') <= Cardinality(fewer)
  BY <1>3, <1>8, FS_Subset
<1>10. IsFiniteSet(Waiting(e)') /\ Cardinality(Waiting(e)') <= Cardinality(S)
  BY FS_Subset
<1>11. /\ Cardinality(Tickets(e)') \in Nat /\ Cardinality(Waiting(e)') \in Nat /\ Cardinality(S) \in Nat
       /\ Cardinality(fewer) \in Nat /\ Cardinality(more) \in Nat
  BY <1>3, <1>5, <1>9, <1>10, FS_CardinalityType
<1>12. Cardinality(Tickets(e)') + Cardinality(Waiting(e)') <= Cardinality(Tickets(e)) + Cardinality(Waiting(e)) + faults' - faults
  <2>1. Cardinality(Tickets(e)) \in Nat /\ Cardinality(Waiting(e)) \in Nat /\ faults \in Nat
    BY Amounts
  <2>2. Cardinality(fewer) = Cardinality(Tickets(e)) - Cardinality(B)
    BY <1>2, <1>3, <1>4
  <2>3. Cardinality(more) <= Cardinality(Waiting(e)) + Cardinality(B)
    BY <1>2, <1>5, <1>7, <2>1
  <2> QED
    BY <1>2, <1>8, <1>9, <1>10, <1>11, <2>1, <2>2, <2>3
<1> QED
  BY <1>9, <1>11, <1>12, Amounts DEF Affordable

-----------------------------------------------------------------------------
(* One worker goes on with the batch it has.                               *)

Gained(p, w, v, e, alive) ==
    /\ p = <<w, p[2]>> /\ p[2] \in JobId /\ boss[p[2]].event = e
    /\ MayPost(v, p[2], endpoint.exists, alive) /\ ~MayPost(worker[w], p[2], endpoint.exists, Alive(e))

LEMMA OneGoesOn ==
    ASSUME HookInv, NEW w \in Workers, NEW v, worker' = [worker EXCEPT ![w] = v],
           v.batch = worker[w].batch, boss' = boss, endpoint' = endpoint, NEW e \in EventId, attempts[e] \subseteq attempts'[e]
    PROVE  /\ Alive(e)' => Alive(e)
           /\ Waiting(e)' \subseteq Waiting(e)
           /\ \A p \in Tickets(e)' : p \in Tickets(e) \/ Gained(p, w, v, e, Alive(e)')
<1>0. QueueInv
  BY DEF HookInv
<1>1. \A u \in Workers : worker'[u] = IF u = w THEN v ELSE worker[u]
  BY <1>0, WorkersAfter
<1>2. Alive(e)' => Alive(e)
  BY DEF Alive
<1>3. \A b \in JobId : Held(b)' <=> Held(b)
  BY <1>1 DEF Held
<1>4. Waiting(e)' \subseteq Waiting(e)
  BY <1>2, <1>3 DEF Waiting, Waits
<1>5. ASSUME NEW p \in Tickets(e)', p \notin Tickets(e)
      PROVE  Gained(p, w, v, e, Alive(e)')
  <2>1. PICK u \in Workers, b \in JobId : p = <<u, b>>
    BY <1>5 DEF Tickets
  <2>2. boss[b].event = e /\ MayPost(worker'[u], b, endpoint.exists, Alive(e)')
    BY <1>5, <2>1 DEF Tickets
  <2>3. ~MayPost(worker[u], b, endpoint.exists, Alive(e))
    BY <1>5, <2>1, <2>2 DEF Tickets
  <2>4. u = w
    <3>1. u # w => MayPost(worker[u], b, endpoint.exists, Alive(e)')
      BY <1>1, <2>2
    <3> QED
      BY <1>2, <2>3, <3>1 DEF MayPost, May
  <2>5. MayPost(v, b, endpoint.exists, Alive(e)')
    BY <1>1, <2>2, <2>4
  <2> QED
    BY <2>1, <2>2, <2>3, <2>4, <2>5 DEF Gained
<1> QED
  BY <1>2, <1>4, <1>5

\* It may post no more than before.
LEMMA GoesOnQuietly ==
    ASSUME HookInv, HookInv', BudgetInv, NEW w \in Workers, NEW v, worker' = [worker EXCEPT ![w] = v],
           v.batch = worker[w].batch, boss' = boss, endpoint' = endpoint, sent' = sent, requeues' = requeues,
           \A e \in EventId : attempts[e] \subseteq attempts'[e] /\ posts'[e] + faults <= posts[e] + faults',
           \A e \in EventId : e > sent => posts'[e] = 0,
           \A e \in EventId, b \in JobId :
               boss[b].event = e /\ MayPost(v, b, endpoint.exists, Alive(e)') => MayPost(worker[w], b, endpoint.exists, Alive(e))
    PROVE  BudgetInv'
<1>1. ASSUME NEW e \in EventId PROVE Affordable(e)'
  <2>1. Tickets(e)' \subseteq Tickets(e) /\ Waiting(e)' \subseteq Waiting(e)
    <3>1. attempts[e] \subseteq attempts'[e]
      OBVIOUS
    <3>2. Waiting(e)' \subseteq Waiting(e) /\ \A p \in Tickets(e)' : p \in Tickets(e) \/ Gained(p, w, v, e, Alive(e)')
      BY <3>1, OneGoesOn
    <3>3. \A p : ~Gained(p, w, v, e, Alive(e)')
      BY DEF Gained
    <3> QED
      BY <3>2, <3>3
  <2>2. posts'[e] + faults + requeues <= posts[e] + faults' + requeues'
    <3>1. posts[e] \in Nat /\ posts'[e] \in Nat /\ faults \in Nat /\ faults' \in Nat /\ requeues \in Nat
      BY DEF HookInv, HookTypeOK, QueueInv, QueueTypeOK
    <3>2. posts'[e] + faults <= posts[e] + faults' /\ requeues' = requeues
      OBVIOUS
    <3> QED
      BY <3>1, <3>2
  <2> QED
    BY <2>1, <2>2, NothingGained
<1> QED
  BY <1>1 DEF BudgetInv

\* The step of the job in hand decides.
LEMMA HandlerBudget ==
    ASSUME HookInv, HookInv', BudgetInv, NEW w \in Workers, NEW from \in Busy, NEW to \in Busy, Handler(w, from, to),
           endpoint' = endpoint, sent' = sent,
           \A e \in EventId : attempts[e] \subseteq attempts'[e] /\ posts'[e] + faults <= posts[e] + faults',
           \A e \in EventId : e > sent => posts'[e] = 0,
           \/ ~May(to, endpoint.exists, endpoint.exists /\ TRUE \notin attempts'[EventOf(w)])
           \/ May(from, endpoint.exists, Alive(EventOf(w)))
    PROVE  BudgetInv'
<1> DEFINE v == [worker[w] EXCEPT !.at = to]
<1>1. worker[w].at = from /\ Moved(w, to) /\ boss' = boss /\ requeues' = requeues
  BY DEF Handler, At
<1>2. worker' = [worker EXCEPT ![w] = v] /\ v.at = to /\ v.batch = worker[w].batch /\ v.todo = worker[w].todo
  BY <1>1, MovedTo DEF HookInv
<1> HIDE DEF v
<1>3. EventOf(w) = boss[First(worker[w].todo)].event
  BY DEF EventOf, Current, First
<1>5. ASSUME NEW e \in EventId, NEW b \in JobId, boss[b].event = e, MayPost(v, b, endpoint.exists, Alive(e)')
      PROVE  MayPost(worker[w], b, endpoint.exists, Alive(e))
  <2>1. Alive(e)' => Alive(e)
    BY DEF Alive
  <2>2. CASE b # First(worker[w].todo)
    BY <1>2, <1>5, <2>1, <2>2 DEF MayPost
  <2>3. CASE b = First(worker[w].todo)
    <3>1. e = EventOf(w)
      BY <1>3, <1>5, <2>3
    <3>2. May(to, endpoint.exists, Alive(e)')
      BY <1>2, <1>5, <2>3 DEF MayPost
    <3>3. Alive(e)' = (endpoint'.exists /\ TRUE \notin attempts'[e])
      BY DEF Alive
    <3>4. May(from, endpoint.exists, Alive(e))
      BY <3>1, <3>2, <3>3
    <3> QED
      BY <1>1, <1>2, <1>5, <2>3, <3>4 DEF MayPost
  <2> QED
    BY <2>2, <2>3
<1> QED
  BY <1>1, <1>2, <1>5, GoesOnQuietly

LEMMA HandlerBusy ==
    ASSUME HookInv, BudgetInv, NEW w \in Workers, NEW from \in Busy, NEW to, Handler(w, from, to)
    PROVE  EventOf(w) \in EventId /\ EventOf(w) <= sent /\ faults \in Nat /\ \A e \in EventId : posts[e] \in Nat
<1>1. worker[w].at \in Busy
  BY DEF Handler, At
<1>2. EventOf(w) \in EventId /\ Current(w) \in JobId /\ EventOf(w) = boss[Current(w)].event
  BY <1>1, InHand DEF HookInv, EventOf
<1> QED
  BY <1>2 DEF BudgetInv, HookInv, HookTypeOK, QueueInv, QueueTypeOK

\* An answer that is not recorded lets the worker's job be posted again: the
\* statement that failed pays for it.
LEMMA FailsPaid ==
    ASSUME HookInv, HookInv', BudgetInv, NEW w \in Workers, HandlerFails(w)
    PROVE  BudgetInv'
<1>1. PICK from \in {"handle", "load", "arrived", "refused", "blocked"} : Handler(w, from, "fail")
  BY DEF HandlerFails
<1>2. UNCHANGED <<endpoint, sent, posts, attempts>> /\ faults' = faults + 1 /\ requeues' = requeues
  BY <1>1 DEF HandlerFails, hookVars, Handler
<1>3. EventOf(w) \in EventId /\ faults \in Nat /\ \A e \in EventId : posts[e] \in Nat
  BY <1>1, HandlerBusy DEF Busy
<1>4. CASE from # "arrived"
  <2>1. \/ ~May("fail", endpoint.exists, endpoint.exists /\ TRUE \notin attempts'[EventOf(w)])
        \/ May(from, endpoint.exists, Alive(EventOf(w)))
    BY <1>1, <1>2, <1>4 DEF May, Committed, Alive
  <2>2. \A e \in EventId : attempts[e] \subseteq attempts'[e] /\ posts'[e] + faults <= posts[e] + faults'
    BY <1>2, <1>3
  <2>3. \A e \in EventId : e > sent => posts'[e] = 0
    BY <1>2 DEF BudgetInv
  <2> QED
    BY <1>1, <1>2, <2>1, <2>2, <2>3, HandlerBudget DEF Busy
<1>5. CASE from = "arrived"
  <2> DEFINE v == [worker[w] EXCEPT !.at = "fail"]
             f == First(worker[w].todo)
  <2>1. worker[w].at = "arrived" /\ Moved(w, "fail") /\ boss' = boss
    BY <1>1, <1>5 DEF Handler, At
  <2>2. worker' = [worker EXCEPT ![w] = v] /\ v.at = "fail" /\ v.batch = worker[w].batch /\ v.todo = worker[w].todo
    BY <2>1, MovedTo DEF HookInv, Busy
  <2> HIDE DEF v
  <2>3. ASSUME NEW e \in EventId PROVE Affordable(e)'
    <3>1. /\ Waiting(e)' \subseteq Waiting(e) /\ (Alive(e)' => Alive(e))
          /\ \A p \in Tickets(e)' : p \in Tickets(e) \/ Gained(p, w, v, e, Alive(e)')
      <4>1. attempts[e] \subseteq attempts'[e] /\ endpoint' = endpoint
        BY <1>2
      <4> QED
        BY <2>1, <2>2, <4>1, OneGoesOn
    <3>2. Tickets(e)' \subseteq Tickets(e) \cup {<<w, f>>}
      <4>1. ASSUME NEW p \in Tickets(e)', p \notin Tickets(e) PROVE p = <<w, f>>
        <5>1. /\ p = <<w, p[2]>> /\ MayPost(v, p[2], endpoint.exists, Alive(e)')
              /\ ~MayPost(worker[w], p[2], endpoint.exists, Alive(e))
          BY <3>1, <4>1 DEF Gained
        <5>2. p[2] = f
          BY <2>2, <3>1, <5>1 DEF MayPost
        <5> QED
          BY <5>1, <5>2
      <4> QED
        BY <4>1
    <3>3. posts'[e] = posts[e] /\ faults' + requeues' = faults + requeues + 1
      BY <1>2 DEF HookInv, QueueInv, QueueTypeOK
    <3> QED
      BY <3>1, <3>2, <3>3, OneTicketGained
  <2> QED
    BY <1>2, <2>1, <2>3 DEF BudgetInv
<1> QED
  BY <1>4, <1>5

-----------------------------------------------------------------------------
LEMMA LoadBudget ==
    ASSUME HookInv, HookInv', BudgetInv, NEW w \in Workers, ReplayGuard(w) \/ LoadEndpoint(w)
    PROVE  BudgetInv'
<1>1. UNCHANGED <<endpoint, sent, posts, attempts, faults>>
  BY DEF ReplayGuard, LoadEndpoint, hookVars
<1>2. \A e \in EventId : attempts[e] \subseteq attempts'[e] /\ posts'[e] + faults <= posts[e] + faults'
  BY <1>1 DEF HookInv, HookTypeOK, QueueInv, QueueTypeOK
<1>3. \A e \in EventId : e > sent => posts'[e] = 0
  BY <1>1 DEF BudgetInv
<1>4. PICK from \in {"handle", "load"}, to \in {"load", "post", "blocked", "complete"} :
        /\ Handler(w, from, to)
        /\ from = "handle" => to = IF AlreadyDelivered(EventOf(w)) THEN "complete" ELSE "load"
        /\ from = "load" => to \in {"blocked", "complete"} \/ (to = "post" /\ Usable)
  BY DEF ReplayGuard, LoadEndpoint
<1>5. \/ ~May(to, endpoint.exists, endpoint.exists /\ TRUE \notin attempts'[EventOf(w)])
      \/ May(from, endpoint.exists, Alive(EventOf(w)))
  BY <1>1, <1>4 DEF May, Committed, Alive, AlreadyDelivered, Usable
<1> QED
  BY <1>1, <1>2, <1>3, <1>4, <1>5, HandlerBudget DEF Busy

LEMMA RecordBudget ==
    ASSUME HookInv, HookInv', BudgetInv, NEW w \in Workers, RecordAttempt(w) \/ RecordBlocked(w)
    PROVE  BudgetInv'
<1>1. UNCHANGED <<endpoint, sent, posts, faults>>
  BY DEF RecordAttempt, RecordBlocked
<1>2. PICK from \in {"arrived", "refused", "blocked"}, to \in {"complete", "fail"}, ok \in BOOLEAN :
        /\ Handler(w, from, to) /\ Recorded(w, ok)
        /\ from = "arrived" => ok
  BY DEF RecordAttempt, RecordBlocked, Outcome
<1>3. EventOf(w) \in EventId
  BY <1>2, HandlerBusy DEF Busy
<1>4. \A e \in EventId : attempts[e] \subseteq attempts'[e]
  BY <1>2, <1>3 DEF Recorded, HookInv, HookTypeOK
<1>5. \A e \in EventId : attempts[e] \subseteq attempts'[e] /\ posts'[e] + faults <= posts[e] + faults'
  BY <1>1, <1>4 DEF HookInv, HookTypeOK, QueueInv, QueueTypeOK
<1>6. \A e \in EventId : e > sent => posts'[e] = 0
  BY <1>1 DEF BudgetInv
<1>7. ok /\ endpoint.exists => TRUE \in attempts'[EventOf(w)]
  BY <1>2, <1>3 DEF Recorded, HookInv, HookTypeOK
<1>8. \/ ~May(to, endpoint.exists, endpoint.exists /\ TRUE \notin attempts'[EventOf(w)])
      \/ May(from, endpoint.exists, Alive(EventOf(w)))
  BY <1>2, <1>3, <1>4, <1>7 DEF May, Committed, Alive
<1> QED
  BY <1>1, <1>2, <1>5, <1>6, <1>8, HandlerBudget DEF Busy

\* The one step that delivers: the worker could post this job, and no more.
LEMMA PostBudget ==
    ASSUME HookInv, HookInv', BudgetInv, NEW w \in Workers, Post(w)
    PROVE  BudgetInv'
<1>1. PICK arrives \in BOOLEAN, ok \in BOOLEAN :
        /\ ok => arrives
        /\ faults' = IF arrives /\ ~ok THEN faults + 1 ELSE faults
        /\ Handler(w, "post", IF ok THEN "arrived" ELSE "refused")
        /\ posts' = IF arrives THEN [posts EXCEPT ![EventOf(w)] = @ + 1] ELSE posts
  BY DEF Post
<1>2. UNCHANGED <<endpoint, sent, attempts>>
  BY DEF Post
<1>3. EventOf(w) \in EventId /\ EventOf(w) <= sent /\ faults \in Nat /\ \A e \in EventId : posts[e] \in Nat
  BY <1>1, HandlerBusy DEF Busy
<1>4. \A e \in EventId : posts'[e] = IF arrives /\ e = EventOf(w) THEN posts[e] + 1 ELSE posts[e]
  BY <1>1, <1>3 DEF HookInv, HookTypeOK
<1>5. \A e \in EventId : e > sent => posts'[e] = 0
  <2>1. ASSUME NEW e \in EventId, e > sent PROVE e # EventOf(w) /\ posts[e] = 0
    <3>1. posts[e] = 0
      BY <2>1 DEF BudgetInv
    <3>2. sent \in Int /\ e \in Int /\ EventOf(w) \in Int
      BY <1>3 DEF EventId, HookInv, HookTypeOK
    <3> QED
      BY <1>3, <2>1, <3>1, <3>2
  <2> QED
    BY <1>4, <2>1
<1>6. CASE ~ok
  <2>1. \A e \in EventId : attempts[e] \subseteq attempts'[e] /\ posts'[e] + faults <= posts[e] + faults'
    BY <1>1, <1>2, <1>3, <1>4, <1>6
  <2>2. May("post", endpoint.exists, Alive(EventOf(w)))
    BY DEF May
  <2> QED
    BY <1>1, <1>2, <1>5, <1>6, <2>1, <2>2, HandlerBudget DEF Busy
<1>7. CASE ok
  <2> DEFINE v == [worker[w] EXCEPT !.at = "arrived"]
             f == First(worker[w].todo)
  <2>1. worker[w].at = "post" /\ Moved(w, "arrived") /\ boss' = boss /\ requeues' = requeues /\ faults' = faults
    BY <1>1, <1>7 DEF Handler, At
  <2>2. /\ worker' = [worker EXCEPT ![w] = v] /\ v.at = "arrived" /\ v.batch = worker[w].batch /\ v.todo = worker[w].todo
        /\ GoodWorker(worker[w], boss, Settled)
    BY <2>1, MovedTo DEF HookInv, Busy
  <2>3. f \in worker[w].todo /\ f \in worker[w].batch /\ f \in JobId /\ boss[f].event = EventOf(w)
    <3>1. Current(w) \in worker[w].todo /\ Current(w) \in JobId
      BY <2>1, InHand DEF HookInv, Busy
    <3> QED
      BY <2>2, <3>1 DEF GoodWorker, EventOf, Current, First
  <2> HIDE DEF v
  <2>4. ASSUME NEW e \in EventId PROVE Affordable(e)'
    <3>1. /\ Waiting(e)' \subseteq Waiting(e) /\ (Alive(e)' => Alive(e))
          /\ \A p \in Tickets(e)' : p \in Tickets(e) \/ Gained(p, w, v, e, Alive(e)')
      <4>1. attempts[e] \subseteq attempts'[e] /\ endpoint' = endpoint
        BY <1>2
      <4> QED
        BY <2>1, <2>2, <4>1, OneGoesOn DEF HookInv
    <3>2. Tickets(e)' \subseteq Tickets(e)
      <4>1. \A p : ~Gained(p, w, v, e, Alive(e)')
        BY <2>1, <2>2, <3>1 DEF Gained, MayPost, May, Committed
      <4> QED
        BY <3>1, <4>1
    <3>3. CASE e = EventOf(w)
      <4>1. <<w, f>> \in Tickets(e)
        BY <2>1, <2>3, <3>3 DEF Tickets, MayPost, May
      <4>2. <<w, f>> \notin Tickets(e)'
        <5>1. worker'[w] = v
          BY <2>2 DEF HookInv, QueueInv, QueueTypeOK
        <5>2. ~MayPost(worker'[w], f, endpoint'.exists, Alive(e)')
          BY <2>2, <5>1 DEF MayPost, May, Committed
        <5> QED
          BY <5>2 DEF Tickets
      <4>3. Tickets(e)' \subseteq Tickets(e) \ {<<w, f>>}
        BY <3>2, <4>2
      <4>4. posts'[e] = posts[e] + 1
        BY <1>1, <1>4, <1>7, <3>3
      <4> QED
        BY <2>1, <3>1, <4>1, <4>3, <4>4, TicketUsed
    <3>4. CASE e # EventOf(w)
      <4>1. posts'[e] + faults + requeues <= posts[e] + faults' + requeues'
        BY <1>3, <1>4, <2>1, <3>4 DEF HookInv, QueueInv, QueueTypeOK
      <4> QED
        BY <3>1, <3>2, <4>1, NothingGained
    <3> QED
      BY <3>3, <3>4
  <2> QED
    BY <1>2, <1>5, <2>1, <2>4 DEF BudgetInv
<1> QED
  BY <1>6, <1>7

LEMMA DeliverBudget ==
    ASSUME HookInv, HookInv', BudgetInv, NEW w \in Workers, Deliver(w)
    PROVE  BudgetInv'
  BY LoadBudget, RecordBudget, PostBudget, FailsPaid DEF Deliver

-----------------------------------------------------------------------------
(* The queue's steps.                                                      *)

LEMMA WorkerOf ==
    ASSUME HookInv, NEW w \in Workers
    PROVE  /\ worker \in [Workers -> AWorker] /\ worker[w] \in AWorker /\ worker[w].batch \in SUBSET JobId
           /\ worker[w].todo \subseteq worker[w].batch /\ (worker[w].at \in {"idle", "down"} => worker[w].batch = {})
           /\ \A b \in worker[w].batch : boss[b].state # "none"
  BY DEF HookInv, QueueInv, QueueTypeOK, AWorker, GoodWorker

\* A worker that was past no look, and still is not.
LEMMA TrackingQuiet ==
    ASSUME HookInv, HookInv', BudgetInv, NEW w \in Workers, \A u \in Workers : u # w => worker'[u] = worker[u],
           worker'[w].batch = worker[w].batch, worker[w].at \notin Committed, worker'[w].at \notin Committed,
           boss' = boss, UNCHANGED hookVars, requeues' = requeues, faults' >= faults
    PROVE  BudgetInv'
<1> DEFINE v == worker'[w]
<1>1. worker' = [worker EXCEPT ![w] = v]
  <2>1. worker \in [Workers -> AWorker] /\ worker' \in [Workers -> AWorker]
    BY DEF HookInv, QueueInv, QueueTypeOK
  <2> QED
    BY <2>1
<1>2. v.batch = worker[w].batch /\ v.at \notin Committed
  OBVIOUS
<1> HIDE DEF v
<1>3. endpoint' = endpoint /\ sent' = sent /\ posts' = posts /\ attempts' = attempts
  BY DEF hookVars
<1>4. \A e \in EventId : attempts[e] \subseteq attempts'[e] /\ posts'[e] + faults <= posts[e] + faults'
  <2>1. \A e \in EventId : posts[e] \in Nat
    BY DEF HookInv, HookTypeOK
  <2>2. faults \in Nat /\ faults' \in Nat
    BY DEF HookInv, QueueInv, QueueTypeOK
  <2> QED
    BY <1>3, <2>1, <2>2
<1>5. \A e \in EventId : e > sent => posts'[e] = 0
  BY <1>3 DEF BudgetInv
<1>6. \A e \in EventId : Alive(e)' = Alive(e)
  BY <1>3 DEF Alive
<1>7. \A e \in EventId, b \in JobId :
        boss[b].event = e /\ MayPost(v, b, endpoint.exists, Alive(e)') => MayPost(worker[w], b, endpoint.exists, Alive(e))
  BY <1>2, <1>6 DEF MayPost, May, Committed
<1> QED
  BY <1>1, <1>2, <1>3, <1>4, <1>5, <1>7, GoesOnQuietly

LEMMA BatchBudget ==
    ASSUME HookInv, HookInv', BudgetInv, NEW w \in Workers, UNCHANGED hookVars,
           ClaimJob(w) \/ CompleteJob(w) \/ ReadAttempts(w) \/ FailJob(w) \/ StatementFails(w) \/ Restart(w)
    PROVE  BudgetInv'
<1>1. worker \in [Workers -> AWorker] /\ faults \in Nat
  BY DEF HookInv, QueueInv, QueueTypeOK
<1>2. boss' = boss /\ requeues' = requeues /\ faults' >= faults
  <2>1. boss' = boss /\ requeues' = requeues /\ (faults' = faults \/ faults' = faults + 1)
    BY DEF ClaimJob, CompleteJob, ReadAttempts, FailJob, StatementFails, Restart
  <2> QED
    BY <1>1, <2>1
<1>3. worker[w].at \in {"claim", "complete", "fail", "bury", "mark", "down"}
  BY DEF ClaimJob, CompleteJob, ReadAttempts, FailJob, StatementFails, Restart, At
<1>4. CASE \E step \in {"handle", "fail", "bury", "mark", "throw", "idle"} : Moved(w, step)
  BY <1>1, <1>2, <1>3, <1>4, TrackingQuiet DEF Moved, AWorker, Committed
<1>5. CASE CompleteJob(w) /\ Tracked(w)
  <2> DEFINE left == worker[w].todo \ {Current(w)}
             next == IF left = {} THEN "done" ELSE "claim"
  <2>1. worker' = [worker EXCEPT ![w].todo = left, ![w].at = next] /\ next \in {"done", "claim"}
    BY <1>5 DEF CompleteJob
  <2> HIDE DEF left, next
  <2>2. /\ \A u \in Workers : u # w => worker'[u] = worker[u]
        /\ worker'[w].batch = worker[w].batch /\ worker'[w].at = next
    BY <1>1, <2>1 DEF AWorker
  <2> QED
    BY <1>2, <1>3, <2>1, <2>2, TrackingQuiet DEF Committed
<1> QED
  BY <1>4, <1>5 DEF ClaimJob, CompleteJob, ReadAttempts, FailJob, StatementFails, Restart

LEMMA FetchBudget ==
    ASSUME HookInv, HookInv', BudgetInv, NEW w \in Workers, UNCHANGED hookVars, Fetch(w)
    PROVE  BudgetInv'
<1>1. endpoint' = endpoint /\ sent' = sent /\ posts' = posts /\ attempts' = attempts /\ faults' = faults /\ requeues' = requeues
  BY DEF hookVars, Fetch
<1>2. PICK batch \in SUBSET {b \in JobId : boss[b].state = "created"} :
        /\ boss' = [b \in JobId |-> IF b \in batch THEN [boss[b] EXCEPT !.state = "active", !.tries = @ + 1] ELSE boss[b]]
        /\ worker' = [worker EXCEPT ![w] = [at |-> "claim", batch |-> batch, todo |-> batch]]
  BY DEF Fetch
<1>3. worker[w].batch = {} /\ worker \in [Workers -> AWorker]
  BY WorkerOf DEF Fetch, At
<1>4. \A u \in Workers : worker'[u] = IF u = w THEN [at |-> "claim", batch |-> batch, todo |-> batch] ELSE worker[u]
  BY <1>2, <1>3
<1>5. \A b \in JobId : /\ boss'[b].event = boss[b].event
                       /\ b \in batch => boss'[b].state = "active"
                       /\ b \notin batch => boss'[b] = boss[b]
  BY <1>2 DEF HookInv, QueueInv, QueueTypeOK, BossJob
<1>6. ASSUME NEW e \in EventId PROVE Affordable(e)'
  <2> DEFINE B == {b \in batch : boss[b].event = e /\ Alive(e)}
  <2>1. Alive(e)' = Alive(e)
    BY <1>1 DEF Alive
  <2>2. B \subseteq Waiting(e)
    BY <1>2 DEF Waiting, Waits
  <2>3. Tickets(e)' \subseteq Tickets(e) \cup ({w} \X B)
    <3>1. ASSUME NEW u \in Workers, NEW b \in JobId, boss'[b].event = e, MayPost(worker'[u], b, endpoint'.exists, Alive(e)')
          PROVE  <<u, b>> \in Tickets(e) \cup ({w} \X B)
      <4>1. CASE u = w
        <5>1. b \in batch /\ Alive(e)
          BY <1>4, <2>1, <3>1, <4>1 DEF MayPost, May, Committed
        <5> QED
          BY <1>5, <3>1, <4>1, <5>1
      <4>2. CASE u # w
        BY <1>1, <1>4, <1>5, <2>1, <3>1, <4>2 DEF Tickets
      <4> QED
        BY <4>1, <4>2
    <3> QED
      BY <3>1 DEF Tickets
  <2>4. Waiting(e)' \subseteq Waiting(e) \ B
    <3>1. ASSUME NEW b \in JobId, Alive(e), boss'[b].event = e, Waits(b)' PROVE b \in Waiting(e) \ B
      <4>1. b \notin batch
        <5>1. b \in batch => Held(b)'
          BY <1>4 DEF Held
        <5> QED
          BY <1>5, <3>1, <5>1 DEF Waits
      <4>2. Held(b) => Held(b)'
        BY <1>3, <1>4 DEF Held
      <4> QED
        BY <1>5, <3>1, <4>1, <4>2 DEF Waiting, Waits
    <3> QED
      BY <2>1, <3>1 DEF Waiting
  <2> HIDE DEF B
  <2> QED
    BY <1>1, <2>2, <2>3, <2>4, JobsTaken
<1>7. \A b \in JobId : boss'[b].event <= sent'
  BY <1>1, <1>5 DEF BudgetInv
<1> QED
  BY <1>1, <1>6, <1>7 DEF BudgetInv

LEMMA EndBudget ==
    ASSUME HookInv, HookInv', BudgetInv, NEW w \in Workers, UNCHANGED hookVars, EndBatch(w)
    PROVE  BudgetInv'
<1>1. endpoint' = endpoint /\ sent' = sent /\ posts' = posts /\ attempts' = attempts /\ faults' = faults /\ requeues' = requeues
  BY DEF hookVars, EndBatch
<1>2. worker[w].at \in {"done", "throw"} /\ worker' = [worker EXCEPT ![w] = Resting]
      /\ boss' = Ended(worker[w].batch, At(w, "done"))
  BY DEF EndBatch, At
<1>3. \A u \in Workers : worker'[u] = IF u = w THEN Resting ELSE worker[u]
  BY <1>2, WorkerOf
<1>4. \A b \in JobId : boss'[b].event = boss[b].event /\ (b \notin worker[w].batch => boss'[b] = boss[b])
  <2>1. \A b \in JobId : boss[b] \in BossJob
    BY DEF HookInv, QueueInv, QueueTypeOK
  <2> QED
    BY <1>2, <2>1 DEF Ended, Retried, BossJob
<1>5. ASSUME NEW e \in EventId PROVE Affordable(e)'
  <2> DEFINE B == {b \in worker[w].batch : boss[b].event = e /\ Alive(e)}
             S == Waiting(e) \cup B
  <2>1. Alive(e)' = Alive(e)
    BY <1>1 DEF Alive
  <2>2. B \subseteq JobId
    BY WorkerOf
  <2>3. {w} \X B \subseteq Tickets(e)
    BY <1>2, <2>2 DEF Tickets, MayPost, May, Committed
  <2>4. Tickets(e)' \subseteq Tickets(e) \ ({w} \X B)
    <3>1. ASSUME NEW u \in Workers, NEW b \in JobId, boss'[b].event = e, MayPost(worker'[u], b, endpoint'.exists, Alive(e)')
          PROVE  <<u, b>> \in Tickets(e) \ ({w} \X B)
      <4>1. u # w
        BY <1>3, <3>1 DEF MayPost, Resting
      <4> QED
        BY <1>1, <1>3, <1>4, <2>1, <3>1, <4>1 DEF Tickets
    <3> QED
      BY <3>1 DEF Tickets
  <2>5. Waiting(e)' \subseteq S
    <3>1. ASSUME NEW b \in JobId, Alive(e), boss'[b].event = e, Waits(b)' PROVE b \in S
      <4>1. CASE b \in worker[w].batch
        BY <1>4, <3>1, <4>1
      <4>2. CASE b \notin worker[w].batch
        <5>1. Held(b) => Held(b)'
          BY <1>3, <4>2 DEF Held
        <5> QED
          BY <1>4, <3>1, <4>2, <5>1 DEF Waiting, Waits
      <4> QED
        BY <4>1, <4>2
    <3> QED
      BY <2>1, <3>1 DEF Waiting
  <2>6. IsFiniteSet(S) /\ Cardinality(S) \in Nat
    BY <2>2, JobsAreFew DEF Waiting
  <2>7. Cardinality(S) <= Cardinality(Waiting(e) \cup B) + faults' - faults /\ faults' \in Nat /\ faults' >= faults
    BY <1>1, <2>6 DEF HookInv, QueueInv, QueueTypeOK
  <2> HIDE DEF B, S
  <2> QED
    BY <1>1, <2>2, <2>3, <2>4, <2>5, <2>6, <2>7, JobsGivenBack
<1>6. \A b \in JobId : boss'[b].event <= sent'
  BY <1>1, <1>4 DEF BudgetInv
<1> QED
  BY <1>1, <1>5, <1>6 DEF BudgetInv

\* The job in hand is the one more that the crash pays for.
LEMMA CrashBudget ==
    ASSUME HookInv, HookInv', BudgetInv, NEW w \in Workers, UNCHANGED hookVars, Crash(w)
    PROVE  BudgetInv'
<1> DEFINE down == [Resting EXCEPT !.at = "down"]
           f == First(worker[w].todo)
<1>1. endpoint' = endpoint /\ sent' = sent /\ posts' = posts /\ attempts' = attempts /\ faults' = faults + 1
      /\ requeues' = requeues /\ boss' = boss /\ worker' = [worker EXCEPT ![w] = down]
  BY DEF hookVars, Crash
<1>2. down.batch = {}
  BY DEF Resting
<1> HIDE DEF down, f
<1>3. \A u \in Workers : worker'[u] = IF u = w THEN down ELSE worker[u]
  BY <1>1, WorkerOf
<1>4. ASSUME NEW e \in EventId PROVE Affordable(e)'
  <2> DEFINE B == {b \in worker[w].batch : boss[b].event = e /\ MayPost(worker[w], b, endpoint.exists, Alive(e))}
             S == (Waiting(e) \cup B) \cup {f}
  <2>1. Alive(e)' = Alive(e)
    BY <1>1 DEF Alive
  <2>2. B \subseteq JobId
    BY WorkerOf
  <2>3. {w} \X B \subseteq Tickets(e)
    BY <2>2 DEF Tickets
  <2>4. Tickets(e)' \subseteq Tickets(e) \ ({w} \X B)
    <3>1. ASSUME NEW u \in Workers, NEW b \in JobId, boss'[b].event = e, MayPost(worker'[u], b, endpoint'.exists, Alive(e)')
          PROVE  <<u, b>> \in Tickets(e) \ ({w} \X B)
      <4>1. u # w
        BY <1>2, <1>3, <3>1 DEF MayPost
      <4> QED
        BY <1>1, <1>3, <2>1, <3>1, <4>1 DEF Tickets
    <3> QED
      BY <3>1 DEF Tickets
  <2>5. Waiting(e)' \subseteq S
    <3>1. ASSUME NEW b \in JobId, Alive(e), boss'[b].event = e, Waits(b)' PROVE b \in S
      <4>1. CASE b \in worker[w].batch
        <5>1. b # f => b \in B
          BY <1>1, <3>1, <4>1 DEF MayPost, f
        <5> QED
          BY <5>1
      <4>2. CASE b \notin worker[w].batch
        <5>1. Held(b) => Held(b)'
          BY <1>3, <4>2 DEF Held
        <5> QED
          BY <1>1, <3>1, <5>1 DEF Waiting, Waits
      <4> QED
        BY <4>1, <4>2
    <3> QED
      BY <2>1, <3>1 DEF Waiting
  <2>6. IsFiniteSet(Waiting(e) \cup B) /\ Cardinality(Waiting(e) \cup B) \in Nat
    BY <2>2, JobsAreFew DEF Waiting
  <2>7. /\ IsFiniteSet(S)
        /\ Cardinality(S) = IF f \in Waiting(e) \cup B THEN Cardinality(Waiting(e) \cup B) ELSE Cardinality(Waiting(e) \cup B) + 1
    BY <2>6, FS_AddElement
  <2> HIDE DEF B, S
  <2>8. Cardinality(S) <= Cardinality(Waiting(e) \cup B) + faults' - faults /\ faults' \in Nat /\ faults' >= faults
    <3>1. faults \in Nat
      BY DEF HookInv, QueueInv, QueueTypeOK
    <3> QED
      BY <1>1, <2>6, <2>7, <3>1
  <2> QED
    BY <1>1, <2>2, <2>3, <2>4, <2>5, <2>7, <2>8, JobsGivenBack
<1> QED
  BY <1>1, <1>4 DEF BudgetInv

LEMMA ExpiryBudget ==
    ASSUME HookInv, HookInv', BudgetInv, NEW b \in JobId, UNCHANGED hookVars, ExpireJob(b)
    PROVE  BudgetInv'
<1>1. endpoint' = endpoint /\ sent' = sent /\ posts' = posts /\ attempts' = attempts /\ requeues' = requeues /\ worker' = worker
      /\ boss[b].state = "active" /\ boss' = [boss EXCEPT ![b] = Retried(b)] /\ faults' = IF Held(b) THEN faults + 1 ELSE faults
  BY DEF hookVars, ExpireJob
<1>2. \A c \in JobId : boss'[c].event = boss[c].event /\ (c # b => boss'[c] = boss[c])
  <2>1. boss \in [JobId -> BossJob]
    BY DEF HookInv, QueueInv, QueueTypeOK
  <2> QED
    BY <1>1, <2>1 DEF Retried, BossJob
<1>3. ASSUME NEW e \in EventId PROVE Affordable(e)'
  <2>1. Alive(e)' = Alive(e)
    BY <1>1 DEF Alive
  <2>2. Tickets(e)' \subseteq Tickets(e)
    BY <1>1, <1>2, <2>1 DEF Tickets
  <2>3. \A c \in JobId : Held(c)' = Held(c)
    BY <1>1 DEF Held
  <2>4. Waiting(e)' \subseteq Waiting(e) \cup {b}
    BY <1>2, <2>1, <2>3 DEF Waiting, Waits
  <2>5. faults \in Nat /\ requeues \in Nat /\ posts[e] \in Nat
    BY Amounts
  <2>6. CASE Held(b)
    <3>1. posts'[e] = posts[e] /\ faults' + requeues' = faults + requeues + 1
      BY <1>1, <2>5, <2>6
    <3> QED
      BY <2>2, <2>4, <3>1, OneWaits
  <2>7. CASE ~Held(b)
    <3>1. Waiting(e)' \subseteq Waiting(e)
      BY <1>1, <1>2, <2>1, <2>3, <2>7 DEF Waiting, Waits
    <3>2. posts'[e] + faults + requeues <= posts[e] + faults' + requeues'
      BY <1>1, <2>5, <2>7
    <3> QED
      BY <2>2, <3>1, <3>2, NothingGained
  <2> QED
    BY <2>6, <2>7
<1>4. \A c \in JobId : boss'[c].event <= sent'
  BY <1>1, <1>2 DEF BudgetInv
<1> QED
  BY <1>1, <1>3, <1>4 DEF BudgetInv

\* A job just sent waits, and nobody has it.
LEMMA SentWaits ==
    ASSUME HookInv, Unsent # {}, NEW e \in EventId, boss' = Sent(e), worker' = worker, endpoint' = endpoint, attempts' = attempts
    PROVE  /\ First(Unsent) \in JobId
           /\ \A b \in JobId : boss'[b].event = IF b = First(Unsent) THEN e ELSE boss[b].event
           /\ \A u \in Workers : First(Unsent) \notin worker[u].batch
           /\ \A x \in EventId : Tickets(x)' \subseteq Tickets(x) /\ Waiting(x)' \subseteq Waiting(x) \cup {First(Unsent)}
           /\ \A x \in EventId : x # e => Waiting(x)' \subseteq Waiting(x)
<1> DEFINE f == First(Unsent)
           j == [state |-> "created", event |-> e, tries |-> 0]
<1>1. f \in Unsent /\ f \in JobId /\ boss' = [boss EXCEPT ![f] = j]
  BY JobSent DEF HookInv
<1>2. j.event = e
  OBVIOUS
<1> HIDE DEF f, j
<1>3. \A b \in JobId : boss'[b] = IF b = f THEN j ELSE boss[b]
  BY <1>1 DEF HookInv, QueueInv, QueueTypeOK
<1>4. \A u \in Workers : f \notin worker[u].batch
  BY <1>1, WorkerOf DEF Unsent
<1>5. \A b \in JobId : Held(b)' = Held(b)
  BY DEF Held
<1>6. ASSUME NEW x \in EventId
      PROVE  /\ Tickets(x)' \subseteq Tickets(x) /\ Waiting(x)' \subseteq Waiting(x) \cup {f}
             /\ x # e => Waiting(x)' \subseteq Waiting(x)
  <2>1. Alive(x)' = Alive(x)
    BY DEF Alive
  <2>2. Tickets(x)' \subseteq Tickets(x)
    <3>1. ASSUME NEW u \in Workers, NEW b \in JobId, boss'[b].event = x, MayPost(worker'[u], b, endpoint'.exists, Alive(x)')
          PROVE  <<u, b>> \in Tickets(x)
      <4>1. b # f
        BY <1>4, <3>1 DEF MayPost
      <4> QED
        BY <1>3, <2>1, <3>1, <4>1 DEF Tickets
    <3> QED
      BY <3>1 DEF Tickets
  <2>3. Waiting(x)' \subseteq Waiting(x) \cup {f}
    BY <1>3, <1>5, <2>1 DEF Waiting, Waits
  <2>4. x # e => Waiting(x)' \subseteq Waiting(x)
    BY <1>2, <1>3, <1>5, <2>1 DEF Waiting, Waits
  <2> QED
    BY <2>2, <2>3, <2>4
<1>7. \A b \in JobId : boss'[b].event = IF b = f THEN e ELSE boss[b].event
  BY <1>2, <1>3
<1> QED
  BY <1>1, <1>4, <1>6, <1>7 DEF f

LEMMA RequeueBudget ==
    ASSUME HookInv, HookInv', BudgetInv, UNCHANGED hookVars, Requeue
    PROVE  BudgetInv'
<1>1. endpoint' = endpoint /\ sent' = sent /\ posts' = posts /\ attempts' = attempts /\ requeues' = requeues + 1
      /\ faults' = faults /\ worker' = worker /\ Unsent # {}
  BY DEF hookVars, Requeue
<1>2. PICK r \in JobId : row[r].dead /\ boss' = Sent(row[r].event)
  BY DEF Requeue
<1>3. row[r].event \in EventId /\ row[r].event <= sent
  <2>1. GoodRow(r, row[r], boss, Settled)
    BY DEF HookInv, QueueInv
  <2>2. row[r].event = boss[r].event /\ boss[r].state # "none" /\ GoodJob(boss[r])
    BY <1>2, <2>1 DEF GoodRow, HookInv, QueueInv
  <2> QED
    BY <2>2 DEF GoodJob, BudgetInv
<1>4. PICK e \in EventId : e = row[r].event
  BY <1>3
<1>5. /\ First(Unsent) \in JobId
      /\ \A b \in JobId : boss'[b].event = IF b = First(Unsent) THEN e ELSE boss[b].event
      /\ \A x \in EventId : Tickets(x)' \subseteq Tickets(x) /\ Waiting(x)' \subseteq Waiting(x) \cup {First(Unsent)}
  BY <1>1, <1>2, <1>4, SentWaits
<1>6. ASSUME NEW x \in EventId PROVE Affordable(x)'
  <2>1. posts'[x] = posts[x] /\ faults' + requeues' = faults + requeues + 1
    BY <1>1 DEF HookInv, QueueInv, QueueTypeOK
  <2> QED
    BY <1>5, <2>1, OneWaits
<1>7. \A b \in JobId : boss'[b].event <= sent'
  BY <1>1, <1>3, <1>4, <1>5 DEF BudgetInv
<1> QED
  BY <1>1, <1>6, <1>7 DEF BudgetInv

\* The first job of an event waits, and the event has not arrived yet.
LEMMA SendBudget ==
    ASSUME HookInv, HookInv', BudgetInv, NEW e, e = sent + 1, Send(e)
    PROVE  BudgetInv'
<1>1. e \in EventId /\ sent \in Nat
  BY JobTrackingAssumption DEF Send, HookInv, HookTypeOK, EventId
<1>2. Unsent # {} /\ boss' = Sent(e) /\ sent' = e /\ UNCHANGED <<worker, faults, requeues, endpoint, posts, attempts>>
  BY DEF Send
<1>3. /\ First(Unsent) \in JobId
      /\ \A b \in JobId : boss'[b].event = IF b = First(Unsent) THEN e ELSE boss[b].event
      /\ \A u \in Workers : First(Unsent) \notin worker[u].batch
      /\ \A x \in EventId : Tickets(x)' \subseteq Tickets(x) /\ Waiting(x)' \subseteq Waiting(x) \cup {First(Unsent)}
      /\ \A x \in EventId : x # e => Waiting(x)' \subseteq Waiting(x)
  BY <1>1, <1>2, SentWaits
<1>4. \A b \in JobId : boss[b].event # e
  <2>1. \A b \in JobId : boss[b].event <= sent /\ boss[b].event \in Nat
    BY JobTrackingAssumption DEF BudgetInv, HookInv, QueueInv, QueueTypeOK, BossJob
  <2> QED
    BY <1>1, <2>1
<1>5. ASSUME NEW x \in EventId PROVE Affordable(x)'
  <2>1. posts[x] \in Nat /\ faults \in Nat /\ requeues \in Nat
    BY Amounts
  <2>2. CASE x # e
    <3>1. posts'[x] + faults + requeues <= posts[x] + faults' + requeues'
      BY <1>2, <2>1
    <3> QED
      BY <1>3, <2>2, <3>1, NothingGained
  <2>3. CASE x = e
    <3>1. Waiting(x) = {}
      BY <1>4, <2>3 DEF Waiting
    <3>2. Tickets(x) = {}
      BY <1>4, <2>3 DEF Tickets
    <3>3. posts'[x] = 0
      BY <1>1, <1>2, <2>3 DEF BudgetInv
    <3>4. IsFiniteSet({}) /\ Cardinality({}) = 0
      BY FS_EmptySet
    <3>5. IsFiniteSet({First(Unsent)}) /\ Cardinality({First(Unsent)}) = 1
      BY FS_Singleton
    <3>6. Waiting(x)' \subseteq {First(Unsent)} /\ Tickets(x)' = {}
      BY <1>3, <3>1, <3>2
    <3>7. IsFiniteSet(Waiting(x)') /\ Cardinality(Waiting(x)') <= 1
      BY <3>5, <3>6, FS_Subset
    <3>8. Cardinality(Waiting(x)') \in Nat
      BY <3>7, FS_CardinalityType
    <3>9. IsFiniteSet(Tickets(x)') /\ Cardinality(Tickets(x)') = 0
      BY <3>4, <3>6
    <3>10. posts'[x] + Cardinality(Tickets(x)') + Cardinality(Waiting(x)') <= 1 + faults' + requeues'
      BY <1>2, <2>1, <3>3, <3>7, <3>8, <3>9
    <3> QED
      BY <3>9, <3>10 DEF Affordable
  <2> QED
    BY <2>2, <2>3
<1>6. \A b \in JobId : boss'[b].event <= sent'
  <2>1. \A b \in JobId : boss[b].event <= sent /\ boss[b].event \in Nat
    BY JobTrackingAssumption DEF BudgetInv, HookInv, QueueInv, QueueTypeOK, BossJob
  <2>2. \A b \in JobId : boss[b].event <= e
    BY <1>1, <2>1
  <2> QED
    BY <1>1, <1>2, <1>3, <2>2
<1>7. \A x \in EventId : x > sent' => posts'[x] = 0
  BY <1>1, <1>2 DEF BudgetInv, EventId
<1> QED
  BY <1>5, <1>6, <1>7 DEF BudgetInv

\* No worker moves, and the endpoint does not come back.
LEMMA OthersBudget ==
    ASSUME HookInv, HookInv', BudgetInv,
           \/ UpdateEndpoint \/ DeleteEndpoint \/ UNCHANGED vars
           \/ UNCHANGED hookVars /\ (MarkRequeued \/ AdminDies)
    PROVE  BudgetInv'
<1>1. faults \in Nat /\ requeues \in Nat /\ endpoint \in [exists : BOOLEAN, enabled : BOOLEAN] /\ \A e \in EventId : posts[e] \in Nat
  BY DEF HookInv, HookTypeOK, QueueInv, QueueTypeOK
<1>2. /\ boss' = boss /\ worker' = worker /\ posts' = posts /\ attempts' = attempts /\ sent' = sent /\ requeues' = requeues
      /\ (faults' = faults \/ faults' = faults + 1)
  BY DEF UpdateEndpoint, DeleteEndpoint, MarkRequeued, AdminDies, vars, hookVars, queueVars
<1>3. endpoint'.exists => endpoint.exists
  <2>1. CASE UpdateEndpoint
    BY <2>1 DEF UpdateEndpoint
  <2>2. CASE DeleteEndpoint
    BY <2>2 DEF DeleteEndpoint
  <2>3. CASE ~UpdateEndpoint /\ ~DeleteEndpoint
    BY <2>3 DEF vars, hookVars
  <2> QED
    BY <2>1, <2>2, <2>3
<1>4. ASSUME NEW e \in EventId PROVE Affordable(e)'
  <2>1. Alive(e)' => Alive(e)
    BY <1>2, <1>3 DEF Alive
  <2>2. \A b \in JobId : Held(b)' = Held(b)
    BY <1>2 DEF Held
  <2>3. Waiting(e)' \subseteq Waiting(e)
    BY <1>2, <2>1, <2>2 DEF Waiting, Waits
  <2>4. ASSUME NEW u \in Workers, NEW b \in JobId, boss'[b].event = e, MayPost(worker'[u], b, endpoint'.exists, Alive(e)')
        PROVE  <<u, b>> \in Tickets(e)
    <3>1. MayPost(worker[u], b, endpoint.exists, Alive(e))
      BY <1>2, <1>3, <2>1, <2>4 DEF MayPost, May
    <3> QED
      BY <1>2, <2>4, <3>1 DEF Tickets
  <2>5. Tickets(e)' \subseteq Tickets(e)
    BY <2>4 DEF Tickets
  <2>6. posts'[e] + faults + requeues <= posts[e] + faults' + requeues'
    BY <1>1, <1>2
  <2> QED
    BY <2>3, <2>5, <2>6, NothingGained
<1> QED
  BY <1>2, <1>4 DEF BudgetInv

LEMMA BudgetFirst == ASSUME Init, HookInv PROVE BudgetInv
<1>1. \A b \in JobId : boss[b] = NoBossJob
  BY DEF Init, QueueInit
<1>2. \A w \in Workers : worker[w].batch = {}
  BY DEF Init, QueueInit, Resting
<1>3. ASSUME NEW e \in EventId PROVE Affordable(e) /\ posts[e] = 0
  <2>1. Tickets(e) = {}
    BY <1>2 DEF Tickets, MayPost
  <2>2. Waiting(e) = {}
    BY <1>1 DEF Waiting, Waits, NoBossJob
  <2>3. IsFiniteSet({}) /\ Cardinality({}) = 0
    BY FS_EmptySet
  <2> QED
    BY <2>1, <2>2, <2>3 DEF Affordable, Init, QueueInit
<1> QED
  BY <1>1, <1>3 DEF BudgetInv, Init, NoBossJob, NoEvent

LEMMA BudgetStep == ASSUME HookInv, HookInv', BudgetInv, [Next]_vars PROVE BudgetInv'
<1>1. CASE DispatchEvent \/ TestEndpoint
  BY <1>1, SendBudget DEF DispatchEvent, TestEndpoint
<1>2. CASE UpdateEndpoint \/ DeleteEndpoint \/ UNCHANGED vars
  <2>1. UpdateEndpoint \/ DeleteEndpoint \/ UNCHANGED vars
    BY <1>2
  <2> QED
    BY <2>1, OthersBudget
<1>3. ASSUME NEW w \in Workers, Deliver(w) PROVE BudgetInv'
  BY <1>3, DeliverBudget
<1>4. CASE Queue /\ UNCHANGED hookVars
  <2>1. ASSUME NEW w \in Workers, Tracking(w) PROVE BudgetInv'
    BY <1>4, <2>1, BatchBudget, FetchBudget, EndBudget, CrashBudget DEF Tracking
  <2>2. ASSUME NEW b \in JobId, ExpireJob(b) PROVE BudgetInv'
    BY <1>4, <2>2, ExpiryBudget
  <2>3. CASE Administration
    BY <1>4, <2>3, RequeueBudget, OthersBudget DEF Administration
  <2> QED
    BY <1>4, <2>1, <2>2, <2>3 DEF Queue
<1> QED
  BY <1>1, <1>2, <1>3, <1>4 DEF Next

\* An event reaches the customer twice only if a crash, a failed statement, an
\* expiry or a lost answer came in between, or an administrator requeued it:
\* each such fault gives back one chance to post, and no batch that pg-boss
\* repeats as a whole gives back another (SendWebhookHandler.deliver looks for
\* a success on record before it posts).
THEOREM DuplicatesAlwaysPaidFor == Spec => []DuplicatesArePaidFor
<1>1. Init => HookInv /\ CountInv /\ BudgetInv
  BY HookFirst, BudgetFirst
<1>2. HookInv /\ CountInv /\ BudgetInv /\ [Next]_vars => (HookInv /\ CountInv /\ BudgetInv)'
  BY HookStep, BudgetStep
<1>3. HookInv /\ BudgetInv => DuplicatesArePaidFor
  <2> SUFFICES ASSUME HookInv, BudgetInv, NEW e \in EventId PROVE posts[e] <= 1 + faults + requeues
    BY DEF DuplicatesArePaidFor
  <2> QED
    BY Amounts
<1> QED
  BY <1>1, <1>2, <1>3, PTL DEF Spec

=============================================================================
