----------------------------- MODULE Retention -----------------------------
(***************************************************************************)
(* PurgeExpiredSigningDataHandler: every night it deletes the codes older  *)
(* than a year, and then, batch by batch, the signing sessions older than  *)
(* the retention period.  The tables that refer to a session restrict its  *)
(* deletion (migrations, 20260320b), and two of them may not be deleted    *)
(* from (20261024).                                                        *)
(***************************************************************************)
EXTENDS Integers, FiniteSets

CONSTANTS
    NumSessions,    \* bound: signing sessions
    BatchSize       \* DEFAULT_BATCH_SIZE

SessionId == 1..NumSessions     \* by startedAt

VARIABLES
    session,    \* SigningSession: "none", "kept", "old" (past the retention period), "deleted"
    code,       \* its SigningOtpChallenge rows, taken together
    evidence,   \* the sessions SigningEvent or AcceptanceRecord rows refer to
    sweep       \* the job: its step, and the batch it has selected

vars == <<session, code, evidence, sweep>>

-----------------------------------------------------------------------------
Idle == [at |-> "idle", batch |-> {}]

\* createOrResume: the session and its SESSION_STARTED event in one transaction.
StartSession(s) ==
    /\ session[s] = "none" /\ \A r \in SessionId : r < s => session[r] # "none"
    /\ session' = [session EXCEPT ![s] = "kept"]
    /\ evidence' = evidence \cup {s}
    /\ UNCHANGED <<code, sweep>>

IssueCode(s) ==
    /\ session[s] = "kept" /\ code[s] = "none"
    /\ code' = [code EXCEPT ![s] = "kept"]
    /\ UNCHANGED <<session, evidence, sweep>>

YearPasses ==
    /\ \E s \in SessionId : code[s] = "kept"
    /\ code' = [s \in SessionId |-> IF code[s] = "kept" THEN "old" ELSE code[s]]
    /\ UNCHANGED <<session, evidence, sweep>>

\* Ten years, by default.
RetentionPasses ==
    /\ \E s \in SessionId : session[s] = "kept"
    /\ session' = [s \in SessionId |-> IF session[s] = "kept" THEN "old" ELSE session[s]]
    /\ code' = [s \in SessionId |-> IF code[s] = "kept" THEN "old" ELSE code[s]]
    /\ UNCHANGED <<evidence, sweep>>

-----------------------------------------------------------------------------
\* Every night, and again when it fails.
PurgeCodes ==
    /\ sweep.at = "idle" /\ sweep' = [Idle EXCEPT !.at = "select"]
    /\ code' = [s \in SessionId |-> IF code[s] = "old" THEN "deleted" ELSE code[s]]
    /\ UNCHANGED <<session, evidence>>

Old == {s \in SessionId : session[s] = "old"}

\* The oldest ones.
Batches == {b \in SUBSET Old : /\ Cardinality(b) = BatchSize \/ (b = Old /\ Cardinality(b) < BatchSize)
                               /\ \A s \in b, r \in Old \ b : s < r}

SelectBatch ==
    /\ sweep.at = "select"
    /\ IF Old = {} THEN sweep' = Idle
       ELSE \E b \in Batches : sweep' = [at |-> "delete", batch |-> b]
    /\ UNCHANGED <<session, code, evidence>>

Referenced(s) == s \in evidence \/ code[s] \in {"kept", "old"}

\* One statement: a session something refers to fails it, and the job.
DeleteBatch ==
    /\ sweep.at = "delete"
    /\ IF \E s \in sweep.batch : Referenced(s)
       THEN sweep' = Idle /\ UNCHANGED session
       ELSE /\ session' = [s \in SessionId |-> IF s \in sweep.batch THEN "deleted" ELSE session[s]]
            /\ sweep' = IF Cardinality(sweep.batch) = BatchSize THEN [Idle EXCEPT !.at = "select"] ELSE Idle
    /\ UNCHANGED <<code, evidence>>

Purge == PurgeCodes \/ SelectBatch \/ DeleteBatch

Init ==
    /\ session = [s \in SessionId |-> "none"] /\ code = [s \in SessionId |-> "none"]
    /\ evidence = {} /\ sweep = Idle

Next ==
    \/ \E s \in SessionId : StartSession(s) \/ IssueCode(s)
    \/ YearPasses \/ RetentionPasses
    \/ Purge

Spec == Init /\ [][Next]_vars

\* The cron and pg-boss run the job every day.
FairSpec == Spec /\ WF_vars(Purge)

-----------------------------------------------------------------------------
\* "Deletes mutable signing session data older than ACCEPTANCE_RETENTION_YEARS
\* ... SigningSession" (purge-expired-signing-data.handler.ts): a session past
\* the period is deleted in the end.
SessionsArePurged == \A s \in SessionId : session[s] = "old" ~> session[s] = "deleted"
=============================================================================
