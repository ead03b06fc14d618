--------------------------- MODULE Signing_proofs ---------------------------
(***************************************************************************)
(* Theorems about SigningSystem for every number of sessions, challenges   *)
(* and requests in flight: every row keeps its type and no reference       *)
(* dangles; the offer is decided at most once, by a proven inbox, and its  *)
(* record and its event chain tell the same story; it keeps the promise of *)
(* Agreement.  And while no two requests overlap, what the comments of the *)
(* code promise of the rows (SigningClaims).                               *)
(***************************************************************************)
EXTENDS SigningClaims, SequenceTheorems, FiniteSetTheorems, TLAPS

\* What a request has read stays a reference to rows that exist, and the rows
\* refer to each other: no foreign key dangles, and a wrong code is only ever
\* counted on a challenge read below its limit.
HoldsSession   == {"lockout", "issue", "insert", "document", "wrong", "right", "accept", "decline"}
HoldsChallenge == {"wrong", "right", "accept", "decline"}

RowsRefer ==
    \A c \in Challenge : challenge[c].status # "NONE" => challenge[c].session \in Session

Refers(p) ==
    /\ req[p].at \in HoldsSession => req[p].s \in Session
    /\ req[p].at \in HoldsChallenge =>
          /\ req[p].c \in Challenge
          /\ challenge[req[p].c].status # "NONE"
          /\ challenge[req[p].c].session = req[p].s
    /\ req[p].at = "wrong" => req[p].tries < MaxAttempts

TypeInv == TypeOK /\ RowsRefer /\ \A p \in Procs : Refers(p)

\* A challenge once issued stays issued, in the session it was issued to.
RowsPersist ==
    \A c \in Challenge : challenge[c].status # "NONE" =>
        challenge'[c].status # "NONE" /\ challenge'[c].session = challenge[c].session

-----------------------------------------------------------------------------
(* Appending to a session's chain.                                         *)

\* What SigningEventService.append does to the chains: one more event at the
\* end of one of them.
LEMMA LogEventFacts ==
    ASSUME chain \in [Session -> Seq(Event)],
           NEW s \in Session, NEW type \in EventType, NEW c \in Challenge \cup {0},
           LogEvent(s, type, c)
    PROVE  /\ chain' \in [Session -> Seq(Event)]
           /\ \A t \in Session : t # s => chain'[t] = chain[t]
           /\ Indices(s)' = 1..(Len(chain[s]) + 1)
           /\ \A i \in Indices(s) : chain'[s][i] = chain[s][i]
           /\ chain'[s][Len(chain[s]) + 1] = [type |-> type, challenge |-> c]
           /\ Len(chain[s]) \in Nat /\ Indices(s) = 1..Len(chain[s])
<1> DEFINE e == [type |-> type, challenge |-> c]
<1>1. e \in Event
  BY DEF Event
<1>2. chain[s] \in Seq(Event) /\ Len(chain[s]) \in Nat /\ DOMAIN chain[s] = 1..Len(chain[s])
  OBVIOUS
<1>3. chain' = [chain EXCEPT ![s] = Append(chain[s], e)]
  BY DEF LogEvent
<1>4. /\ Append(chain[s], e) \in Seq(Event)
      /\ Len(Append(chain[s], e)) = Len(chain[s]) + 1
      /\ \A i \in 1..Len(chain[s]) : Append(chain[s], e)[i] = chain[s][i]
      /\ Append(chain[s], e)[Len(chain[s]) + 1] = e
  BY <1>1, <1>2, AppendProperties
<1>5. chain'[s] = Append(chain[s], e)
  BY <1>3
<1>6. DOMAIN chain'[s] = 1..(Len(chain[s]) + 1)
  BY <1>4, <1>5
<1> QED
  BY <1>2, <1>3, <1>4, <1>5, <1>6 DEF Indices

-----------------------------------------------------------------------------
(* Type correctness.                                                       *)

\* Where a request goes next, and that no other request moves with it.
MovedTo(p, step) ==
    /\ req' \in [Procs -> Request]
    /\ \A q \in Procs : q # p => req'[q] = req[q]
    /\ req'[p].at = step

LEMMA StepNames ==
    {"idle", "send", "schedule", "resend", "revoke", "unschedule", "view", "find", "create",
     "lockout", "issue", "insert", "document", "wrong", "right", "accept", "decline",
     "expire", "otpsweep"} \subseteq Step
BY DEF Step

LEMMA IdleType == Idle \in Request /\ Idle.at = "idle"
BY StoreAssumption DEF Idle, Request, Step

LEMMA Moves ==
    ASSUME req \in [Procs -> Request], NEW p \in Procs, NEW step \in Step
    PROVE  /\ Goto(p, step) => MovedTo(p, step)
           /\ Finish(p) => MovedTo(p, "idle")
           /\ \A s \in Session \cup {0} : GotoWith(p, step, s) => MovedTo(p, step) /\ req'[p].s = s
<1>1. [Idle EXCEPT !.at = step] \in Request /\ [Idle EXCEPT !.at = step].at = step
  BY IdleType DEF Request
<1>2. ASSUME NEW s \in Session \cup {0}
      PROVE  /\ [Idle EXCEPT !.at = step, !.s = s] \in Request
             /\ [Idle EXCEPT !.at = step, !.s = s].at = step
             /\ [Idle EXCEPT !.at = step, !.s = s].s = s
  <2> DEFINE r == [Idle EXCEPT !.at = step]
  <2>1. [Idle EXCEPT !.at = step, !.s = s] = [r EXCEPT !.s = s]
    OBVIOUS
  <2>2. [r EXCEPT !.s = s] \in Request /\ [r EXCEPT !.s = s].at = r.at /\ [r EXCEPT !.s = s].s = s
    BY <1>1 DEF Request
  <2> QED
    BY <1>1, <2>1, <2>2
<1>3. Goto(p, step) => MovedTo(p, step)
  BY <1>1 DEF Goto, MovedTo
<1>4. Finish(p) => MovedTo(p, "idle")
  BY IdleType DEF Finish, MovedTo
<1>5. ASSUME NEW s \in Session \cup {0}, GotoWith(p, step, s)
      PROVE  MovedTo(p, step) /\ req'[p].s = s
  BY <1>2, <1>5 DEF GotoWith, MovedTo
<1> QED
  BY <1>3, <1>4, <1>5

\* Changing a status, as most writes do, keeps the row.
LEMMA RowTypes ==
    /\ \A r \in ChallengeRow, x \in OtpStatus :
          /\ [r EXCEPT !.status = x] \in ChallengeRow
          /\ [r EXCEPT !.status = x].status = x
          /\ [r EXCEPT !.status = x].session = r.session
    /\ \A r \in SessionRow, x \in SessionStatus : [r EXCEPT !.status = x] \in SessionRow
<1>1. ASSUME NEW r \in ChallengeRow, NEW x \in OtpStatus
      PROVE  /\ [r EXCEPT !.status = x] \in ChallengeRow
             /\ [r EXCEPT !.status = x].status = x
             /\ [r EXCEPT !.status = x].session = r.session
  BY DEF ChallengeRow
<1>2. ASSUME NEW r \in SessionRow, NEW x \in SessionStatus
      PROVE  [r EXCEPT !.status = x] \in SessionRow
  BY DEF SessionRow
<1> QED
  BY <1>1, <1>2

LEMMA VerifiedRecipient ==
    ASSUME NEW r \in RecipientRow
    PROVE  [r EXCEPT !.status = "OTP_VERIFIED", !.version = @ + 1] \in RecipientRow
<1>1. [r EXCEPT !.status = "OTP_VERIFIED", !.version = @ + 1]
        = [[r EXCEPT !.status = "OTP_VERIFIED"] EXCEPT !.version = @ + 1]
  OBVIOUS
<1>2. ASSUME NEW q \in RecipientRow PROVE [q EXCEPT !.version = @ + 1] \in RecipientRow
  BY DEF RecipientRow
<1>3. [r EXCEPT !.status = "OTP_VERIFIED"] \in RecipientRow
  BY DEF RecipientRow, RecipientStatus
<1> QED
  BY <1>1, <1>2, <1>3

LEMMA VerifiedSession ==
    ASSUME NEW r \in SessionRow
    PROVE  [r EXCEPT !.status = "OTP_VERIFIED", !.version = @ + 1] \in SessionRow
<1>1. [r EXCEPT !.status = "OTP_VERIFIED", !.version = @ + 1]
        = [[r EXCEPT !.status = "OTP_VERIFIED"] EXCEPT !.version = @ + 1]
  OBVIOUS
<1>2. ASSUME NEW q \in SessionRow PROVE [q EXCEPT !.version = @ + 1] \in SessionRow
  BY DEF SessionRow
<1>3. [r EXCEPT !.status = "OTP_VERIFIED"] \in SessionRow
  BY DEF SessionRow, SessionStatus
<1> QED
  BY <1>1, <1>2, <1>3

LEMMA TypeInvInit == Init => TypeInv
<1> SUFFICES ASSUME Init PROVE TypeInv
  OBVIOUS
<1> USE StoreAssumption DEF Init, StoreInit
<1>1. offer \in OfferRow
  BY DEF OfferRow, OfferStatus
<1>2. recipient \in RecipientRow
  BY DEF RecipientRow, RecipientStatus
<1>3. session \in [Session -> SessionRow]
  BY DEF SessionRow, SessionStatus, NoSession
<1>4. challenge \in [Challenge -> ChallengeRow]
  BY DEF ChallengeRow, OtpStatus, NoChallenge
<1>5. req \in [Procs -> Request]
  BY IdleType
<1>6. chain \in [Session -> Seq(Event)] /\ record \in SUBSET RecordRow
  OBVIOUS
<1>7. TypeOK
  BY <1>1, <1>2, <1>3, <1>4, <1>5, <1>6 DEF TypeOK
<1>8. RowsRefer
  BY DEF RowsRefer, NoChallenge
<1>9. \A p \in Procs : Refers(p)
  BY DEF Refers, HoldsSession, HoldsChallenge, Idle
<1> QED
  BY <1>7, <1>8, <1>9 DEF TypeInv

\* The part of TypeInv that an action's own writes do not touch: the action of
\* p leaves the other requests alone, and the rows they refer to persist.
LEMMA TypeInvFrame ==
    ASSUME TypeInv, NEW p \in Procs, NEW step \in Step,
           TypeOK', RowsRefer', RowsPersist, MovedTo(p, step), Refers(p)'
    PROVE  TypeInv'
<1> SUFFICES ASSUME NEW q \in Procs, q # p PROVE Refers(q)'
  BY DEF TypeInv
<1>1. Refers(q) /\ req'[q] = req[q]
  BY DEF TypeInv, MovedTo
<1> QED
  BY <1>1 DEF Refers, RowsPersist

\* Every operation of the sender keeps the types.
LEMMA SenderTypes == ASSUME TypeInv, NEW p \in Procs, SenderStep(p) PROVE TypeInv'
<1> USE DEF TypeInv, TypeOK
<1>1. CASE StartSend(p)
  <2>1. MovedTo(p, "send")
    BY <1>1, Moves, StepNames DEF StartSend
  <2>2. TypeOK'
    BY <1>1, <2>1 DEF StartSend, MovedTo, store
  <2>3. RowsRefer' /\ RowsPersist
    BY <1>1 DEF StartSend, RowsRefer, RowsPersist, store
  <2>4. Refers(p)'
    BY <2>1 DEF MovedTo, Refers, HoldsSession, HoldsChallenge
  <2> QED
    BY <2>1, <2>2, <2>3, <2>4, TypeInvFrame, StepNames
<1>2. CASE CommitSend(p)
  <2>1. MovedTo(p, "schedule")
    BY <1>2, Moves, StepNames DEF CommitSend
  <2>2. TypeOK'
    BY <1>2, <2>1 DEF CommitSend, MovedTo, store, OfferRow, OfferStatus, RecipientRow, RecipientStatus
  <2>3. RowsRefer' /\ RowsPersist
    BY <1>2 DEF CommitSend, RowsRefer, RowsPersist, store
  <2>4. Refers(p)'
    BY <2>1 DEF MovedTo, Refers, HoldsSession, HoldsChallenge
  <2> QED
    BY <2>1, <2>2, <2>3, <2>4, TypeInvFrame, StepNames
<1>3. CASE ScheduleReminders(p)
  <2>1. MovedTo(p, "idle")
    BY <1>3, Moves, StepNames DEF ScheduleReminders
  <2>2. TypeOK'
    BY <1>3, <2>1 DEF ScheduleReminders, MovedTo, store
  <2>3. RowsRefer' /\ RowsPersist
    BY <1>3 DEF ScheduleReminders, RowsRefer, RowsPersist, store
  <2>4. Refers(p)'
    BY <2>1 DEF MovedTo, Refers, HoldsSession, HoldsChallenge
  <2> QED
    BY <2>1, <2>2, <2>3, <2>4, TypeInvFrame, StepNames
<1>4. CASE StartResend(p)
  <2>1. MovedTo(p, "resend")
    BY <1>4, Moves, StepNames DEF StartResend
  <2>2. TypeOK'
    BY <1>4, <2>1 DEF StartResend, MovedTo, store
  <2>3. RowsRefer' /\ RowsPersist
    BY <1>4 DEF StartResend, RowsRefer, RowsPersist, store
  <2>4. Refers(p)'
    BY <2>1 DEF MovedTo, Refers, HoldsSession, HoldsChallenge
  <2> QED
    BY <2>1, <2>2, <2>3, <2>4, TypeInvFrame, StepNames
<1>5. CASE ReplaceToken(p)
  <2>1. MovedTo(p, "idle")
    BY <1>5, Moves, StepNames DEF ReplaceToken
  <2>2. TypeOK'
    BY <1>5, <2>1 DEF ReplaceToken, MovedTo, store, RecipientRow, RecipientStatus
  <2>3. RowsRefer' /\ RowsPersist
    BY <1>5 DEF ReplaceToken, RowsRefer, RowsPersist, store
  <2>4. Refers(p)'
    BY <2>1 DEF MovedTo, Refers, HoldsSession, HoldsChallenge
  <2> QED
    BY <2>1, <2>2, <2>3, <2>4, TypeInvFrame, StepNames
<1>6. CASE StartRevoke(p)
  <2>1. MovedTo(p, "revoke")
    BY <1>6, Moves, StepNames DEF StartRevoke
  <2>2. TypeOK'
    BY <1>6, <2>1 DEF StartRevoke, MovedTo, store
  <2>3. RowsRefer' /\ RowsPersist
    BY <1>6 DEF StartRevoke, RowsRefer, RowsPersist, store
  <2>4. Refers(p)'
    BY <2>1 DEF MovedTo, Refers, HoldsSession, HoldsChallenge
  <2> QED
    BY <2>1, <2>2, <2>3, <2>4, TypeInvFrame, StepNames
<1>7. CASE CommitRevoke(p)
  <2>1. MovedTo(p, "unschedule")
    BY <1>7, Moves, StepNames DEF CommitRevoke
  <2>2. TypeOK'
    BY <1>7, <2>1 DEF CommitRevoke, MovedTo, store, OfferRow, OfferStatus, RecipientRow, RecipientStatus
  <2>3. RowsRefer' /\ RowsPersist
    BY <1>7 DEF CommitRevoke, RowsRefer, RowsPersist, store
  <2>4. Refers(p)'
    BY <2>1 DEF MovedTo, Refers, HoldsSession, HoldsChallenge
  <2> QED
    BY <2>1, <2>2, <2>3, <2>4, TypeInvFrame, StepNames
<1>8. CASE CancelReminders(p)
  <2>1. MovedTo(p, "idle")
    BY <1>8, Moves, StepNames DEF CancelReminders
  <2>2. TypeOK'
    BY <1>8, <2>1 DEF CancelReminders, MovedTo, store
  <2>3. RowsRefer' /\ RowsPersist
    BY <1>8 DEF CancelReminders, RowsRefer, RowsPersist, store
  <2>4. Refers(p)'
    BY <2>1 DEF MovedTo, Refers, HoldsSession, HoldsChallenge
  <2> QED
    BY <2>1, <2>2, <2>3, <2>4, TypeInvFrame, StepNames
<1> QED
  BY <1>1, <1>2, <1>3, <1>4, <1>5, <1>6, <1>7, <1>8 DEF SenderStep

\* So do the expiry jobs.
LEMMA SweepTypes == ASSUME TypeInv, NEW p \in Procs, SweepStep(p) PROVE TypeInv'
<1> USE DEF TypeInv, TypeOK
<1>1. CASE FindExpiredOffer(p)
  <2>1. MovedTo(p, "expire")
    BY <1>1, Moves, StepNames DEF FindExpiredOffer
  <2>2. TypeOK'
    BY <1>1, <2>1 DEF FindExpiredOffer, MovedTo, store
  <2>3. RowsRefer' /\ RowsPersist
    BY <1>1 DEF FindExpiredOffer, RowsRefer, RowsPersist, store
  <2>4. Refers(p)'
    BY <2>1 DEF MovedTo, Refers, HoldsSession, HoldsChallenge
  <2> QED
    BY <2>1, <2>2, <2>3, <2>4, TypeInvFrame, StepNames
<1>2. CASE CommitExpiry(p)
  <2>1. MovedTo(p, "unschedule")
    BY <1>2, Moves, StepNames DEF CommitExpiry
  <2>2. TypeOK'
    BY <1>2, <2>1 DEF CommitExpiry, MovedTo, store, OfferRow, OfferStatus, RecipientRow, RecipientStatus
  <2>3. RowsRefer' /\ RowsPersist
    BY <1>2 DEF CommitExpiry, RowsRefer, RowsPersist, store
  <2>4. Refers(p)'
    BY <2>1 DEF MovedTo, Refers, HoldsSession, HoldsChallenge
  <2> QED
    BY <2>1, <2>2, <2>3, <2>4, TypeInvFrame, StepNames
<1>3. CASE ExpireSessions(p)
  <2>1. MovedTo(p, "otpsweep")
    BY <1>3, Moves, StepNames DEF ExpireSessions
  <2>2. session' \in [Session -> SessionRow]
    BY <1>3, RowTypes DEF ExpireSessions, SessionStatus
  <2>3. TypeOK'
    BY <1>3, <2>1, <2>2 DEF ExpireSessions, MovedTo
  <2>4. RowsRefer' /\ RowsPersist
    BY <1>3 DEF ExpireSessions, RowsRefer, RowsPersist
  <2>5. Refers(p)'
    BY <2>1 DEF MovedTo, Refers, HoldsSession, HoldsChallenge
  <2> QED
    BY <2>1, <2>3, <2>4, <2>5, TypeInvFrame, StepNames
<1>4. CASE ExpireChallenges(p)
  <2>1. MovedTo(p, "idle")
    BY <1>4, Moves, StepNames DEF ExpireChallenges
  <2>2. \A c \in Challenge :
           \/ challenge'[c] = challenge[c]
           \/ /\ challenge[c].status = "PENDING"
              /\ challenge'[c] = [challenge[c] EXCEPT !.status = "EXPIRED"]
    BY <1>4 DEF ExpireChallenges, CodeRanOut
  <2>3. \A c \in Challenge :
           /\ challenge'[c] \in ChallengeRow
           /\ challenge'[c].session = challenge[c].session
           /\ challenge'[c].status # "NONE" <=> challenge[c].status # "NONE"
    <3>1. ASSUME NEW c \in Challenge,
                 challenge[c].status = "PENDING",
                 challenge'[c] = [challenge[c] EXCEPT !.status = "EXPIRED"]
          PROVE  /\ challenge'[c] \in ChallengeRow
                 /\ challenge'[c].session = challenge[c].session
                 /\ challenge'[c].status = "EXPIRED"
      <4>1. challenge[c] \in ChallengeRow /\ "EXPIRED" \in OtpStatus
        BY DEF OtpStatus
      <4> QED
        BY <3>1, <4>1, RowTypes
    <3> QED
      BY <2>2, <3>1
  <2>4. challenge' \in [Challenge -> ChallengeRow]
    BY <1>4, <2>3 DEF ExpireChallenges
  <2>5. TypeOK'
    BY <1>4, <2>1, <2>4 DEF ExpireChallenges, MovedTo
  <2>6. RowsRefer' /\ RowsPersist
    BY <2>3 DEF RowsRefer, RowsPersist
  <2>7. Refers(p)'
    BY <2>1 DEF MovedTo, Refers, HoldsSession, HoldsChallenge
  <2> QED
    BY <2>1, <2>5, <2>6, <2>7, TypeInvFrame, StepNames
<1> QED
  BY <1>1, <1>2, <1>3, <1>4 DEF SweepStep

LEMMA DecideMoves ==
    ASSUME req \in [Procs -> Request], NEW p \in Procs, NEW step \in Step,
           NEW c \in Challenge, challenge[c].session \in Session, Decide(p, c, step)
    PROVE  MovedTo(p, step) /\ req'[p].s = challenge[c].session /\ req'[p].c = c
<1> DEFINE a == [Idle EXCEPT !.at = step]
           b == [a EXCEPT !.s = challenge[c].session]
           d == [b EXCEPT !.c = c]
<1>1. a \in Request /\ a.at = step
  BY IdleType DEF Request
<1>2. b \in Request /\ b.at = step /\ b.s = challenge[c].session
  <2> HIDE DEF a
  <2> QED
    BY <1>1 DEF Request
<1>3. d \in Request /\ d.at = step /\ d.s = challenge[c].session /\ d.c = c
  <2> HIDE DEF b
  <2> QED
    BY <1>2 DEF Request
<1>4. req' = [req EXCEPT ![p] = d]
  BY DEF Decide
<1> HIDE DEF d
<1> QED
  BY <1>3, <1>4 DEF MovedTo

\* And every operation of the recipient.
LEMMA RecipientTypes == ASSUME TypeInv, NEW p \in Procs, RecipientStep(p) PROVE TypeInv'
<1> USE DEF TypeInv, TypeOK
<1>1. CASE StartOtpRequest(p)
  <2>1. PICK step \in {"view", "find"} : Goto(p, step)
    BY <1>1 DEF StartOtpRequest
  <2>2. MovedTo(p, step)
    BY <2>1, Moves, StepNames
  <2>3. TypeOK'
    BY <1>1, <2>2 DEF StartOtpRequest, MovedTo, store
  <2>4. RowsRefer' /\ RowsPersist
    BY <1>1 DEF StartOtpRequest, RowsRefer, RowsPersist, store
  <2>5. Refers(p)'
    BY <2>1, <2>2 DEF MovedTo, Refers, HoldsSession, HoldsChallenge
  <2> QED
    BY <2>2, <2>3, <2>4, <2>5, TypeInvFrame, StepNames
<1>2. CASE MarkViewed(p)
  <2>1. MovedTo(p, "find")
    BY <1>2, Moves, StepNames DEF MarkViewed
  <2>2. TypeOK'
    BY <1>2, <2>1 DEF MarkViewed, MovedTo, store, RecipientRow, RecipientStatus
  <2>3. RowsRefer' /\ RowsPersist
    BY <1>2 DEF MarkViewed, RowsRefer, RowsPersist, store
  <2>4. Refers(p)'
    BY <2>1 DEF MovedTo, Refers, HoldsSession, HoldsChallenge
  <2> QED
    BY <2>1, <2>2, <2>3, <2>4, TypeInvFrame, StepNames
<1>3. CASE FindSession(p)
  <2>1. \/ MovedTo(p, "create")
        \/ MovedTo(p, "lockout") /\ req'[p].s \in Session
    BY <1>3, Moves, StepNames DEF FindSession, Resumable
  <2>2. TypeOK'
    BY <1>3, <2>1 DEF FindSession, MovedTo, store
  <2>3. RowsRefer' /\ RowsPersist
    BY <1>3 DEF FindSession, RowsRefer, RowsPersist, store
  <2>4. Refers(p)'
    BY <2>1 DEF MovedTo, Refers, HoldsSession, HoldsChallenge
  <2> QED
    BY <2>1, <2>2, <2>3, <2>4, TypeInvFrame, StepNames
<1>4. CASE CreateSession(p)
  <2>1. PICK s \in Session :
            /\ session' = [session EXCEPT ![s].status = "AWAITING_OTP"]
            /\ LogEvent(s, "SESSION_STARTED", 0)
            /\ GotoWith(p, "lockout", s)
    BY <1>4 DEF CreateSession
  <2>2. MovedTo(p, "lockout") /\ req'[p].s = s
    BY <2>1, Moves, StepNames
  <2>3. chain' \in [Session -> Seq(Event)]
    BY <2>1, LogEventFacts DEF EventType
  <2>4. session' \in [Session -> SessionRow]
    BY <2>1, RowTypes DEF SessionStatus
  <2>5. TypeOK'
    BY <1>4, <2>2, <2>3, <2>4 DEF CreateSession, MovedTo
  <2>6. RowsRefer' /\ RowsPersist
    BY <1>4 DEF CreateSession, RowsRefer, RowsPersist
  <2>7. Refers(p)'
    BY <2>2 DEF MovedTo, Refers, HoldsSession, HoldsChallenge
  <2> QED
    BY <2>2, <2>5, <2>6, <2>7, TypeInvFrame, StepNames
<1>5. CASE CheckLockout(p)
  <2>1. req[p].s \in Session
    BY <1>5 DEF CheckLockout, At, Refers, HoldsSession
  <2>2. Finish(p) \/ GotoWith(p, "issue", req[p].s)
    BY <1>5 DEF CheckLockout
  <2>3. \/ MovedTo(p, "idle")
        \/ MovedTo(p, "issue") /\ req'[p].s \in Session
    BY <2>1, <2>2, Moves, StepNames
  <2>4. TypeOK'
    BY <1>5, <2>3 DEF CheckLockout, MovedTo, store
  <2>5. RowsRefer' /\ RowsPersist
    BY <1>5 DEF CheckLockout, RowsRefer, RowsPersist, store
  <2>6. Refers(p)'
    BY <2>3 DEF MovedTo, Refers, HoldsSession, HoldsChallenge
  <2> QED
    BY <2>3, <2>4, <2>5, <2>6, TypeInvFrame, StepNames
<1>6. CASE BeginIssue(p)
  <2>1. PICK n \in Challenge \cup {0} : req' = [req EXCEPT ![p].at = "insert", ![p].c = n]
    BY <1>6 DEF BeginIssue
  <2>2. req[p].s \in Session /\ req[p] \in Request
    BY <1>6 DEF BeginIssue, At, Refers, HoldsSession
  <2> DEFINE r == [req[p] EXCEPT !.at = "insert"]
  <2>3. r \in Request /\ r.at = "insert" /\ r.s = req[p].s
    BY <2>2, StepNames DEF Request
  <2>4. [r EXCEPT !.c = n] \in Request /\ [r EXCEPT !.c = n].at = r.at /\ [r EXCEPT !.c = n].s = r.s
    BY <2>3 DEF Request
  <2>5. req' = [req EXCEPT ![p] = [r EXCEPT !.c = n]]
    BY <2>1
  <2> HIDE DEF r
  <2>6. MovedTo(p, "insert") /\ req'[p].s \in Session
    BY <2>2, <2>3, <2>4, <2>5 DEF MovedTo
  <2>7. TypeOK'
    BY <1>6, <2>6 DEF BeginIssue, MovedTo, store
  <2>8. RowsRefer' /\ RowsPersist
    BY <1>6 DEF BeginIssue, RowsRefer, RowsPersist, store
  <2>9. Refers(p)'
    BY <2>6 DEF MovedTo, Refers, HoldsSession, HoldsChallenge
  <2> QED
    BY <2>6, <2>7, <2>8, <2>9, TypeInvFrame, StepNames
<1>7. CASE IssueOtp(p)
  <2>1. req[p].s \in Session
    BY <1>7 DEF IssueOtp, At, Refers, HoldsSession
  <2>2. MovedTo(p, "idle")
    BY <1>7, Moves, StepNames DEF IssueOtp
  <2>3. chain' \in [Session -> Seq(Event)]
    BY <1>7, <2>1, LogEventFacts DEF IssueOtp, EventType
  <2> DEFINE new == [NoChallenge EXCEPT !.status = "PENDING", !.session = req[p].s]
  <2>4. PICK c \in Challenge :
            /\ ChallengesUpTo(c - 1)
            /\ challenge' = [d \in Challenge |->
                  IF d = c THEN new
                  ELSE IF Superseded(p, d) THEN [challenge[d] EXCEPT !.status = "INVALIDATED"]
                  ELSE challenge[d]]
    BY <1>7 DEF IssueOtp
  <2>5. challenge[c].status = "NONE"
    BY <2>4, StoreAssumption DEF ChallengesUpTo, Challenge
  <2>6. new \in ChallengeRow /\ new.session = req[p].s /\ new.status = "PENDING"
    <3> DEFINE r == [NoChallenge EXCEPT !.status = "PENDING"]
    <3>1. NoChallenge \in ChallengeRow
      BY StoreAssumption DEF NoChallenge, ChallengeRow, OtpStatus
    <3>2. r \in ChallengeRow /\ r.status = "PENDING"
      BY <3>1, RowTypes DEF OtpStatus
    <3>3. new = [r EXCEPT !.session = req[p].s]
      OBVIOUS
    <3> HIDE DEF r, new
    <3> QED
      BY <2>1, <3>2, <3>3 DEF ChallengeRow
  <2> HIDE DEF new
  <2>7. \A d \in Challenge : d # c =>
           /\ challenge'[d] \in ChallengeRow
           /\ challenge'[d].session = challenge[d].session
           /\ challenge'[d].status # "NONE" <=> challenge[d].status # "NONE"
    BY <2>4, RowTypes DEF Superseded, OtpStatus
  <2>8. challenge'[c] = new
    BY <2>4
  <2>9. challenge' \in [Challenge -> ChallengeRow]
    BY <2>4, <2>6, <2>7, <2>8
  <2>10. TypeOK'
    BY <1>7, <2>2, <2>3, <2>9 DEF IssueOtp, MovedTo
  <2>11. RowsRefer' /\ RowsPersist
    BY <2>1, <2>5, <2>6, <2>7, <2>8 DEF RowsRefer, RowsPersist
  <2>12. Refers(p)'
    BY <2>2 DEF MovedTo, Refers, HoldsSession, HoldsChallenge
  <2> QED
    BY <2>2, <2>10, <2>11, <2>12, TypeInvFrame, StepNames
<1>8. CASE StartDocumentView(p)
  <2>1. MovedTo(p, "document") /\ req'[p].s \in Session
    BY <1>8, Moves, StepNames DEF StartDocumentView, Resumable
  <2>2. TypeOK'
    BY <1>8, <2>1 DEF StartDocumentView, MovedTo, store
  <2>3. RowsRefer' /\ RowsPersist
    BY <1>8 DEF StartDocumentView, RowsRefer, RowsPersist, store
  <2>4. Refers(p)'
    BY <2>1 DEF MovedTo, Refers, HoldsSession, HoldsChallenge
  <2> QED
    BY <2>1, <2>2, <2>3, <2>4, TypeInvFrame, StepNames
<1>9. CASE RecordDocumentView(p)
  <2>1. req[p].s \in Session
    BY <1>9 DEF RecordDocumentView, At, Refers, HoldsSession
  <2>2. MovedTo(p, "idle")
    BY <1>9, Moves, StepNames DEF RecordDocumentView
  <2>3. chain' \in [Session -> Seq(Event)]
    BY <1>9, <2>1, LogEventFacts DEF RecordDocumentView, EventType
  <2>4. TypeOK'
    BY <1>9, <2>2, <2>3 DEF RecordDocumentView, MovedTo
  <2>5. RowsRefer' /\ RowsPersist
    BY <1>9 DEF RecordDocumentView, RowsRefer, RowsPersist
  <2>6. Refers(p)'
    BY <2>2 DEF MovedTo, Refers, HoldsSession, HoldsChallenge
  <2> QED
    BY <2>2, <2>4, <2>5, <2>6, TypeInvFrame, StepNames
<1>10. CASE StartVerify(p)
  <2>1. PICK c \in Challenge, code \in {"wrong", "right"} :
            /\ EffectiveOtpStatus(c) = "PENDING"
            /\ Verifiable(challenge[c].session)
            /\ req' = [req EXCEPT ![p] =
                         [at |-> code, s |-> challenge[c].session, c |-> c, tries |-> challenge[c].attempts,
                          sver |-> session[challenge[c].session].version, rver |-> recipient.version]]
    BY <1>10 DEF StartVerify
  <2>2. challenge[c].status = "PENDING" /\ challenge[c].attempts < MaxAttempts
    BY <2>1, StoreAssumption DEF EffectiveOtpStatus, ChallengeRow
  <2>3. challenge[c].session \in Session
    BY <2>2 DEF RowsRefer
  <2>4. MovedTo(p, code)
    <3>1. /\ challenge[c].attempts \in 0..MaxAttempts
          /\ session[challenge[c].session].version \in Nat
          /\ recipient.version \in Nat
      BY <2>3 DEF ChallengeRow, SessionRow, RecipientRow
    <3> QED
      BY <2>1, <2>3, <3>1, StepNames DEF MovedTo, Request
  <2>5. TypeOK'
    BY <1>10, <2>4 DEF StartVerify, MovedTo, store
  <2>6. RowsRefer' /\ RowsPersist
    BY <1>10 DEF StartVerify, RowsRefer, RowsPersist, store
  <2>7. Refers(p)'
    BY <1>10, <2>1, <2>2, <2>3 DEF StartVerify, store, Refers
  <2> QED
    BY <2>4, <2>5, <2>6, <2>7, TypeInvFrame, StepNames
<1>11. CASE RecordFailure(p)
  <2> DEFINE c == req[p].c
             x == IF CountedTries(p) >= MaxAttempts THEN "LOCKED" ELSE challenge[c].status
  <2>1. /\ req[p].s \in Session
        /\ c \in Challenge
        /\ challenge[c].status # "NONE"
        /\ CountedTries(p) \in 0..MaxAttempts
    BY <1>11, StoreAssumption DEF RecordFailure, At, Refers, HoldsSession, HoldsChallenge, CountedTries, Request
  <2>2. MovedTo(p, "idle")
    BY <1>11, Moves, StepNames DEF RecordFailure
  <2>3. chain' \in [Session -> Seq(Event)]
    BY <1>11, <2>1, LogEventFacts DEF RecordFailure, EventType
  <2>4. challenge' = [challenge EXCEPT ![c] = [challenge[c] EXCEPT !.attempts = CountedTries(p), !.status = x]]
    BY <1>11 DEF RecordFailure
  <2>5. /\ challenge' \in [Challenge -> ChallengeRow]
        /\ challenge'[c].session = challenge[c].session
        /\ challenge'[c].status # "NONE"
    <3>1. challenge[c] \in ChallengeRow
      BY <2>1
    <3>2. x \in OtpStatus /\ x # "NONE"
      BY <2>1, <3>1 DEF ChallengeRow, OtpStatus
    <3> HIDE DEF x
    <3>3. PICK k : k = [challenge[c] EXCEPT !.attempts = CountedTries(p), !.status = x]
      OBVIOUS
    <3>4. k \in ChallengeRow /\ k.session = challenge[c].session /\ k.status # "NONE"
      BY <2>1, <3>1, <3>2, <3>3 DEF ChallengeRow
    <3>5. challenge' = [challenge EXCEPT ![c] = k]
      BY <2>4, <3>3
    <3> QED
      BY <2>1, <3>4, <3>5
  <2>6. RowsRefer' /\ RowsPersist
    BY <2>1, <2>4, <2>5 DEF RowsRefer, RowsPersist
  <2>7. TypeOK'
    BY <1>11, <2>2, <2>3, <2>5 DEF RecordFailure, MovedTo
  <2>8. Refers(p)'
    BY <2>2 DEF MovedTo, Refers, HoldsSession, HoldsChallenge
  <2> QED
    BY <2>2, <2>6, <2>7, <2>8, TypeInvFrame, StepNames
<1>12. CASE AdvanceVerified(p)
  <2> DEFINE c == req[p].c
             s == req[p].s
  <2>1. s \in Session /\ c \in Challenge /\ challenge[c].status # "NONE"
    BY <1>12 DEF AdvanceVerified, At, Refers, HoldsSession, HoldsChallenge
  <2>2. MovedTo(p, "idle")
    BY <1>12, Moves, StepNames DEF AdvanceVerified
  <2>3. chain' \in [Session -> Seq(Event)]
    BY <1>12, <2>1, LogEventFacts DEF AdvanceVerified, EventType
  <2>4. challenge' = [challenge EXCEPT ![c] = [challenge[c] EXCEPT !.status = "VERIFIED"]]
    BY <1>12 DEF AdvanceVerified
  <2>5. /\ challenge' \in [Challenge -> ChallengeRow]
        /\ challenge'[c].session = challenge[c].session
        /\ challenge'[c].status = "VERIFIED"
    BY <2>1, <2>4, RowTypes DEF OtpStatus
  <2>6. session' \in [Session -> SessionRow]
    <3>1. session' = [session EXCEPT ![s] = [session[s] EXCEPT !.status = "OTP_VERIFIED", !.version = @ + 1]]
      BY <1>12 DEF AdvanceVerified
    <3> QED
      BY <2>1, <3>1, VerifiedSession
  <2>7. recipient' \in RecipientRow
    <3>1. recipient' = [recipient EXCEPT !.status = "OTP_VERIFIED", !.version = @ + 1]
      BY <1>12 DEF AdvanceVerified
    <3> QED
      BY <3>1, VerifiedRecipient
  <2>8. TypeOK'
    BY <1>12, <2>2, <2>3, <2>5, <2>6, <2>7 DEF AdvanceVerified, MovedTo
  <2>9. RowsRefer' /\ RowsPersist
    BY <2>1, <2>4, <2>5 DEF RowsRefer, RowsPersist
  <2>10. Refers(p)'
    BY <2>2 DEF MovedTo, Refers, HoldsSession, HoldsChallenge
  <2> QED
    BY <2>2, <2>8, <2>9, <2>10, TypeInvFrame, StepNames
<1>13. CASE StartAccept(p)
  <2>1. PICK c \in Challenge : DecisionReads(c, "ACCEPTED") /\ Decide(p, c, "accept")
    BY <1>13 DEF StartAccept
  <2>2. challenge[c].status = "VERIFIED" /\ challenge[c].session \in Session
    BY <2>1 DEF DecisionReads, ChallengeProves, RowsRefer
  <2>3. MovedTo(p, "accept") /\ req'[p].s = challenge[c].session /\ req'[p].c = c
    BY <2>1, <2>2, DecideMoves, StepNames
  <2>4. TypeOK'
    BY <1>13, <2>3 DEF StartAccept, MovedTo, store
  <2>5. RowsRefer' /\ RowsPersist
    BY <1>13 DEF StartAccept, RowsRefer, RowsPersist, store
  <2>6. Refers(p)'
    BY <1>13, <2>2, <2>3 DEF StartAccept, store, MovedTo, Refers, HoldsSession
  <2> QED
    BY <2>3, <2>4, <2>5, <2>6, TypeInvFrame, StepNames
<1>14. CASE CommitAccept(p)
  <2>1. req[p].s \in Session /\ req[p].c \in Challenge
    BY <1>14 DEF CommitAccept, At, Refers, HoldsSession, HoldsChallenge
  <2>2. MovedTo(p, "idle")
    BY <1>14, Moves, StepNames DEF CommitAccept
  <2>3. chain' \in [Session -> Seq(Event)]
    BY <1>14, <2>1, LogEventFacts DEF CommitAccept, EventType
  <2>4. offer' \in OfferRow /\ recipient' \in RecipientRow
    BY <1>14 DEF CommitAccept, OfferRow, OfferStatus, RecipientRow, RecipientStatus
  <2>5. session' = [session EXCEPT ![req[p].s] = [session[req[p].s] EXCEPT !.status = "ACCEPTED"]]
    BY <1>14 DEF CommitAccept
  <2>6. session' \in [Session -> SessionRow]
    BY <2>1, <2>5, RowTypes DEF SessionStatus
  <2>7. record' \in SUBSET RecordRow
    BY <1>14, <2>1 DEF CommitAccept, RecordRow
  <2>8. TypeOK'
    BY <1>14, <2>2, <2>3, <2>4, <2>6, <2>7 DEF CommitAccept, DropSchedule, MovedTo
  <2>9. RowsRefer' /\ RowsPersist
    BY <1>14 DEF CommitAccept, RowsRefer, RowsPersist
  <2>10. Refers(p)'
    BY <2>2 DEF MovedTo, Refers, HoldsSession, HoldsChallenge
  <2> QED
    BY <2>2, <2>8, <2>9, <2>10, TypeInvFrame, StepNames
<1>15. CASE StartDecline(p)
  <2>1. PICK c \in Challenge : DecisionReads(c, "DECLINED") /\ Decide(p, c, "decline")
    BY <1>15 DEF StartDecline
  <2>2. challenge[c].status = "VERIFIED" /\ challenge[c].session \in Session
    BY <2>1 DEF DecisionReads, ChallengeProves, RowsRefer
  <2>3. MovedTo(p, "decline") /\ req'[p].s = challenge[c].session /\ req'[p].c = c
    BY <2>1, <2>2, DecideMoves, StepNames
  <2>4. TypeOK'
    BY <1>15, <2>3 DEF StartDecline, MovedTo, store
  <2>5. RowsRefer' /\ RowsPersist
    BY <1>15 DEF StartDecline, RowsRefer, RowsPersist, store
  <2>6. Refers(p)'
    BY <1>15, <2>2, <2>3 DEF StartDecline, store, MovedTo, Refers, HoldsSession
  <2> QED
    BY <2>3, <2>4, <2>5, <2>6, TypeInvFrame, StepNames
<1>16. CASE CommitDecline(p)
  <2>1. req[p].s \in Session
    BY <1>16 DEF CommitDecline, At, Refers, HoldsSession
  <2>2. MovedTo(p, "unschedule")
    BY <1>16, Moves, StepNames DEF CommitDecline
  <2>3. chain' \in [Session -> Seq(Event)]
    BY <1>16, <2>1, LogEventFacts DEF CommitDecline, EventType
  <2>4. offer' \in OfferRow /\ recipient' \in RecipientRow
    BY <1>16 DEF CommitDecline, OfferRow, OfferStatus, RecipientRow, RecipientStatus
  <2>5. session' = [session EXCEPT ![req[p].s] = [session[req[p].s] EXCEPT !.status = "DECLINED"]]
    BY <1>16 DEF CommitDecline
  <2>6. session' \in [Session -> SessionRow]
    BY <2>1, <2>5, RowTypes DEF SessionStatus
  <2>7. TypeOK'
    BY <1>16, <2>2, <2>3, <2>4, <2>6 DEF CommitDecline, MovedTo
  <2>8. RowsRefer' /\ RowsPersist
    BY <1>16 DEF CommitDecline, RowsRefer, RowsPersist
  <2>9. Refers(p)'
    BY <2>2 DEF MovedTo, Refers, HoldsSession, HoldsChallenge
  <2> QED
    BY <2>2, <2>7, <2>8, <2>9, TypeInvFrame, StepNames
<1> QED
  BY <1>1, <1>2, <1>3, <1>4, <1>5, <1>6, <1>7, <1>8, <1>9, <1>10, <1>11, <1>12, <1>13, <1>14, <1>15, <1>16 DEF RecipientStep

LEMMA TypeInvNext == TypeInv /\ [Next]_vars => TypeInv'
<1> SUFFICES ASSUME TypeInv, [Next]_vars PROVE TypeInv'
  OBVIOUS
<1>1. CASE LapseOffer
  BY <1>1 DEF LapseOffer, TypeInv, TypeOK, RowsRefer, Refers, OfferRow
<1>2. ASSUME NEW s \in Session, LapseSession(s) PROVE TypeInv'
  BY <1>2 DEF LapseSession, TypeInv, TypeOK, RowsRefer, Refers, SessionRow
<1>3. ASSUME NEW c \in Challenge, LapseChallenge(c) PROVE TypeInv'
  <2> USE DEF TypeInv, TypeOK
  <2>1. challenge' \in [Challenge -> ChallengeRow]
    BY <1>3 DEF LapseChallenge, ChallengeRow
  <2>2. \A d \in Challenge : /\ challenge'[d].status = challenge[d].status
                             /\ challenge'[d].session = challenge[d].session
    BY <1>3 DEF LapseChallenge, ChallengeRow
  <2> QED
    BY <1>3, <2>1, <2>2 DEF LapseChallenge, RowsRefer, Refers
<1>4. ASSUME NEW p \in Procs, Abort(p) PROVE TypeInv'
  <2> USE DEF TypeInv, TypeOK
  <2>1. MovedTo(p, "idle")
    BY <1>4, Moves, StepNames DEF Abort
  <2>2. TypeOK' /\ RowsRefer' /\ RowsPersist
    BY <1>4, <2>1 DEF Abort, store, MovedTo, RowsRefer, RowsPersist
  <2>3. Refers(p)'
    BY <2>1 DEF MovedTo, Refers, HoldsSession, HoldsChallenge
  <2> QED
    BY <2>1, <2>2, <2>3, TypeInvFrame, StepNames
<1>5. CASE UNCHANGED vars
  BY <1>5 DEF vars, TypeInv, TypeOK, RowsRefer, Refers
<1> QED
  BY <1>1, <1>2, <1>3, <1>4, <1>5, SenderTypes, RecipientTypes, SweepTypes DEF Next, Tick, Act

\* Every row and every request in flight keeps its type, and no reference
\* between them dangles, for any number of sessions, codes and requests.
THEOREM TypeCorrect == Spec => [](TypeOK /\ RowsRefer)
<1>1. TypeInv => TypeOK /\ RowsRefer
  BY DEF TypeInv
<1> QED
  BY <1>1, TypeInvInit, TypeInvNext, PTL DEF Spec

-----------------------------------------------------------------------------
(* One decision.  Neither that there is one at most, nor that the record   *)
(* and the event chain tell the same story, is inductive alone: what makes *)
(* them so is that a decision only ever exists once the offer has left     *)
(* SENT for good, and the compare-and-swap of both decisions is on SENT.   *)

Undecided ==
    /\ record = {}
    /\ \A s \in Session : \A i \in Indices(s) : ~Decision(chain[s][i])

DecisionInv ==
    /\ offer.status \in {"DRAFT", "SENT"} => Undecided
    /\ OneDecision
    /\ RecordMatchesChain

\* What every step but a decision leaves alone.
Quiet ==
    /\ record' = record
    /\ \A s \in Session :
          /\ Indices(s) \subseteq Indices(s)'
          /\ \A i \in Indices(s) : chain'[s][i] = chain[s][i]
          /\ \A i \in Indices(s)' : i \notin Indices(s) => ~Decision(chain'[s][i])
    /\ offer'.status \in {"DRAFT", "SENT"} => offer.status \in {"DRAFT", "SENT"}
    /\ offer'.status \in {"ACCEPTED", "DECLINED"} => offer.status = offer'.status

LEMMA QuietKeeps == DecisionInv /\ Quiet => DecisionInv'
<1> SUFFICES ASSUME DecisionInv, Quiet PROVE DecisionInv'
  OBVIOUS
<1>1. \A s \in Session : \A i \in Indices(s)' :
          /\ Decision(chain'[s][i]) => i \in Indices(s) /\ chain'[s][i] = chain[s][i]
          /\ Is(s, i, "OFFER_ACCEPTED")' => i \in Indices(s) /\ Is(s, i, "OFFER_ACCEPTED")
          /\ Is(s, i, "OFFER_DECLINED")' => i \in Indices(s) /\ Is(s, i, "OFFER_DECLINED")
  BY DEF Quiet, Decision, Is
<1>2. \A s \in Session : \A i \in Indices(s) : i \in Indices(s)' /\ chain'[s][i] = chain[s][i]
  BY DEF Quiet
<1>3. (offer.status \in {"DRAFT", "SENT"} => Undecided)'
  BY <1>1 DEF DecisionInv, Quiet, Undecided
<1>4. OneDecision'
  BY <1>1 DEF DecisionInv, OneDecision
<1>5. RecordMatchesChain'
  <2>1. (\A s \in Session : (\E i \in Indices(s) : Is(s, i, "OFFER_ACCEPTED"))
                               <=> (\E r \in record : r.session = s))'
    BY <1>1, <1>2 DEF DecisionInv, Quiet, RecordMatchesChain, Is
  <2>2. (offer.status = "ACCEPTED" => record # {})'
    BY DEF DecisionInv, Quiet, RecordMatchesChain
  <2>3. (offer.status = "DECLINED" =>
           \E s \in Session : \E i \in Indices(s) : Is(s, i, "OFFER_DECLINED"))'
    BY <1>2 DEF DecisionInv, Quiet, RecordMatchesChain, Is
  <2> QED
    BY <2>1, <2>2, <2>3 DEF RecordMatchesChain
<1> QED
  BY <1>3, <1>4, <1>5 DEF DecisionInv

\* Appending an event that is no decision is quiet.
LEMMA QuietAppend ==
    ASSUME chain \in [Session -> Seq(Event)],
           NEW s \in Session, NEW type \in EventType, NEW c \in Challenge \cup {0},
           LogEvent(s, type, c), type \notin {"OFFER_ACCEPTED", "OFFER_DECLINED"},
           record' = record, offer' = offer
    PROVE  Quiet
<1>1. /\ \A t \in Session : t # s => chain'[t] = chain[t]
      /\ Indices(s)' = 1..(Len(chain[s]) + 1)
      /\ \A i \in Indices(s) : chain'[s][i] = chain[s][i]
      /\ chain'[s][Len(chain[s]) + 1] = [type |-> type, challenge |-> c]
      /\ Len(chain[s]) \in Nat /\ Indices(s) = 1..Len(chain[s])
  BY LogEventFacts
<1>2. \A t \in Session : t # s => Indices(t)' = Indices(t) /\ \A i \in Indices(t) : chain'[t][i] = chain[t][i]
  BY <1>1 DEF Indices
<1>3. /\ Indices(s) \subseteq Indices(s)'
      /\ \A i \in Indices(s)' : i \notin Indices(s) => ~Decision(chain'[s][i])
  <2>1. \A i \in Indices(s)' : i \notin Indices(s) => i = Len(chain[s]) + 1
    BY <1>1
  <2> QED
    BY <1>1, <2>1 DEF Decision
<1> QED
  BY <1>1, <1>2, <1>3 DEF Quiet

LEMMA QuietUnchanged ==
    ASSUME UNCHANGED <<record, chain>>,
           offer'.status \in {"DRAFT", "SENT"} => offer.status \in {"DRAFT", "SENT"},
           offer'.status \in {"ACCEPTED", "DECLINED"} => offer.status = offer'.status
    PROVE  Quiet
BY DEF Quiet, Indices

LEMMA QuietSteps ==
    ASSUME TypeInv, [Next]_vars,
           \A p \in Procs : ~CommitAccept(p) /\ ~CommitDecline(p)
    PROVE  Quiet
<1> USE QuietUnchanged DEF TypeInv, TypeOK
<1>1. ASSUME NEW p \in Procs, SenderStep(p) PROVE Quiet
  BY <1>1 DEF SenderStep, StartSend, CommitSend, ScheduleReminders, StartResend, ReplaceToken,
              StartRevoke, CommitRevoke, CancelReminders, store, OfferRow
<1>2. ASSUME NEW p \in Procs, SweepStep(p) PROVE Quiet
  BY <1>2 DEF SweepStep, FindExpiredOffer, CommitExpiry, ExpireSessions, ExpireChallenges, store, OfferRow
<1>3. ASSUME NEW p \in Procs, RecipientStep(p) PROVE Quiet
  <2>1. CASE CreateSession(p)
    <3>1. PICK s \in Session : LogEvent(s, "SESSION_STARTED", 0)
      BY <2>1 DEF CreateSession
    <3> QED
      BY <2>1, <3>1, QuietAppend DEF CreateSession, EventType
  <2>2. CASE IssueOtp(p)
    <3>1. req[p].s \in Session
      BY <2>2 DEF IssueOtp, At, Refers, HoldsSession
    <3> QED
      BY <2>2, <3>1, QuietAppend DEF IssueOtp, EventType
  <2>3. CASE RecordDocumentView(p)
    <3>1. req[p].s \in Session
      BY <2>3 DEF RecordDocumentView, At, Refers, HoldsSession
    <3> QED
      BY <2>3, <3>1, QuietAppend DEF RecordDocumentView, EventType
  <2>4. CASE RecordFailure(p)
    <3>1. req[p].s \in Session /\ req[p].c \in Challenge
      BY <2>4 DEF RecordFailure, At, Refers, HoldsSession, HoldsChallenge
    <3>2. PICK type \in {"OTP_MAX_ATTEMPTS", "OTP_ATTEMPT_FAILED"} : LogEvent(req[p].s, type, req[p].c)
      BY <2>4 DEF RecordFailure
    <3> QED
      BY <2>4, <3>1, <3>2, QuietAppend DEF RecordFailure, EventType
  <2>5. CASE AdvanceVerified(p)
    <3>1. req[p].s \in Session /\ req[p].c \in Challenge
      BY <2>5 DEF AdvanceVerified, At, Refers, HoldsSession, HoldsChallenge
    <3> QED
      BY <2>5, <3>1, QuietAppend DEF AdvanceVerified, EventType
  <2>6. CASE \/ StartOtpRequest(p) \/ MarkViewed(p) \/ FindSession(p) \/ CheckLockout(p) \/ BeginIssue(p)
             \/ StartDocumentView(p) \/ StartVerify(p) \/ StartAccept(p) \/ StartDecline(p)
    BY <2>6 DEF StartOtpRequest, MarkViewed, FindSession, CheckLockout, BeginIssue,
                StartDocumentView, StartVerify, StartAccept, StartDecline, store
  <2> QED
    BY <1>3, <2>1, <2>2, <2>3, <2>4, <2>5, <2>6 DEF RecipientStep
<1>4. ASSUME NEW p \in Procs, Abort(p) PROVE Quiet
  BY <1>4 DEF Abort, store
<1>5. CASE Tick
  BY <1>5 DEF Tick, LapseOffer, LapseSession, LapseChallenge, OfferRow
<1>6. CASE UNCHANGED vars
  BY <1>6 DEF vars
<1> QED
  BY <1>1, <1>2, <1>3, <1>4, <1>5, <1>6 DEF Next, Act

\* A decision's compare-and-swap found the offer SENT: its event is the only
\* decision, in any session.
LEMMA FirstDecision ==
    ASSUME TypeInv, DecisionInv, StillSent,
           NEW s \in Session, NEW type \in {"OFFER_ACCEPTED", "OFFER_DECLINED"},
           LogEvent(s, type, 0)
    PROVE  \E k \in Indices(s)' :
              /\ chain'[s][k].type = type
              /\ \A t \in Session : \A i \in Indices(t)' : Decision(chain'[t][i]) => t = s /\ i = k
<1>1. /\ \A t \in Session : t # s => chain'[t] = chain[t]
      /\ Indices(s)' = 1..(Len(chain[s]) + 1)
      /\ \A i \in Indices(s) : chain'[s][i] = chain[s][i]
      /\ chain'[s][Len(chain[s]) + 1] = [type |-> type, challenge |-> 0]
      /\ Len(chain[s]) \in Nat /\ Indices(s) = 1..Len(chain[s])
  BY LogEventFacts DEF TypeInv, TypeOK, EventType
<1>2. Undecided
  BY DEF DecisionInv, StillSent
<1>3. PICK k \in Indices(s)' : k = Len(chain[s]) + 1
  <2>1. Len(chain[s]) + 1 \in Indices(s)'
    BY <1>1
  <2> QED
    BY <2>1
<1>4. chain'[s][k].type = type
  BY <1>1, <1>3
<1>5. ASSUME NEW t \in Session, NEW i \in Indices(t)', Decision(chain'[t][i])
      PROVE  t = s /\ i = k
  <2>1. CASE t # s
    BY <1>1, <1>2, <1>5, <2>1 DEF Undecided, Indices
  <2>2. CASE t = s /\ i # k
    <3>1. i \in Indices(s) /\ chain'[s][i] = chain[s][i]
      BY <1>1, <1>3, <2>2
    <3> QED
      BY <1>2, <1>5, <2>2, <3>1 DEF Undecided
  <2> QED
    BY <2>1, <2>2
<1> QED
  BY <1>4, <1>5

LEMMA AcceptDecides ==
    ASSUME TypeInv, DecisionInv, NEW p \in Procs, CommitAccept(p)
    PROVE  DecisionInv'
<1>1. PICK s \in Session : s = req[p].s
  BY DEF CommitAccept, At, TypeInv, Refers, HoldsSession
<1>2. /\ StillSent
      /\ record = {}
      /\ record' = record \cup {[session |-> s, challenge |-> req[p].c]}
      /\ LogEvent(s, "OFFER_ACCEPTED", 0)
  BY <1>1 DEF CommitAccept
<1>3. offer'.status = "ACCEPTED"
  BY DEF CommitAccept, TypeInv, TypeOK, OfferRow
<1>4. PICK k \in Indices(s)' :
         /\ chain'[s][k].type = "OFFER_ACCEPTED"
         /\ \A t \in Session : \A i \in Indices(t)' : Decision(chain'[t][i]) => t = s /\ i = k
  BY <1>2, FirstDecision
<1>5. OneDecision'
  BY <1>4 DEF OneDecision
<1>6. \A t \in Session : (\E i \in Indices(t)' : chain'[t][i].type = "OFFER_ACCEPTED") <=> t = s
  BY <1>4 DEF Decision
<1>7. \A t \in Session : (\E r \in record' : r.session = t) <=> t = s
  BY <1>2
<1>8. RecordMatchesChain'
  BY <1>2, <1>3, <1>6, <1>7 DEF RecordMatchesChain, Is
<1> QED
  BY <1>3, <1>5, <1>8 DEF DecisionInv

LEMMA DeclineDecides ==
    ASSUME TypeInv, DecisionInv, NEW p \in Procs, CommitDecline(p)
    PROVE  DecisionInv'
<1>1. PICK s \in Session : s = req[p].s
  BY DEF CommitDecline, At, TypeInv, Refers, HoldsSession
<1>2. /\ StillSent
      /\ record' = record
      /\ LogEvent(s, "OFFER_DECLINED", 0)
  BY <1>1 DEF CommitDecline
<1>3. offer'.status = "DECLINED"
  BY DEF CommitDecline, TypeInv, TypeOK, OfferRow
<1>4. PICK k \in Indices(s)' :
         /\ chain'[s][k].type = "OFFER_DECLINED"
         /\ \A t \in Session : \A i \in Indices(t)' : Decision(chain'[t][i]) => t = s /\ i = k
  BY <1>2, FirstDecision
<1>5. OneDecision'
  BY <1>4 DEF OneDecision
<1>6. \A t \in Session : \A i \in Indices(t)' : chain'[t][i].type # "OFFER_ACCEPTED"
  BY <1>4 DEF Decision
<1>7. record' = {}
  BY <1>2 DEF DecisionInv, Undecided, StillSent
<1>8. RecordMatchesChain'
  BY <1>3, <1>4, <1>6, <1>7 DEF RecordMatchesChain, Is
<1> QED
  BY <1>3, <1>5, <1>8 DEF DecisionInv

LEMMA DecisionInit == Init => DecisionInv
<1> SUFFICES ASSUME Init PROVE DecisionInv
  OBVIOUS
<1>1. \A s \in Session : Indices(s) = {}
  BY DEF Init, StoreInit, Indices
<1>2. record = {} /\ offer.status = "DRAFT"
  BY DEF Init, StoreInit
<1> QED
  BY <1>1, <1>2 DEF DecisionInv, Undecided, OneDecision, RecordMatchesChain

LEMMA DecisionNext == TypeInv /\ DecisionInv /\ [Next]_vars => DecisionInv'
BY AcceptDecides, DeclineDecides, QuietSteps, QuietKeeps

\* Whatever sessions, codes, requests and jobs race, the offer is never
\* accepted twice, nor accepted and declined.
THEOREM DecidedOnce == Spec => []OneDecision
<1>1. DecisionInv => OneDecision
  BY DEF DecisionInv
<1> QED
  BY <1>1, TypeInvInit, TypeInvNext, DecisionInit, DecisionNext, PTL DEF Spec

\* The acceptance record and the OFFER_ACCEPTED event exist together or not at
\* all, and an offer shown as decided has its decision on file.
THEOREM EvidenceComplete == Spec => []RecordMatchesChain
<1>1. DecisionInv => RecordMatchesChain
  BY DEF DecisionInv
<1> QED
  BY <1>1, TypeInvInit, TypeInvNext, DecisionInit, DecisionNext, PTL DEF Spec

-----------------------------------------------------------------------------
(* The proof of the inbox.  What makes ProofStands inductive is that a     *)
(* session's version tells whether its inbox is proven, that a VERIFIED    *)
(* code has its event on the session's chain, and that a request in flight *)
(* holds what it read: the unproven version, or the proof it rests on.     *)

Proves(s, c) == \E i \in Indices(s) : chain[s][i] = [type |-> "OTP_VERIFIED", challenge |-> c]
Unproven(s)  == \A i \in Indices(s) : ~Is(s, i, "OTP_VERIFIED")
Decided(s)   == \E i \in Indices(s) : Decision(chain[s][i])

SessionsTell ==
    \A s \in Session :
        /\ session[s].version = 1 <=> Unproven(s)
        /\ session[s].status \in {"NONE", "AWAITING_OTP"} => session[s].version = 1
        /\ session[s].status \in {"ACCEPTED", "DECLINED"} => ~Unproven(s) /\ Decided(s)

CodesTell ==
    \A c \in Challenge : challenge[c].status = "VERIFIED" => Proves(challenge[c].session, c)

LinkSent == recipient.token = "live" => offer.status # "DRAFT"

Holding(p) ==
    /\ req[p].at = "right" => req[p].sver = 1
    /\ req[p].at \in {"accept", "decline"} => Proves(req[p].s, req[p].c)
    /\ req[p].at \in {"right", "resend", "revoke", "expire"} => offer.status # "DRAFT"

ProvenInv ==
    /\ SessionsTell
    /\ CodesTell
    /\ LinkSent
    /\ \A p \in Procs : Holding(p)
    /\ ProofStands

\* Chains only grow, and by no event of the given type.
Grows ==
    \A s \in Session : \A i \in Indices(s) : i \in Indices(s)' /\ chain'[s][i] = chain[s][i]

NoNewProof ==
    \A s \in Session : \A i \in Indices(s)' :
        Is(s, i, "OTP_VERIFIED")' => i \in Indices(s) /\ Is(s, i, "OTP_VERIFIED")

\* What every step but a verification does to the rows.
RowsFollow ==
    /\ \A s \in Session :
          /\ session'[s].version = session[s].version
          /\ session'[s].status \in {"NONE", "AWAITING_OTP"} => session[s].version = 1
          /\ session'[s].status \in {"ACCEPTED", "DECLINED"} =>
                session'[s].status = session[s].status \/ (~Unproven(s) /\ Decided(s)')
    /\ \A c \in Challenge : challenge'[c].status = "VERIFIED" =>
          challenge[c].status = "VERIFIED" /\ challenge'[c].session = challenge[c].session
    /\ offer.status # "DRAFT" => offer'.status # "DRAFT"
    /\ recipient'.token = "live" => recipient.token = "live" \/ offer'.status # "DRAFT"

LEMMA ProofsPersist ==
    ASSUME Grows, NEW s \in Session, NEW c, Proves(s, c)
    PROVE  Proves(s, c)'
BY DEF Grows, Proves

\* The requests that did not move still hold what they read.
LEMMA OthersHold ==
    ASSUME TypeInv, Grows, NEW q \in Procs, Holding(q), req'[q] = req[q],
           offer.status # "DRAFT" => offer'.status # "DRAFT"
    PROVE  Holding(q)'
<1>1. req[q].at \in {"accept", "decline"} => req[q].s \in Session
  BY DEF TypeInv, Refers, HoldsSession
<1> QED
  BY <1>1, ProofsPersist DEF Holding

LEMMA Uneventful ==
    ASSUME TypeInv, ProvenInv, Grows, NoNewProof, RowsFollow, EvidenceOrdered',
           \A p \in Procs : Holding(p)'
    PROVE  ProvenInv'
<1>1. \A s \in Session : Unproven(s)' <=> Unproven(s)
  BY DEF Grows, NoNewProof, Unproven, Is
<1>2. \A s \in Session : Decided(s) => Decided(s)'
  BY DEF Grows, Decided
<1>3. SessionsTell'
  BY <1>1, <1>2 DEF ProvenInv, SessionsTell, RowsFollow
<1>4. CodesTell'
  BY ProofsPersist DEF ProvenInv, CodesTell, RowsFollow, TypeInv, RowsRefer
<1>5. LinkSent'
  BY DEF ProvenInv, LinkSent, RowsFollow
<1>6. ProvenOnce'
  BY DEF ProvenInv, ProofStands, ProvenOnce, NoNewProof
<1> QED
  BY <1>3, <1>4, <1>5, <1>6 DEF ProvenInv, ProofStands

\* When sessions and codes keep their status, or lose it, the rows follow.
LEMMA RowsAlone ==
    ASSUME SessionsTell,
           \A s \in Session :
              /\ session'[s].version = session[s].version
              /\ session'[s].status = session[s].status \/ session'[s].status = "EXPIRED",
           \A c \in Challenge : challenge'[c].status = "VERIFIED" =>
              challenge[c].status = "VERIFIED" /\ challenge'[c].session = challenge[c].session,
           offer.status # "DRAFT" => offer'.status # "DRAFT",
           recipient'.token = "live" => recipient.token = "live" \/ offer'.status # "DRAFT"
    PROVE  RowsFollow
<1>1. ASSUME NEW s \in Session
      PROVE  /\ session'[s].version = session[s].version
             /\ session'[s].status \in {"NONE", "AWAITING_OTP"} => session[s].version = 1
             /\ session'[s].status \in {"ACCEPTED", "DECLINED"} =>
                   session'[s].status = session[s].status \/ (~Unproven(s) /\ Decided(s)')
  BY DEF SessionsTell
<1> QED
  BY <1>1, Zenon DEF RowsFollow

\* Evidence once there stays there.
LEMMA EvidencePersists ==
    ASSUME TypeInv, ProofStands, Grows, record' = record
    PROVE  EvidenceOrdered'
BY DEF ProofStands, EvidenceOrdered, Grows, Is, TypeInv, TypeOK, RecordRow

LEMMA ChainsAlone == chain' = chain => Grows /\ NoNewProof
BY DEF Grows, NoNewProof, Indices, Is

\* An event is appended to one session: the chains grow, and a proof is new
\* only when that event is one.
LEMMA AppendGrows ==
    ASSUME chain \in [Session -> Seq(Event)],
           NEW s \in Session, NEW type \in EventType, NEW c \in Challenge \cup {0},
           LogEvent(s, type, c)
    PROVE  /\ Grows
           /\ type # "OTP_VERIFIED" => NoNewProof
<1>1. /\ \A t \in Session : t # s => chain'[t] = chain[t]
      /\ Indices(s)' = 1..(Len(chain[s]) + 1)
      /\ \A i \in Indices(s) : chain'[s][i] = chain[s][i]
      /\ chain'[s][Len(chain[s]) + 1] = [type |-> type, challenge |-> c]
      /\ Len(chain[s]) \in Nat /\ Indices(s) = 1..Len(chain[s])
  BY LogEventFacts
<1>2. \A t \in Session : t # s => Indices(t)' = Indices(t) /\ chain'[t] = chain[t]
  BY <1>1 DEF Indices
<1>3. \A i \in Indices(s) : i \in Indices(s)'
  BY <1>1
<1>4. \A i \in Indices(s)' : i \in Indices(s) \/ i = Len(chain[s]) + 1
  BY <1>1
<1>5. Grows
  BY <1>1, <1>2, <1>3 DEF Grows
<1>6. ASSUME type # "OTP_VERIFIED" PROVE NoNewProof
  <2>1. \A i \in Indices(s)' : Is(s, i, "OTP_VERIFIED")' => i \in Indices(s) /\ Is(s, i, "OTP_VERIFIED")
    BY <1>1, <1>4, <1>6 DEF Is
  <2> QED
    BY <1>2, <2>1 DEF NoNewProof, Is
<1> QED
  BY <1>5, <1>6

\* The requests a step leaves in a place where nothing need be held.
LEMMA HoldsNothing ==
    ASSUME TypeInv, ProvenInv, Grows, NEW p \in Procs, NEW step,
           step \notin {"right", "accept", "decline", "resend", "revoke", "expire"},
           MovedTo(p, step), offer.status # "DRAFT" => offer'.status # "DRAFT"
    PROVE  \A q \in Procs : Holding(q)'
<1>1. Holding(p)'
  BY DEF MovedTo, Holding
<1> QED
  BY <1>1, OthersHold DEF MovedTo, ProvenInv

\* What the sender does proves nothing and takes no proof away.
LEMMA SenderProves == ASSUME TypeInv, ProvenInv, NEW p \in Procs, SenderStep(p) PROVE ProvenInv' /\ NoNewProof
<1> USE DEF TypeInv, TypeOK
<1>1. Grows /\ NoNewProof /\ EvidenceOrdered'
  <2>1. chain' = chain /\ record' = record
    BY DEF SenderStep, StartSend, CommitSend, ScheduleReminders, StartResend, ReplaceToken,
           StartRevoke, CommitRevoke, CancelReminders, store
  <2> QED
    BY <2>1, ChainsAlone, EvidencePersists DEF ProvenInv
<1>2. offer.status # "DRAFT" => offer'.status # "DRAFT"
  BY DEF SenderStep, StartSend, CommitSend, ScheduleReminders, StartResend, ReplaceToken,
         StartRevoke, CommitRevoke, CancelReminders, store, OfferRow
<1>3. RowsFollow
  <2>1. session' = session /\ challenge' = challenge
    BY DEF SenderStep, StartSend, CommitSend, ScheduleReminders, StartResend, ReplaceToken,
           StartRevoke, CommitRevoke, CancelReminders, store
  <2>2. recipient'.token = "live" => recipient.token = "live" \/ offer'.status # "DRAFT"
    BY DEF SenderStep, StartSend, CommitSend, ScheduleReminders, StartResend, ReplaceToken,
           StartRevoke, CommitRevoke, CancelReminders, store, OfferRow, RecipientRow,
           ProvenInv, Holding, At
  <2> QED
    BY <1>2, <2>1, <2>2, RowsAlone DEF ProvenInv
<1>4. \A q \in Procs : Holding(q)'
  <2>1. CASE StartResend(p) \/ StartRevoke(p)
    <3>1. MovedTo(p, "resend") \/ MovedTo(p, "revoke")
      BY <2>1, Moves, StepNames DEF StartResend, StartRevoke
    <3>2. offer'.status = "SENT"
      BY <2>1 DEF StartResend, Resendable, StartRevoke, Revocable, store
    <3>3. Holding(p)'
      BY <3>1, <3>2 DEF MovedTo, Holding
    <3> QED
      BY <1>1, <1>2, <3>1, <3>3, OthersHold DEF MovedTo, ProvenInv
  <2>2. CASE ~(StartResend(p) \/ StartRevoke(p))
    <3>1. PICK step \in {"send", "schedule", "unschedule", "idle"} : MovedTo(p, step)
      BY <2>2, Moves, StepNames DEF SenderStep, StartSend, CommitSend, ScheduleReminders,
         ReplaceToken, CommitRevoke, CancelReminders
    <3> QED
      BY <1>1, <1>2, <3>1, HoldsNothing
  <2> QED
    BY <2>1, <2>2
<1> QED
  BY <1>1, <1>3, <1>4, Uneventful

\* Nor do the expiry jobs.
LEMMA SweepProves == ASSUME TypeInv, ProvenInv, NEW p \in Procs, SweepStep(p) PROVE ProvenInv' /\ NoNewProof
<1> USE DEF TypeInv, TypeOK
<1>1. Grows /\ NoNewProof /\ EvidenceOrdered'
  <2>1. chain' = chain /\ record' = record
    BY DEF SweepStep, FindExpiredOffer, CommitExpiry, ExpireSessions, ExpireChallenges, store
  <2> QED
    BY <2>1, ChainsAlone, EvidencePersists DEF ProvenInv
<1>2. offer.status # "DRAFT" => offer'.status # "DRAFT"
  BY DEF SweepStep, FindExpiredOffer, CommitExpiry, ExpireSessions, ExpireChallenges, store, OfferRow
<1>3. RowsFollow
  <2>1. recipient'.token = recipient.token
    BY DEF SweepStep, FindExpiredOffer, CommitExpiry, ExpireSessions, ExpireChallenges, store, RecipientRow
  <2>2. \A s \in Session : session'[s] = session[s] \/ session'[s] = [session[s] EXCEPT !.status = "EXPIRED"]
    BY DEF SweepStep, FindExpiredOffer, CommitExpiry, ExpireSessions, ExpireChallenges, store
  <2>3. \A s \in Session :
           /\ session'[s].version = session[s].version
           /\ session'[s].status = session[s].status \/ session'[s].status = "EXPIRED"
    BY <2>2 DEF SessionRow
  <2>4. \A c \in Challenge :
           challenge'[c] = challenge[c] \/ challenge'[c] = [challenge[c] EXCEPT !.status = "EXPIRED"]
    BY DEF SweepStep, FindExpiredOffer, CommitExpiry, ExpireSessions, ExpireChallenges, store
  <2>5. \A c \in Challenge : challenge'[c].status = "VERIFIED" => challenge'[c] = challenge[c]
    BY <2>4 DEF ChallengeRow
  <2> QED
    BY <1>2, <2>1, <2>3, <2>5, RowsAlone DEF ProvenInv
<1>4. \A q \in Procs : Holding(q)'
  <2>1. CASE FindExpiredOffer(p)
    <3>1. MovedTo(p, "expire") /\ offer'.status = "SENT"
      BY <2>1, Moves, StepNames DEF FindExpiredOffer, OfferExpired, store
    <3>2. Holding(p)'
      BY <3>1 DEF MovedTo, Holding
    <3> QED
      BY <1>1, <1>2, <3>1, <3>2, OthersHold DEF MovedTo, ProvenInv
  <2>2. CASE ~FindExpiredOffer(p)
    <3>1. PICK step \in {"unschedule", "otpsweep", "idle"} : MovedTo(p, step)
      BY <2>2, Moves, StepNames DEF SweepStep, CommitExpiry, ExpireSessions, ExpireChallenges
    <3> QED
      BY <1>1, <1>2, <3>1, HoldsNothing
  <2> QED
    BY <2>1, <2>2
<1> QED
  BY <1>1, <1>3, <1>4, Uneventful

\* A request that ends, and the clock.
LEMMA AbortProves == ASSUME TypeInv, ProvenInv, NEW p \in Procs, Abort(p) PROVE ProvenInv' /\ NoNewProof
<1>1. Grows /\ NoNewProof /\ EvidenceOrdered'
  BY ChainsAlone, EvidencePersists DEF Abort, store, ProvenInv
<1>2. RowsFollow
  BY RowsAlone DEF Abort, store, ProvenInv
<1>3. MovedTo(p, "idle")
  BY Moves, StepNames DEF Abort, TypeInv, TypeOK
<1>4. \A q \in Procs : Holding(q)'
  BY <1>1, <1>3, HoldsNothing DEF Abort, store
<1> QED
  BY <1>1, <1>2, <1>4, Uneventful

LEMMA TickProves == ASSUME TypeInv, ProvenInv, Tick PROVE ProvenInv' /\ NoNewProof
<1> USE DEF TypeInv, TypeOK
<1>1. chain' = chain /\ record' = record /\ req' = req /\ recipient' = recipient
  BY DEF Tick, LapseOffer, LapseSession, LapseChallenge
<1>2. offer'.status = offer.status
  BY DEF Tick, LapseOffer, LapseSession, LapseChallenge, OfferRow
<1>3. \A s \in Session : session'[s].version = session[s].version /\ session'[s].status = session[s].status
  <2>1. \A s \in Session : session'[s] = session[s] \/ session'[s] = [session[s] EXCEPT !.lapsed = TRUE]
    BY DEF Tick, LapseOffer, LapseSession, LapseChallenge
  <2> QED
    BY <2>1 DEF SessionRow
<1>4. \A c \in Challenge : challenge'[c].session = challenge[c].session /\ challenge'[c].status = challenge[c].status
  BY DEF Tick, LapseOffer, LapseSession, LapseChallenge, ChallengeRow
<1>5. Grows /\ NoNewProof /\ EvidenceOrdered'
  BY <1>1, ChainsAlone, EvidencePersists DEF ProvenInv
<1>6. RowsFollow
  BY <1>1, <1>2, <1>3, <1>4, RowsAlone DEF ProvenInv
<1>7. \A q \in Procs : Holding(q)'
  BY <1>1, <1>2, <1>5, OthersHold DEF ProvenInv
<1> QED
  BY <1>5, <1>6, <1>7, Uneventful

\* Reading, and the writes of the recipient's requests that decide nothing.
LEMMA ReadingProves ==
    ASSUME TypeInv, ProvenInv, NEW p \in Procs,
           \/ StartOtpRequest(p) \/ MarkViewed(p) \/ FindSession(p) \/ CheckLockout(p) \/ BeginIssue(p)
           \/ StartDocumentView(p) \/ StartVerify(p) \/ StartAccept(p) \/ StartDecline(p)
    PROVE  ProvenInv' /\ NoNewProof
<1> USE DEF TypeInv, TypeOK
<1>1. /\ chain' = chain /\ record' = record /\ offer' = offer
      /\ session' = session /\ challenge' = challenge
      /\ recipient'.token = recipient.token
  BY DEF StartOtpRequest, MarkViewed, FindSession, CheckLockout, BeginIssue, StartDocumentView,
         StartVerify, StartAccept, StartDecline, store, RecipientRow
<1>2. Grows /\ NoNewProof /\ EvidenceOrdered'
  BY <1>1, ChainsAlone, EvidencePersists DEF ProvenInv
<1>3. RowsFollow
  BY <1>1, RowsAlone DEF ProvenInv
<1>4. ASSUME NEW step \in {"view", "find", "lockout", "issue", "insert", "document", "idle"},
             MovedTo(p, step)
      PROVE  \A q \in Procs : Holding(q)'
  BY <1>1, <1>2, <1>4, HoldsNothing
<1>5. CASE StartOtpRequest(p) \/ MarkViewed(p)
  <2>1. MovedTo(p, "view") \/ MovedTo(p, "find")
    BY <1>5, Moves, StepNames DEF StartOtpRequest, MarkViewed
  <2> QED
    BY <1>2, <1>3, <1>4, <2>1, Uneventful
<1>6. CASE FindSession(p)
  <2>1. \A q \in Procs : Holding(q)'
    <3>1. MovedTo(p, "lockout") \/ MovedTo(p, "create")
      BY <1>6, Moves, StepNames DEF FindSession, Resumable
    <3> QED
      BY <1>1, <1>2, <3>1, HoldsNothing
  <2> QED
    BY <1>2, <1>3, <2>1, Uneventful
<1>7. CASE CheckLockout(p) \/ BeginIssue(p) \/ StartDocumentView(p)
  <2>1. \A q \in Procs : q # p => req'[q] = req[q]
    BY <1>7 DEF CheckLockout, BeginIssue, StartDocumentView, Finish, GotoWith
  <2>2. req'[p].at \in {"idle", "issue", "insert", "document"}
    <3>1. CASE CheckLockout(p)
      <4>1. Finish(p) \/ GotoWith(p, "issue", req[p].s)
        BY <3>1 DEF CheckLockout
      <4>2. req[p].s \in Session
        BY <3>1 DEF CheckLockout, At, Refers, HoldsSession
      <4> QED
        BY <4>1, <4>2, Moves, StepNames DEF MovedTo
    <3>2. CASE BeginIssue(p)
      <4>1. PICK n : req' = [req EXCEPT ![p].at = "insert", ![p].c = n]
        BY <3>2 DEF BeginIssue
      <4> QED
        BY <4>1 DEF Request
    <3>3. CASE StartDocumentView(p)
      BY <3>3, Moves, StepNames DEF StartDocumentView, Resumable, MovedTo
    <3> QED
      BY <1>7, <3>1, <3>2, <3>3
  <2>3. Holding(p)'
    BY <2>2 DEF Holding
  <2>4. \A q \in Procs : Holding(q)'
    BY <1>1, <1>2, <2>1, <2>3, OthersHold DEF ProvenInv
  <2> QED
    BY <1>2, <1>3, <2>4, Uneventful
<1>8. CASE StartVerify(p)
  <2>1. PICK c \in Challenge, code \in {"wrong", "right"} :
            /\ EffectiveOtpStatus(c) = "PENDING"
            /\ Verifiable(challenge[c].session)
            /\ req' = [req EXCEPT ![p] =
                         [at |-> code, s |-> challenge[c].session, c |-> c, tries |-> challenge[c].attempts,
                          sver |-> session[challenge[c].session].version, rver |-> recipient.version]]
    BY <1>8 DEF StartVerify
  <2>2. challenge[c].status = "PENDING"
    BY <2>1, StoreAssumption DEF EffectiveOtpStatus, ChallengeRow
  <2>3. challenge[c].session \in Session
    BY <2>2 DEF RowsRefer
  <2>4. session[challenge[c].session].version = 1
    BY <2>1, <2>3 DEF Verifiable, ProvenInv, SessionsTell
  <2>5. offer.status # "DRAFT"
    BY <1>8 DEF StartVerify, TokenValid, ProvenInv, LinkSent
  <2>6. Holding(p)'
    BY <1>1, <2>1, <2>4, <2>5 DEF Holding
  <2>7. \A q \in Procs : q # p => req'[q] = req[q]
    BY <2>1
  <2>8. \A q \in Procs : Holding(q)'
    BY <1>1, <1>2, <2>6, <2>7, OthersHold DEF ProvenInv
  <2> QED
    BY <1>2, <1>3, <2>8, Uneventful
<1>9. CASE StartAccept(p) \/ StartDecline(p)
  <2>1. PICK c \in Challenge, step \in {"accept", "decline"} : ChallengeProves(c) /\ Decide(p, c, step)
    BY <1>9 DEF StartAccept, StartDecline, DecisionReads
  <2>2. Proves(challenge[c].session, c) /\ challenge[c].session \in Session
    BY <2>1 DEF ChallengeProves, ProvenInv, CodesTell, RowsRefer
  <2>3. MovedTo(p, step) /\ req'[p].s = challenge[c].session /\ req'[p].c = c
    BY <2>1, <2>2, DecideMoves, StepNames
  <2>4. Proves(challenge[c].session, c)'
    BY <1>1, <2>2 DEF Proves, Indices
  <2>5. Holding(p)'
    BY <1>1, <2>2, <2>3, <2>4 DEF MovedTo, Holding, Proves
  <2>6. \A q \in Procs : Holding(q)'
    BY <1>1, <1>2, <2>3, <2>5, OthersHold DEF MovedTo, ProvenInv
  <2> QED
    BY <1>2, <1>3, <2>6, Uneventful
<1> QED
  BY <1>5, <1>6, <1>7, <1>8, <1>9

\* Sessions, codes and the events that prove nothing.
LEMMA RecordingProves ==
    ASSUME TypeInv, ProvenInv, NEW p \in Procs,
           CreateSession(p) \/ IssueOtp(p) \/ RecordDocumentView(p) \/ RecordFailure(p)
    PROVE  ProvenInv' /\ NoNewProof
<1> USE DEF TypeInv, TypeOK
<1>1. record' = record /\ offer' = offer /\ recipient' = recipient
  BY DEF CreateSession, IssueOtp, RecordDocumentView, RecordFailure
<1>2. PICK s \in Session, type \in EventType \ {"OTP_VERIFIED"}, c \in Challenge \cup {0} :
         LogEvent(s, type, c)
  <2>1. CASE CreateSession(p)
    BY <2>1 DEF CreateSession, EventType
  <2>2. CASE IssueOtp(p)
    BY <2>2 DEF IssueOtp, EventType, At, Refers, HoldsSession
  <2>3. CASE RecordDocumentView(p)
    BY <2>3 DEF RecordDocumentView, EventType, At, Refers, HoldsSession
  <2>4. CASE RecordFailure(p)
    <3>1. req[p].s \in Session /\ req[p].c \in Challenge
      BY <2>4 DEF RecordFailure, At, Refers, HoldsSession, HoldsChallenge
    <3> QED
      BY <2>4, <3>1 DEF RecordFailure, EventType
  <2> QED
    BY <2>1, <2>2, <2>3, <2>4
<1>3. Grows /\ NoNewProof
  BY <1>2, AppendGrows
<1>4. EvidenceOrdered'
  BY <1>1, <1>3, EvidencePersists DEF ProvenInv
<1>5. RowsFollow
  <2>1. CASE CreateSession(p)
    <3>1. PICK t \in Session : /\ SessionsUpTo(t - 1)
                               /\ session' = [session EXCEPT ![t].status = "AWAITING_OTP"]
      BY <2>1 DEF CreateSession
    <3>2. session[t].status = "NONE"
      BY <3>1, StoreAssumption DEF SessionsUpTo, Session
    <3>3. session[t].version = 1
      BY <3>2 DEF ProvenInv, SessionsTell
    <3>4. \A u \in Session : \/ session'[u] = session[u]
                             \/ /\ session[u].version = 1 /\ session'[u].version = 1
                                /\ session'[u].status = "AWAITING_OTP"
      BY <3>1, <3>3 DEF SessionRow
    <3>5. challenge' = challenge
      BY <2>1 DEF CreateSession
    <3> QED
      BY <1>1, <3>4, <3>5 DEF RowsFollow, ProvenInv, SessionsTell
  <2>2. CASE IssueOtp(p)
    <3>1. PICK d \in Challenge :
            challenge' = [e \in Challenge |->
                  IF e = d THEN [NoChallenge EXCEPT !.status = "PENDING", !.session = req[p].s]
                  ELSE IF Superseded(p, e) THEN [challenge[e] EXCEPT !.status = "INVALIDATED"]
                  ELSE challenge[e]]
      BY <2>2 DEF IssueOtp
    <3>2. [NoChallenge EXCEPT !.status = "PENDING", !.session = req[p].s].status = "PENDING"
      BY DEF NoChallenge
    <3>3. \A e \in Challenge : [challenge[e] EXCEPT !.status = "INVALIDATED"].status = "INVALIDATED"
      BY DEF ChallengeRow
    <3>4. \A e \in Challenge : challenge'[e].status = "VERIFIED" => challenge'[e] = challenge[e]
      BY <3>1, <3>2, <3>3
    <3>5. session' = session
      BY <2>2 DEF IssueOtp
    <3> QED
      BY <1>1, <3>4, <3>5, RowsAlone DEF ProvenInv
  <2>3. CASE RecordDocumentView(p)
    <3>1. session' = session /\ challenge' = challenge
      BY <2>3 DEF RecordDocumentView
    <3> QED
      BY <1>1, <3>1, RowsAlone DEF ProvenInv
  <2>4. CASE RecordFailure(p)
    <3> DEFINE x == IF CountedTries(p) >= MaxAttempts THEN "LOCKED" ELSE challenge[req[p].c].status
               new == [challenge[req[p].c] EXCEPT !.attempts = CountedTries(p), !.status = x]
    <3>1. challenge' = [challenge EXCEPT ![req[p].c] = new]
      BY <2>4 DEF RecordFailure
    <3>2. req[p].c \in Challenge
      BY <2>4 DEF RecordFailure, At, Refers, HoldsChallenge
    <3>3. new.status = x /\ new.session = challenge[req[p].c].session
      BY <3>2 DEF ChallengeRow
    <3>4. \A e \in Challenge : challenge'[e].status = "VERIFIED" =>
             challenge[e].status = "VERIFIED" /\ challenge'[e].session = challenge[e].session
      BY <3>1, <3>2, <3>3
    <3>5. session' = session
      BY <2>4 DEF RecordFailure
    <3> QED
      BY <1>1, <3>4, <3>5, RowsAlone DEF ProvenInv
  <2> QED
    BY <2>1, <2>2, <2>3, <2>4
<1>6. \A q \in Procs : Holding(q)'
  <2>1. MovedTo(p, "lockout") \/ MovedTo(p, "idle")
    BY Moves, StepNames DEF CreateSession, IssueOtp, RecordDocumentView, RecordFailure
  <2> QED
    BY <1>1, <1>3, <2>1, HoldsNothing
<1> QED
  BY <1>3, <1>4, <1>5, <1>6, Uneventful

\* An acceptance or a decline proves nothing new.
LEMMA DecidingProves ==
    ASSUME TypeInv, ProvenInv, NEW p \in Procs, CommitAccept(p) \/ CommitDecline(p)
    PROVE  ProvenInv' /\ NoNewProof
<1> USE DEF TypeInv, TypeOK
<1>1. PICK s \in Session, c \in Challenge :
         /\ req[p].s = s /\ req[p].c = c
         /\ Proves(s, c)
  BY DEF CommitAccept, CommitDecline, At, Refers, HoldsSession, HoldsChallenge, ProvenInv, Holding
<1>2. PICK type \in {"OFFER_ACCEPTED", "OFFER_DECLINED"} :
         /\ LogEvent(s, type, 0)
         /\ CommitAccept(p) => type = "OFFER_ACCEPTED"
  BY <1>1 DEF CommitAccept, CommitDecline
<1>3. /\ Indices(s)' = 1..(Len(chain[s]) + 1)
      /\ \A i \in Indices(s) : chain'[s][i] = chain[s][i]
      /\ chain'[s][Len(chain[s]) + 1] = [type |-> type, challenge |-> 0]
      /\ Len(chain[s]) \in Nat /\ Indices(s) = 1..Len(chain[s])
  BY <1>2, LogEventFacts DEF EventType
<1>4. Grows /\ NoNewProof
  BY <1>2, AppendGrows DEF EventType
<1>5. PICK k \in Indices(s)' : k = Len(chain[s]) + 1 /\ chain'[s][k].type = type
  <2>1. Len(chain[s]) + 1 \in Indices(s)'
    BY <1>3
  <2> QED
    BY <1>3, <2>1
<1>6. Decided(s)'
  BY <1>5 DEF Decided, Decision
<1>7. PICK j \in Indices(s) : chain[s][j] = [type |-> "OTP_VERIFIED", challenge |-> c]
  BY <1>1 DEF Proves
<1>8. EvidenceOrdered'
  <2>1. CASE CommitAccept(p)
    <3>1. record' = {[session |-> s, challenge |-> c]}
      BY <1>1, <2>1 DEF CommitAccept
    <3>2. j < k /\ j \in Indices(s)' /\ chain'[s][j] = [type |-> "OTP_VERIFIED", challenge |-> c]
      BY <1>3, <1>5, <1>7
    <3>3. Is(s, k, "OFFER_ACCEPTED")'
      BY <1>2, <1>5, <2>1 DEF Is
    <3>4. \A r \in record' : r.session = s /\ r.challenge = c
      BY <3>1
    <3>5. ASSUME NEW r \in record'
          PROVE  \E i, n \in Indices(r.session)' :
                    /\ i < n
                    /\ chain'[r.session][i] = [type |-> "OTP_VERIFIED", challenge |-> r.challenge]
                    /\ Is(r.session, n, "OFFER_ACCEPTED")'
      BY <1>5, <3>2, <3>3, <3>4
    <3> QED
      BY <3>5 DEF EvidenceOrdered
  <2>2. CASE CommitDecline(p)
    BY <1>4, <2>2, EvidencePersists DEF CommitDecline, ProvenInv
  <2> QED
    BY <2>1, <2>2
<1>9. RowsFollow
  <2>1. PICK x \in {"ACCEPTED", "DECLINED"} : session' = [session EXCEPT ![s] = [session[s] EXCEPT !.status = x]]
    BY <1>1 DEF CommitAccept, CommitDecline
  <2>2. session'[s].version = session[s].version /\ session'[s].status = x
    BY <2>1 DEF SessionRow
  <2>3. ~Unproven(s)
    BY <1>7 DEF Unproven, Is
  <2>4. \A t \in Session : t # s => session'[t] = session[t]
    BY <2>1
  <2>5. challenge' = challenge
    BY DEF CommitAccept, CommitDecline
  <2>6. offer'.status # "DRAFT"
    BY DEF CommitAccept, CommitDecline, OfferRow
  <2> QED
    BY <1>6, <2>2, <2>3, <2>4, <2>5, <2>6 DEF RowsFollow, ProvenInv, SessionsTell
<1>10. \A q \in Procs : Holding(q)'
  <2>1. MovedTo(p, "idle") \/ MovedTo(p, "unschedule")
    BY Moves, StepNames DEF CommitAccept, CommitDecline
  <2>2. offer'.status # "DRAFT"
    BY DEF CommitAccept, CommitDecline, OfferRow
  <2> QED
    BY <1>4, <2>1, <2>2, HoldsNothing
<1> QED
  BY <1>4, <1>8, <1>9, <1>10, Uneventful

\* A verification wins only at the version of a session not yet proven, so its
\* OTP_VERIFIED event is the session's first, and it bumps the version for good.
LEMMA VerifyingProves == ASSUME TypeInv, ProvenInv, NEW p \in Procs, AdvanceVerified(p) PROVE ProvenInv'
<1> USE DEF TypeInv, TypeOK
<1>1. PICK s \in Session, c \in Challenge :
         /\ req[p].s = s /\ req[p].c = c
         /\ challenge[c].session = s
  BY DEF AdvanceVerified, At, Refers, HoldsSession, HoldsChallenge
<1>2. session[s].version = 1 /\ offer.status # "DRAFT"
  BY <1>1 DEF AdvanceVerified, At, VersionsUnchanged, ProvenInv, Holding
<1>3. LogEvent(s, "OTP_VERIFIED", c)
  BY <1>1 DEF AdvanceVerified
<1>4. /\ \A t \in Session : t # s => chain'[t] = chain[t]
      /\ Indices(s)' = 1..(Len(chain[s]) + 1)
      /\ \A i \in Indices(s) : chain'[s][i] = chain[s][i]
      /\ chain'[s][Len(chain[s]) + 1] = [type |-> "OTP_VERIFIED", challenge |-> c]
      /\ Len(chain[s]) \in Nat /\ Indices(s) = 1..Len(chain[s])
  BY <1>3, LogEventFacts DEF EventType
<1>5. Grows
  BY <1>3, AppendGrows DEF EventType
<1>6. PICK k \in Indices(s)' : k = Len(chain[s]) + 1
  <2>1. Len(chain[s]) + 1 \in Indices(s)'
    BY <1>4
  <2> QED
    BY <2>1
<1>7. Unproven(s)
  BY <1>2 DEF ProvenInv, SessionsTell
<1>8. /\ \A i \in Indices(s)' : Is(s, i, "OTP_VERIFIED")' => i = k
      /\ chain'[s][k] = [type |-> "OTP_VERIFIED", challenge |-> c]
  <2>1. \A i \in Indices(s)' : i \in Indices(s) \/ i = k
    BY <1>4, <1>6
  <2> QED
    BY <1>4, <1>6, <1>7, <2>1 DEF Unproven, Is
<1>9. \A t \in Session : t # s => /\ Indices(t)' = Indices(t) /\ chain'[t] = chain[t]
                                  /\ Unproven(t)' <=> Unproven(t)
  BY <1>4 DEF Indices, Unproven, Is
<1>10. ProvenOnce'
  <2>1. \A t \in Session : t # s => \A i, j \in Indices(t)' :
           Is(t, i, "OTP_VERIFIED")' /\ Is(t, j, "OTP_VERIFIED")' => i = j
    BY <1>9 DEF ProvenInv, ProofStands, ProvenOnce, Is
  <2> QED
    BY <1>8, <2>1 DEF ProvenOnce
<1>11. EvidenceOrdered'
  BY <1>5, EvidencePersists DEF AdvanceVerified, ProvenInv
<1>12. SessionsTell'
  <2>1. session' = [session EXCEPT ![s] = [session[s] EXCEPT !.status = "OTP_VERIFIED", !.version = @ + 1]]
    BY <1>1 DEF AdvanceVerified
  <2>2. session'[s].version = 2 /\ session'[s].status = "OTP_VERIFIED"
    BY <1>2, <2>1 DEF SessionRow
  <2>3. ~Unproven(s)'
    BY <1>8 DEF Unproven, Is
  <2>4. ASSUME NEW t \in Session, t # s
        PROVE  /\ session'[t] = session[t]
               /\ Unproven(t)' <=> Unproven(t)
               /\ Decided(t) => Decided(t)'
    BY <1>5, <1>9, <2>1, <2>4 DEF Decided, Grows
  <2> QED
    BY <2>2, <2>3, <2>4 DEF SessionsTell, ProvenInv
<1>13. CodesTell'
  <2>1. challenge' = [challenge EXCEPT ![c] = [challenge[c] EXCEPT !.status = "VERIFIED"]]
    BY <1>1 DEF AdvanceVerified
  <2>2. challenge'[c].session = s
    BY <1>1, <2>1 DEF ChallengeRow
  <2>3. Proves(s, c)'
    BY <1>8 DEF Proves
  <2>4. \A d \in Challenge : d # c => challenge'[d] = challenge[d]
    BY <2>1
  <2>5. ASSUME NEW d \in Challenge, d # c, challenge'[d].status = "VERIFIED"
        PROVE  Proves(challenge[d].session, d)'
    <3>1. PICK t \in Session : challenge[d].session = t /\ Proves(t, d)
      BY <2>4, <2>5 DEF ProvenInv, CodesTell, RowsRefer
    <3>2. Proves(t, d)'
      BY <1>5, <3>1, ProofsPersist
    <3> QED
      BY <2>4, <2>5, <3>1, <3>2 DEF Proves
  <2>6. Proves(challenge[c].session, c)'
    BY <2>2, <2>3 DEF Proves
  <2> QED
    BY <2>5, <2>6 DEF CodesTell
<1>14. LinkSent' /\ offer' = offer
  BY <1>2 DEF AdvanceVerified, LinkSent
<1>15. \A q \in Procs : Holding(q)'
  <2>1. MovedTo(p, "idle")
    BY Moves, StepNames DEF AdvanceVerified
  <2> QED
    BY <1>5, <1>14, <2>1, HoldsNothing
<1> QED
  BY <1>10, <1>11, <1>12, <1>13, <1>14, <1>15 DEF ProvenInv, ProofStands

LEMMA ProvenInit == Init => ProvenInv
<1> SUFFICES ASSUME Init PROVE ProvenInv
  OBVIOUS
<1> USE DEF Init, StoreInit
<1>1. \A s \in Session : Indices(s) = {} /\ session[s] = NoSession
  BY DEF Indices
<1>2. \A c \in Challenge : challenge[c].status = "NONE"
  BY DEF NoChallenge
<1>3. SessionsTell
  BY <1>1 DEF SessionsTell, Unproven, NoSession
<1>4. CodesTell
  BY <1>2 DEF CodesTell
<1>5. LinkSent /\ \A p \in Procs : Holding(p)
  BY DEF LinkSent, Holding, Idle
<1>6. ProofStands
  BY <1>1 DEF ProofStands, EvidenceOrdered, ProvenOnce
<1> QED
  BY <1>3, <1>4, <1>5, <1>6 DEF ProvenInv

LEMMA ProvenNext == TypeInv /\ ProvenInv /\ [Next]_vars => ProvenInv'
<1> SUFFICES ASSUME TypeInv, ProvenInv, [Next]_vars PROVE ProvenInv'
  OBVIOUS
<1>1. ASSUME UNCHANGED vars PROVE ProvenInv'
  <2>1. Grows /\ NoNewProof /\ EvidenceOrdered'
    BY <1>1, ChainsAlone, EvidencePersists DEF vars, ProvenInv
  <2>2. RowsFollow
    BY <1>1, RowsAlone DEF vars, ProvenInv
  <2>3. \A q \in Procs : Holding(q)'
    BY <1>1, <2>1, OthersHold DEF vars, ProvenInv
  <2> QED
    BY <2>1, <2>2, <2>3, Uneventful
<1> QED
  BY <1>1, SenderProves, SweepProves, AbortProves, TickProves, ReadingProves, RecordingProves,
     DecidingProves, VerifyingProves DEF Next, Act, RecipientStep

\* The record's session shows the record's own code verified before the
\* acceptance, and no session's inbox is ever proven twice, whatever requests
\* with right codes of several challenges race.
THEOREM InboxProven == Spec => []ProofStands
<1>1. ProvenInv => ProofStands
  BY DEF ProvenInv
<1> QED
  BY <1>1, TypeInvInit, TypeInvNext, ProvenInit, ProvenNext, PTL DEF Spec

-----------------------------------------------------------------------------
(* A session that decided keeps saying so.                                 *)

LEMMA DecidedStatusStays ==
    ASSUME TypeInv, DecisionInv, ProvenInv, [Next]_vars,
           NEW s \in Session, session[s].status \in {"ACCEPTED", "DECLINED"}
    PROVE  session'[s].status = session[s].status
<1> USE DEF TypeInv, TypeOK
<1>1. ~Unproven(s) /\ Decided(s) /\ session[s].version # 1
  BY DEF ProvenInv, SessionsTell
<1>2. offer.status # "SENT"
  BY <1>1 DEF DecisionInv, Undecided, Decided
<1>3. ASSUME NEW p \in Procs, SenderStep(p) PROVE session' = session
  BY <1>3 DEF SenderStep, StartSend, CommitSend, ScheduleReminders, StartResend, ReplaceToken,
              StartRevoke, CommitRevoke, CancelReminders, store
<1>4. ASSUME NEW p \in Procs, SweepStep(p) PROVE session'[s] = session[s]
  BY <1>4 DEF SweepStep, FindExpiredOffer, CommitExpiry, ExpireSessions, SessionRanOut, ExpireChallenges, store
<1>5. ASSUME NEW p \in Procs, RecipientStep(p) PROVE session'[s] = session[s]
  <2>1. ~CommitAccept(p) /\ ~CommitDecline(p)
    BY <1>2 DEF CommitAccept, CommitDecline, StillSent
  <2>2. ASSUME CreateSession(p) PROVE session'[s] = session[s]
    <3>1. PICK t \in Session : /\ SessionsUpTo(t - 1)
                               /\ session' = [session EXCEPT ![t].status = "AWAITING_OTP"]
      BY <2>2 DEF CreateSession
    <3>2. session[t].status = "NONE"
      BY <3>1, StoreAssumption DEF SessionsUpTo, Session
    <3> QED
      BY <3>1, <3>2
  <2>3. ASSUME AdvanceVerified(p) PROVE session'[s] = session[s]
    <3>1. session[req[p].s].version = 1
      BY <2>3 DEF AdvanceVerified, At, VersionsUnchanged, ProvenInv, Holding
    <3>2. session' = [session EXCEPT ![req[p].s] =
                        [session[req[p].s] EXCEPT !.status = "OTP_VERIFIED", !.version = @ + 1]]
      BY <2>3 DEF AdvanceVerified
    <3> QED
      BY <1>1, <3>1, <3>2
  <2>4. ASSUME ~CreateSession(p), ~AdvanceVerified(p) PROVE session' = session
    BY <1>5, <2>1, <2>4 DEF RecipientStep, StartOtpRequest, MarkViewed, FindSession, CheckLockout, BeginIssue,
       IssueOtp, StartDocumentView, RecordDocumentView, StartVerify, RecordFailure, StartAccept, StartDecline, store
  <2> QED
    BY <2>2, <2>3, <2>4
<1>6. ASSUME NEW p \in Procs, Abort(p) PROVE session' = session
  BY <1>6 DEF Abort, store
<1>7. ASSUME Tick PROVE session'[s].status = session[s].status
  <2>1. session'[s] = session[s] \/ session'[s] = [session[s] EXCEPT !.lapsed = TRUE]
    BY <1>7 DEF Tick, LapseOffer, LapseSession, LapseChallenge
  <2> QED
    BY <2>1 DEF SessionRow
<1>8. ASSUME UNCHANGED vars PROVE session' = session
  BY <1>8 DEF vars
<1> QED
  BY <1>3, <1>4, <1>5, <1>6, <1>7, <1>8 DEF Next, Act

\* accept and decline bump no version, and yet no verification in flight on
\* the session, and no sweep, takes its answer away.
THEOREM DecisionKept == Spec => DecidedSessionStands
<1> DEFINE Kept == \A s \in Session : session[s].status \in {"ACCEPTED", "DECLINED"}
                      => session'[s].status = session[s].status
<1>1. TypeInv /\ DecisionInv /\ ProvenInv /\ [Next]_vars => [Kept]_vars
  BY DecidedStatusStays
<1> QED
  BY <1>1, TypeInvInit, TypeInvNext, DecisionInit, DecisionNext, ProvenInit, ProvenNext, PTL
     DEF Spec, DecidedSessionStands

-----------------------------------------------------------------------------
(* The rows implement the agreement.                                       *)

\* What the refinement mapping reads from the chains.
Happened(type) == \E s \in Session : Occurrences(s, type) # {}

\* Reading the chains is the same after a step that appends no such event.
LEMMA NothingHappened ==
    ASSUME Grows, NEW type,
           \A s \in Session : \A i \in Indices(s)' : Is(s, i, type)' => i \in Indices(s) /\ Is(s, i, type)
    PROVE  Happened(type)' <=> Happened(type)
<1>1. \A s \in Session : \A i \in Indices(s) : Is(s, i, type) => i \in Indices(s)' /\ Is(s, i, type)'
  BY DEF Grows, Is
<1> QED
  BY <1>1 DEF Happened, Occurrences

LEMMA QuietHappens ==
    ASSUME Quiet
    PROVE  /\ Grows
           /\ NoNewProof => (Happened("OTP_VERIFIED")' <=> Happened("OTP_VERIFIED"))
           /\ Happened("OFFER_ACCEPTED")' <=> Happened("OFFER_ACCEPTED")
           /\ Happened("OFFER_DECLINED")' <=> Happened("OFFER_DECLINED")
<1>1. Grows
  BY DEF Quiet, Grows
<1>2. ASSUME NEW type \in {"OFFER_ACCEPTED", "OFFER_DECLINED"}
      PROVE  \A s \in Session : \A i \in Indices(s)' : Is(s, i, type)' => i \in Indices(s) /\ Is(s, i, type)
  BY DEF Quiet, Decision, Is
<1>3. NoNewProof => (Happened("OTP_VERIFIED")' <=> Happened("OTP_VERIFIED"))
  BY <1>1, NothingHappened DEF NoNewProof
<1> QED
  BY <1>1, <1>2, <1>3, NothingHappened

\* What the steps that move the agreement do to the offer, and that no other
\* step changes its status.
LEMMA OfferMoves ==
    ASSUME TypeInv, ProvenInv, [Next]_vars
    PROVE  \/ offer'.status = offer.status
           \/ offer.status = "DRAFT" /\ offer'.status = "SENT"
           \/ offer.status # "DRAFT" /\ offer'.status \in {"REVOKED", "EXPIRED"}
           \/ \E p \in Procs : CommitAccept(p) \/ CommitDecline(p)
<1> USE DEF TypeInv, TypeOK
<1>1. ASSUME NEW p \in Procs, SenderStep(p), offer'.status # offer.status
      PROVE  \/ offer.status = "DRAFT" /\ offer'.status = "SENT"
             \/ offer.status # "DRAFT" /\ offer'.status = "REVOKED"
  <2>1. CommitSend(p) \/ CommitRevoke(p)
    BY <1>1 DEF SenderStep, StartSend, ScheduleReminders, StartResend, ReplaceToken,
                StartRevoke, CancelReminders, store
  <2>2. CASE CommitSend(p)
    BY <2>2 DEF CommitSend, OfferRow
  <2>3. CASE CommitRevoke(p)
    BY <2>3 DEF CommitRevoke, OfferRow, At, ProvenInv, Holding
  <2> QED
    BY <2>1, <2>2, <2>3
<1>2. ASSUME NEW p \in Procs, SweepStep(p), offer'.status # offer.status
      PROVE  offer.status # "DRAFT" /\ offer'.status = "EXPIRED"
  <2>1. CommitExpiry(p)
    BY <1>2 DEF SweepStep, FindExpiredOffer, ExpireSessions, ExpireChallenges, store
  <2> QED
    BY <2>1 DEF CommitExpiry, OfferRow, At, ProvenInv, Holding
<1>3. ASSUME NEW p \in Procs, RecipientStep(p), ~CommitAccept(p), ~CommitDecline(p)
      PROVE  offer' = offer
  BY <1>3 DEF RecipientStep, StartOtpRequest, MarkViewed, FindSession, CreateSession, CheckLockout, BeginIssue,
     IssueOtp, StartDocumentView, RecordDocumentView, StartVerify, RecordFailure, AdvanceVerified,
     StartAccept, StartDecline, store
<1>4. ASSUME (\E p \in Procs : Abort(p)) \/ Tick \/ UNCHANGED vars
      PROVE  offer'.status = offer.status
  BY <1>4 DEF Abort, store, Tick, LapseOffer, LapseSession, LapseChallenge, OfferRow, vars
<1> QED
  BY <1>1, <1>2, <1>3, <1>4 DEF Next, Act

\* Where no decision is made and no inbox proven, the agreement opens, closes
\* or stands still.
LEMMA PhaseSteps ==
    ASSUME TypeInv, ProvenInv, [Next]_vars, NoNewProof,
           \A p \in Procs : ~CommitAccept(p) /\ ~CommitDecline(p)
    PROVE  [Promise!Next]_Promise!agreement
<1>1. Quiet
  BY QuietSteps
<1>2. /\ Happened("OTP_VERIFIED")' <=> Happened("OTP_VERIFIED")
      /\ Happened("OFFER_ACCEPTED")' <=> Happened("OFFER_ACCEPTED")
      /\ Happened("OFFER_DECLINED")' <=> Happened("OFFER_DECLINED")
  BY <1>1, QuietHappens
<1>3. CASE offer'.status = offer.status
  BY <1>2, <1>3 DEF Promise!agreement, Happened
<1>4. CASE offer.status = "DRAFT" /\ offer'.status = "SENT"
  <2>1. Promise!Open
    BY <1>2, <1>4 DEF Promise!Open, Happened
  <2> QED
    BY <2>1 DEF Promise!Next
<1>5. CASE offer.status = "SENT" /\ offer'.status \in {"REVOKED", "EXPIRED"}
  <2>1. Promise!Close
    BY <1>2, <1>5 DEF Promise!Close, Happened
  <2> QED
    BY <2>1 DEF Promise!Next
<1>6. CASE offer.status \notin {"DRAFT", "SENT"} /\ offer'.status \in {"REVOKED", "EXPIRED"}
  BY <1>2, <1>6 DEF Promise!agreement, Happened
<1> QED
  BY <1>3, <1>4, <1>5, <1>6, OfferMoves

\* A verification proves the inbox, or proves it again in another session.
LEMMA ProveSteps ==
    ASSUME TypeInv, ProvenInv, NEW p \in Procs, AdvanceVerified(p)
    PROVE  [Promise!Next]_Promise!agreement
<1> USE DEF TypeInv, TypeOK
<1>1. PICK s \in Session, c \in Challenge : req[p].s = s /\ req[p].c = c
  BY DEF AdvanceVerified, At, Refers, HoldsSession, HoldsChallenge
<1>2. LogEvent(s, "OTP_VERIFIED", c) /\ offer' = offer /\ record' = record
  BY <1>1 DEF AdvanceVerified
<1>3. Quiet
  BY <1>2, QuietAppend DEF EventType
<1>4. /\ Happened("OFFER_ACCEPTED")' <=> Happened("OFFER_ACCEPTED")
      /\ Happened("OFFER_DECLINED")' <=> Happened("OFFER_DECLINED")
  BY <1>3, QuietHappens
<1>5. offer.status # "DRAFT"
  BY DEF AdvanceVerified, At, ProvenInv, Holding
<1>6. Happened("OTP_VERIFIED")'
  <2>1. /\ Indices(s)' = 1..(Len(chain[s]) + 1)
        /\ chain'[s][Len(chain[s]) + 1] = [type |-> "OTP_VERIFIED", challenge |-> c]
        /\ Len(chain[s]) \in Nat
    BY <1>2, LogEventFacts DEF EventType
  <2>2. PICK k \in Indices(s)' : k = Len(chain[s]) + 1
    <3>1. Len(chain[s]) + 1 \in Indices(s)'
      BY <2>1
    <3> QED
      BY <3>1
  <2>3. Is(s, k, "OTP_VERIFIED")'
    BY <2>1, <2>2 DEF Is
  <2> QED
    BY <2>2, <2>3 DEF Happened, Occurrences
<1>7. CASE Happened("OTP_VERIFIED")
  BY <1>2, <1>4, <1>6, <1>7 DEF Promise!agreement, Happened
<1>8. CASE ~Happened("OTP_VERIFIED")
  <2>1. Promise!Prove
    BY <1>2, <1>4, <1>5, <1>6, <1>8 DEF Promise!Prove, Happened
  <2> QED
    BY <2>1 DEF Promise!Next
<1> QED
  BY <1>7, <1>8

\* A decision answers: nothing was answered, the offer was open, and the code
\* it rests on is on the chain.
LEMMA AnswerSteps ==
    ASSUME TypeInv, DecisionInv, ProvenInv, NEW p \in Procs, CommitAccept(p) \/ CommitDecline(p)
    PROVE  [Promise!Next]_Promise!agreement
<1> USE DEF TypeInv, TypeOK
<1>1. PICK s \in Session : req[p].s = s /\ Happened("OTP_VERIFIED")
  <2>1. req[p].s \in Session /\ Proves(req[p].s, req[p].c)
    BY DEF CommitAccept, CommitDecline, At, Refers, HoldsSession, ProvenInv, Holding
  <2> QED
    BY <2>1 DEF Proves, Happened, Occurrences, Is
<1>2. Grows /\ NoNewProof /\ StillSent
  <2>1. NoNewProof
    BY DecidingProves
  <2>2. PICK type \in {"OFFER_ACCEPTED", "OFFER_DECLINED"} : LogEvent(s, type, 0)
    BY <1>1 DEF CommitAccept, CommitDecline
  <2> QED
    BY <2>1, <2>2, AppendGrows DEF EventType, CommitAccept, CommitDecline
<1>3. Happened("OTP_VERIFIED") /\ Happened("OTP_VERIFIED")'
  BY <1>1, <1>2, NothingHappened DEF NoNewProof
<1>4. ~Happened("OFFER_ACCEPTED") /\ ~Happened("OFFER_DECLINED")
  BY <1>2 DEF StillSent, DecisionInv, Undecided, Decision, Happened, Occurrences, Is
<1>5. CASE CommitAccept(p)
  <2>1. LogEvent(s, "OFFER_ACCEPTED", 0) /\ offer'.status = "ACCEPTED"
    BY <1>1, <1>5 DEF CommitAccept, OfferRow
  <2>2. Happened("OFFER_ACCEPTED")'
    BY <1>2, <2>1, FirstDecision DEF Happened, Occurrences, Is
  <2>3. Promise!Answer("accepted")
    BY <1>2, <1>3, <1>4, <2>1, <2>2 DEF Promise!Answer, Happened, StillSent
  <2> QED
    BY <2>3 DEF Promise!Next
<1>6. CASE CommitDecline(p)
  <2>1. LogEvent(s, "OFFER_DECLINED", 0) /\ offer'.status = "DECLINED"
    BY <1>1, <1>6 DEF CommitDecline, OfferRow
  <2>2. PICK k \in Indices(s)' :
           /\ chain'[s][k].type = "OFFER_DECLINED"
           /\ \A t \in Session : \A i \in Indices(t)' : Decision(chain'[t][i]) => t = s /\ i = k
    BY <1>2, <2>1, FirstDecision
  <2>3. Happened("OFFER_DECLINED")' /\ ~Happened("OFFER_ACCEPTED")'
    BY <2>2 DEF Happened, Occurrences, Is, Decision
  <2>4. Promise!Answer("declined")
    BY <1>2, <1>3, <1>4, <2>1, <2>3 DEF Promise!Answer, Happened, StillSent
  <2> QED
    BY <2>4 DEF Promise!Next
<1> QED
  BY <1>5, <1>6

LEMMA PromiseInit == Init => Promise!Init
<1> SUFFICES ASSUME Init PROVE Promise!Init
  OBVIOUS
<1>1. \A s \in Session : Indices(s) = {}
  BY DEF Init, StoreInit, Indices
<1>2. offer.status = "DRAFT"
  BY DEF Init, StoreInit
<1> QED
  BY <1>1, <1>2 DEF Promise!Init, Occurrences

LEMMA PromiseNext ==
    TypeInv /\ DecisionInv /\ ProvenInv /\ [Next]_vars => [Promise!Next]_Promise!agreement
<1> SUFFICES ASSUME TypeInv, DecisionInv, ProvenInv, [Next]_vars
             PROVE  [Promise!Next]_Promise!agreement
  OBVIOUS
<1>1. ASSUME NEW p \in Procs, CommitAccept(p) \/ CommitDecline(p) PROVE [Promise!Next]_Promise!agreement
  BY <1>1, AnswerSteps
<1>2. ASSUME NEW p \in Procs, AdvanceVerified(p) PROVE [Promise!Next]_Promise!agreement
  BY <1>2, ProveSteps
<1>3. ASSUME \A p \in Procs : ~AdvanceVerified(p) PROVE NoNewProof
  <2>1. UNCHANGED vars => NoNewProof
    BY ChainsAlone DEF vars
  <2> QED
    BY <1>3, <2>1, SenderProves, SweepProves, AbortProves, TickProves, ReadingProves, RecordingProves,
       DecidingProves DEF Next, Act, RecipientStep
<1> QED
  BY <1>1, <1>2, <1>3, PhaseSteps

\* The rows, with every race, crash and deadline, implement the agreement: an
\* offer opens once, is answered at most once, only while open and only with
\* the inbox proven, and stays closed, whatever overwrites Offer.status later.
THEOREM RefinesAgreement == Spec => ImplementsAgreement
BY TypeInvInit, TypeInvNext, DecisionInit, DecisionNext, ProvenInit, ProvenNext, PromiseInit, PromiseNext, PTL
   DEF Spec, ImplementsAgreement, Promise!Spec

-----------------------------------------------------------------------------
(* One at a time.  What comments of the code promise of the rows holds     *)
(* while no two requests or jobs are under way together, for any number of *)
(* them one after the other, of crashes and of deadlines (SigningClaims).  *)
(* The invariant says what overlap would spoil: what the one request has   *)
(* read is so when it writes.                                              *)

\* No two requests or jobs are under way at once.
OneAtATime == \A p, q \in Procs : ~At(p, "idle") /\ ~At(q, "idle") => p = q

\* What the rows then say together: an unsent offer has met nobody, at most one
\* session is open, and none once the recipient has decided.
RowsInOrder ==
    /\ offer.status = "DRAFT" => recipient.status = "PENDING" /\ recipient.token = "draft"
    /\ recipient.status = "EXPIRED" => offer.lapsed
    /\ recipient.status \in {"ACCEPTED", "DECLINED"} => offer.status \notin {"DRAFT", "SENT"} /\ Resumable = {}
    /\ \A s, t \in Resumable : s = t

\* And of the codes: at most one waits in a session, and its attempts are the
\* failures on the chains.
CodesInOrder ==
    /\ \A c \in Challenge : challenge[c].status = "NONE" => challenge[c].attempts = 0
    /\ \A c \in Challenge : IsFiniteSet(Failures(c)) /\ challenge[c].attempts = Cardinality(Failures(c))
    /\ \A c, d \in Challenge :
          /\ challenge[c].status = "PENDING" /\ challenge[d].status = "PENDING"
          /\ challenge[c].session = challenge[d].session
          => c = d

\* What the one request has read still holds when it writes.
Unspoiled(p) ==
    LET r == req[p] IN
    /\ r.at = "view" => recipient.status = "PENDING"
    /\ r.at \in {"view", "find", "create", "revoke", "expire"} => offer.status = "SENT"
    /\ r.at = "create" => Resumable = {}
    /\ r.at = "resend" => recipient.token # "dead" /\ offer.status # "DRAFT"
    /\ r.at = "expire" => offer.lapsed
    /\ r.at \in {"wrong", "right"} => challenge[r.c].status = "PENDING"
    /\ r.at = "wrong" => r.tries = challenge[r.c].attempts
    /\ r.at = "right" => /\ session[r.s].status = "AWAITING_OTP" /\ offer.status # "DRAFT"
                         /\ recipient.status \in {"PENDING", "VIEWED", "OTP_VERIFIED"}
    /\ r.at \in {"accept", "decline"} => session[r.s].status = "OTP_VERIFIED" /\ Resumable \subseteq {r.s}
    /\ r.at = "insert" => \A d \in Challenge : challenge[d].status # "NONE" => d <= r.c

AloneInv == RowsInOrder /\ CodesInOrder /\ \A p \in Procs : Unspoiled(p)

\* One step takes nothing back: NothingRegresses, of a step.
Forward ==
    /\ OfferTerminalIsFinal
    /\ RecipientDoesNotRegress
    /\ OtpTerminalIsFinal
    /\ SessionTerminalIsFinal
    /\ DeadTokenStaysDead

\* What a step of one request owes.
Good == AloneInv' /\ Forward

-----------------------------------------------------------------------------
(* What a step leaves alone.                                               *)

LEMMA OthersRest ==
    ASSUME OneAtATime, OneAtATime', NEW p \in Procs, NEW step \in Step, MovedTo(p, step),
           ~At(p, "idle") \/ step # "idle", Unspoiled(p)'
    PROVE  \A q \in Procs : Unspoiled(q)'
<1> SUFFICES ASSUME NEW q \in Procs, q # p PROVE Unspoiled(q)'
  OBVIOUS
<1>1. req'[q] = req[q] /\ req'[p].at = step
  BY DEF MovedTo
<1>2. req'[q].at = "idle"
  BY <1>1 DEF OneAtATime, At
<1> QED
  BY <1>2 DEF Unspoiled

LEMMA RowsStill ==
    ASSUME RowsInOrder, UNCHANGED <<offer, recipient>>, Resumable' \subseteq Resumable
    PROVE  RowsInOrder'
<1>1. /\ offer'.status = "DRAFT" => recipient'.status = "PENDING" /\ recipient'.token = "draft"
      /\ recipient'.status = "EXPIRED" => offer'.lapsed
  BY DEF RowsInOrder
<1>2. recipient'.status \in {"ACCEPTED", "DECLINED"} => offer'.status \notin {"DRAFT", "SENT"} /\ Resumable' = {}
  BY DEF RowsInOrder
<1>3. \A s, t \in Resumable' : s = t
  BY DEF RowsInOrder
<1> QED
  BY <1>1, <1>2, <1>3 DEF RowsInOrder

LEMMA SameFailures == chain' = chain => \A c \in Challenge : Failures(c)' = Failures(c)
BY DEF Failures, Occurrences, Indices, Is

LEMMA CodesStill ==
    ASSUME CodesInOrder, challenge' = challenge, \A c \in Challenge : Failures(c)' = Failures(c)
    PROVE  CodesInOrder'
BY DEF CodesInOrder

LEMMA SameSessions == session' = session => Resumable' = Resumable
BY DEF Resumable

LEMMA RowsForward == UNCHANGED <<offer, recipient, session, challenge>> /\ TypeInv => Forward
<1> SUFFICES ASSUME UNCHANGED <<offer, recipient, session, challenge>>, TypeInv PROVE Forward
  OBVIOUS
<1>1. OfferTerminalIsFinal /\ DeadTokenStaysDead
  BY DEF OfferTerminalIsFinal, DeadTokenStaysDead
<1>2. recipient.status \in RecipientStatus
  BY DEF TypeInv, TypeOK, RecipientRow
<1>3. RecipientDoesNotRegress
  BY <1>2 DEF RecipientDoesNotRegress, Progress, RecipientStatus
<1>4. OtpTerminalIsFinal /\ SessionTerminalIsFinal
  BY DEF OtpTerminalIsFinal, SessionTerminalIsFinal
<1> QED
  BY <1>1, <1>3, <1>4 DEF Forward

\* A request that only reads.
LEMMA ReadsOnly ==
    ASSUME TypeInv, AloneInv, OneAtATime, OneAtATime', NEW p \in Procs, NEW step \in Step, MovedTo(p, step),
           ~At(p, "idle") \/ step # "idle", Unspoiled(p)', UNCHANGED store
    PROVE  Good
<1>1. UNCHANGED <<offer, recipient, session, challenge, chain>>
  BY DEF store
<1>2. RowsInOrder'
  BY <1>1, RowsStill, SameSessions DEF AloneInv
<1>3. CodesInOrder'
  BY <1>1, CodesStill, SameFailures DEF AloneInv
<1> QED
  BY <1>1, <1>2, <1>3, OthersRest, RowsForward DEF Good, AloneInv

-----------------------------------------------------------------------------
(* Failures on the chains.                                                 *)

Fails(s, i, c) ==
    i \in Indices(s) /\ chain[s][i].type \in {"OTP_ATTEMPT_FAILED", "OTP_MAX_ATTEMPTS"} /\ chain[s][i].challenge = c

LEMMA FailuresAre == \A c, x : x \in Failures(c) <=> \E s \in Session : \E i \in Indices(s) : x = <<s, i>> /\ Fails(s, i, c)
BY DEF Failures, Fails, Occurrences, Is

LEMMA FailuresThen == \A c, x : x \in Failures(c)' <=> \E s \in Session : \E i \in Indices(s)' : x = <<s, i>> /\ Fails(s, i, c)'
BY DEF Failures, Fails, Occurrences, Is

\* An event of another kind is no failure.
LEMMA OtherLog ==
    ASSUME TypeInv, NEW s \in Session, NEW e \in Challenge \cup {0},
           NEW type \in EventType \ {"OTP_ATTEMPT_FAILED", "OTP_MAX_ATTEMPTS"}, LogEvent(s, type, e)
    PROVE  \A c \in Challenge : Failures(c)' = Failures(c)
<1>1. /\ \A t \in Session : t # s => chain'[t] = chain[t]
      /\ Indices(s)' = 1..(Len(chain[s]) + 1)
      /\ \A i \in Indices(s) : chain'[s][i] = chain[s][i]
      /\ chain'[s][Len(chain[s]) + 1] = [type |-> type, challenge |-> e]
      /\ Len(chain[s]) \in Nat /\ Indices(s) = 1..Len(chain[s])
  BY LogEventFacts DEF TypeInv, TypeOK
<1>2. \A t \in Session : t # s => Indices(t)' = Indices(t)
  BY <1>1 DEF Indices
<1>3. ASSUME NEW c \in Challenge, NEW t \in Session, NEW i
      PROVE  Fails(t, i, c)' <=> Fails(t, i, c)
  <2>1. CASE t # s
    BY <1>1, <1>2, <2>1 DEF Fails
  <2>2. CASE t = s
    <3>1. i \in Indices(s)' <=> i \in Indices(s) \/ i = Len(chain[s]) + 1
      BY <1>1
    <3>2. Len(chain[s]) + 1 \notin Indices(s)
      BY <1>1
    <3>3. CASE i \in Indices(s)
      BY <1>1, <2>2, <3>1, <3>3 DEF Fails
    <3>4. CASE i \notin Indices(s)
      BY <1>1, <2>2, <3>1, <3>4 DEF Fails
    <3> QED
      BY <3>3, <3>4
  <2> QED
    BY <2>1, <2>2
<1>4. ASSUME NEW c \in Challenge, NEW x PROVE x \in Failures(c)' <=> x \in Failures(c)
  BY <1>3, FailuresAre, FailuresThen DEF Fails
<1> QED
  BY <1>4

\* A failure is one more, of its own code.
LEMMA FailureLog ==
    ASSUME TypeInv, NEW s \in Session, NEW e \in Challenge,
           NEW type \in {"OTP_ATTEMPT_FAILED", "OTP_MAX_ATTEMPTS"}, LogEvent(s, type, e)
    PROVE  /\ \A c \in Challenge : c # e => Failures(c)' = Failures(c)
           /\ \E x : x \notin Failures(e) /\ Failures(e)' = Failures(e) \cup {x}
<1> DEFINE n == Len(chain[s]) + 1
           x == <<s, n>>
<1>1. /\ \A t \in Session : t # s => chain'[t] = chain[t]
      /\ Indices(s)' = 1..n
      /\ \A i \in Indices(s) : chain'[s][i] = chain[s][i]
      /\ chain'[s][n] = [type |-> type, challenge |-> e]
      /\ Len(chain[s]) \in Nat /\ Indices(s) = 1..Len(chain[s])
  BY LogEventFacts DEF TypeInv, TypeOK, EventType
<1>2. \A t \in Session : t # s => Indices(t)' = Indices(t)
  BY <1>1 DEF Indices
<1>3. n \in Indices(s)' /\ n \notin Indices(s)
      /\ \A i : i \in Indices(s)' <=> i \in Indices(s) \/ i = n
  BY <1>1
<1> HIDE DEF n
<1>4. ASSUME NEW c \in Challenge, NEW t \in Session, NEW i
      PROVE  Fails(t, i, c)' <=> Fails(t, i, c) \/ (t = s /\ i = n /\ c = e)
  <2>1. CASE t # s
    BY <1>1, <1>2, <2>1 DEF Fails
  <2>2. CASE t = s /\ i \in Indices(s)
    BY <1>1, <1>3, <2>2 DEF Fails
  <2>3. CASE t = s /\ i \notin Indices(s)
    BY <1>1, <1>3, <2>3 DEF Fails
  <2> QED
    BY <2>1, <2>2, <2>3
<1>5. ASSUME NEW c \in Challenge, c # e, NEW y PROVE y \in Failures(c)' <=> y \in Failures(c)
  BY <1>4, <1>5, FailuresAre, FailuresThen DEF Fails
<1>6. x \notin Failures(e)
  BY <1>3, FailuresAre
<1>7. ASSUME NEW y PROVE y \in Failures(e)' <=> y \in Failures(e) \/ y = x
  BY <1>3, <1>4, FailuresAre, FailuresThen DEF Fails
<1> QED
  BY <1>5, <1>6, <1>7

-----------------------------------------------------------------------------
(* Step by step.                                                           *)

LEMMA ProgressOrder ==
    /\ \A r \in {"PENDING", "VIEWED", "OTP_VERIFIED", "ACCEPTED", "DECLINED", "EXPIRED"} : Progress[r] \in 0..3
    /\ Progress["PENDING"] = 0 /\ Progress["VIEWED"] = 1 /\ Progress["OTP_VERIFIED"] = 2
    /\ Progress["ACCEPTED"] = 3 /\ Progress["DECLINED"] = 3 /\ Progress["EXPIRED"] = 3
BY DEF Progress

\* Offer and recipient are written, sessions and codes are not.
LEMMA TopWrites ==
    ASSUME TypeInv, AloneInv, OneAtATime, OneAtATime', NEW p \in Procs, NEW step \in Step, MovedTo(p, step),
           ~At(p, "idle") \/ step # "idle", Unspoiled(p)', UNCHANGED <<session, challenge, chain>>,
           OfferTerminalIsFinal, RecipientDoesNotRegress, DeadTokenStaysDead,
           /\ offer'.status = "DRAFT" => recipient'.status = "PENDING" /\ recipient'.token = "draft"
           /\ recipient'.status = "EXPIRED" => offer'.lapsed,
           recipient'.status \in {"ACCEPTED", "DECLINED"} =>
               recipient.status \in {"ACCEPTED", "DECLINED"} /\ offer'.status \notin {"DRAFT", "SENT"}
    PROVE  Good
<1>1. Resumable' = Resumable
  BY SameSessions
<1>2. RowsInOrder'
  BY <1>1 DEF RowsInOrder, AloneInv
<1>3. CodesInOrder'
  BY CodesStill, SameFailures DEF AloneInv
<1>4. OtpTerminalIsFinal /\ SessionTerminalIsFinal
  BY DEF OtpTerminalIsFinal, SessionTerminalIsFinal
<1> QED
  BY <1>2, <1>3, <1>4, OthersRest DEF Good, AloneInv, Forward

LEMMA SenderAlone ==
    ASSUME TypeInv, AloneInv, OneAtATime, OneAtATime', NEW p \in Procs, SenderStep(p)
    PROVE  Good
<1> USE StepNames
<1>0. /\ req \in [Procs -> Request] /\ offer \in OfferRow /\ recipient \in RecipientRow
      /\ offer.status \in OfferStatus /\ recipient.status \in RecipientStatus
      /\ Unspoiled(p) /\ RowsInOrder
  BY DEF TypeInv, TypeOK, AloneInv, OfferRow, RecipientRow
<1>1. CASE StartSend(p)
  <2>1. MovedTo(p, "send") /\ UNCHANGED store
    BY <1>0, <1>1, Moves DEF StartSend
  <2>2. Unspoiled(p)'
    BY <2>1 DEF MovedTo, Unspoiled
  <2> QED
    BY <2>1, <2>2, ReadsOnly
<1>2. CASE CommitSend(p)
  <2>1. MovedTo(p, "schedule") /\ ~At(p, "idle")
    BY <1>0, <1>2, Moves DEF CommitSend, At
  <2>2. Unspoiled(p)'
    BY <2>1 DEF MovedTo, Unspoiled
  <2>3. /\ offer.status = "DRAFT" /\ offer'.status = "SENT" /\ offer'.lapsed = offer.lapsed
        /\ recipient'.status = "PENDING" /\ recipient'.token = "live"
        /\ UNCHANGED <<session, challenge, chain>>
    BY <1>0, <1>2 DEF CommitSend, OfferRow, RecipientRow
  <2>4. recipient.status = "PENDING" /\ recipient.token = "draft"
    BY <1>0, <2>3 DEF RowsInOrder
  <2>5. OfferTerminalIsFinal /\ DeadTokenStaysDead
    BY <2>3, <2>4 DEF OfferTerminalIsFinal, DeadTokenStaysDead
  <2>6. RecipientDoesNotRegress
    BY <2>3, <2>4, ProgressOrder DEF RecipientDoesNotRegress
  <2> QED
    BY <2>1, <2>2, <2>3, <2>5, <2>6, TopWrites
<1>3. CASE ScheduleReminders(p) \/ CancelReminders(p)
  <2>1. MovedTo(p, "idle") /\ ~At(p, "idle") /\ UNCHANGED <<offer, recipient, session, challenge, chain>>
    BY <1>0, <1>3, Moves DEF ScheduleReminders, CancelReminders, At
  <2>2. Unspoiled(p)'
    BY <2>1 DEF MovedTo, Unspoiled
  <2>3. Forward
    BY <2>1, RowsForward
  <2>4. RowsInOrder' /\ CodesInOrder'
    BY <2>1, RowsStill, SameSessions, CodesStill, SameFailures DEF AloneInv
  <2> QED
    BY <2>1, <2>2, <2>3, <2>4, OthersRest DEF Good, AloneInv
<1>4. CASE StartResend(p)
  <2>1. MovedTo(p, "resend") /\ UNCHANGED store /\ Resendable
    BY <1>0, <1>4, Moves DEF StartResend
  <2>2. Unspoiled(p)'
    BY <2>1 DEF MovedTo, Unspoiled, Resendable, store
  <2> QED
    BY <2>1, <2>2, ReadsOnly
<1>5. CASE ReplaceToken(p)
  <2>1. MovedTo(p, "idle") /\ ~At(p, "idle")
    BY <1>0, <1>5, Moves DEF ReplaceToken, At
  <2>2. Unspoiled(p)'
    BY <2>1 DEF MovedTo, Unspoiled
  <2>3. /\ offer.status # "DRAFT" /\ offer' = offer /\ recipient'.status = recipient.status
        /\ recipient.token # "dead" /\ UNCHANGED <<session, challenge, chain>>
    BY <1>0, <1>5 DEF ReplaceToken, RecipientRow, Unspoiled, At
  <2>4. OfferTerminalIsFinal /\ DeadTokenStaysDead
    BY <2>3 DEF OfferTerminalIsFinal, DeadTokenStaysDead
  <2>5. RecipientDoesNotRegress
    BY <1>0, <2>3, ProgressOrder DEF RecipientDoesNotRegress, RecipientStatus
  <2> QED
    BY <1>0, <2>1, <2>2, <2>3, <2>4, <2>5, TopWrites DEF RowsInOrder
<1>6. CASE StartRevoke(p)
  <2>1. MovedTo(p, "revoke") /\ UNCHANGED store /\ Revocable
    BY <1>0, <1>6, Moves DEF StartRevoke
  <2>2. Unspoiled(p)'
    BY <2>1 DEF MovedTo, Unspoiled, Revocable, store
  <2> QED
    BY <2>1, <2>2, ReadsOnly
<1>7. CASE CommitRevoke(p)
  <2>1. MovedTo(p, "unschedule") /\ ~At(p, "idle")
    BY <1>0, <1>7, Moves DEF CommitRevoke, At
  <2>2. Unspoiled(p)'
    BY <2>1 DEF MovedTo, Unspoiled
  <2>3. /\ offer.status = "SENT" /\ offer'.status = "REVOKED" /\ offer'.lapsed = offer.lapsed
        /\ recipient'.status = recipient.status /\ recipient'.token = "dead"
        /\ UNCHANGED <<session, challenge, chain>>
    BY <1>0, <1>7 DEF CommitRevoke, OfferRow, RecipientRow, Unspoiled, At
  <2>4. OfferTerminalIsFinal /\ DeadTokenStaysDead
    BY <2>3 DEF OfferTerminalIsFinal, DeadTokenStaysDead
  <2>5. RecipientDoesNotRegress
    BY <1>0, <2>3, ProgressOrder DEF RecipientDoesNotRegress, RecipientStatus
  <2> QED
    BY <1>0, <2>1, <2>2, <2>3, <2>4, <2>5, TopWrites DEF RowsInOrder
<1> QED
  BY <1>1, <1>2, <1>3, <1>4, <1>5, <1>6, <1>7 DEF SenderStep

LEMMA SweepAlone ==
    ASSUME TypeInv, AloneInv, OneAtATime, OneAtATime', NEW p \in Procs, SweepStep(p)
    PROVE  Good
<1> USE StepNames
<1>0. /\ req \in [Procs -> Request] /\ offer \in OfferRow /\ recipient \in RecipientRow
      /\ offer.status \in OfferStatus /\ recipient.status \in RecipientStatus
      /\ session \in [Session -> SessionRow] /\ challenge \in [Challenge -> ChallengeRow]
      /\ Unspoiled(p) /\ RowsInOrder
  BY DEF TypeInv, TypeOK, AloneInv, OfferRow, RecipientRow
<1>1. CASE FindExpiredOffer(p)
  <2>1. MovedTo(p, "expire") /\ UNCHANGED store /\ OfferExpired
    BY <1>0, <1>1, Moves DEF FindExpiredOffer
  <2>2. Unspoiled(p)'
    BY <2>1 DEF MovedTo, Unspoiled, OfferExpired, store
  <2> QED
    BY <2>1, <2>2, ReadsOnly
<1>2. CASE CommitExpiry(p)
  <2>1. MovedTo(p, "unschedule") /\ ~At(p, "idle")
    BY <1>0, <1>2, Moves DEF CommitExpiry, At
  <2>2. Unspoiled(p)'
    BY <2>1 DEF MovedTo, Unspoiled
  <2>3. /\ offer.status = "SENT" /\ offer'.status = "EXPIRED" /\ offer'.lapsed
        /\ recipient'.token = recipient.token /\ UNCHANGED <<session, challenge, chain>>
    BY <1>0, <1>2 DEF CommitExpiry, OfferRow, RecipientRow, Unspoiled, At
  <2>4. \/ recipient'.status = recipient.status /\ recipient.status \in {"ACCEPTED", "DECLINED", "EXPIRED"}
        \/ recipient'.status = "EXPIRED"
    BY <1>0, <1>2 DEF CommitExpiry, RecipientRow
  <2>5. OfferTerminalIsFinal /\ DeadTokenStaysDead
    BY <2>3 DEF OfferTerminalIsFinal, DeadTokenStaysDead
  <2>6. RecipientDoesNotRegress
    BY <1>0, <2>4, ProgressOrder DEF RecipientDoesNotRegress, RecipientStatus
  <2> QED
    BY <1>0, <2>1, <2>2, <2>3, <2>4, <2>5, <2>6, TopWrites
<1>3. CASE ExpireSessions(p)
  <2>1. MovedTo(p, "otpsweep") /\ UNCHANGED <<offer, recipient, challenge, chain>>
    BY <1>0, <1>3, Moves DEF ExpireSessions
  <2>2. Unspoiled(p)'
    BY <2>1 DEF MovedTo, Unspoiled
  <2>3. \A s \in Session : \/ session'[s] = session[s]
                           \/ /\ session[s].status \in {"AWAITING_OTP", "OTP_VERIFIED"}
                              /\ session'[s].status = "EXPIRED"
    BY <1>0, <1>3 DEF ExpireSessions, SessionRow, SessionRanOut
  <2>4. Resumable' \subseteq Resumable
    BY <2>3 DEF Resumable
  <2>5. RowsInOrder' /\ CodesInOrder'
    BY <2>1, <2>4, RowsStill, CodesStill, SameFailures DEF AloneInv
  <2>6. SessionTerminalIsFinal /\ OtpTerminalIsFinal
    BY <2>1, <2>3 DEF SessionTerminalIsFinal, OtpTerminalIsFinal
  <2>7. OfferTerminalIsFinal /\ DeadTokenStaysDead
    BY <2>1 DEF OfferTerminalIsFinal, DeadTokenStaysDead
  <2>8. RecipientDoesNotRegress
    BY <1>0, <2>1, ProgressOrder DEF RecipientDoesNotRegress, RecipientStatus
  <2> QED
    BY <2>1, <2>2, <2>5, <2>6, <2>7, <2>8, OthersRest DEF Good, AloneInv, Forward
<1>4. CASE ExpireChallenges(p)
  <2>1. MovedTo(p, "idle") /\ ~At(p, "idle") /\ UNCHANGED <<offer, recipient, session, chain>>
    BY <1>0, <1>4, Moves DEF ExpireChallenges, At
  <2>2. Unspoiled(p)'
    BY <2>1 DEF MovedTo, Unspoiled
  <2>3. \A c \in Challenge : \/ challenge'[c] = challenge[c]
                             \/ /\ challenge[c].status = "PENDING" /\ challenge'[c].status = "EXPIRED"
                                /\ challenge'[c].attempts = challenge[c].attempts
    BY <1>0, <1>4 DEF ExpireChallenges, ChallengeRow, CodeRanOut
  <2>4. CodesInOrder'
    <3>1. \A c \in Challenge : Failures(c)' = Failures(c)
      BY <2>1, SameFailures
    <3>2. \A c \in Challenge : challenge'[c].attempts = challenge[c].attempts
      BY <2>3
    <3>3. \A c \in Challenge : /\ challenge'[c].status = "NONE" => challenge[c].status = "NONE"
                               /\ challenge'[c].status = "PENDING" => challenge'[c] = challenge[c]
      BY <2>3
    <3> QED
      BY <3>1, <3>2, <3>3 DEF CodesInOrder, AloneInv
  <2>5. RowsInOrder'
    BY <2>1, RowsStill, SameSessions DEF AloneInv
  <2>6. SessionTerminalIsFinal /\ OtpTerminalIsFinal
    BY <2>1, <2>3 DEF SessionTerminalIsFinal, OtpTerminalIsFinal
  <2>7. OfferTerminalIsFinal /\ DeadTokenStaysDead
    BY <2>1 DEF OfferTerminalIsFinal, DeadTokenStaysDead
  <2>8. RecipientDoesNotRegress
    BY <1>0, <2>1, ProgressOrder DEF RecipientDoesNotRegress, RecipientStatus
  <2> QED
    BY <2>1, <2>2, <2>4, <2>5, <2>6, <2>7, <2>8, OthersRest DEF Good, AloneInv, Forward
<1> QED
  BY <1>1, <1>2, <1>3, <1>4 DEF SweepStep

LEMMA AbortAlone ==
    ASSUME TypeInv, AloneInv, OneAtATime, OneAtATime', NEW p \in Procs, Abort(p)
    PROVE  Good
<1>1. MovedTo(p, "idle") /\ ~At(p, "idle") /\ UNCHANGED store
  BY Moves, StepNames DEF Abort, TypeInv, TypeOK
<1>2. Unspoiled(p)'
  BY <1>1 DEF MovedTo, Unspoiled
<1> QED
  BY <1>1, <1>2, ReadsOnly, StepNames

\* A deadline closes sessions to resuming, and changes nothing a request rests on.
LEMMA TickAlone ==
    ASSUME TypeInv, AloneInv, Tick
    PROVE  Good
<1>0. /\ offer \in OfferRow /\ recipient \in RecipientRow
      /\ session \in [Session -> SessionRow] /\ challenge \in [Challenge -> ChallengeRow]
      /\ RowsInOrder /\ CodesInOrder /\ (\A p \in Procs : Unspoiled(p) /\ Refers(p))
  BY DEF TypeInv, TypeOK, AloneInv
<1>1. /\ UNCHANGED <<recipient, chain, req>> /\ offer'.status = offer.status /\ (offer.lapsed => offer'.lapsed)
      /\ \A s \in Session : session'[s].status = session[s].status /\ (session[s].lapsed => session'[s].lapsed)
      /\ \A c \in Challenge : /\ challenge'[c].status = challenge[c].status
                              /\ challenge'[c].session = challenge[c].session
                              /\ challenge'[c].attempts = challenge[c].attempts
  BY <1>0 DEF Tick, LapseOffer, LapseSession, LapseChallenge, OfferRow, SessionRow, ChallengeRow
<1>2. Resumable' \subseteq Resumable
  BY <1>0, <1>1 DEF Resumable, SessionRow
<1>3. RowsInOrder'
  BY <1>0, <1>1, <1>2 DEF RowsInOrder
<1>4. CodesInOrder'
  <2>1. \A c \in Challenge : Failures(c)' = Failures(c)
    BY <1>1, SameFailures
  <2> QED
    BY <1>0, <1>1, <2>1 DEF CodesInOrder
<1>5. ASSUME NEW p \in Procs PROVE Unspoiled(p)'
  <2>1. req'[p] = req[p] /\ Unspoiled(p) /\ Refers(p)
    BY <1>0, <1>1
  <2>2. /\ req[p].at \in {"wrong", "right"} => req[p].c \in Challenge
        /\ req[p].at \in {"right", "accept", "decline"} => req[p].s \in Session
    BY <2>1 DEF Refers, HoldsSession, HoldsChallenge
  <2> QED
    BY <1>1, <1>2, <2>1, <2>2 DEF Unspoiled
<1>6. OfferTerminalIsFinal /\ DeadTokenStaysDead /\ SessionTerminalIsFinal /\ OtpTerminalIsFinal
  BY <1>1 DEF OfferTerminalIsFinal, DeadTokenStaysDead, SessionTerminalIsFinal, OtpTerminalIsFinal
<1>7. RecipientDoesNotRegress
  BY <1>0, <1>1, ProgressOrder DEF RecipientDoesNotRegress, RecipientRow, RecipientStatus
<1> QED
  BY <1>3, <1>4, <1>5, <1>6, <1>7 DEF Good, AloneInv, Forward

-----------------------------------------------------------------------------
(* The recipient's requests.                                               *)

\* What they read before they write.
LEMMA RecipientReads ==
    ASSUME TypeInv, AloneInv, OneAtATime, OneAtATime', NEW p \in Procs,
           \/ StartOtpRequest(p) \/ FindSession(p) \/ CheckLockout(p) \/ BeginIssue(p)
           \/ StartDocumentView(p) \/ StartVerify(p) \/ StartAccept(p) \/ StartDecline(p)
    PROVE  Good
<1> USE StepNames
<1>0. /\ req \in [Procs -> Request] /\ session \in [Session -> SessionRow]
      /\ challenge \in [Challenge -> ChallengeRow] /\ RowsRefer
      /\ Unspoiled(p) /\ RowsInOrder /\ Refers(p) /\ recipient.status \in RecipientStatus
  BY DEF TypeInv, TypeOK, AloneInv, RecipientRow
<1>1. CASE StartOtpRequest(p)
  <2>1. UNCHANGED store /\ offer.status = "SENT"
    BY <1>1 DEF StartOtpRequest
  <2>2. PICK step \in {"view", "find"} : MovedTo(p, step) /\ (step = "view" => recipient.status = "PENDING")
    BY <1>0, <1>1, Moves DEF StartOtpRequest, FirstOpen
  <2>3. Unspoiled(p)'
    BY <2>1, <2>2 DEF MovedTo, Unspoiled, store
  <2> QED
    BY <2>1, <2>2, <2>3, ReadsOnly
<1>2. CASE FindSession(p)
  <2>1. UNCHANGED store /\ offer.status = "SENT" /\ ~At(p, "idle")
    BY <1>0, <1>2 DEF FindSession, Unspoiled, At
  <2>2. PICK step \in {"create", "lockout"} : MovedTo(p, step) /\ (step = "create" => Resumable = {})
    BY <1>0, <1>2, Moves DEF FindSession, Resumable
  <2>3. Resumable' = Resumable
    BY <2>1, SameSessions DEF store
  <2>4. Unspoiled(p)'
    BY <2>1, <2>2, <2>3 DEF MovedTo, Unspoiled, store
  <2> QED
    BY <2>1, <2>2, <2>4, ReadsOnly
<1>3. CASE CheckLockout(p)
  <2>1. UNCHANGED store /\ ~At(p, "idle") /\ req[p].s \in Session
    BY <1>0, <1>3 DEF CheckLockout, At, Refers, HoldsSession
  <2>2. PICK step \in {"issue", "idle"} : MovedTo(p, step)
    BY <1>0, <1>3, <2>1, Moves DEF CheckLockout
  <2>3. Unspoiled(p)'
    BY <2>2 DEF MovedTo, Unspoiled
  <2> QED
    BY <2>1, <2>2, <2>3, ReadsOnly
<1>4. CASE BeginIssue(p)
  <2>1. PICK n \in Challenge \cup {0} : ChallengesUpTo(n) /\ req' = [req EXCEPT ![p].at = "insert", ![p].c = n]
    BY <1>4 DEF BeginIssue
  <2>2. UNCHANGED store /\ ~At(p, "idle") /\ req[p] \in Request
    BY <1>0, <1>4 DEF BeginIssue, At
  <2> DEFINE r == [req[p] EXCEPT !.at = "insert"]
  <2>3. r \in Request /\ r.at = "insert"
    BY <2>2 DEF Request
  <2>4. [r EXCEPT !.c = n] \in Request /\ [r EXCEPT !.c = n].at = r.at /\ [r EXCEPT !.c = n].c = n
    BY <2>3 DEF Request
  <2>5. req' = [req EXCEPT ![p] = [r EXCEPT !.c = n]]
    BY <2>1
  <2> HIDE DEF r
  <2>6. MovedTo(p, "insert") /\ req'[p].c = n
    BY <1>0, <2>3, <2>4, <2>5 DEF MovedTo
  <2>7. \A d \in Challenge : challenge'[d].status # "NONE" => d <= n
    BY <2>1, <2>2 DEF ChallengesUpTo, store
  <2>8. Unspoiled(p)'
    BY <2>6, <2>7 DEF MovedTo, Unspoiled
  <2> QED
    BY <2>2, <2>6, <2>8, ReadsOnly
<1>5. CASE StartDocumentView(p)
  <2>1. UNCHANGED store /\ MovedTo(p, "document")
    BY <1>0, <1>5, Moves DEF StartDocumentView, Resumable
  <2>2. Unspoiled(p)'
    BY <2>1 DEF MovedTo, Unspoiled
  <2> QED
    BY <2>1, <2>2, ReadsOnly
<1>6. CASE StartVerify(p)
  <2>1. PICK c \in Challenge, code \in {"wrong", "right"} :
            /\ EffectiveOtpStatus(c) = "PENDING"
            /\ Verifiable(challenge[c].session)
            /\ req' = [req EXCEPT ![p] =
                         [at |-> code, s |-> challenge[c].session, c |-> c, tries |-> challenge[c].attempts,
                          sver |-> session[challenge[c].session].version, rver |-> recipient.version]]
    BY <1>6 DEF StartVerify
  <2>2. challenge[c].status = "PENDING" /\ challenge[c].session \in Session /\ TokenValid /\ UNCHANGED store
    BY <1>0, <1>6, <2>1 DEF EffectiveOtpStatus, RowsRefer, StartVerify
  <2>3. MovedTo(p, code) /\ req'[p].c = c /\ req'[p].s = challenge[c].session /\ req'[p].tries = challenge[c].attempts
    <3>1. TypeInv'
      BY <1>6, RecipientTypes DEF RecipientStep
    <3> QED
      BY <1>0, <2>1, <3>1 DEF MovedTo, TypeInv, TypeOK
  <2>4. challenge[c].session \in Resumable
    BY <2>1, <2>2 DEF Verifiable, Resumable
  <2>5. offer.status # "DRAFT" /\ recipient.status \in {"PENDING", "VIEWED", "OTP_VERIFIED"}
    <3>1. recipient.token = "live" /\ ~offer.lapsed /\ Resumable # {}
      BY <2>2, <2>4 DEF TokenValid
    <3> QED
      BY <1>0, <3>1 DEF RowsInOrder, RecipientStatus
  <2>6. Unspoiled(p)'
    BY <2>1, <2>2, <2>3, <2>5 DEF Verifiable, MovedTo, Unspoiled, store
  <2> QED
    BY <2>2, <2>3, <2>6, ReadsOnly
<1>7. CASE StartAccept(p) \/ StartDecline(p)
  <2>1. PICK step \in {"accept", "decline"}, verdict \in {"ACCEPTED", "DECLINED"}, c \in Challenge :
            DecisionReads(c, verdict) /\ Decide(p, c, step)
    BY <1>7 DEF StartAccept, StartDecline
  <2>2. UNCHANGED store /\ challenge[c].session \in Session
    BY <1>0, <1>7, <2>1 DEF StartAccept, StartDecline, DecisionReads, ChallengeProves, RowsRefer
  <2>3. MovedTo(p, step) /\ req'[p].s = challenge[c].session
    BY <1>0, <2>1, <2>2, DecideMoves
  <2>4. session[challenge[c].session].status = "OTP_VERIFIED" /\ ~session[challenge[c].session].lapsed
    <3>1. CanTransition(SessionTransitions, session[challenge[c].session].status, verdict)
      BY <2>1 DEF DecisionReads
    <3> QED
      BY <2>1, <3>1 DEF DecisionReads, CanTransition, SessionTransitions
  <2>5. Resumable \subseteq {challenge[c].session}
    BY <1>0, <2>2, <2>4 DEF Resumable, RowsInOrder
  <2>6. Resumable' = Resumable
    BY <2>2, SameSessions DEF store
  <2>7. Unspoiled(p)'
    BY <2>2, <2>3, <2>4, <2>5, <2>6 DEF MovedTo, Unspoiled, store
  <2> QED
    BY <2>2, <2>3, <2>7, ReadsOnly
<1> QED
  BY <1>1, <1>2, <1>3, <1>4, <1>5, <1>6, <1>7

\* What they add to rows and chains.
LEMMA OneStatus ==
    ASSUME session \in [Session -> SessionRow], NEW s \in Session, NEW x,
           session' = [session EXCEPT ![s].status = x]
    PROVE  /\ session'[s].status = x /\ session'[s].lapsed = session[s].lapsed
           /\ \A t \in Session : t # s => session'[t] = session[t]
BY DEF SessionRow

LEMMA RecipientAdds ==
    ASSUME TypeInv, AloneInv, OneAtATime, OneAtATime', NEW p \in Procs,
           MarkViewed(p) \/ CreateSession(p) \/ RecordDocumentView(p)
    PROVE  Good
<1> USE StepNames
<1>0. /\ req \in [Procs -> Request] /\ session \in [Session -> SessionRow] /\ recipient \in RecipientRow
      /\ Unspoiled(p) /\ RowsInOrder /\ CodesInOrder /\ Refers(p) /\ recipient.status \in RecipientStatus
  BY DEF TypeInv, TypeOK, AloneInv, RecipientRow
<1>1. CASE MarkViewed(p)
  <2>1. MovedTo(p, "find") /\ ~At(p, "idle") /\ UNCHANGED <<offer, session, challenge, chain>>
    BY <1>0, <1>1, Moves DEF MarkViewed, At
  <2>2. /\ recipient.status = "PENDING" /\ recipient'.status = "VIEWED" /\ recipient'.token = recipient.token
        /\ offer.status = "SENT"
    BY <1>0, <1>1 DEF MarkViewed, At, Unspoiled, RecipientRow
  <2>3. Unspoiled(p)'
    BY <2>1, <2>2 DEF MovedTo, Unspoiled
  <2>4. OfferTerminalIsFinal /\ DeadTokenStaysDead
    BY <2>1, <2>2 DEF OfferTerminalIsFinal, DeadTokenStaysDead
  <2>5. RecipientDoesNotRegress
    BY <2>2, ProgressOrder DEF RecipientDoesNotRegress
  <2> QED
    BY <2>1, <2>2, <2>3, <2>4, <2>5, TopWrites
<1>2. CASE CreateSession(p)
  <2>1. PICK s \in Session :
            /\ SessionsUpTo(s - 1)
            /\ session' = [session EXCEPT ![s].status = "AWAITING_OTP"]
            /\ LogEvent(s, "SESSION_STARTED", 0)
            /\ GotoWith(p, "lockout", s)
    BY <1>2 DEF CreateSession
  <2>2. MovedTo(p, "lockout") /\ ~At(p, "idle") /\ UNCHANGED <<offer, recipient, challenge>>
    BY <1>0, <1>2, <2>1, Moves DEF CreateSession, At
  <2>3. session[s].status = "NONE" /\ Resumable = {} /\ offer.status = "SENT"
    BY <1>0, <1>2, <2>1, StoreAssumption DEF SessionsUpTo, Session, CreateSession, At, Unspoiled
  <2>4. \A t \in Session : t # s => session'[t] = session[t]
    BY <1>0, <2>1, OneStatus
  <2>5. Resumable' \subseteq {s}
    BY <2>3, <2>4 DEF Resumable
  <2>6. RowsInOrder'
    BY <1>0, <2>2, <2>3, <2>5 DEF RowsInOrder
  <2>7. \A c \in Challenge : Failures(c)' = Failures(c)
    BY <2>1, OtherLog DEF EventType
  <2>8. CodesInOrder'
    BY <1>0, <2>2, <2>7, CodesStill
  <2>9. Unspoiled(p)'
    BY <2>2 DEF MovedTo, Unspoiled
  <2>10. SessionTerminalIsFinal
    BY <2>3, <2>4 DEF SessionTerminalIsFinal
  <2>11. OfferTerminalIsFinal /\ DeadTokenStaysDead /\ OtpTerminalIsFinal
    BY <2>2 DEF OfferTerminalIsFinal, DeadTokenStaysDead, OtpTerminalIsFinal
  <2>12. RecipientDoesNotRegress
    BY <1>0, <2>2, ProgressOrder DEF RecipientDoesNotRegress, RecipientStatus
  <2> QED
    BY <2>2, <2>6, <2>8, <2>9, <2>10, <2>11, <2>12, OthersRest DEF Good, AloneInv, Forward
<1>3. CASE RecordDocumentView(p)
  <2>1. MovedTo(p, "idle") /\ ~At(p, "idle") /\ UNCHANGED <<offer, recipient, session, challenge>>
    BY <1>0, <1>3, Moves DEF RecordDocumentView, At
  <2>2. req[p].s \in Session /\ LogEvent(req[p].s, "DOCUMENT_VIEWED", 0)
    BY <1>0, <1>3 DEF RecordDocumentView, At, Refers, HoldsSession
  <2>3. \A c \in Challenge : Failures(c)' = Failures(c)
    BY <2>2, OtherLog DEF EventType
  <2>4. RowsInOrder' /\ CodesInOrder'
    BY <1>0, <2>1, <2>3, RowsStill, SameSessions, CodesStill
  <2>5. Unspoiled(p)'
    BY <2>1 DEF MovedTo, Unspoiled
  <2> QED
    BY <2>1, <2>4, <2>5, RowsForward, OthersRest DEF Good, AloneInv
<1> QED
  BY <1>1, <1>2, <1>3

\* A new code, and the end of the one before it.
LEMMA IssueAlone ==
    ASSUME TypeInv, AloneInv, OneAtATime, OneAtATime', NEW p \in Procs, IssueOtp(p)
    PROVE  Good
<1> USE StepNames
<1>0. /\ req \in [Procs -> Request] /\ challenge \in [Challenge -> ChallengeRow]
      /\ Unspoiled(p) /\ CodesInOrder /\ Refers(p) /\ recipient.status \in RecipientStatus
  BY DEF TypeInv, TypeOK, AloneInv, RecipientRow
<1>1. MovedTo(p, "idle") /\ ~At(p, "idle") /\ UNCHANGED <<offer, recipient, session>>
  BY <1>0, Moves DEF IssueOtp, At
<1>2. /\ req[p].s \in Session /\ LogEvent(req[p].s, "OTP_ISSUED", 0)
      /\ \A d \in Challenge : challenge[d].status # "NONE" => d <= req[p].c
  BY <1>0 DEF IssueOtp, At, Refers, HoldsSession, Unspoiled
<1>3. \A c \in Challenge : Failures(c)' = Failures(c)
  BY <1>2, OtherLog DEF EventType
<1>4. PICK c \in Challenge :
            /\ ChallengesUpTo(c - 1)
            /\ challenge' = [d \in Challenge |->
                  IF d = c THEN [NoChallenge EXCEPT !.status = "PENDING", !.session = req[p].s]
                  ELSE IF Superseded(p, d) THEN [challenge[d] EXCEPT !.status = "INVALIDATED"]
                  ELSE challenge[d]]
  BY DEF IssueOtp
<1>5. challenge[c].status = "NONE"
  BY <1>4, StoreAssumption DEF ChallengesUpTo, Challenge
<1>6. challenge'[c].status = "PENDING" /\ challenge'[c].session = req[p].s /\ challenge'[c].attempts = 0
  <2>1. PICK k : k = [NoChallenge EXCEPT !.status = "PENDING", !.session = req[p].s]
    OBVIOUS
  <2>2. k.status = "PENDING" /\ k.session = req[p].s /\ k.attempts = 0
    BY <2>1 DEF NoChallenge
  <2>3. challenge'[c] = k
    BY <1>4, <2>1
  <2> QED
    BY <2>2, <2>3
<1>7. \A d \in Challenge : d # c =>
         \/ /\ challenge'[d] = challenge[d]
            /\ challenge[d].status = "PENDING" => challenge[d].session # req[p].s
         \/ /\ challenge[d].status = "PENDING" /\ challenge'[d].status = "INVALIDATED"
            /\ challenge'[d].attempts = challenge[d].attempts
  <2> SUFFICES ASSUME NEW d \in Challenge, d # c
               PROVE  \/ /\ challenge'[d] = challenge[d]
                         /\ challenge[d].status = "PENDING" => challenge[d].session # req[p].s
                      \/ /\ challenge[d].status = "PENDING" /\ challenge'[d].status = "INVALIDATED"
                         /\ challenge'[d].attempts = challenge[d].attempts
    OBVIOUS
  <2>1. CASE Superseded(p, d)
    <3>1. challenge'[d] = [challenge[d] EXCEPT !.status = "INVALIDATED"]
      BY <1>4, <2>1
    <3>2. challenge[d].status = "PENDING"
      BY <2>1 DEF Superseded
    <3> QED
      BY <1>0, <3>1, <3>2 DEF ChallengeRow
  <2>2. CASE ~Superseded(p, d)
    <3>1. challenge'[d] = challenge[d]
      BY <1>4, <2>2
    <3>2. challenge[d].status = "PENDING" => d <= req[p].c
      BY <1>2
    <3> QED
      BY <2>2, <3>1, <3>2 DEF Superseded
  <2> QED
    BY <2>1, <2>2
<1>8. CodesInOrder'
  <2>1. \A d \in Challenge : challenge'[d].status = "NONE" => challenge'[d].attempts = 0
    BY <1>0, <1>6, <1>7 DEF CodesInOrder
  <2>2. \A d \in Challenge : challenge'[d].attempts = challenge[d].attempts
    BY <1>0, <1>5, <1>6, <1>7 DEF CodesInOrder
  <2>3. \A d \in Challenge : IsFiniteSet(Failures(d)') /\ challenge'[d].attempts = Cardinality(Failures(d)')
    BY <1>0, <1>3, <2>2 DEF CodesInOrder
  <2>4. \A d \in Challenge : d # c /\ challenge'[d].status = "PENDING" =>
           challenge'[d] = challenge[d] /\ challenge[d].session # req[p].s
    BY <1>7
  <2>5. ASSUME NEW d \in Challenge, NEW e \in Challenge, challenge'[d].status = "PENDING",
               challenge'[e].status = "PENDING", challenge'[d].session = challenge'[e].session
        PROVE  d = e
    BY <1>0, <1>6, <2>4, <2>5 DEF CodesInOrder
  <2> QED
    BY <2>1, <2>3, <2>5 DEF CodesInOrder
<1>9. RowsInOrder'
  BY <1>1, RowsStill, SameSessions DEF AloneInv
<1>10. Unspoiled(p)'
  BY <1>1 DEF MovedTo, Unspoiled
<1>11. OtpTerminalIsFinal
  BY <1>5, <1>7 DEF OtpTerminalIsFinal
<1>12. OfferTerminalIsFinal /\ DeadTokenStaysDead /\ SessionTerminalIsFinal
  BY <1>1 DEF OfferTerminalIsFinal, DeadTokenStaysDead, SessionTerminalIsFinal
<1>13. RecipientDoesNotRegress
  BY <1>0, <1>1, ProgressOrder DEF RecipientDoesNotRegress, RecipientStatus
<1> QED
  BY <1>1, <1>8, <1>9, <1>10, <1>11, <1>12, <1>13, OthersRest DEF Good, AloneInv, Forward

\* One code answered: no other is touched, and it waited.
LEMMA AnswerAlone ==
    ASSUME TypeInv, AloneInv, OneAtATime, OneAtATime', NEW p \in Procs, RecordFailure(p) \/ AdvanceVerified(p)
    PROVE  Good
<1> USE StepNames
<1>a. PICK c, s : c = req[p].c /\ s = req[p].s
  OBVIOUS
<1>0. /\ req \in [Procs -> Request] /\ challenge \in [Challenge -> ChallengeRow]
      /\ session \in [Session -> SessionRow] /\ recipient \in RecipientRow
      /\ Unspoiled(p) /\ RowsInOrder /\ CodesInOrder /\ Refers(p) /\ recipient.status \in RecipientStatus
  BY DEF TypeInv, TypeOK, AloneInv, RecipientRow
<1>1. /\ c \in Challenge /\ challenge[c].status = "PENDING" /\ s \in Session
  BY <1>0, <1>a DEF RecordFailure, AdvanceVerified, At, Refers, HoldsSession, HoldsChallenge, Unspoiled
<1>2. MovedTo(p, "idle") /\ ~At(p, "idle") /\ offer' = offer
  BY <1>0, Moves DEF RecordFailure, AdvanceVerified, At
<1>3. Unspoiled(p)'
  BY <1>2 DEF MovedTo, Unspoiled
<1>4. CASE RecordFailure(p)
  <2> DEFINE tries == CountedTries(p)
             x == IF tries >= MaxAttempts THEN "LOCKED" ELSE challenge[c].status
             type == IF tries >= MaxAttempts THEN "OTP_MAX_ATTEMPTS" ELSE "OTP_ATTEMPT_FAILED"
  <2>1. UNCHANGED <<recipient, session>>
    BY <1>a, <1>4 DEF RecordFailure
  <2>2. challenge' = [challenge EXCEPT ![c] = [challenge[c] EXCEPT !.attempts = tries, !.status = x]]
    BY <1>a, <1>4 DEF RecordFailure
  <2>3. type \in {"OTP_ATTEMPT_FAILED", "OTP_MAX_ATTEMPTS"} /\ LogEvent(s, type, c)
    BY <1>a, <1>4 DEF RecordFailure
  <2>4. tries = challenge[c].attempts + 1 /\ challenge[c].attempts \in Nat
    BY <1>0, <1>a, <1>1, <1>4, StoreAssumption DEF RecordFailure, CountedTries, At, Unspoiled, ChallengeRow
  <2>5. x \in {"PENDING", "LOCKED"}
    BY <1>1
  <2> HIDE DEF x, type, tries
  <2>6. PICK k : k = [challenge[c] EXCEPT !.attempts = tries, !.status = x]
    OBVIOUS
  <2>7. k.attempts = tries /\ k.status = x /\ k.session = challenge[c].session
    BY <1>0, <1>1, <2>6 DEF ChallengeRow
  <2>8. challenge'[c] = k /\ \A d \in Challenge : d # c => challenge'[d] = challenge[d]
    BY <1>0, <1>1, <2>2, <2>6
  <2>9. /\ \A d \in Challenge : d # c => Failures(d)' = Failures(d)
        /\ \E y : y \notin Failures(c) /\ Failures(c)' = Failures(c) \cup {y}
    BY <1>1, <2>3, FailureLog
  <2>10. IsFiniteSet(Failures(c)') /\ Cardinality(Failures(c)') = challenge[c].attempts + 1
    <3>1. PICK y : y \notin Failures(c) /\ Failures(c)' = Failures(c) \cup {y}
      BY <2>9
    <3>2. IsFiniteSet(Failures(c)) /\ Cardinality(Failures(c)) = challenge[c].attempts
      BY <1>0, <1>1 DEF CodesInOrder
    <3> QED
      BY <3>1, <3>2, FS_AddElement
  <2>11. CodesInOrder'
    <3>1. \A d \in Challenge : challenge'[d].status = "NONE" => challenge'[d].attempts = 0
      BY <1>0, <2>5, <2>7, <2>8 DEF CodesInOrder
    <3>2. \A d \in Challenge : IsFiniteSet(Failures(d)') /\ challenge'[d].attempts = Cardinality(Failures(d)')
      BY <1>0, <2>4, <2>7, <2>8, <2>9, <2>10 DEF CodesInOrder
    <3>3. \A d \in Challenge : /\ challenge'[d].session = challenge[d].session
                               /\ challenge'[d].status = "PENDING" => challenge[d].status = "PENDING"
      BY <1>1, <2>7, <2>8
    <3> QED
      BY <1>0, <3>1, <3>2, <3>3 DEF CodesInOrder
  <2>12. RowsInOrder'
    BY <1>0, <1>2, <2>1, RowsStill, SameSessions
  <2>13. OtpTerminalIsFinal
    BY <1>1, <2>8 DEF OtpTerminalIsFinal
  <2>14. OfferTerminalIsFinal /\ DeadTokenStaysDead /\ SessionTerminalIsFinal
    BY <1>2, <2>1 DEF OfferTerminalIsFinal, DeadTokenStaysDead, SessionTerminalIsFinal
  <2>15. RecipientDoesNotRegress
    BY <1>0, <2>1, ProgressOrder DEF RecipientDoesNotRegress, RecipientStatus
  <2> QED
    BY <1>2, <1>3, <2>11, <2>12, <2>13, <2>14, <2>15, OthersRest DEF Good, AloneInv, Forward
<1>5. CASE AdvanceVerified(p)
  <2>1. /\ session[s].status = "AWAITING_OTP" /\ offer.status # "DRAFT"
        /\ recipient.status \in {"PENDING", "VIEWED", "OTP_VERIFIED"}
    BY <1>0, <1>a, <1>5 DEF AdvanceVerified, At, Unspoiled
  <2>2. challenge' = [challenge EXCEPT ![c] = [challenge[c] EXCEPT !.status = "VERIFIED"]]
    BY <1>a, <1>5 DEF AdvanceVerified
  <2>3. /\ challenge'[c].status = "VERIFIED" /\ challenge'[c].attempts = challenge[c].attempts
        /\ \A d \in Challenge : d # c => challenge'[d] = challenge[d]
    <3>1. PICK k : k = [challenge[c] EXCEPT !.status = "VERIFIED"]
      OBVIOUS
    <3>2. k.status = "VERIFIED" /\ k.attempts = challenge[c].attempts
      BY <1>0, <1>1, <3>1 DEF ChallengeRow
    <3> QED
      BY <1>0, <1>1, <2>2, <3>1, <3>2
  <2>4. /\ session'[s].status = "OTP_VERIFIED" /\ session'[s].lapsed = session[s].lapsed
        /\ \A t \in Session : t # s => session'[t] = session[t]
    <3>1. PICK k : k = [session[s] EXCEPT !.status = "OTP_VERIFIED", !.version = @ + 1]
      OBVIOUS
    <3>2. k.status = "OTP_VERIFIED" /\ k.lapsed = session[s].lapsed
      BY <1>0, <1>1, <3>1 DEF SessionRow
    <3>3. session' = [session EXCEPT ![s] = k]
      BY <1>a, <1>5, <3>1 DEF AdvanceVerified
    <3> QED
      BY <1>0, <1>1, <3>2, <3>3
  <2>5. recipient'.status = "OTP_VERIFIED" /\ recipient'.token = recipient.token
    BY <1>0, <1>5 DEF AdvanceVerified, RecipientRow
  <2>6. \A d \in Challenge : Failures(d)' = Failures(d)
    <3>1. LogEvent(s, "OTP_VERIFIED", c)
      BY <1>a, <1>5 DEF AdvanceVerified
    <3> QED
      BY <1>1, <3>1, OtherLog DEF EventType
  <2>7. CodesInOrder'
    <3>1. \A d \in Challenge : challenge'[d].status = "NONE" => challenge'[d].attempts = 0
      BY <1>0, <2>3 DEF CodesInOrder
    <3>2. \A d \in Challenge : IsFiniteSet(Failures(d)') /\ challenge'[d].attempts = Cardinality(Failures(d)')
      BY <1>0, <2>3, <2>6 DEF CodesInOrder
    <3>3. \A d \in Challenge : challenge'[d].status = "PENDING" => challenge'[d] = challenge[d]
      BY <2>3
    <3> QED
      BY <1>0, <3>1, <3>2, <3>3 DEF CodesInOrder
  <2>8. Resumable' \subseteq Resumable
    BY <1>1, <2>1, <2>4 DEF Resumable
  <2>9. RowsInOrder'
    BY <1>0, <1>2, <2>1, <2>5, <2>8 DEF RowsInOrder
  <2>10. OtpTerminalIsFinal /\ SessionTerminalIsFinal
    BY <1>1, <2>1, <2>3, <2>4 DEF OtpTerminalIsFinal, SessionTerminalIsFinal
  <2>11. OfferTerminalIsFinal /\ DeadTokenStaysDead
    BY <1>2, <2>5 DEF OfferTerminalIsFinal, DeadTokenStaysDead
  <2>12. RecipientDoesNotRegress
    BY <2>1, <2>5, ProgressOrder DEF RecipientDoesNotRegress
  <2> QED
    BY <1>2, <1>3, <2>7, <2>9, <2>10, <2>11, <2>12, OthersRest DEF Good, AloneInv, Forward
<1> QED
  BY <1>4, <1>5

\* The decision closes the only session there was.
LEMMA DecisionAlone ==
    ASSUME TypeInv, AloneInv, OneAtATime, OneAtATime', NEW p \in Procs, CommitAccept(p) \/ CommitDecline(p)
    PROVE  Good
<1> USE StepNames
<1> DEFINE s == req[p].s
<1>0. /\ req \in [Procs -> Request] /\ session \in [Session -> SessionRow]
      /\ offer \in OfferRow /\ recipient \in RecipientRow
      /\ Unspoiled(p) /\ CodesInOrder /\ Refers(p) /\ recipient.status \in RecipientStatus
  BY DEF TypeInv, TypeOK, AloneInv, RecipientRow
<1>1. s \in Session /\ session[s].status = "OTP_VERIFIED" /\ Resumable \subseteq {s}
  BY <1>0 DEF CommitAccept, CommitDecline, At, Refers, HoldsSession, Unspoiled
<1>2. PICK x \in {"ACCEPTED", "DECLINED"}, type \in {"OFFER_ACCEPTED", "OFFER_DECLINED"}, step \in {"idle", "unschedule"} :
         /\ offer' = [offer EXCEPT !.status = x]
         /\ session' = [session EXCEPT ![s].status = x]
         /\ recipient'.status = x /\ LogEvent(s, type, 0) /\ MovedTo(p, step)
  BY <1>0, Moves DEF CommitAccept, CommitDecline, RecipientRow
<1>3. /\ offer.status = "SENT" /\ ~At(p, "idle") /\ challenge' = challenge
      /\ recipient.token = "dead" => recipient'.token = "dead"
  BY <1>0 DEF CommitAccept, CommitDecline, StillSent, RecipientRow, At
<1>4. /\ session'[s].status = x
      /\ \A t \in Session : t # s => session'[t] = session[t]
  BY <1>0, <1>1, <1>2, OneStatus
<1>5. Resumable' = {}
  BY <1>1, <1>2, <1>4 DEF Resumable
<1>6. offer'.status = x
  BY <1>0, <1>2 DEF OfferRow
<1>7. RowsInOrder'
  BY <1>2, <1>5, <1>6 DEF RowsInOrder
<1>8. CodesInOrder'
  <2>1. \A c \in Challenge : Failures(c)' = Failures(c)
    BY <1>1, <1>2, OtherLog DEF EventType
  <2> QED
    BY <1>0, <1>3, <2>1, CodesStill
<1>9. Unspoiled(p)'
  BY <1>2 DEF MovedTo, Unspoiled
<1>10. SessionTerminalIsFinal /\ OtpTerminalIsFinal
  BY <1>1, <1>3, <1>4 DEF SessionTerminalIsFinal, OtpTerminalIsFinal
<1>11. OfferTerminalIsFinal /\ DeadTokenStaysDead
  BY <1>3 DEF OfferTerminalIsFinal, DeadTokenStaysDead
<1>12. RecipientDoesNotRegress
  BY <1>0, <1>2, ProgressOrder DEF RecipientDoesNotRegress, RecipientStatus
<1> QED
  BY <1>2, <1>3, <1>7, <1>8, <1>9, <1>10, <1>11, <1>12, OthersRest DEF Good, AloneInv, Forward

-----------------------------------------------------------------------------
LEMMA AloneInit == Init => AloneInv
<1> SUFFICES ASSUME Init PROVE AloneInv
  OBVIOUS
<1>1. RowsInOrder
  BY DEF Init, StoreInit, RowsInOrder, Resumable, NoSession
<1>2. \A p \in Procs : Unspoiled(p)
  BY DEF Init, StoreInit, Idle, Unspoiled
<1>3. \A c \in Challenge : Failures(c) = {}
  <2>1. \A s \in Session : Indices(s) = {}
    BY DEF Init, StoreInit, Indices
  <2> QED
    BY <2>1, FailuresAre
<1>4. CodesInOrder
  <2>1. \A c \in Challenge : challenge[c].status = "NONE" /\ challenge[c].attempts = 0
    BY DEF Init, StoreInit, NoChallenge
  <2> QED
    BY <1>3, <2>1, FS_EmptySet DEF CodesInOrder
<1> QED
  BY <1>1, <1>2, <1>4 DEF AloneInv

LEMMA AloneNext ==
    TypeInv /\ AloneInv /\ OneAtATime /\ OneAtATime' /\ [Next]_vars => AloneInv' /\ (Next => Forward)
<1> SUFFICES ASSUME TypeInv, AloneInv, OneAtATime, OneAtATime', [Next]_vars PROVE AloneInv' /\ (Next => Forward)
  OBVIOUS
<1>1. CASE Next
  <2>1. CASE Tick
    BY <2>1, TickAlone DEF Good
  <2>2. ASSUME NEW p \in Procs, Act(p) PROVE Good
    BY <2>2, SenderAlone, SweepAlone, AbortAlone, RecipientReads, RecipientAdds, IssueAlone, AnswerAlone, DecisionAlone
       DEF Act, RecipientStep
  <2> QED
    BY <1>1, <2>1, <2>2 DEF Next, Good
<1>2. CASE UNCHANGED vars
  <2>1. RowsInOrder' /\ CodesInOrder'
    BY <1>2, RowsStill, SameSessions, CodesStill, SameFailures DEF vars, AloneInv
  <2>2. \A p \in Procs : Unspoiled(p)'
    BY <1>2, SameSessions DEF vars, AloneInv, Unspoiled
  <2>3. Forward
    BY <1>2, RowsForward DEF vars
  <2> QED
    BY <2>1, <2>2, <2>3 DEF AloneInv
<1> QED
  BY <1>1, <1>2

\* As long as no two requests or jobs overlap, and however many there are, crash
\* or run into a deadline, no row is taken back: the state machines' terminal
\* statuses are final although revoke, resend, the offer sweep and the VIEWED
\* write select their row by id alone.
THEOREM NeverRegressesAlone == Spec /\ []OneAtATime => NothingRegresses
<1>1. TypeInv /\ AloneInv /\ OneAtATime /\ OneAtATime' /\ [Next]_vars
         => [/\ OfferTerminalIsFinal
             /\ RecipientDoesNotRegress
             /\ OtpTerminalIsFinal
             /\ SessionTerminalIsFinal
             /\ DeadTokenStaysDead]_vars
  BY AloneNext DEF Forward
<1> QED
  BY <1>1, AloneInit, AloneNext, TypeInvInit, TypeInvNext, PTL DEF Spec, NothingRegresses

\* Nor do two codes wait in a session, though issuing does not look at the one
\* row per session the schema's comment speaks of, and every wrong answer is
\* counted, though the count is written as the one read plus one.
THEOREM CodesOrderedAlone == Spec /\ []OneAtATime => []ChallengesInOrder
<1>1. TypeInv /\ AloneInv => ChallengesInOrder
  <2> SUFFICES ASSUME AloneInv PROVE OneActiveChallenge /\ AttemptsCounted
    BY DEF ChallengesInOrder
  <2>1. \A c \in Challenge : EffectiveOtpStatus(c) = "PENDING" => challenge[c].status = "PENDING"
    BY DEF EffectiveOtpStatus
  <2> QED
    BY <2>1 DEF AloneInv, CodesInOrder, OneActiveChallenge, AttemptsCounted
<1> QED
  BY <1>1, AloneInit, AloneNext, TypeInvInit, TypeInvNext, PTL DEF Spec
=============================================================================
