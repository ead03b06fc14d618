----------------------------- MODULE BackOffice -----------------------------
(***************************************************************************)
(* Those who look after the system while customers use it: support agents, *)
(* who read a deal's case row by row (SupportService.getCase) and act on   *)
(* it once their audit row is written (SupportController); administrators, *)
(* who change a setting and log its old value (AdminSettingsService); and  *)
(* users who ask to be erased (AccountService.requestErasure).  What the   *)
(* customers do to a deal meanwhile is reduced to its effect: the races    *)
(* of those rows are SigningSystem's and Delivery's.                       *)
(***************************************************************************)
EXTENDS Integers, Sequences, FiniteSets

CONSTANTS
    Agents,         \* support agents, each with one request in flight
    Readers,        \* bound: those of them who open cases
    Clerks,         \* calls of administrators and of users to be erased, in flight
    Cases,          \* offers
    NoCase,         \* no offer
    Values,         \* of the setting
    Unset,          \* no row: the compiled default
    MaxActs,        \* bound: audited acts begun
    MaxChanges      \* bound: changes of the setting, requests to be erased

ASSUME BackOfficeAssumption ==
    /\ Readers \subseteq Agents /\ NoCase \notin Cases /\ Unset \notin Values
    /\ MaxActs \in Nat /\ MaxChanges \in Nat

Acts == {"REVOKE_OFFER", "RESEND_OFFER_LINK", "RESEND_SESSION_OTP"}

VARIABLES
    offer,      \* Offer.status; a snapshot exists once it is not DRAFT.  OVER stands for
                \* declined, expired, or revoked by its sender
    accepted,   \* offers with an AcceptanceRecord
    certified,  \* offers with an AcceptanceCertificate
    agent,      \* per agent: request, offer, step, and what it has read for the case it shows
    audit,      \* SupportAuditLog: rows per offer and act
    acts,       \* what support has done, per offer and act
    begun,      \* audited acts begun
    setting,    \* SystemSetting.value
    trail,      \* SettingAuditLog, in the order of commit
    clerk,      \* per call: what it is about, what it has read, whether another wrote since
    erasures    \* ErasureRequest rows: open ones, all of them, and whether two overlapped

caseVars   == <<offer, accepted, certified, agent, audit, acts, begun>>
clerkVars  == <<setting, trail, clerk, erasures>>
officeVars == <<caseVars, clerkVars>>

-----------------------------------------------------------------------------
(* Plausible bugs, each a form of a definition below (README.md, Mutants). *)

LoggedAnyway(written)   == TRUE                         \* Proceeds: not awaited
AnyRecord(d, frozen)    == accepted                     \* RecordsOf: never filtered
NeverOpen               == FALSE                        \* Pending: no look at what there is

-----------------------------------------------------------------------------
(* The customers.                                                          *)

AgentAt(a, step) == agent[a].at = step

\* A case read while this happens is of more than one moment.
Moving(d) ==
    [a \in Agents |-> IF agent[a].offer = d /\ ~AgentAt(a, "shown") THEN [agent[a] EXCEPT !.moved = TRUE] ELSE agent[a]]

Becomes(d, from, to) ==
    /\ offer[d] = from /\ offer' = [offer EXCEPT ![d] = to]
    /\ agent' = Moving(d)
    /\ UNCHANGED <<audit, acts, begun, certified, clerkVars>>

SendOffer(d)   == Becomes(d, "DRAFT", "SENT") /\ UNCHANGED accepted
AcceptOffer(d) == Becomes(d, "SENT", "ACCEPTED") /\ accepted' = accepted \cup {d}

\* A revocation or a sweep that looked before the acceptance writes after it.
EndOffer(d) == (\E from \in {"SENT", "ACCEPTED"} : Becomes(d, from, "OVER")) /\ UNCHANGED accepted

Certify(d) ==
    /\ d \in accepted \ certified /\ certified' = certified \cup {d}
    /\ agent' = Moving(d)
    /\ UNCHANGED <<offer, accepted, audit, acts, begun, clerkVars>>

-----------------------------------------------------------------------------
(* The agents' actions.                                                    *)

NoRead    == [status |-> "NONE", frozen |-> FALSE, record |-> NoCase, certificate |-> FALSE]
NoRequest == [what |-> "none", offer |-> NoCase, at |-> "idle", read |-> NoRead, moved |-> FALSE]

Begin(a, what, d, step) ==
    /\ agent[a].at = "idle"
    /\ agent' = [agent EXCEPT ![a] = [NoRequest EXCEPT !.what = what, !.offer = d, !.at = step]]
AgentTo(a, step) == agent' = [agent EXCEPT ![a].at = step]
Over(a)        == agent' = [agent EXCEPT ![a] = NoRequest]

Act(a, what, d) ==
    /\ begun < MaxActs /\ begun' = begun + 1
    /\ Begin(a, what, d, "audit")
    /\ UNCHANGED <<offer, accepted, certified, audit, acts, clerkVars>>

\* An audit row that cannot be written throws.
Proceeds(written) == written

LogCritical(a) ==
    /\ AgentAt(a, "audit")
    /\ \E written \in BOOLEAN :
          /\ audit' = IF written THEN [audit EXCEPT ![agent[a].offer][agent[a].what] = @ + 1] ELSE audit
          /\ IF Proceeds(written) THEN AgentTo(a, "check") ELSE Over(a)
    /\ UNCHANGED <<offer, accepted, certified, acts, begun, clerkVars>>

\* revoke and resend ask for a SENT offer, issueOtpForSession for a session that
\* waits for its code: one may, of any offer that was sent.
Allowed(a) ==
    LET status == offer[agent[a].offer]
    IN  IF agent[a].what = "RESEND_SESSION_OTP" THEN {open \in BOOLEAN : open => status # "DRAFT"}
        ELSE {status = "SENT"}

CheckAct(a) ==
    /\ AgentAt(a, "check")
    /\ \E open \in Allowed(a) : IF open THEN AgentTo(a, "write") ELSE Over(a)
    /\ UNCHANGED <<offer, accepted, certified, audit, acts, begun, clerkVars>>

WriteAct(a) ==
    /\ AgentAt(a, "write")
    /\ LET d == agent[a].offer
       IN  /\ acts' = [acts EXCEPT ![d][agent[a].what] = @ + 1]
           /\ IF agent[a].what = "REVOKE_OFFER"
              THEN offer' = [offer EXCEPT ![d] = "REVOKED"] /\ agent' = [Moving(d) EXCEPT ![a] = NoRequest]
              ELSE Over(a) /\ UNCHANGED offer
    /\ UNCHANGED <<accepted, certified, audit, begun, clerkVars>>

\* A request ends, or dies between two statements.
LeaveRequest(a) ==
    /\ ~AgentAt(a, "idle") /\ Over(a)
    /\ UNCHANGED <<offer, accepted, certified, audit, acts, begun, clerkVars>>

-----------------------------------------------------------------------------
(* The case: five tables, one statement each.                              *)

Reads(a, step, next, field, value) ==
    /\ AgentAt(a, step)
    /\ agent' = [agent EXCEPT ![a].at = next, ![a].read[field] = value]
    /\ UNCHANGED <<offer, accepted, certified, audit, acts, begun, clerkVars>>

GetCase(a, d) ==
    /\ a \in Readers /\ Begin(a, "READ_CASE", d, "offer")
    /\ UNCHANGED <<offer, accepted, certified, audit, acts, begun, clerkVars>>

ReadOffer(a)    == Reads(a, "offer", "snapshot", "status", offer[agent[a].offer])
ReadSnapshot(a) == Reads(a, "snapshot", "record", "frozen", offer[agent[a].offer] # "DRAFT")

\* Of an offer without a snapshot the filter is undefined, which is none at all.
RecordsOf(d, frozen) == IF frozen THEN accepted \cap {d} ELSE accepted

ReadRecord(a) ==
    LET found == RecordsOf(agent[a].offer, agent[a].read.frozen)
    IN  \E r \in IF found = {} THEN {NoCase} ELSE found : Reads(a, "record", "certificate", "record", r)

\* The last of the five, and the answer.
ShowCase(a) == Reads(a, "certificate", "shown", "certificate", agent[a].offer \in certified)

-----------------------------------------------------------------------------
(* Settings and erasure: read, then written.                               *)

Away == [about |-> "nothing", value |-> Unset, old |-> Unset, late |-> FALSE]

Enters(c, about, value, old) ==
    /\ clerk[c] = Away
    /\ clerk' = [clerk EXCEPT ![c] = [about |-> about, value |-> value, old |-> old, late |-> FALSE]]
Writes(c) ==
    clerk' = [d \in Clerks |-> IF d = c THEN Away
                               ELSE IF clerk[d].about = clerk[c].about THEN [clerk[d] EXCEPT !.late = TRUE]
                               ELSE clerk[d]]

\* A value that is there already is no change.
ReadSetting(c) ==
    /\ Len(trail) < MaxChanges
    /\ \E v \in Values : v # setting /\ Enters(c, "setting", v, setting)
    /\ UNCHANGED <<setting, trail, erasures, caseVars>>

WriteSetting(c) ==
    /\ clerk[c].about = "setting"
    /\ setting' = clerk[c].value
    /\ trail' = Append(trail, [old |-> clerk[c].old, new |-> clerk[c].value, late |-> clerk[c].late])
    /\ Writes(c)
    /\ UNCHANGED <<erasures, caseVars>>

Pending == erasures.open > 0

RequestErasure(c) ==
    /\ ~Pending /\ erasures.all < MaxChanges
    /\ Enters(c, "erasure", Unset, Unset)
    /\ UNCHANGED <<setting, trail, erasures, caseVars>>

CreateErasure(c) ==
    /\ clerk[c].about = "erasure"
    /\ erasures' = [open |-> erasures.open + 1, all |-> erasures.all + 1, late |-> erasures.late \/ clerk[c].late]
    /\ Writes(c)
    /\ UNCHANGED <<setting, trail, caseVars>>

\* By hand, by an operator.
Erased ==
    /\ Pending /\ erasures' = [erasures EXCEPT !.open = @ - 1]
    /\ UNCHANGED <<setting, trail, clerk, caseVars>>

CallDies(c) ==
    /\ clerk[c] # Away /\ clerk' = [clerk EXCEPT ![c] = Away]
    /\ UNCHANGED <<setting, trail, erasures, caseVars>>

-----------------------------------------------------------------------------
OfficeInit ==
    /\ offer = [d \in Cases |-> "DRAFT"] /\ accepted = {} /\ certified = {}
    /\ agent = [a \in Agents |-> NoRequest]
    /\ audit = [d \in Cases |-> [act \in Acts |-> 0]] /\ acts = audit
    /\ begun = 0
    /\ setting = Unset /\ trail = <<>>
    /\ clerk = [c \in Clerks |-> Away]
    /\ erasures = [open |-> 0, all |-> 0, late |-> FALSE]

Support ==
    \/ \E d \in Cases : SendOffer(d) \/ AcceptOffer(d) \/ EndOffer(d) \/ Certify(d)
    \/ \E a \in Agents :
          \/ \E d \in Cases : GetCase(a, d) \/ \E what \in Acts : Act(a, what, d)
          \/ LogCritical(a) \/ CheckAct(a) \/ WriteAct(a) \/ LeaveRequest(a)
          \/ ReadOffer(a) \/ ReadSnapshot(a) \/ ReadRecord(a) \/ ShowCase(a)

Desk ==
    \/ \E c \in Clerks :
          \/ ReadSetting(c) \/ WriteSetting(c) \/ RequestErasure(c) \/ CreateErasure(c) \/ CallDies(c)
    \/ Erased

OfficeNext == Support \/ Desk

OfficeSpec == OfficeInit /\ [][OfficeNext]_officeVars

-----------------------------------------------------------------------------
\* Whatever fails or dies, nothing was done to a deal in support's name without
\* a row that says so: for each act there is one, and an act that is in flight
\* past its audit has its own.
ActsAreAudited ==
    \A d \in Cases, act \in Acts :
        acts[d][act] + Cardinality({a \in Agents : agent[a].offer = d /\ agent[a].what = act
                                                   /\ agent[a].at \in {"check", "write"}})
            <= audit[d][act]

\* A case is read row by row while the deal goes on.  What is shown of an offer
\* that was sent is never another's, and one shown as accepted comes with its
\* record whatever happened meanwhile, since the offer is read first; and if
\* nothing happened to it the rows agree: a certificate comes with a record,
\* and no record with an offer still open.
CaseAgrees ==
    \A a \in Agents : AgentAt(a, "shown") /\ agent[a].read.frozen =>
        LET read == agent[a].read
            own  == read.record = agent[a].offer
        IN  /\ own \/ read.record = NoCase
            /\ read.status = "ACCEPTED" => own
            /\ ~agent[a].moved =>
                  /\ read.certificate => own
                  /\ own => read.status \notin {"DRAFT", "SENT"}

\* An entry's old value is what the entry before it wrote, and a user has one
\* request to be erased open, unless the change or the request overlapped
\* another: both are written on what was read before.
ChecksHold ==
    /\ \A i \in DOMAIN trail :
          trail[i].old = (IF i = 1 THEN Unset ELSE trail[i - 1].new) \/ trail[i].late
    /\ trail # <<>> => setting = trail[Len(trail)].new
    /\ erasures.open > 1 => erasures.late
=============================================================================
