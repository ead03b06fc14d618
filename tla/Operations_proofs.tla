------------------------- MODULE Operations_proofs -------------------------
(***************************************************************************)
(* With any number of agents, calls and offers, what support does to a     *)
(* deal is in its audit log, a case that nobody disturbed agrees with      *)
(* itself, and only overlapping calls can bend the settings' log or leave  *)
(* two requests to be erased open (BackOffice).  Whatever is done to a     *)
(* certificate's rows, verification tells, and with any number of tries    *)
(* the page says valid of no row that had changed (Evidence).              *)
(***************************************************************************)
EXTENDS BackOffice, Evidence, FiniteSetTheorems, SequenceTheorems, TLAPS

\* Requests in flight, and where they are about an offer.
Status   == {"DRAFT", "SENT", "ACCEPTED", "OVER", "REVOKED"}
CaseRead == [status : Status \cup {"NONE"}, frozen : BOOLEAN, record : Cases \cup {NoCase}, certificate : BOOLEAN]
Steps    == {"audit", "check", "write", "offer", "snapshot", "record", "certificate", "shown"}
Request  == [what : Acts \cup {"none", "READ_CASE"}, offer : Cases \cup {NoCase},
             at : Steps \cup {"idle"}, read : CaseRead, moved : BOOLEAN]

CaseTypeOK ==
    /\ offer \in [Cases -> Status] /\ accepted \in SUBSET Cases /\ certified \in SUBSET Cases
    /\ agent \in [Agents -> Request]

\* An accepted offer has its record, a record is of an offer no longer open,
\* a certificate is of a record.
RowsAgree ==
    /\ certified \subseteq accepted
    /\ \A d \in Cases : /\ d \in accepted => offer[d] \notin {"DRAFT", "SENT"}
                        /\ offer[d] = "ACCEPTED" => d \in accepted

\* What an undisturbed request has read of the rows is still there.
StillThere(row, status, isAccepted) ==
    /\ row.at \in {"snapshot", "record", "certificate"} => row.read.status = status
    /\ row.at \in {"record", "certificate"} => row.read.frozen = (status # "DRAFT")
    /\ row.at = "certificate" /\ row.read.frozen => ((row.read.record = row.offer) <=> isAccepted)

ShowsRight(row) ==
    /\ row.read.status = "ACCEPTED" \/ row.read.certificate => row.read.record = row.offer
    /\ row.read.record = row.offer => row.read.status \notin {"DRAFT", "SENT"}

Reading(row) ==
    /\ row.at # "idle" => row.offer \in Cases
    /\ row.at \in {"audit", "check", "write"} => row.what \in Acts
    /\ row.at \in {"certificate", "shown"} /\ row.read.frozen => row.read.record \in {row.offer, NoCase}
    /\ row.at = "shown" /\ row.read.frozen /\ ~row.moved => ShowsRight(row)

Undisturbed(row) ==
    row.at \notin {"idle", "shown"} /\ ~row.moved => StillThere(row, offer[row.offer], row.offer \in accepted)

CaseInv == CaseTypeOK /\ RowsAgree /\ \A a \in Agents : Reading(agent[a]) /\ Undisturbed(agent[a])

\* An offer once read as accepted has its record for good, disturbed or not.
Lasting(row) ==
    row.read.status = "ACCEPTED" =>
        /\ row.offer \in accepted
        /\ row.at \in {"certificate", "shown"} /\ row.read.frozen => row.read.record = row.offer

LastingInv == \A a \in Agents : Lasting(agent[a])

-----------------------------------------------------------------------------
LEMMA CaseInvImplies == ASSUME CaseInv, LastingInv PROVE CaseAgrees
  BY DEF CaseInv, CaseAgrees, AgentAt, Reading, ShowsRight, LastingInv, Lasting

LEMMA NoRequestFits ==
    NoRequest \in Request /\ Reading(NoRequest) /\ Undisturbed(NoRequest) /\ Undisturbed(NoRequest)'
  BY DEF NoRequest, NoRead, Request, CaseRead, Reading, Undisturbed

\* The rows stay, one request moves.
LEMMA OneMoves ==
    ASSUME CaseInv, NEW a \in Agents, NEW row \in Request, agent' = [agent EXCEPT ![a] = row],
           Reading(row), Undisturbed(row), UNCHANGED <<offer, accepted, certified>>
    PROVE  CaseInv'
<1>1. agent' \in [Agents -> Request] /\ \A b \in Agents : agent'[b] = IF b = a THEN row ELSE agent[b]
  BY DEF CaseInv, CaseTypeOK
<1>2. CaseTypeOK' /\ RowsAgree'
  BY <1>1 DEF CaseInv, CaseTypeOK, RowsAgree
<1>3. ASSUME NEW b \in Agents PROVE Reading(agent'[b]) /\ Undisturbed(agent[b])'
  <2>1. Reading(agent'[b])
    BY <1>1 DEF CaseInv
  <2>2. offer' = offer /\ accepted' = accepted
    OBVIOUS
  <2>3. CASE b = a
    BY <1>1, <2>1, <2>2, <2>3 DEF Undisturbed
  <2>4. CASE b # a
    BY <1>1, <2>1, <2>2, <2>4 DEF Undisturbed, CaseInv
  <2> QED
    BY <2>1, <2>3, <2>4
<1> QED
  BY <1>2, <1>3 DEF CaseInv

LEMMA RequestEnds ==
    ASSUME CaseInv, NEW a \in Agents, Over(a), UNCHANGED <<offer, accepted, certified>>
    PROVE  CaseInv'
  BY NoRequestFits, OneMoves DEF Over

\* Whoever reads a case whose offer changes has been disturbed.
LEMMA MovingMarks ==
    ASSUME CaseInv, NEW d \in Cases
    PROVE  /\ Moving(d) \in [Agents -> Request]
           /\ \A a \in Agents :
                /\ Moving(d)[a].what = agent[a].what /\ Moving(d)[a].offer = agent[a].offer
                /\ Moving(d)[a].at = agent[a].at /\ Moving(d)[a].read = agent[a].read
                /\ ~Moving(d)[a].moved => ~agent[a].moved /\ (agent[a].offer # d \/ agent[a].at = "shown")
  BY DEF CaseInv, CaseTypeOK, Moving, AgentAt, Request

LEMMA RowsMove ==
    ASSUME CaseInv, NEW d \in Cases, agent' = Moving(d),
           offer' \in [Cases -> Status], accepted' \in SUBSET Cases, certified' \in SUBSET Cases,
           \A e \in Cases \ {d} : offer'[e] = offer[e] /\ (e \in accepted' <=> e \in accepted),
           RowsAgree'
    PROVE  CaseInv'
<1>1. CaseTypeOK'
  BY MovingMarks DEF CaseTypeOK
<1>2. ASSUME NEW a \in Agents PROVE Reading(agent'[a]) /\ Undisturbed(agent[a])'
  <2> DEFINE row == agent'[a]
  <2>1. /\ row.what = agent[a].what /\ row.offer = agent[a].offer /\ row.at = agent[a].at
        /\ row.read = agent[a].read
        /\ ~row.moved => ~agent[a].moved /\ (agent[a].offer # d \/ agent[a].at = "shown")
    BY MovingMarks
  <2>2. Reading(agent[a]) /\ Undisturbed(agent[a])
    BY DEF CaseInv
  <2> HIDE DEF row
  <2>3. Reading(row)
    BY <2>1, <2>2 DEF Reading, ShowsRight
  <2>4. ASSUME row.at \notin {"idle", "shown"}, ~row.moved
        PROVE  StillThere(row, offer'[row.offer], row.offer \in accepted')
    <3>1. row.offer \in Cases \ {d} /\ ~agent[a].moved
      BY <2>1, <2>3, <2>4 DEF Reading
    <3>2. StillThere(agent[a], offer[row.offer], row.offer \in accepted)
      BY <2>1, <2>2, <2>4, <3>1 DEF Undisturbed
    <3>3. offer'[row.offer] = offer[row.offer] /\ (row.offer \in accepted' <=> row.offer \in accepted)
      BY <3>1
    <3> QED
      BY <2>1, <3>2, <3>3 DEF StillThere
  <2> QED
    BY <2>3, <2>4 DEF row, Undisturbed
<1> QED
  BY <1>1, <1>2 DEF CaseInv

LEMMA CustomersMove ==
    ASSUME CaseInv, NEW d \in Cases, SendOffer(d) \/ AcceptOffer(d) \/ EndOffer(d) \/ Certify(d)
    PROVE  CaseInv'
<1>1. CaseTypeOK /\ RowsAgree
  BY DEF CaseInv
<1>2. CASE SendOffer(d)
  <2>1. agent' = Moving(d) /\ offer' = [offer EXCEPT ![d] = "SENT"] /\ accepted' = accepted /\ certified' = certified
        /\ offer[d] = "DRAFT"
    BY <1>2 DEF SendOffer, Becomes
  <2>2. offer' \in [Cases -> Status] /\ \A e \in Cases : offer'[e] = IF e = d THEN "SENT" ELSE offer[e]
    BY <1>1, <2>1 DEF CaseTypeOK, Status
  <2>3. RowsAgree'
    BY <1>1, <2>1, <2>2 DEF RowsAgree
  <2> QED
    BY <1>1, <2>1, <2>2, <2>3, RowsMove DEF CaseTypeOK
<1>3. CASE AcceptOffer(d)
  <2>1. agent' = Moving(d) /\ offer' = [offer EXCEPT ![d] = "ACCEPTED"] /\ accepted' = accepted \cup {d}
        /\ certified' = certified
    BY <1>3 DEF AcceptOffer, Becomes
  <2>2. offer' \in [Cases -> Status] /\ \A e \in Cases : offer'[e] = IF e = d THEN "ACCEPTED" ELSE offer[e]
    BY <1>1, <2>1 DEF CaseTypeOK, Status
  <2>3. RowsAgree'
    BY <1>1, <2>1, <2>2 DEF RowsAgree
  <2> QED
    BY <1>1, <2>1, <2>2, <2>3, RowsMove DEF CaseTypeOK
<1>4. CASE EndOffer(d)
  <2>1. agent' = Moving(d) /\ offer' = [offer EXCEPT ![d] = "OVER"] /\ accepted' = accepted /\ certified' = certified
    BY <1>4 DEF EndOffer, Becomes
  <2>2. offer' \in [Cases -> Status] /\ \A e \in Cases : offer'[e] = IF e = d THEN "OVER" ELSE offer[e]
    BY <1>1, <2>1 DEF CaseTypeOK, Status
  <2>3. RowsAgree'
    BY <1>1, <2>1, <2>2 DEF RowsAgree
  <2> QED
    BY <1>1, <2>1, <2>2, <2>3, RowsMove DEF CaseTypeOK
<1>5. CASE Certify(d)
  <2>1. agent' = Moving(d) /\ offer' = offer /\ accepted' = accepted /\ certified' = certified \cup {d} /\ d \in accepted
    BY <1>5 DEF Certify
  <2>2. RowsAgree'
    BY <1>1, <2>1 DEF RowsAgree
  <2> QED
    BY <1>1, <2>1, <2>2, RowsMove DEF CaseTypeOK
<1> QED
  BY <1>2, <1>3, <1>4, <1>5

\* A step of a request that reads nothing of the case.
LEMMA AgentSteps ==
    ASSUME CaseInv, NEW a \in Agents, NEW d \in Cases, NEW what \in Acts \cup {"READ_CASE"},
           NEW step \in {"audit", "offer"}, what = "READ_CASE" => step = "offer",
           Begin(a, what, d, step), UNCHANGED <<offer, accepted, certified>>
    PROVE  CaseInv'
<1> DEFINE row == [NoRequest EXCEPT !.what = what, !.offer = d, !.at = step]
<1>1. row \in Request /\ row.at = step /\ row.offer = d /\ row.what = what
  BY DEF NoRequest, NoRead, Request, CaseRead, Steps
<1>2. agent' = [agent EXCEPT ![a] = row]
  BY DEF Begin
<1> HIDE DEF row
<1>3. Reading(row) /\ Undisturbed(row)
  BY <1>1 DEF Reading, Undisturbed, StillThere
<1> QED
  BY <1>1, <1>2, <1>3, OneMoves

LEMMA ActGoesOn ==
    ASSUME CaseInv, NEW a \in Agents, agent[a].at \in {"audit", "check"}, NEW step \in {"check", "write"},
           AgentTo(a, step), UNCHANGED <<offer, accepted, certified>>
    PROVE  CaseInv'
<1> DEFINE row == [agent[a] EXCEPT !.at = step]
<1>1. agent[a] \in Request /\ Reading(agent[a])
  BY DEF CaseInv, CaseTypeOK
<1>2. row \in Request /\ row.at = step /\ row.offer = agent[a].offer /\ row.what = agent[a].what
  BY <1>1 DEF Request, Steps
<1>3. agent' = [agent EXCEPT ![a] = row]
  BY DEF AgentTo
<1> HIDE DEF row
<1>4. Reading(row) /\ Undisturbed(row)
  BY <1>1, <1>2 DEF Reading, Undisturbed, StillThere
<1> QED
  BY <1>2, <1>3, <1>4, OneMoves

LEMMA ActIsDone ==
    ASSUME CaseInv, NEW a \in Agents, WriteAct(a)
    PROVE  CaseInv'
<1>1. agent[a] \in Request /\ Reading(agent[a]) /\ agent[a].at = "write" /\ agent[a].offer \in Cases
  BY DEF CaseInv, CaseTypeOK, WriteAct, AgentAt, Reading
<1>2. CASE agent[a].what = "REVOKE_OFFER"
  <2> DEFINE d == agent[a].offer
  <2>1. offer' = [offer EXCEPT ![d] = "REVOKED"] /\ agent' = [Moving(d) EXCEPT ![a] = NoRequest]
        /\ accepted' = accepted /\ certified' = certified
    BY <1>2 DEF WriteAct
  <2>2. d \in Cases
    BY <1>1
  <2> HIDE DEF d
  <2>3. CaseTypeOK /\ RowsAgree
    BY DEF CaseInv
  <2>4. offer' \in [Cases -> Status] /\ \A e \in Cases : offer'[e] = IF e = d THEN "REVOKED" ELSE offer[e]
    BY <2>1, <2>2, <2>3 DEF CaseTypeOK, Status
  <2>5. RowsAgree'
    BY <2>1, <2>3, <2>4 DEF RowsAgree
  <2>6. agent' \in [Agents -> Request] /\ \A b \in Agents : agent'[b] = IF b = a THEN NoRequest ELSE Moving(d)[b]
    BY <2>1, <2>2, MovingMarks, NoRequestFits
  <2>7. ASSUME NEW b \in Agents, b # a PROVE Reading(agent'[b]) /\ Undisturbed(agent[b])'
    <3> DEFINE row == agent'[b]
    <3>1. /\ row.what = agent[b].what /\ row.offer = agent[b].offer /\ row.at = agent[b].at
          /\ row.read = agent[b].read
          /\ ~row.moved => ~agent[b].moved /\ (agent[b].offer # d \/ agent[b].at = "shown")
      <4>1. row = Moving(d)[b]
        BY <2>6, <2>7
      <4> QED
        BY <2>2, <4>1, MovingMarks
    <3>2. Reading(agent[b]) /\ Undisturbed(agent[b])
      BY DEF CaseInv
    <3> HIDE DEF row
    <3>3. Reading(row)
      BY <3>1, <3>2 DEF Reading, ShowsRight
    <3>4. ASSUME row.at \notin {"idle", "shown"}, ~row.moved
          PROVE  StillThere(row, offer'[row.offer], row.offer \in accepted')
      <4>1. row.offer \in Cases \ {d} /\ ~agent[b].moved
        BY <3>1, <3>3, <3>4 DEF Reading
      <4>2. StillThere(agent[b], offer[row.offer], row.offer \in accepted)
        BY <3>1, <3>2, <3>4, <4>1 DEF Undisturbed
      <4> QED
        BY <2>1, <2>4, <3>1, <4>1, <4>2 DEF StillThere
    <3> QED
      BY <3>3, <3>4 DEF row, Undisturbed
  <2>8. Reading(agent'[a]) /\ Undisturbed(agent[a])'
    BY <2>6, NoRequestFits DEF Undisturbed
  <2> QED
    BY <2>1, <2>3, <2>4, <2>5, <2>6, <2>7, <2>8 DEF CaseInv, CaseTypeOK
<1>3. CASE agent[a].what # "REVOKE_OFFER"
  BY <1>3, RequestEnds DEF WriteAct
<1> QED
  BY <1>2, <1>3

ReadInto(row, next, field, value) ==
    [[row EXCEPT !.at = next] EXCEPT !.read = [row.read EXCEPT ![field] = value]]

\* A read: the row as it is at that moment.
LEMMA ReadStep ==
    ASSUME CaseInv, NEW a \in Agents, NEW step, NEW next, NEW field, NEW value,
           Reads(a, step, next, field, value)
    PROVE  /\ agent[a] \in Request /\ Reading(agent[a]) /\ Undisturbed(agent[a])
           /\ agent[a].at = step /\ UNCHANGED <<offer, accepted, certified>>
           /\ agent' = [agent EXCEPT ![a] = ReadInto(agent[a], next, field, value)]
  BY DEF Reads, ReadInto, AgentAt, CaseInv, CaseTypeOK

LEMMA CaseRead1 ==
    ASSUME CaseInv, NEW a \in Agents, ReadOffer(a) PROVE CaseInv'
<1> DEFINE now == offer[agent[a].offer]
           row == ReadInto(agent[a], "snapshot", "status", now)
<1>1. /\ agent[a] \in Request /\ Reading(agent[a]) /\ Undisturbed(agent[a])
      /\ agent[a].at = "offer" /\ UNCHANGED <<offer, accepted, certified>> /\ agent' = [agent EXCEPT ![a] = row]
  BY ReadStep DEF ReadOffer
<1>2. now \in Status
  BY <1>1 DEF Reading, CaseInv, CaseTypeOK
<1> HIDE DEF now
<1>3. row \in Request /\ row.at = "snapshot" /\ row.offer = agent[a].offer /\ row.what = agent[a].what
      /\ row.read.status = now
  BY <1>1, <1>2 DEF Request, CaseRead, Steps, ReadInto
<1> HIDE DEF row
<1>4. Reading(row) /\ Undisturbed(row)
  BY <1>1, <1>3 DEF Reading, Undisturbed, StillThere, now
<1> QED
  BY <1>1, <1>3, <1>4, OneMoves

LEMMA CaseRead2 ==
    ASSUME CaseInv, NEW a \in Agents, ReadSnapshot(a) PROVE CaseInv'
<1> DEFINE now == offer[agent[a].offer] # "DRAFT"
           row == ReadInto(agent[a], "record", "frozen", now)
<1>1. /\ agent[a] \in Request /\ Reading(agent[a]) /\ Undisturbed(agent[a])
      /\ agent[a].at = "snapshot" /\ UNCHANGED <<offer, accepted, certified>> /\ agent' = [agent EXCEPT ![a] = row]
  BY ReadStep DEF ReadSnapshot
<1>2. now \in BOOLEAN
  OBVIOUS
<1> HIDE DEF now
<1>3. row \in Request /\ row.at = "record" /\ row.offer = agent[a].offer /\ row.what = agent[a].what
      /\ row.read.status = agent[a].read.status /\ row.read.frozen = now /\ row.moved = agent[a].moved
  BY <1>1, <1>2 DEF Request, CaseRead, Steps, ReadInto
<1> HIDE DEF row
<1>4. Reading(row) /\ Undisturbed(row)
  BY <1>1, <1>3 DEF Reading, Undisturbed, StillThere, now
<1> QED
  BY <1>1, <1>3, <1>4, OneMoves

\* Of a frozen offer only its own record is found.
LEMMA CaseRead3 ==
    ASSUME CaseInv, NEW a \in Agents, ReadRecord(a) PROVE CaseInv'
<1> DEFINE own == agent[a].offer
           found == RecordsOf(own, agent[a].read.frozen)
<1>1. PICK r \in (IF found = {} THEN {NoCase} ELSE found) : Reads(a, "record", "certificate", "record", r)
  BY DEF ReadRecord
<1> DEFINE row == ReadInto(agent[a], "certificate", "record", r)
<1>2. /\ agent[a] \in Request /\ Reading(agent[a]) /\ Undisturbed(agent[a])
      /\ agent[a].at = "record" /\ UNCHANGED <<offer, accepted, certified>> /\ agent' = [agent EXCEPT ![a] = row]
  BY <1>1, ReadStep
<1>3. own \in Cases /\ own # NoCase /\ accepted \in SUBSET Cases /\ NoCase \notin Cases
  BY <1>2, BackOfficeAssumption DEF Reading, CaseInv, CaseTypeOK
<1>4. r \in Cases \cup {NoCase}
  BY <1>3 DEF RecordsOf
<1>5. agent[a].read.frozen => r \in {own, NoCase} /\ (r = own <=> own \in accepted)
  BY <1>3 DEF RecordsOf
<1>6. row \in Request /\ row.at = "certificate" /\ row.offer = own /\ row.what = agent[a].what
      /\ row.read.status = agent[a].read.status /\ row.read.frozen = agent[a].read.frozen
      /\ row.read.record = r /\ row.moved = agent[a].moved
  BY <1>2, <1>4 DEF Request, CaseRead, Steps, ReadInto
<1> HIDE DEF row, found
<1>7. Reading(row) /\ Undisturbed(row)
  BY <1>2, <1>3, <1>5, <1>6 DEF Reading, Undisturbed, StillThere
<1> QED
  BY <1>2, <1>6, <1>7, OneMoves

\* An undisturbed case is shown as the rows are, which agree.
LEMMA CaseRead4 ==
    ASSUME CaseInv, NEW a \in Agents, ShowCase(a) PROVE CaseInv'
<1> DEFINE own == agent[a].offer
           now == own \in certified
           row == ReadInto(agent[a], "shown", "certificate", now)
<1>1. /\ agent[a] \in Request /\ Reading(agent[a]) /\ Undisturbed(agent[a])
      /\ agent[a].at = "certificate" /\ UNCHANGED <<offer, accepted, certified>> /\ agent' = [agent EXCEPT ![a] = row]
  BY ReadStep DEF ShowCase
<1>2. own \in Cases /\ now \in BOOLEAN
  BY <1>1 DEF Reading
<1>3. now => own \in accepted
  BY DEF CaseInv, RowsAgree
<1> HIDE DEF now
<1>4. row \in Request /\ row.at = "shown" /\ row.offer = own /\ row.what = agent[a].what
      /\ row.read.status = agent[a].read.status /\ row.read.frozen = agent[a].read.frozen
      /\ row.read.record = agent[a].read.record /\ row.read.certificate = now /\ row.moved = agent[a].moved
  BY <1>1, <1>2 DEF Request, CaseRead, Steps, ReadInto
<1> HIDE DEF row
<1>5. ASSUME row.read.frozen, ~row.moved PROVE ShowsRight(row)
  <2>1. row.read.status = offer[own] /\ (row.read.record = own <=> own \in accepted)
    BY <1>1, <1>4, <1>5 DEF Undisturbed, StillThere
  <2>2. /\ own \in accepted => offer[own] \notin {"DRAFT", "SENT"}
        /\ offer[own] = "ACCEPTED" => own \in accepted
    BY <1>2 DEF CaseInv, RowsAgree
  <2> QED
    BY <1>3, <1>4, <2>1, <2>2 DEF ShowsRight
<1>6. Reading(row) /\ Undisturbed(row)
  BY <1>1, <1>4, <1>5 DEF Reading, Undisturbed
<1> QED
  BY <1>1, <1>4, <1>6, OneMoves

LEMMA CaseFirst == ASSUME OfficeInit PROVE CaseInv
<1>1. \A a \in Agents : agent[a] = NoRequest
  BY DEF OfficeInit
<1>2. agent \in [Agents -> Request]
  BY NoRequestFits DEF OfficeInit
<1> QED
  BY <1>1, <1>2, NoRequestFits DEF OfficeInit, CaseInv, CaseTypeOK, Status, RowsAgree

LEMMA CaseStep == ASSUME CaseInv, [OfficeNext]_officeVars PROVE CaseInv'
<1>1. CASE \E d \in Cases : SendOffer(d) \/ AcceptOffer(d) \/ EndOffer(d) \/ Certify(d)
  BY <1>1, CustomersMove
<1>2. ASSUME NEW a \in Agents, NEW d \in Cases, GetCase(a, d) PROVE CaseInv'
  BY <1>2, AgentSteps DEF GetCase
<1>3. ASSUME NEW a \in Agents, NEW d \in Cases, NEW what \in Acts, Act(a, what, d) PROVE CaseInv'
  <2>1. what # "READ_CASE"
    BY DEF Acts
  <2> QED
    BY <1>3, <2>1, AgentSteps DEF Act
<1>4. ASSUME NEW a \in Agents, LogCritical(a) PROVE CaseInv'
  <2>1. AgentTo(a, "check") \/ Over(a)
    BY <1>4 DEF LogCritical
  <2>2. agent[a].at = "audit" /\ UNCHANGED <<offer, accepted, certified>>
    BY <1>4 DEF LogCritical, AgentAt
  <2> QED
    BY <2>1, <2>2, ActGoesOn, RequestEnds
<1>5. ASSUME NEW a \in Agents, CheckAct(a) PROVE CaseInv'
  <2>1. AgentTo(a, "write") \/ Over(a)
    BY <1>5 DEF CheckAct
  <2>2. agent[a].at = "check" /\ UNCHANGED <<offer, accepted, certified>>
    BY <1>5 DEF CheckAct, AgentAt
  <2> QED
    BY <2>1, <2>2, ActGoesOn, RequestEnds
<1>6. ASSUME NEW a \in Agents, LeaveRequest(a) PROVE CaseInv'
  BY <1>6, RequestEnds DEF LeaveRequest
<1>7. CASE Desk \/ UNCHANGED officeVars
  <2>1. UNCHANGED <<offer, accepted, certified, agent>>
    BY <1>7 DEF Desk, ReadSetting, WriteSetting, RequestErasure, CreateErasure, CallDies, Erased, officeVars, caseVars
  <2> QED
    BY <2>1 DEF CaseInv, CaseTypeOK, RowsAgree, Undisturbed
<1> QED
  BY <1>1, <1>2, <1>3, <1>4, <1>5, <1>6, <1>7, ActIsDone, CaseRead1, CaseRead2, CaseRead3, CaseRead4
     DEF OfficeNext, Support

-----------------------------------------------------------------------------
(* What lasts although the deal goes on: no record is ever lost.           *)

\* What one request reads is compared, the others have read what they had.
LEMMA StaysRead ==
    ASSUME LastingInv, accepted \subseteq accepted',
           \A a \in Agents :
               \/ agent'[a].read.status # "ACCEPTED"
               \/ /\ agent'[a].read = agent[a].read /\ agent'[a].offer = agent[a].offer
                  /\ agent'[a].at \in {"certificate", "shown"} => agent[a].at \in {"certificate", "shown"}
    PROVE  LastingInv'
  BY DEF LastingInv, Lasting

LEMMA OneReads ==
    ASSUME CaseInv, LastingInv, NEW a \in Agents, NEW row, agent' = [agent EXCEPT ![a] = row],
           UNCHANGED accepted, Lasting(row)
    PROVE  LastingInv'
<1>1. \A b \in Agents : agent'[b] = IF b = a THEN row ELSE agent[b]
  BY DEF CaseInv, CaseTypeOK
<1>2. ASSUME NEW b \in Agents PROVE Lasting(agent[b])'
  <2>1. CASE b = a
    <3>1. agent'[b] = row
      BY <1>1, <2>1
    <3> QED
      BY <3>1 DEF Lasting
  <2>2. CASE b # a
    <3>1. agent'[b] = agent[b]
      BY <1>1, <2>2
    <3> QED
      BY <3>1 DEF Lasting, LastingInv
  <2> QED
    BY <2>1, <2>2
<1> QED
  BY <1>2 DEF LastingInv

LEMMA NothingRead == NoRequest.read.status # "ACCEPTED" /\ Lasting(NoRequest)
  BY DEF NoRequest, NoRead, Lasting

LEMMA RequestForgets ==
    ASSUME CaseInv, LastingInv, NEW a \in Agents, Over(a), UNCHANGED accepted PROVE LastingInv'
  BY NothingRead, OneReads DEF Over

LEMMA RequestBegins ==
    ASSUME CaseInv, LastingInv, NEW a \in Agents, NEW what, NEW d, NEW step, Begin(a, what, d, step), UNCHANGED accepted
    PROVE  LastingInv'
<1> DEFINE row == [NoRequest EXCEPT !.what = what, !.offer = d, !.at = step]
<1>1. row.read.status # "ACCEPTED"
  BY DEF NoRequest, NoRead
<1>2. agent' = [agent EXCEPT ![a] = row]
  BY DEF Begin
<1> HIDE DEF row
<1> QED
  BY <1>1, <1>2, OneReads DEF Lasting

LEMMA RequestGoesOn ==
    ASSUME CaseInv, LastingInv, NEW a \in Agents, NEW step \in {"check", "write"}, AgentTo(a, step), UNCHANGED accepted
    PROVE  LastingInv'
<1> DEFINE row == [agent[a] EXCEPT !.at = step]
<1>1. row.at = step /\ row.offer = agent[a].offer /\ row.read = agent[a].read
  BY DEF CaseInv, CaseTypeOK, Request
<1>2. agent' = [agent EXCEPT ![a] = row]
  BY DEF AgentTo
<1> HIDE DEF row
<1>3. Lasting(row)
  BY <1>1 DEF LastingInv, Lasting
<1> QED
  BY <1>2, <1>3, OneReads

LEMMA RowsChange ==
    ASSUME CaseInv, LastingInv, NEW d \in Cases, agent' = Moving(d), accepted \subseteq accepted'
    PROVE  LastingInv'
<1>1. \A a \in Agents : agent'[a].read = agent[a].read /\ agent'[a].offer = agent[a].offer /\ agent'[a].at = agent[a].at
  BY MovingMarks
<1> QED
  BY <1>1, StaysRead

LEMMA ActChanges ==
    ASSUME CaseInv, LastingInv, NEW a \in Agents, WriteAct(a) PROVE LastingInv'
<1>1. CASE agent[a].what = "REVOKE_OFFER"
  <2>1. PICK d \in Cases : agent' = [Moving(d) EXCEPT ![a] = NoRequest] /\ accepted' = accepted
    BY <1>1 DEF WriteAct, CaseInv, CaseTypeOK, Reading, AgentAt
  <2>2. \A b \in Agents : agent'[b] = IF b = a THEN NoRequest ELSE Moving(d)[b]
    BY <2>1, MovingMarks
  <2>3. ASSUME NEW b \in Agents
        PROVE  \/ agent'[b].read.status # "ACCEPTED"
               \/ /\ agent'[b].read = agent[b].read /\ agent'[b].offer = agent[b].offer
                  /\ agent'[b].at = agent[b].at
    BY <2>2, MovingMarks, NothingRead
  <2> QED
    BY <2>1, <2>3, StaysRead
<1>2. CASE agent[a].what # "REVOKE_OFFER"
  BY <1>2, RequestForgets DEF WriteAct
<1> QED
  BY <1>1, <1>2

\* The offer is read first: when it is accepted its record is there.
LEMMA AcceptedSeen ==
    ASSUME CaseInv, LastingInv, NEW a \in Agents, ReadOffer(a) \/ ReadSnapshot(a) PROVE LastingInv'
<1>1. CASE ReadOffer(a)
  <2> DEFINE row == ReadInto(agent[a], "snapshot", "status", offer[agent[a].offer])
  <2>1. agent[a] \in Request /\ Reading(agent[a]) /\ agent[a].at = "offer"
        /\ UNCHANGED accepted /\ agent' = [agent EXCEPT ![a] = row]
    BY <1>1, ReadStep DEF ReadOffer
  <2>2. row.at = "snapshot" /\ row.offer = agent[a].offer /\ row.read.status = offer[agent[a].offer]
    BY <2>1 DEF Request, CaseRead, ReadInto
  <2>3. agent[a].offer \in Cases
    BY <2>1 DEF Reading
  <2> HIDE DEF row
  <2>4. Lasting(row)
    BY <2>2, <2>3 DEF Lasting, CaseInv, RowsAgree
  <2> QED
    BY <2>1, <2>4, OneReads
<1>2. CASE ReadSnapshot(a)
  <2> DEFINE row == ReadInto(agent[a], "record", "frozen", offer[agent[a].offer] # "DRAFT")
  <2>1. agent[a] \in Request /\ UNCHANGED accepted /\ agent' = [agent EXCEPT ![a] = row]
    BY <1>2, ReadStep DEF ReadSnapshot
  <2>2. row.at = "record" /\ row.offer = agent[a].offer /\ row.read.status = agent[a].read.status
    BY <2>1 DEF Request, CaseRead, ReadInto
  <2> HIDE DEF row
  <2>3. Lasting(row)
    BY <2>2 DEF Lasting, LastingInv
  <2> QED
    BY <2>1, <2>3, OneReads
<1> QED
  BY <1>1, <1>2

\* And so it is found, and shown.
LEMMA RecordSeen ==
    ASSUME CaseInv, LastingInv, NEW a \in Agents, ReadRecord(a) \/ ShowCase(a) PROVE LastingInv'
<1> DEFINE own == agent[a].offer
<1>1. CASE ReadRecord(a)
  <2> DEFINE found == RecordsOf(own, agent[a].read.frozen)
  <2>1. PICK r \in (IF found = {} THEN {NoCase} ELSE found) : Reads(a, "record", "certificate", "record", r)
    BY <1>1 DEF ReadRecord
  <2> DEFINE row == ReadInto(agent[a], "certificate", "record", r)
  <2>2. agent[a] \in Request /\ UNCHANGED accepted /\ agent' = [agent EXCEPT ![a] = row]
    BY <2>1, ReadStep
  <2>3. row.offer = own /\ row.read.status = agent[a].read.status /\ row.read.frozen = agent[a].read.frozen
        /\ row.read.record = r
    BY <2>2 DEF Request, CaseRead, ReadInto
  <2>4. agent[a].read.frozen /\ own \in accepted => r = own
    BY <2>1 DEF RecordsOf
  <2> HIDE DEF row, found
  <2>5. Lasting(row)
    BY <2>3, <2>4 DEF Lasting, LastingInv
  <2> QED
    BY <2>2, <2>5, OneReads
<1>2. CASE ShowCase(a)
  <2> DEFINE row == ReadInto(agent[a], "shown", "certificate", own \in certified)
  <2>1. agent[a] \in Request /\ agent[a].at = "certificate" /\ UNCHANGED accepted /\ agent' = [agent EXCEPT ![a] = row]
    BY <1>2, ReadStep DEF ShowCase
  <2>2. row.offer = own /\ row.read.status = agent[a].read.status /\ row.read.frozen = agent[a].read.frozen
        /\ row.read.record = agent[a].read.record
    BY <2>1 DEF Request, CaseRead, ReadInto
  <2> HIDE DEF row
  <2>3. Lasting(row)
    BY <2>1, <2>2 DEF Lasting, LastingInv
  <2> QED
    BY <2>1, <2>3, OneReads
<1> QED
  BY <1>1, <1>2

LEMMA LastingStep == ASSUME CaseInv, LastingInv, [OfficeNext]_officeVars PROVE LastingInv'
<1>1. ASSUME NEW d \in Cases, SendOffer(d) \/ AcceptOffer(d) \/ EndOffer(d) \/ Certify(d) PROVE LastingInv'
  BY <1>1, RowsChange DEF SendOffer, AcceptOffer, EndOffer, Certify, Becomes
<1>2. ASSUME NEW a \in Agents, NEW d \in Cases, GetCase(a, d) PROVE LastingInv'
  BY <1>2, RequestBegins DEF GetCase
<1>3. ASSUME NEW a \in Agents, NEW d \in Cases, NEW what \in Acts, Act(a, what, d) PROVE LastingInv'
  BY <1>3, RequestBegins DEF Act
<1>4. ASSUME NEW a \in Agents, LogCritical(a) \/ CheckAct(a) \/ LeaveRequest(a) PROVE LastingInv'
  <2>1. (AgentTo(a, "check") \/ AgentTo(a, "write") \/ Over(a)) /\ UNCHANGED accepted
    BY <1>4 DEF LogCritical, CheckAct, LeaveRequest
  <2> QED
    BY <2>1, RequestGoesOn, RequestForgets
<1>5. CASE Desk \/ UNCHANGED officeVars
  <2>1. UNCHANGED <<accepted, agent>>
    BY <1>5 DEF Desk, ReadSetting, WriteSetting, RequestErasure, CreateErasure, CallDies, Erased, officeVars, caseVars
  <2> QED
    BY <2>1 DEF LastingInv, Lasting
<1> QED
  BY <1>1, <1>2, <1>3, <1>4, <1>5, ActChanges, AcceptedSeen, RecordSeen DEF OfficeNext, Support

\* SupportService.getCase reads five tables, one statement each.  What it shows
\* of an offer that was sent is of that offer, an accepted one comes with its
\* record although the deal goes on meanwhile, and if nothing happened to it
\* all its rows agree.
THEOREM CaseAlwaysAgrees == OfficeSpec => []CaseAgrees
<1>1. OfficeInit => CaseInv /\ LastingInv
  <2>1. OfficeInit => LastingInv
    BY NothingRead DEF OfficeInit, LastingInv
  <2> QED
    BY <2>1, CaseFirst
<1>2. CaseInv /\ LastingInv /\ [OfficeNext]_officeVars => (CaseInv /\ LastingInv)'
  BY CaseStep, LastingStep
<1>3. CaseInv /\ LastingInv => CaseAgrees
  BY CaseInvImplies
<1> QED
  BY <1>1, <1>2, <1>3, PTL DEF OfficeSpec

-----------------------------------------------------------------------------
(* The audit log.                                                          *)

InFlight(d, act) == {a \in Agents : agent[a].offer = d /\ agent[a].what = act /\ agent[a].at \in {"check", "write"}}

\* Only so many acts are past their audit as there are rows not yet used up.
Paid(d, act) ==
    /\ audit[d][act] \in Nat /\ acts[d][act] \in Nat /\ IsFiniteSet(InFlight(d, act))
    /\ acts[d][act] + Cardinality(InFlight(d, act)) <= audit[d][act]

AuditInv ==
    /\ audit \in [Cases -> [Acts -> Nat]] /\ acts \in [Cases -> [Acts -> Nat]]
    /\ \A d \in Cases, act \in Acts : Paid(d, act)

LEMMA AuditInvImplies == ASSUME AuditInv PROVE ActsAreAudited
  BY DEF AuditInv, Paid, InFlight, ActsAreAudited

\* None joins those in flight.
LEMMA NoneJoins ==
    ASSUME AuditInv, acts' = acts, audit' \in [Cases -> [Acts -> Nat]],
           \A d \in Cases, act \in Acts : audit'[d][act] >= audit[d][act] /\ InFlight(d, act)' \subseteq InFlight(d, act)
    PROVE  AuditInv'
<1>1. ASSUME NEW d \in Cases, NEW act \in Acts PROVE Paid(d, act)'
  <2>1. Paid(d, act)
    BY DEF AuditInv
  <2>2. IsFiniteSet(InFlight(d, act)) /\ InFlight(d, act)' \subseteq InFlight(d, act)
    BY <2>1 DEF Paid
  <2>3. /\ IsFiniteSet(InFlight(d, act)') /\ Cardinality(InFlight(d, act)') <= Cardinality(InFlight(d, act))
    BY <2>2, FS_Subset
  <2>4. Cardinality(InFlight(d, act)') \in Nat /\ Cardinality(InFlight(d, act)) \in Nat
    BY <2>2, <2>3, FS_CardinalityType
  <2>5. audit'[d][act] \in Nat /\ audit'[d][act] >= audit[d][act]
    OBVIOUS
  <2> QED
    BY <2>1, <2>3, <2>4, <2>5 DEF Paid
<1> QED
  BY <1>1 DEF AuditInv

\* Where requests stand, step by step.
LEMMA AgentsAfter ==
    ASSUME CaseInv, NEW a \in Agents, NEW row, agent' = [agent EXCEPT ![a] = row]
    PROVE  \A b \in Agents : agent'[b] = IF b = a THEN row ELSE agent[b]
  BY DEF CaseInv, CaseTypeOK

LEMMA StaysOut ==
    ASSUME CaseInv, AuditInv, NEW a \in Agents, NEW row, agent' = [agent EXCEPT ![a] = row],
           row.at \notin {"check", "write"}, acts' = acts, audit' \in [Cases -> [Acts -> Nat]],
           \A d \in Cases, act \in Acts : audit'[d][act] >= audit[d][act]
    PROVE  AuditInv'
<1>1. \A d \in Cases, act \in Acts : InFlight(d, act)' \subseteq InFlight(d, act)
  BY AgentsAfter DEF InFlight
<1> QED
  BY <1>1, NoneJoins

LEMMA LeavesIt ==
    ASSUME CaseInv, AuditInv, NEW a \in Agents, Over(a), acts' = acts, audit' \in [Cases -> [Acts -> Nat]],
           \A d \in Cases, act \in Acts : audit'[d][act] >= audit[d][act]
    PROVE  AuditInv'
<1>1. NoRequest.at = "idle"
  BY DEF NoRequest
<1> QED
  BY <1>1, StaysOut DEF Over

LEMMA AuditIsWritten ==
    ASSUME CaseInv, AuditInv, NEW a \in Agents, LogCritical(a)
    PROVE  AuditInv'
<1> DEFINE own == agent[a].offer
           what == agent[a].what
<1>1. own \in Cases /\ what \in Acts /\ agent[a].at = "audit" /\ acts' = acts
  BY DEF LogCritical, AgentAt, CaseInv, Reading
<1>2. PICK written \in BOOLEAN :
          /\ audit' = IF written THEN [audit EXCEPT ![own][what] = @ + 1] ELSE audit
          /\ IF written THEN AgentTo(a, "check") ELSE Over(a)
  BY DEF LogCritical, Proceeds
<1>3. audit \in [Cases -> [Acts -> Nat]]
  BY DEF AuditInv
<1>4. CASE ~written
  BY <1>1, <1>2, <1>3, <1>4, LeavesIt DEF AuditInv
<1>5. CASE written
  <2>1. audit' = [audit EXCEPT ![own][what] = @ + 1]
    BY <1>2, <1>5
  <2>2. /\ audit' \in [Cases -> [Acts -> Nat]]
        /\ \A d \in Cases, act \in Acts : audit'[d][act] = IF d = own /\ act = what THEN audit[d][act] + 1 ELSE audit[d][act]
    BY <1>1, <1>3, <2>1
  <2>3. agent[a] \in Request /\ agent' = [agent EXCEPT ![a] = [agent[a] EXCEPT !.at = "check"]]
    BY <1>2, <1>5 DEF AgentTo, CaseInv, CaseTypeOK
  <2>4. [agent[a] EXCEPT !.at = "check"].offer = own /\ [agent[a] EXCEPT !.at = "check"].what = what
        /\ [agent[a] EXCEPT !.at = "check"].at = "check"
    BY <2>3 DEF Request
  <2>5. \A b \in Agents : agent'[b] = IF b = a THEN [agent[a] EXCEPT !.at = "check"] ELSE agent[b]
    BY <2>3, AgentsAfter
  <2>6. ASSUME NEW d \in Cases, NEW act \in Acts PROVE Paid(d, act)'
    <3>1. Paid(d, act)
      BY DEF AuditInv
    <3>2. CASE d = own /\ act = what
      <4>1. InFlight(d, act)' = InFlight(d, act) \cup {a} /\ a \notin InFlight(d, act)
        BY <1>1, <2>4, <2>5, <3>2 DEF InFlight
      <4>2. IsFiniteSet(InFlight(d, act))
        BY <3>1 DEF Paid
      <4>3. IsFiniteSet(InFlight(d, act)') /\ Cardinality(InFlight(d, act)') = Cardinality(InFlight(d, act)) + 1
        BY <4>1, <4>2, FS_AddElement
      <4>4. Cardinality(InFlight(d, act)) \in Nat
        BY <4>2, FS_CardinalityType
      <4> QED
        BY <1>1, <2>2, <3>1, <3>2, <4>3, <4>4 DEF Paid
    <3>3. CASE ~(d = own /\ act = what)
      <4>1. InFlight(d, act)' = InFlight(d, act)
        BY <1>1, <2>4, <2>5, <3>3 DEF InFlight
      <4> QED
        BY <1>1, <2>2, <3>1, <3>3, <4>1 DEF Paid
    <3> QED
      BY <3>2, <3>3
  <2> QED
    BY <1>1, <2>2, <2>6 DEF AuditInv
<1> QED
  BY <1>4, <1>5

\* A customer's step moves nobody.
LEMMA MovingStays ==
    ASSUME CaseInv, AuditInv, NEW d \in Cases, agent' = Moving(d), UNCHANGED <<acts, audit>>
    PROVE  AuditInv'
<1>1. \A e \in Cases, act \in Acts : InFlight(e, act)' \subseteq InFlight(e, act)
  BY MovingMarks DEF InFlight
<1> QED
  BY <1>1, NoneJoins DEF AuditInv

LEMMA CheckStays ==
    ASSUME CaseInv, AuditInv, NEW a \in Agents, CheckAct(a)
    PROVE  AuditInv'
<1>1. agent[a].at = "check" /\ UNCHANGED <<acts, audit>> /\ agent[a] \in Request
  BY DEF CheckAct, AgentAt, CaseInv, CaseTypeOK
<1>2. CASE Over(a)
  BY <1>1, <1>2, LeavesIt DEF AuditInv
<1>3. CASE AgentTo(a, "write")
  <2> DEFINE row == [agent[a] EXCEPT !.at = "write"]
  <2>1. row.offer = agent[a].offer /\ row.what = agent[a].what
    BY <1>1 DEF Request
  <2>2. \A b \in Agents : agent'[b] = IF b = a THEN row ELSE agent[b]
    BY <1>3, AgentsAfter DEF AgentTo
  <2> HIDE DEF row
  <2>3. \A d \in Cases, act \in Acts : InFlight(d, act)' \subseteq InFlight(d, act)
    BY <1>1, <2>1, <2>2 DEF InFlight
  <2> QED
    BY <1>1, <2>3, NoneJoins DEF AuditInv
<1> QED
  BY <1>2, <1>3 DEF CheckAct

\* What is done uses up its row.
LEMMA DoneIsPaid ==
    ASSUME CaseInv, AuditInv, NEW a \in Agents, WriteAct(a)
    PROVE  AuditInv'
<1> DEFINE own == agent[a].offer
           what == agent[a].what
<1>1. own \in Cases /\ what \in Acts /\ agent[a].at = "write" /\ audit' = audit
      /\ acts' = [acts EXCEPT ![own][what] = @ + 1]
  BY DEF WriteAct, AgentAt, CaseInv, Reading
<1>2. /\ acts' \in [Cases -> [Acts -> Nat]]
      /\ \A d \in Cases, act \in Acts : acts'[d][act] = IF d = own /\ act = what THEN acts[d][act] + 1 ELSE acts[d][act]
  BY <1>1 DEF AuditInv
<1>3. agent' = [Moving(own) EXCEPT ![a] = NoRequest] \/ agent' = [agent EXCEPT ![a] = NoRequest]
  BY DEF WriteAct, Over
<1>4. \A b \in Agents \ {a} : agent'[b].offer = agent[b].offer /\ agent'[b].what = agent[b].what /\ agent'[b].at = agent[b].at
  <2>1. CASE agent' = [Moving(own) EXCEPT ![a] = NoRequest]
    <3>1. \A b \in Agents \ {a} : agent'[b] = Moving(own)[b]
      BY <1>1, <2>1, MovingMarks
    <3> QED
      BY <1>1, <3>1, MovingMarks
  <2>2. CASE agent' = [agent EXCEPT ![a] = NoRequest]
    BY <2>2, AgentsAfter
  <2> QED
    BY <1>3, <2>1, <2>2
<1>5. agent'[a] = NoRequest
  BY <1>1, <1>3, MovingMarks DEF CaseInv, CaseTypeOK
<1>6. agent'[a].at = "idle"
  BY <1>5 DEF NoRequest
<1>7. ASSUME NEW d \in Cases, NEW act \in Acts PROVE Paid(d, act)'
  <2>1. Paid(d, act)
    BY DEF AuditInv
  <2>2. IsFiniteSet(InFlight(d, act))
    BY <2>1 DEF Paid
  <2>3. CASE d = own /\ act = what
    <3>1. InFlight(d, act)' = InFlight(d, act) \ {a} /\ a \in InFlight(d, act)
      BY <1>1, <1>4, <1>6, <2>3 DEF InFlight
    <3>2. IsFiniteSet(InFlight(d, act)') /\ Cardinality(InFlight(d, act)') = Cardinality(InFlight(d, act)) - 1
      BY <2>2, <3>1, FS_RemoveElement
    <3>3. Cardinality(InFlight(d, act)) \in Nat
      BY <2>2, FS_CardinalityType
    <3> QED
      BY <1>1, <1>2, <2>1, <2>3, <3>2, <3>3 DEF Paid
  <2>4. CASE ~(d = own /\ act = what)
    <3>1. InFlight(d, act)' = InFlight(d, act)
      BY <1>1, <1>4, <1>6, <2>4 DEF InFlight
    <3> QED
      BY <1>1, <1>2, <2>1, <2>4, <3>1 DEF Paid
  <2> QED
    BY <2>3, <2>4
<1> QED
  BY <1>1, <1>2, <1>7 DEF AuditInv

LEMMA AuditFirst == ASSUME OfficeInit PROVE AuditInv
<1>1. \A a \in Agents : agent[a].at = "idle"
  BY DEF OfficeInit, NoRequest
<1>2. \A d \in Cases, act \in Acts : InFlight(d, act) = {}
  BY <1>1 DEF InFlight
<1>3. IsFiniteSet({}) /\ Cardinality({}) = 0
  BY FS_EmptySet
<1>4. audit = [d \in Cases |-> [act \in Acts |-> 0]] /\ acts = audit
  BY DEF OfficeInit
<1> QED
  BY <1>2, <1>3, <1>4 DEF AuditInv, Paid

LEMMA AuditStep == ASSUME CaseInv, AuditInv, [OfficeNext]_officeVars PROVE AuditInv'
<1> DEFINE Same == UNCHANGED <<acts, audit>>
<1>0. ASSUME Same PROVE acts' = acts /\ audit' \in [Cases -> [Acts -> Nat]] /\ \A d \in Cases, act \in Acts : audit'[d][act] >= audit[d][act]
  BY <1>0 DEF AuditInv
<1>1. ASSUME NEW d \in Cases, SendOffer(d) \/ AcceptOffer(d) \/ EndOffer(d) \/ Certify(d) PROVE AuditInv'
  <2>1. agent' = Moving(d) /\ Same
    BY <1>1 DEF SendOffer, AcceptOffer, EndOffer, Certify, Becomes
  <2> QED
    BY <2>1, MovingStays
<1>2. ASSUME NEW a \in Agents, NEW d \in Cases, NEW what, NEW step \in {"audit", "offer"}, Begin(a, what, d, step), Same
      PROVE  AuditInv'
  <2> DEFINE row == [NoRequest EXCEPT !.what = what, !.offer = d, !.at = step]
  <2>1. row.at = step
    BY DEF NoRequest
  <2>2. agent' = [agent EXCEPT ![a] = row]
    BY <1>2 DEF Begin
  <2> HIDE DEF row
  <2> QED
    BY <1>0, <1>2, <2>1, <2>2, StaysOut
<1>3. ASSUME NEW a \in Agents, NEW d \in Cases, GetCase(a, d) PROVE AuditInv'
  BY <1>2, <1>3 DEF GetCase
<1>4. ASSUME NEW a \in Agents, NEW d \in Cases, NEW what \in Acts, Act(a, what, d) PROVE AuditInv'
  BY <1>2, <1>4 DEF Act
<1>5. ASSUME NEW a \in Agents, LeaveRequest(a) PROVE AuditInv'
  <2>1. Over(a) /\ Same
    BY <1>5 DEF LeaveRequest
  <2> QED
    BY <1>0, <2>1, LeavesIt
<1>6. ASSUME NEW a \in Agents, NEW step, NEW next, next \notin {"check", "write"}, NEW field, NEW value,
             Reads(a, step, next, field, value)
      PROVE  AuditInv'
  <2> DEFINE row == ReadInto(agent[a], next, field, value)
  <2>1. agent[a] \in Request /\ agent' = [agent EXCEPT ![a] = row]
    BY <1>6, ReadStep
  <2>2. row.at = next
    BY <2>1 DEF Request, ReadInto
  <2>3. Same
    BY <1>6 DEF Reads
  <2> HIDE DEF row
  <2> QED
    BY <1>0, <1>6, <2>1, <2>2, <2>3, StaysOut
<1>7. ASSUME NEW a \in Agents, ReadOffer(a) \/ ReadSnapshot(a) \/ ReadRecord(a) \/ ShowCase(a) PROVE AuditInv'
  BY <1>6, <1>7 DEF ReadOffer, ReadSnapshot, ReadRecord, ShowCase
<1>8. CASE Desk \/ UNCHANGED officeVars
  <2>1. agent' = agent /\ Same
    BY <1>8 DEF Desk, ReadSetting, WriteSetting, RequestErasure, CreateErasure, CallDies, Erased, officeVars, caseVars
  <2>2. \A d \in Cases, act \in Acts : InFlight(d, act)' \subseteq InFlight(d, act)
    BY <2>1 DEF InFlight
  <2> QED
    BY <1>0, <2>1, <2>2, NoneJoins
<1> QED
  BY <1>1, <1>3, <1>4, <1>5, <1>7, <1>8, AuditIsWritten, CheckStays, DoneIsPaid DEF OfficeNext, Support

\* SupportController writes the audit row before it acts: whatever fails or
\* dies, there is a row for each act done and for each that is past its audit.
THEOREM ActsAlwaysAudited == OfficeSpec => []ActsAreAudited
<1>1. OfficeInit => CaseInv /\ AuditInv
  BY CaseFirst, AuditFirst
<1>2. CaseInv /\ AuditInv /\ [OfficeNext]_officeVars => (CaseInv /\ AuditInv)'
  BY CaseStep, AuditStep
<1>3. AuditInv => ActsAreAudited
  BY AuditInvImplies
<1> QED
  BY <1>1, <1>2, <1>3, PTL DEF OfficeSpec

-----------------------------------------------------------------------------
(* Settings and erasure: what a call has read is still so, unless another  *)
(* wrote since.                                                            *)

Value == Values \cup {Unset}
Entry == [old : Value, new : Value, late : BOOLEAN]
Call  == [about : {"nothing", "setting", "erasure"}, value : Value, old : Value, late : BOOLEAN]

LastValue == IF trail = <<>> THEN Unset ELSE trail[Len(trail)].new

Chained(i) == trail[i].old = (IF i = 1 THEN Unset ELSE trail[i - 1].new) \/ trail[i].late

UpToDate(call, now, open) ==
    /\ call.about = "setting" /\ ~call.late => call.old = now
    /\ call.about = "erasure" /\ ~call.late => open = 0

DeskTypeOK ==
    /\ setting \in Value /\ trail \in Seq(Entry) /\ clerk \in [Clerks -> Call]
    /\ erasures \in [open : Nat, all : Nat, late : BOOLEAN]

DeskInv ==
    /\ DeskTypeOK
    /\ setting = LastValue
    /\ \A i \in 1..Len(trail) : Chained(i)
    /\ erasures.open > 1 => erasures.late
    /\ \A c \in Clerks : UpToDate(clerk[c], setting, erasures.open)

LEMMA DeskInvImplies == ASSUME DeskInv PROVE ChecksHold
<1>1. DOMAIN trail = 1..Len(trail)
  BY DEF DeskInv, DeskTypeOK
<1> QED
  BY <1>1 DEF DeskInv, ChecksHold, Chained, LastValue

LEMMA AwayFits == Away \in Call /\ Away.about = "nothing" /\ \A now, open : UpToDate(Away, now, open)
  BY DEF Away, Call, Value, UpToDate

\* A call begins, goes on or ends, and writes nothing.
LEMMA OneCalls ==
    ASSUME DeskInv, NEW c \in Clerks, NEW row \in Call, UpToDate(row, setting, erasures.open),
           clerk' = [clerk EXCEPT ![c] = row], UNCHANGED <<setting, trail, erasures>>
    PROVE  DeskInv'
<1>1. clerk' \in [Clerks -> Call] /\ \A b \in Clerks : clerk'[b] = IF b = c THEN row ELSE clerk[b]
  BY DEF DeskInv, DeskTypeOK
<1>2. \A b \in Clerks : UpToDate(clerk'[b], setting, erasures.open)
  BY <1>1 DEF DeskInv
<1> QED
  BY <1>1, <1>2 DEF DeskInv, DeskTypeOK, LastValue, Chained

LEMMA CallEnters ==
    ASSUME DeskInv, NEW c \in Clerks, NEW about \in {"setting", "erasure"}, NEW value \in Value, NEW old \in Value,
           Enters(c, about, value, old), UpToDate([about |-> about, value |-> value, old |-> old, late |-> FALSE], setting, erasures.open),
           UNCHANGED <<setting, trail, erasures>>
    PROVE  DeskInv'
<1> DEFINE row == [about |-> about, value |-> value, old |-> old, late |-> FALSE]
<1>1. row \in Call /\ clerk' = [clerk EXCEPT ![c] = row]
  BY DEF Enters, Call
<1> QED
  BY <1>1, OneCalls

\* Whoever has read what is now written over is late.
LEMMA WritesMark ==
    ASSUME DeskInv, NEW c \in Clerks, Writes(c)
    PROVE  /\ clerk' \in [Clerks -> Call]
           /\ \A b \in Clerks : \/ clerk'[b].about = "nothing"
                                \/ clerk'[b].about = clerk[c].about /\ clerk'[b].late
                                \/ clerk'[b] = clerk[b] /\ clerk'[b].about # clerk[c].about
<1>1. clerk \in [Clerks -> Call]
  BY DEF DeskInv, DeskTypeOK
<1>2. \A b \in Clerks : clerk'[b] = IF b = c THEN Away
                                    ELSE IF clerk[b].about = clerk[c].about THEN [clerk[b] EXCEPT !.late = TRUE]
                                    ELSE clerk[b]
  BY DEF Writes
<1>3. clerk' = [b \in Clerks |-> clerk'[b]]
  BY DEF Writes
<1>4. ASSUME NEW b \in Clerks
      PROVE  /\ clerk'[b] \in Call
             /\ \/ clerk'[b].about = "nothing"
                \/ clerk'[b].about = clerk[c].about /\ clerk'[b].late
                \/ clerk'[b] = clerk[b] /\ clerk'[b].about # clerk[c].about
  <2>1. CASE b = c
    BY <1>2, <2>1, AwayFits
  <2>2. CASE b # c /\ clerk[b].about = clerk[c].about
    BY <1>1, <1>2, <2>2 DEF Call
  <2>3. CASE b # c /\ clerk[b].about # clerk[c].about
    BY <1>1, <1>2, <2>3
  <2> QED
    BY <2>1, <2>2, <2>3
<1> QED
  BY <1>3, <1>4

LEMMA SettingWritten ==
    ASSUME DeskInv, NEW c \in Clerks, WriteSetting(c)
    PROVE  DeskInv'
<1> DEFINE entry == [old |-> clerk[c].old, new |-> clerk[c].value, late |-> clerk[c].late]
<1>1. clerk[c].about = "setting" /\ setting' = clerk[c].value /\ trail' = Append(trail, entry) /\ erasures' = erasures
      /\ Writes(c)
  BY DEF WriteSetting
<1>2. clerk[c] \in Call /\ trail \in Seq(Entry) /\ erasures \in [open : Nat, all : Nat, late : BOOLEAN]
  BY DEF DeskInv, DeskTypeOK
<1>3. entry \in Entry /\ entry.new = setting' /\ entry.late = clerk[c].late /\ entry.old = clerk[c].old
  BY <1>1, <1>2 DEF Call, Entry
<1>4. entry.old = LastValue \/ entry.late
  BY <1>1, <1>3 DEF DeskInv, UpToDate
<1> HIDE DEF entry
<1>5. /\ trail' \in Seq(Entry) /\ Len(trail') = Len(trail) + 1 /\ Len(trail) \in Nat
      /\ trail'[Len(trail) + 1] = entry /\ \A i \in 1..Len(trail) : trail'[i] = trail[i]
  BY <1>1, <1>2, <1>3
<1>6. trail' # <<>>
  BY <1>5
<1>7. LastValue' = setting'
  BY <1>3, <1>5, <1>6 DEF LastValue
<1>8. ASSUME NEW i \in 1..Len(trail') PROVE Chained(i)'
  <2>1. CASE i \in 1..Len(trail)
    <3>1. Chained(i)
      BY <2>1 DEF DeskInv
    <3>2. i # 1 => i - 1 \in 1..Len(trail)
      BY <2>1, <1>5
    <3> QED
      BY <1>5, <2>1, <3>1, <3>2 DEF Chained
  <2>2. CASE i = Len(trail) + 1
    <3>1. CASE Len(trail) = 0
      <4>1. trail = <<>>
        BY <1>2, <3>1
      <4> QED
        BY <1>4, <1>5, <2>2, <3>1, <4>1 DEF Chained, LastValue
    <3>2. CASE Len(trail) > 0
      <4>1. trail # <<>> /\ i - 1 = Len(trail) /\ i # 1 /\ Len(trail) \in 1..Len(trail)
        BY <1>5, <2>2, <3>2
      <4> QED
        BY <1>4, <1>5, <2>2, <4>1 DEF Chained, LastValue
    <3> QED
      BY <1>5, <3>1, <3>2
  <2> QED
    BY <1>5, <2>1, <2>2
<1>9. \A b \in Clerks : UpToDate(clerk'[b], setting', erasures'.open)
  BY <1>1, WritesMark DEF UpToDate, DeskInv
<1>10. DeskTypeOK'
  BY <1>1, <1>2, <1>5, WritesMark DEF DeskTypeOK, Call
<1>11. erasures'.open > 1 => erasures'.late
  BY <1>1 DEF DeskInv
<1> QED
  BY <1>7, <1>8, <1>9, <1>10, <1>11 DEF DeskInv

LEMMA ErasureCreated ==
    ASSUME DeskInv, NEW c \in Clerks, CreateErasure(c)
    PROVE  DeskInv'
<1>1. /\ clerk[c].about = "erasure" /\ setting' = setting /\ trail' = trail /\ Writes(c)
      /\ erasures' = [open |-> erasures.open + 1, all |-> erasures.all + 1, late |-> erasures.late \/ clerk[c].late]
  BY DEF CreateErasure
<1>2. clerk[c] \in Call /\ erasures \in [open : Nat, all : Nat, late : BOOLEAN]
  BY DEF DeskInv, DeskTypeOK
<1>3. clerk[c].late \in BOOLEAN /\ erasures.late \in BOOLEAN /\ erasures.open \in Nat /\ erasures.all \in Nat
  BY <1>2 DEF Call
<1>4. /\ erasures' \in [open : Nat, all : Nat, late : BOOLEAN]
      /\ erasures'.open = erasures.open + 1 /\ erasures'.late = (erasures.late \/ clerk[c].late)
  BY <1>1, <1>3
<1>5. ~clerk[c].late => erasures.open = 0
  BY <1>1 DEF DeskInv, UpToDate
<1>6. erasures'.open > 1 => erasures'.late
  BY <1>3, <1>4, <1>5
<1>7. \A b \in Clerks : UpToDate(clerk'[b], setting', erasures'.open)
  BY <1>1, WritesMark DEF UpToDate, DeskInv
<1>8. DeskTypeOK'
  BY <1>1, <1>4, WritesMark DEF DeskInv, DeskTypeOK
<1>9. setting' = LastValue' /\ \A i \in 1..Len(trail') : Chained(i)'
  BY <1>1 DEF DeskInv, LastValue, Chained
<1> QED
  BY <1>6, <1>7, <1>8, <1>9 DEF DeskInv

LEMMA ErasureDone ==
    ASSUME DeskInv, Erased
    PROVE  DeskInv'
<1>1. /\ erasures.open > 0 /\ erasures' = [erasures EXCEPT !.open = @ - 1]
      /\ setting' = setting /\ trail' = trail /\ clerk' = clerk
  BY DEF Erased, Pending
<1>2. erasures \in [open : Nat, all : Nat, late : BOOLEAN]
  BY DEF DeskInv, DeskTypeOK
<1>3. erasures' \in [open : Nat, all : Nat, late : BOOLEAN] /\ erasures'.open = erasures.open - 1 /\ erasures'.late = erasures.late
  BY <1>1, <1>2
<1>4. \A b \in Clerks : UpToDate(clerk'[b], setting', erasures'.open)
  BY <1>1 DEF DeskInv, UpToDate
<1>5. DeskTypeOK'
  BY <1>1, <1>3 DEF DeskInv, DeskTypeOK
<1>6. setting' = LastValue' /\ \A i \in 1..Len(trail') : Chained(i)'
  BY <1>1 DEF DeskInv, LastValue, Chained
<1>7. erasures'.open > 1 => erasures'.late
  BY <1>1, <1>2, <1>3 DEF DeskInv
<1> QED
  BY <1>4, <1>5, <1>6, <1>7 DEF DeskInv

LEMMA DeskFirst == ASSUME OfficeInit PROVE DeskInv
<1>1. clerk \in [Clerks -> Call] /\ \A c \in Clerks : clerk[c] = Away
  BY AwayFits DEF OfficeInit
<1>2. setting = Unset /\ trail = <<>> /\ erasures = [open |-> 0, all |-> 0, late |-> FALSE]
  BY DEF OfficeInit
<1>3. DeskTypeOK
  BY <1>1, <1>2 DEF DeskTypeOK, Value
<1>4. \A c \in Clerks : UpToDate(clerk[c], setting, erasures.open)
  BY <1>1, AwayFits
<1> QED
  BY <1>2, <1>3, <1>4 DEF DeskInv, LastValue

LEMMA DeskStep == ASSUME DeskInv, [OfficeNext]_officeVars PROVE DeskInv'
<1>1. ASSUME NEW c \in Clerks, ReadSetting(c) PROVE DeskInv'
  <2>1. PICK v \in Values : Enters(c, "setting", v, setting)
    BY <1>1 DEF ReadSetting
  <2>2. v \in Value /\ setting \in Value /\ UNCHANGED <<setting, trail, erasures>>
    BY <1>1 DEF ReadSetting, Value, DeskInv, DeskTypeOK
  <2>3. PICK old \in Value : old = setting
    BY <2>2
  <2>4. UpToDate([about |-> "setting", value |-> v, old |-> old, late |-> FALSE], setting, erasures.open)
    BY <2>3 DEF UpToDate
  <2> QED
    BY <2>1, <2>2, <2>3, <2>4, CallEnters
<1>2. ASSUME NEW c \in Clerks, RequestErasure(c) PROVE DeskInv'
  <2>1. erasures.open = 0
    BY <1>2 DEF RequestErasure, Pending, DeskInv, DeskTypeOK
  <2>2. Enters(c, "erasure", Unset, Unset) /\ UNCHANGED <<setting, trail, erasures>> /\ Unset \in Value
    BY <1>2 DEF RequestErasure, Value
  <2>3. UpToDate([about |-> "erasure", value |-> Unset, old |-> Unset, late |-> FALSE], setting, erasures.open)
    BY <2>1 DEF UpToDate
  <2> QED
    BY <2>2, <2>3, CallEnters
<1>3. ASSUME NEW c \in Clerks, CallDies(c) PROVE DeskInv'
  BY <1>3, OneCalls, AwayFits DEF CallDies
<1>4. CASE Support \/ UNCHANGED officeVars
  <2>1. UNCHANGED clerkVars
    BY <1>4 DEF Support, SendOffer, AcceptOffer, EndOffer, Certify, Becomes, GetCase, Act, LogCritical, CheckAct,
                WriteAct, LeaveRequest, ReadOffer, ReadSnapshot, ReadRecord, ShowCase, Reads, officeVars
  <2> QED
    BY <2>1 DEF clerkVars, DeskInv, DeskTypeOK, LastValue, Chained, UpToDate
<1> QED
  BY <1>1, <1>2, <1>3, <1>4, SettingWritten, ErasureCreated, ErasureDone DEF OfficeNext, Desk

\* AdminSettingsService and AccountService.requestErasure write on what they
\* have read: an entry's old value is the one before it, and a user has one
\* open request, unless two calls overlapped.
THEOREM ChecksAlwaysHold == OfficeSpec => []ChecksHold
<1>1. OfficeInit => DeskInv
  BY DeskFirst
<1>2. DeskInv /\ [OfficeNext]_officeVars => DeskInv'
  BY DeskStep
<1>3. DeskInv => ChecksHold
  BY DeskInvImplies
<1> QED
  BY <1>1, <1>2, <1>3, PTL DEF OfficeSpec

-----------------------------------------------------------------------------
(* Certificates: the rows are as they were written until one is altered,   *)
(* and each alteration shows in the one hash or the one check it is for.   *)

\* What the application wrote, which nothing but Alter ever changes.
IsSignedEvent(e) ==
    e = [number |-> e.number, type |-> e.type, payload |-> e.payload, client |-> e.client, prev |-> e.prev, hash |-> e.hash]

Link(chain, i) ==
    /\ IsSignedEvent(chain[i]) /\ chain[i].number = i /\ chain[i].hash = EventHash(chain[i])
    /\ chain[i].prev = IF i = 1 THEN Null ELSE chain[i - 1].hash
    /\ chain[i].type = "OTP_VERIFIED" <=> i = 2
    /\ chain[i].type = "OFFER_ACCEPTED" <=> i = 3
    /\ chain[i].payload \in {Null, Sha256(<< 0 >>)}

Complete(chain, n) == chain = [i \in 1..n |-> chain[i]] /\ \A i \in 1..n : Link(chain, i)

Written ==
    /\ record = [act |-> 0, statement |-> 0, circumstances |-> 0, recipientName |-> record.recipientName, statementVersion |-> 0]
    /\ record.recipientName \in {0, Null} /\ recipient = 0
    /\ documents = WrittenDocuments
    /\ offerSnapshot = [content |-> 0, frozen |-> 0, contentHash |-> SnapshotHash(WrittenSnapshot, WrittenDocuments)]
    /\ Complete(events, 3) \/ Complete(events, 4)
    /\ certificate # Null =>
          /\ certificate = [hash |-> CertificateHash(0), canonical |-> certificate.canonical, issuedAt |-> 0]
          /\ certificate.canonical \in {CanonicalHash, Null}

PageTrue ==
    /\ page = [phase |-> page.phase, try |-> page.try, underWay |-> page.underWay, asked |-> page.asked, answers |-> page.answers]
    /\ page.try \in 0..MaxTries /\ page.underWay \subseteq 1..page.try
    /\ page.answers = [t \in 1..MaxTries |-> page.answers[t]]
    /\ page.asked \in {"nothing", altered}
    /\ \A t \in 1..MaxTries : t > page.try => page.answers[t] = "none"
    /\ page.try \in 1..MaxTries /\ page.answers[page.try] = "valid" => ~Vouched(page.asked)

\* Nothing is handed out before there is a certificate.
NoneBefore == altered = "nothing" /\ certificate = Null => copy = Null

EvidenceInv ==
    /\ altered = "nothing" => Written
    /\ NoneBefore
    /\ VerdictIsTrue /\ PageTrue /\ ValidIsIntact

-----------------------------------------------------------------------------
(* The chain, as it is written.                                            *)

LEMMA CompleteLen ==
    ASSUME NEW chain, NEW n \in Nat, Complete(chain, n)
    PROVE  DOMAIN chain = 1..n /\ Len(chain) = n /\ \A S : (\A i \in 1..n : chain[i] \in S) => chain \in Seq(S)
<1>1. DOMAIN chain = 1..n
  BY DEF Complete
<1>2. ASSUME NEW S, \A i \in 1..n : chain[i] \in S PROVE chain \in Seq(S) /\ Len(chain) = n
  <2>1. chain \in [1..n -> S]
    BY <1>2 DEF Complete
  <2> QED
    BY <2>1
<1>3. \A i \in 1..n : chain[i] \in {chain[k] : k \in 1..n}
  OBVIOUS
<1>4. Len(chain) = n
  BY <1>2, <1>3
<1> QED
  BY <1>1, <1>2, <1>4

\* One more event keeps it complete.
LEMMA LinkKeeps ==
    ASSUME NEW chain, NEW n \in 0..3, Complete(chain, n),
           NEW type, NEW payload \in {Null, Sha256(<< 0 >>)},
           type = "OTP_VERIFIED" <=> n = 1, type = "OFFER_ACCEPTED" <=> n = 2
    PROVE  Complete(Linked(chain, type, payload), n + 1)
<1> DEFINE before == IF chain = <<>> THEN Null ELSE Last(chain).hash
           e == [number |-> n + 1, type |-> type, payload |-> payload, client |-> 0, prev |-> before,
                 hash |-> Sha256(<<n + 1, type, payload, before>>)]
           S == {chain[i] : i \in 1..n} \cup {e}
           longer == Append(chain, e)
<1>1. Len(chain) = n
  BY CompleteLen
<1>2. Linked(chain, type, payload) = longer
  BY <1>1 DEF Linked, EventHash
<1>3. chain \in Seq(S)
  <2>1. \A i \in 1..n : chain[i] \in S
    OBVIOUS
  <2> HIDE DEF S
  <2> QED
    BY <2>1, CompleteLen
<1>4. /\ longer \in Seq(S) /\ Len(longer) = n + 1 /\ longer[n + 1] = e
      /\ \A i \in 1..n : longer[i] = chain[i]
  BY <1>1, <1>3, AppendProperties
<1>5. longer = [i \in 1..(n + 1) |-> longer[i]]
  BY <1>4
<1>6. before = IF n = 0 THEN Null ELSE longer[n].hash
  BY <1>1, <1>4 DEF Last
<1> HIDE DEF before
<1>7. /\ IsSignedEvent(e) /\ e.number = n + 1 /\ e.hash = EventHash(e) /\ e.prev = before
      /\ e.type = type /\ e.payload = payload
  BY DEF IsSignedEvent, EventHash
<1> HIDE DEF e, longer
<1>8. ASSUME NEW i \in 1..(n + 1) PROVE Link(longer, i)
  <2>1. CASE i = n + 1
    <3>1. longer[i] = e
      BY <1>4, <2>1
    <3>2. e.prev = IF i = 1 THEN Null ELSE longer[i - 1].hash
      BY <1>6, <1>7, <2>1
    <3> QED
      BY <1>7, <2>1, <3>1, <3>2 DEF Link
  <2>2. CASE i \in 1..n
    <3>1. longer[i] = chain[i] /\ (i # 1 => longer[i - 1] = chain[i - 1])
      BY <1>4, <2>2
    <3>2. Link(chain, i)
      BY <2>2 DEF Complete
    <3> QED
      BY <3>1, <3>2 DEF Link
  <2> QED
    BY <2>1, <2>2
<1> QED
  BY <1>2, <1>5, <1>8 DEF Complete

LEMMA SignedComplete == ASSUME NEW hashed \in BOOLEAN PROVE Complete(Signed(hashed), 3)
<1>1. Complete(<<>>, 0)
  BY DEF Complete
<1>2. Complete(Linked(<<>>, "SESSION_STARTED", Null), 1)
  BY <1>1, LinkKeeps
<1>3. Complete(Linked(Linked(<<>>, "SESSION_STARTED", Null), "OTP_VERIFIED", Null), 2)
  BY <1>2, LinkKeeps
<1> DEFINE payload == IF hashed THEN Sha256(<< 0 >>) ELSE Null
<1>4. payload \in {Null, Sha256(<< 0 >>)}
  OBVIOUS
<1> HIDE DEF payload
<1>5. Complete(Linked(Linked(Linked(<<>>, "SESSION_STARTED", Null), "OTP_VERIFIED", Null), "OFFER_ACCEPTED", payload), 3)
  BY <1>3, <1>4, LinkKeeps
<1> QED
  BY <1>5 DEF Signed, payload

\* A complete chain passes what verify asks of it.
LEMMA CompletePasses ==
    ASSUME NEW n \in 3..4, Complete(events, n), record.statement = 0
    PROVE  ChainValid /\ AcceptanceEventsOk /\ StatementHashOk
<1>1. DOMAIN events = 1..n /\ Len(events) = n /\ n \in Nat
  BY CompleteLen
<1>0. \A i \in 1..n : Link(events, i)
  BY DEF Complete
<1>2. ChainValid
  <2>1. events # <<>>
    BY <1>1
  <2> QED
    BY <1>0, <1>1, <2>1 DEF ChainValid, Link
<1>3. OfType("OTP_VERIFIED") = {2} /\ OfType("OFFER_ACCEPTED") = {3}
  BY <1>0, <1>1 DEF OfType, Link
<1>4. AcceptanceEventsOk
  BY <1>3 DEF AcceptanceEventsOk
<1>5. StatementHashOk
  <2>1. events[3].payload \in {Null, Sha256(<< 0 >>)}
    BY <1>0 DEF Link
  <2> QED
    BY <1>3, <2>1 DEF StatementHashOk
<1> QED
  BY <1>2, <1>4, <1>5

\* So it does after any step: what holds of every state holds of the next one.
ChainPasses ==
    (Complete(events, 3) \/ Complete(events, 4)) /\ record.statement = 0
    => ChainValid /\ AcceptanceEventsOk /\ StatementHashOk

LEMMA PassesNow == ChainPasses
BY CompletePasses DEF ChainPasses

LEMMA PassesThen == ChainPasses'
BY PassesNow, PTL

\* Whose client was changed matters to no hash.
LEMMA ClientChanged ==
    ASSUME NEW n \in 3..4, Complete(events, n), NEW i \in 1..n, events' = [events EXCEPT ![i].client = 1]
    PROVE  Complete(events', n)
<1>1. DOMAIN events = 1..n
  BY CompleteLen
<1>2. PICK e : e = [events[i] EXCEPT !.client = 1]
  OBVIOUS
<1>0. \A j \in 1..n : Link(events, j)
  BY DEF Complete
<1>3. IsSignedEvent(events[i])
  BY <1>0 DEF Link
<1>4. /\ IsSignedEvent(e) /\ e.number = events[i].number /\ e.type = events[i].type /\ e.payload = events[i].payload
      /\ e.prev = events[i].prev /\ e.hash = events[i].hash
  BY <1>2, <1>3 DEF IsSignedEvent
<1>5. events' = [j \in 1..n |-> IF j = i THEN e ELSE events[j]]
  BY <1>1, <1>2
<1>6. ASSUME NEW j \in 1..n
      PROVE  /\ IsSignedEvent(events'[j]) /\ events'[j].number = events[j].number /\ events'[j].type = events[j].type
             /\ events'[j].payload = events[j].payload /\ events'[j].prev = events[j].prev
             /\ events'[j].hash = events[j].hash
  <2>1. CASE j = i
    BY <1>4, <1>5, <2>1
  <2>2. CASE j # i
    BY <1>0, <1>5, <2>2 DEF Link
  <2> QED
    BY <2>1, <2>2
<1>7. ASSUME NEW j \in 1..n PROVE Link(events', j)
  <2>1. EventHash(events'[j]) = EventHash(events[j])
    BY <1>6 DEF EventHash
  <2>2. j # 1 => events'[j - 1].hash = events[j - 1].hash
    BY <1>6
  <2>3. Link(events, j)
    BY <1>0
  <2> QED
    BY <1>6, <2>1, <2>2, <2>3 DEF Link
<1>8. events' = [j \in 1..n |-> events'[j]]
  BY <1>5
<1> QED
  BY <1>7, <1>8 DEF Complete

\* What an event says matters to its own.
LEMMA EventChanged ==
    ASSUME NEW n \in 3..4, Complete(events, n), NEW i \in 1..n, events' = [events EXCEPT ![i].payload = OtherHash]
    PROVE  ~ChainValid'
<1>1. DOMAIN events = 1..n
  BY CompleteLen
<1>2. PICK e : e = [events[i] EXCEPT !.payload = OtherHash]
  OBVIOUS
<1>3. IsSignedEvent(events[i]) /\ events[i].hash = EventHash(events[i]) /\ events[i].payload \in {Null, Sha256(<< 0 >>)}
  BY DEF Complete, Link
<1>4. e.payload = OtherHash /\ e.hash = events[i].hash
  BY <1>2, <1>3 DEF IsSignedEvent
<1>5. OtherHash # events[i].payload
  <2>1. Sha256(<<>>) # Sha256(<< 0 >>)
    <3>1. Sha256(<<>>).sha256 # Sha256(<< 0 >>).sha256
      BY DEF Sha256
    <3> QED
      BY <3>1
  <2> QED
    BY <1>3, <2>1, NullAssumption DEF OtherHash
<1>6. EventHash(e) # EventHash(events[i])
  <2>1. EventHash(e).sha256[3] # EventHash(events[i]).sha256[3]
    BY <1>4, <1>5 DEF EventHash, Sha256
  <2> QED
    BY <2>1
<1>7. events'[i] = e /\ i \in DOMAIN events'
  BY <1>1, <1>2
<1> QED
  BY <1>3, <1>4, <1>6, <1>7 DEF ChainValid

\* A part of it from the start on is complete, or has no acceptance.
LEMMA ChainCut ==
    ASSUME NEW n \in 3..4, Complete(events, n), NEW i \in 1..n, events' = SubSeq(events, 1, i - 1)
    PROVE  /\ i <= 3 => ~AcceptanceEventsOk'
           /\ i = 4 => Complete(events', 3)
<1> DEFINE S == {events[j] : j \in 1..n}
<1>1. /\ events' \in Seq(S) /\ Len(events') = i - 1 /\ DOMAIN events' = 1..(i - 1)
      /\ \A j \in 1..(i - 1) : events'[j] = events[j]
  <2>1. \A j \in 1..(i - 1) : events[j] \in S
    OBVIOUS
  <2>2. /\ SubSeq(events, 1, i - 1) \in Seq(S)
        /\ Len(SubSeq(events, 1, i - 1)) = IF 1 <= i - 1 THEN i - 1 - 1 + 1 ELSE 0
        /\ \A j \in 1..(i - 1 - 1 + 1) : SubSeq(events, 1, i - 1)[j] = events[1 + j - 1]
    BY <2>1, SubSeqProperties
  <2> QED
    BY <2>2
<1>2. ASSUME i <= 3 PROVE ~AcceptanceEventsOk'
  <2>1. \A j \in 1..(i - 1) : j # 3 /\ Link(events, j)
    BY <1>2 DEF Complete
  <2>2. \A j \in DOMAIN events' : events'[j].type # "OFFER_ACCEPTED"
    BY <1>1, <2>1 DEF Link
  <2> QED
    BY <2>2 DEF AcceptanceEventsOk, OfType
<1>3. ASSUME i = 4 PROVE Complete(events', 3)
  <2>1. events' = [j \in 1..3 |-> events'[j]]
    BY <1>1, <1>3
  <2>2. \A j \in 1..3 : events'[j] = events[j]
    BY <1>1, <1>3
  <2>3. n = 4
    BY <1>3
  <2> QED
    BY <2>1, <2>2, <2>3 DEF Complete, Link
<1> QED
  BY <1>2, <1>3

\* Without one of its first three events it does not pass, without the last it does.
LEMMA EventLost ==
    ASSUME NEW n \in 3..4, Complete(events, n), NEW i \in 1..n, events' = RemoveAt(events, i)
    PROVE  /\ i <= 3 => ~(ChainValid' /\ AcceptanceEventsOk')
           /\ i = 4 => Complete(events', 3)
<1> DEFINE S == {events[j] : j \in 1..n}
           left == SubSeq(events, 1, i - 1)
           right == SubSeq(events, i + 1, n)
<1>1. Len(events) = n
  BY CompleteLen
<1>2. events' = left \o right
  BY <1>1 DEF RemoveAt
<1>3. left \in Seq(S) /\ Len(left) = i - 1 /\ \A j \in 1..(i - 1) : left[j] = events[j]
  <2>1. \A j \in 1..(i - 1) : events[j] \in S
    OBVIOUS
  <2>2. /\ SubSeq(events, 1, i - 1) \in Seq(S)
        /\ Len(SubSeq(events, 1, i - 1)) = IF 1 <= i - 1 THEN i - 1 - 1 + 1 ELSE 0
        /\ \A j \in 1..(i - 1 - 1 + 1) : SubSeq(events, 1, i - 1)[j] = events[1 + j - 1]
    BY <2>1, SubSeqProperties
  <2> QED
    BY <2>2
<1>4. right \in Seq(S) /\ Len(right) = n - i /\ \A j \in 1..(n - i) : right[j] = events[i + j]
  <2>1. \A j \in (i + 1)..n : events[j] \in S
    OBVIOUS
  <2>2. /\ SubSeq(events, i + 1, n) \in Seq(S)
        /\ Len(SubSeq(events, i + 1, n)) = IF i + 1 <= n THEN n - (i + 1) + 1 ELSE 0
        /\ \A j \in 1..(n - (i + 1) + 1) : SubSeq(events, i + 1, n)[j] = events[i + 1 + j - 1]
    BY <2>1, SubSeqProperties
  <2> QED
    BY <2>2
<1> HIDE DEF left, right
<1>5. /\ left \o right \in Seq(S) /\ Len(left \o right) = n - 1
      /\ \A j \in 1..(n - 1) : (left \o right)[j] = IF j <= i - 1 THEN left[j] ELSE right[j - (i - 1)]
  <2>1. /\ left \o right \in Seq(S) /\ Len(left \o right) = Len(left) + Len(right)
        /\ \A j \in 1..(Len(left) + Len(right)) : (left \o right)[j] = IF j <= Len(left) THEN left[j] ELSE right[j - Len(left)]
    BY <1>3, <1>4, ConcatProperties
  <2> QED
    BY <1>3, <1>4, <2>1
<1>6. events' \in Seq(S) /\ Len(events') = n - 1 /\ DOMAIN events' = 1..(n - 1)
  BY <1>2, <1>5
<1>7. \A j \in 1..(n - 1) : events'[j] = IF j < i THEN events[j] ELSE events[j + 1]
  <2> SUFFICES ASSUME NEW j \in 1..(n - 1) PROVE events'[j] = IF j < i THEN events[j] ELSE events[j + 1]
    OBVIOUS
  <2>1. CASE j < i
    BY <1>2, <1>3, <1>5, <2>1
  <2>2. CASE j >= i
    <3>1. j - (i - 1) \in 1..(n - i) /\ i + (j - (i - 1)) = j + 1
      BY <2>2
    <3>2. right[j - (i - 1)] = events[j + 1]
      BY <1>4, <3>1
    <3> QED
      BY <1>2, <1>5, <2>2, <3>2
  <2> QED
    BY <2>1, <2>2
<1>8. ASSUME i <= 3 PROVE ~(ChainValid' /\ AcceptanceEventsOk')
  <2>1. CASE i < n
    <3>1. i \in DOMAIN events' /\ events'[i] = events[i + 1]
      BY <1>6, <1>7, <2>1
    <3>2. i + 1 \in 1..n /\ Link(events, i + 1)
      BY <2>1 DEF Complete
    <3>3. events'[i].number # i
      BY <3>1, <3>2 DEF Link
    <3> QED
      BY <3>1, <3>3 DEF ChainValid
  <2>2. CASE i = n
    <3>1. DOMAIN events' = 1..2 /\ \A j \in 1..2 : events'[j] = events[j]
      BY <1>6, <1>7, <1>8, <2>2
    <3>2. \A j \in 1..2 : j \in 1..n /\ j # 3 /\ Link(events, j)
      BY DEF Complete
    <3>3. \A j \in 1..2 : events[j].type # "OFFER_ACCEPTED"
      BY <3>2 DEF Link
    <3> QED
      BY <3>1, <3>3 DEF AcceptanceEventsOk, OfType
  <2> QED
    BY <2>1, <2>2
<1>9. ASSUME i = 4 PROVE Complete(events', 3)
  <2>1. n = 4
    BY <1>9
  <2>2. events' = [j \in 1..3 |-> events'[j]]
    BY <1>6, <2>1
  <2>3. \A j \in 1..3 : events'[j] = events[j]
    BY <1>7, <1>9, <2>1
  <2> QED
    BY <2>1, <2>2, <2>3 DEF Complete, Link
<1> QED
  BY <1>8, <1>9

-----------------------------------------------------------------------------
(* The rows, as they are written, and with one thing altered.              *)

Parts(c, o, name, docs, r) ==
    <<c.issuedAt, o.content, o.frozen, o.contentHash, name, docs, r.statement, r.act, r.circumstances>>

Named == [i \in DOMAIN documents |-> <<documents[i].file, documents[i].type>>]

LEMMA CertificateHashIs ==
    CertificateHash(certificate.issuedAt) = Sha256(Parts(certificate, offerSnapshot, RecipientName, Named, record))
BY DEF CertificateHash, Parts, Named

LEMMA WrittenPasses ==
    ASSUME Written, certificate # Null
    PROVE  IntegrityChecksPass
<1>1. CertificateHashMatch
  BY DEF CertificateHashMatch, Written
<1>2. CanonicalHashOk
  BY DEF CanonicalHashOk, Written
<1>3. SnapshotIntegrity
  BY DEF SnapshotIntegrity, Written, SnapshotHash, WrittenSnapshot
<1>4. ChainValid /\ AcceptanceEventsOk /\ StatementHashOk
  BY CompletePasses DEF Written
<1> QED
  BY <1>1, <1>2, <1>3, <1>4 DEF IntegrityChecksPass

WrittenOk == Written /\ certificate # Null => IntegrityChecksPass

LEMMA WrittenNow == WrittenOk
BY WrittenPasses DEF WrittenOk

LEMMA WrittenThen == WrittenOk'
BY WrittenNow, PTL

LEMMA HashesApart == \A x, y : Sha256(x) = Sha256(y) => x = y
<1> SUFFICES ASSUME NEW x, NEW y, Sha256(x) = Sha256(y) PROVE x = y
  OBVIOUS
<1>1. Sha256(x).sha256 = x /\ Sha256(y).sha256 = y
  BY DEF Sha256
<1> QED
  BY <1>1

\* A certificate is of each of its nine parts.
LEMMA PartsApart ==
    ASSUME Written, certificate # Null, certificate' = certificate,
           CertificateHashMatch'
    PROVE  /\ offerSnapshot'.content = 0 /\ offerSnapshot'.frozen = 0
           /\ offerSnapshot'.contentHash = offerSnapshot.contentHash
           /\ RecipientName' = RecipientName /\ Named' = Named
           /\ record'.statement = 0 /\ record'.act = 0 /\ record'.circumstances = 0
<1>1. certificate.hash = CertificateHash(0) /\ certificate.issuedAt = 0
  BY DEF Written
<1>2. CertificateHash(0)' = CertificateHash(0)
  BY <1>1 DEF CertificateHashMatch
<1>3. <<0, offerSnapshot'.content, offerSnapshot'.frozen, offerSnapshot'.contentHash, RecipientName', Named',
        record'.statement, record'.act, record'.circumstances>>
      = <<0, offerSnapshot.content, offerSnapshot.frozen, offerSnapshot.contentHash, RecipientName, Named,
        record.statement, record.act, record.circumstances>>
  BY <1>2, HashesApart DEF CertificateHash, Named
<1> HIDE DEF Named, RecipientName
<1>4. /\ offerSnapshot'.content = offerSnapshot.content /\ offerSnapshot'.frozen = offerSnapshot.frozen
      /\ offerSnapshot'.contentHash = offerSnapshot.contentHash
      /\ RecipientName' = RecipientName /\ Named' = Named
      /\ record'.statement = record.statement /\ record'.act = record.act /\ record'.circumstances = record.circumstances
  BY <1>3
<1>5. /\ offerSnapshot.content = 0 /\ offerSnapshot.frozen = 0
      /\ record.statement = 0 /\ record.act = 0 /\ record.circumstances = 0
  BY DEF Written
<1> QED
  BY <1>4, <1>5

\* What each alteration of the record does to the check.
LEMMA RecordAltered ==
    ASSUME Written, NEW f \in RecordField, AlterRecord(f)
    PROVE  IntegrityChecksPass' <=> ~Vouched(altered)'
<1>1. /\ certificate # Null /\ certificate' = certificate /\ altered' = f
      /\ UNCHANGED <<recipient, offerSnapshot, documents, events>>
      /\ record' = [record EXCEPT ![f] = 1]
  BY DEF AlterRecord, Altered
<1>2. CASE f = "statementVersion"
  <2>1. record'.act = 0 /\ record'.statement = 0 /\ record'.circumstances = 0 /\ record'.recipientName = record.recipientName
    BY <1>1, <1>2 DEF Written
  <2>2. record.act = 0 /\ record.statement = 0 /\ record.circumstances = 0 /\ certificate.issuedAt = 0
    BY <1>1 DEF Written
  <2>3. RecipientName' = RecipientName
    BY <1>1, <2>1 DEF RecipientName
  <2>4. CertificateHashMatch' <=> CertificateHashMatch
    BY <1>1, <2>1, <2>2, <2>3 DEF CertificateHashMatch, CertificateHash
  <2>5. CanonicalHashOk' <=> CanonicalHashOk
    BY <1>1, <2>1, <2>2 DEF CanonicalHashOk, CanonicalHash
  <2>6. /\ SnapshotIntegrity' <=> SnapshotIntegrity
        /\ ChainValid' <=> ChainValid
        /\ AcceptanceEventsOk' <=> AcceptanceEventsOk
    BY <1>1 DEF SnapshotIntegrity, ChainValid, AcceptanceEventsOk, OfType
  <2>7. StatementHashOk' <=> StatementHashOk
    BY <1>1, <2>1, <2>2 DEF StatementHashOk, OfType
  <2>8. IntegrityChecksPass'
    BY <1>1, <2>4, <2>5, <2>6, <2>7, WrittenPasses DEF IntegrityChecksPass
  <2>9. ~Vouched(altered)'
    BY <1>1, <1>2 DEF Vouched
  <2> QED
    BY <2>8, <2>9
<1>3. CASE f # "statementVersion"
  <2>1. ~CertificateHashMatch'
    <3> SUFFICES ASSUME CertificateHashMatch' PROVE FALSE
      OBVIOUS
    <3>1. record'.statement = 0 /\ record'.act = 0 /\ record'.circumstances = 0 /\ RecipientName' = RecipientName
      BY <1>1, PartsApart
    <3>2. f = "recipientName"
      BY <1>1, <1>3, <3>1 DEF Written, RecordField
    <3>3. record'.recipientName = 1
      BY <1>1, <3>2 DEF Written
    <3>4. RecipientName' # RecipientName
      BY <1>1, <3>3, NullAssumption DEF RecipientName, Written
    <3> QED
      BY <3>1, <3>4
  <2>2. Vouched(altered)'
    BY <1>1, <1>3 DEF Vouched, RecordField
  <2> QED
    BY <2>1, <2>2 DEF IntegrityChecksPass
<1> QED
  BY <1>2, <1>3

LEMMA RecipientAltered ==
    ASSUME Written, AlterRecipient
    PROVE  IntegrityChecksPass' <=> ~Vouched(altered)'
<1>1. /\ certificate # Null /\ certificate' = certificate /\ altered' = "recipient" /\ recipient' = 1
      /\ UNCHANGED <<record, offerSnapshot, documents, events>>
  BY DEF AlterRecipient, Altered
<1>2. CASE record.recipientName = Null
  <2>1. RecipientName' = 1 /\ RecipientName = 0
    BY <1>1, <1>2 DEF RecipientName, Written
  <2>2. ~CertificateHashMatch'
    BY <1>1, <2>1, PartsApart
  <2>3. Vouched(altered)'
    BY <1>1, <1>2 DEF Vouched
  <2> QED
    BY <2>2, <2>3 DEF IntegrityChecksPass
<1>3. CASE record.recipientName # Null
  <2>1. RecipientName' = RecipientName
    BY <1>1, <1>3 DEF RecipientName
  <2>2. CertificateHashMatch' <=> CertificateHashMatch
    BY <1>1, <2>1 DEF CertificateHashMatch, CertificateHash
  <2>3. /\ SnapshotIntegrity' <=> SnapshotIntegrity
        /\ ChainValid' <=> ChainValid
        /\ AcceptanceEventsOk' <=> AcceptanceEventsOk
        /\ CanonicalHashOk' <=> CanonicalHashOk
        /\ StatementHashOk' <=> StatementHashOk
    BY <1>1 DEF SnapshotIntegrity, ChainValid, AcceptanceEventsOk, OfType, CanonicalHashOk, CanonicalHash, StatementHashOk
  <2>4. IntegrityChecksPass'
    BY <1>1, <2>2, <2>3, WrittenPasses DEF IntegrityChecksPass
  <2>5. ~Vouched(altered)'
    BY <1>1, <1>3 DEF Vouched
  <2> QED
    BY <2>4, <2>5
<1> QED
  BY <1>2, <1>3

LEMMA SnapshotAltered ==
    ASSUME Written, NEW f \in SnapshotField, AlterSnapshot(f)
    PROVE  IntegrityChecksPass' <=> ~Vouched(altered)'
<1>1. /\ certificate # Null /\ certificate' = certificate /\ altered' = f
      /\ offerSnapshot' = [offerSnapshot EXCEPT ![f] = IF f = "contentHash" THEN OtherHash ELSE 1]
  BY DEF AlterSnapshot, Altered
<1>2. offerSnapshot.contentHash # OtherHash
  <2>1. offerSnapshot.contentHash = SnapshotHash(WrittenSnapshot, WrittenDocuments)
    BY DEF Written
  <2>2. <<WrittenSnapshot.content, [i \in DOMAIN WrittenDocuments |-> <<WrittenDocuments[i].file, WrittenDocuments[i].key>>]>> # <<>>
    OBVIOUS
  <2> QED
    BY <2>1, <2>2, HashesApart DEF SnapshotHash, OtherHash
<1>3. ~CertificateHashMatch'
  <2> SUFFICES ASSUME CertificateHashMatch' PROVE FALSE
    OBVIOUS
  <2>1. offerSnapshot'.content = 0 /\ offerSnapshot'.frozen = 0 /\ offerSnapshot'.contentHash = offerSnapshot.contentHash
    BY <1>1, PartsApart
  <2> QED
    BY <1>1, <1>2, <2>1 DEF Written, SnapshotField
<1>4. Vouched(altered)'
  BY <1>1 DEF Vouched, SnapshotField
<1> QED
  BY <1>3, <1>4 DEF IntegrityChecksPass

\* A document renamed, replaced or lost changes what the certificate or the
\* snapshot was computed from.
LEMMA DocumentsAltered ==
    ASSUME Written, AlterDocument("file") \/ AlterDocument("type") \/ AlterDocument("key") \/ LoseDocument
    PROVE  ~IntegrityChecksPass' /\ Vouched(altered)'
<1>1. /\ certificate # Null /\ certificate' = certificate
      /\ altered' \in {"file", "type", "key", "a document"} /\ UNCHANGED <<record, recipient, offerSnapshot>>
  BY DEF AlterDocument, LoseDocument, Altered
<1>2. documents = <<[file |-> 0, type |-> 0, key |-> 1], [file |-> 0, type |-> 0, key |-> 2]>>
  BY DEF Written, WrittenDocuments
<1>3. Named[1] = <<0, 0>> /\ DOMAIN Named = 1..2
  BY <1>2 DEF Named
<1>4. CASE AlterDocument("file")
  <2>1. documents'[1].file = 0 - 1 /\ DOMAIN documents' = 1..2
    BY <1>2, <1>4 DEF AlterDocument
  <2>2. Named'[1][1] = 0 - 1
    BY <2>1 DEF Named
  <2>3. Named' # Named
    BY <1>3, <2>2
  <2> QED
    BY <1>1, <2>3, PartsApart DEF IntegrityChecksPass, Vouched
<1>5. CASE AlterDocument("type")
  <2>1. documents'[1].type = 0 - 1 /\ DOMAIN documents' = 1..2
    BY <1>2, <1>5 DEF AlterDocument
  <2>2. Named'[1][2] = 0 - 1
    BY <2>1 DEF Named
  <2>3. Named' # Named
    BY <1>3, <2>2
  <2> QED
    BY <1>1, <2>3, PartsApart DEF IntegrityChecksPass, Vouched
<1>6. CASE AlterDocument("key")
  <2> DEFINE keys(docs) == [i \in DOMAIN docs |-> <<docs[i].file, docs[i].key>>]
  <2>1. documents'[1].key = 0 - 1 /\ DOMAIN documents' = 1..2
    BY <1>2, <1>6 DEF AlterDocument
  <2>2. keys(documents')[1][2] = 0 - 1 /\ keys(documents)[1][2] = 1
    BY <1>2, <2>1
  <2>3. keys(documents') # keys(documents)
    BY <2>2
  <2> HIDE DEF keys
  <2>4. SnapshotHash(offerSnapshot, documents)' # SnapshotHash(offerSnapshot, documents)
    <3> SUFFICES ASSUME SnapshotHash(offerSnapshot', documents') = SnapshotHash(offerSnapshot, documents) PROVE FALSE
      BY <1>1
    <3>1. <<offerSnapshot'.content, keys(documents')>> = <<offerSnapshot.content, keys(documents)>>
      BY HashesApart DEF SnapshotHash, keys
    <3> QED
      BY <2>3, <3>1
  <2>5. SnapshotHash(offerSnapshot, documents) = offerSnapshot.contentHash
    BY <1>1, WrittenPasses DEF IntegrityChecksPass, SnapshotIntegrity
  <2>6. ~SnapshotIntegrity'
    BY <1>1, <2>4, <2>5 DEF SnapshotIntegrity
  <2> QED
    BY <1>1, <2>6 DEF IntegrityChecksPass, Vouched
<1>7. CASE LoseDocument
  <2>1. documents' = Tail(documents)
    BY <1>7 DEF LoseDocument
  <2>2. DOMAIN documents' = 1..1
    <3>1. documents \in Seq([file : {0}, type : {0}, key : {1, 2}]) /\ Len(documents) = 2 /\ documents # <<>>
      BY <1>2
    <3>2. /\ Tail(documents) \in Seq([file : {0}, type : {0}, key : {1, 2}])
          /\ Len(Tail(documents)) = Len(documents) - 1
      BY <3>1, HeadTailProperties
    <3>3. Len(Tail(documents)) = 1 /\ DOMAIN Tail(documents) = 1..Len(Tail(documents))
      BY <3>1, <3>2, LenProperties
    <3> QED
      BY <2>1, <3>3
  <2>3. DOMAIN Named' = 1..1
    BY <2>2 DEF Named
  <2>4. Named' # Named
    BY <1>3, <2>3
  <2> QED
    BY <1>1, <2>4, PartsApart DEF IntegrityChecksPass, Vouched
<1> QED
  BY <1>4, <1>5, <1>6, <1>7

\* With another chain, all depends on the chain.
LEMMA OnlyTheChain ==
    ASSUME Written, certificate # Null,
           UNCHANGED <<certificate, record, recipient, offerSnapshot, documents>>
    PROVE  /\ IntegrityChecksPass' => ChainValid' /\ AcceptanceEventsOk'
           /\ Complete(events', 3) \/ Complete(events', 4) => IntegrityChecksPass'
<1>1. /\ CertificateHashMatch' <=> CertificateHashMatch
      /\ CanonicalHashOk' <=> CanonicalHashOk
      /\ SnapshotIntegrity' <=> SnapshotIntegrity
  <2>1. CertificateHashMatch' <=> CertificateHashMatch
    BY DEF CertificateHashMatch, CertificateHash, RecipientName
  <2>2. CanonicalHashOk' <=> CanonicalHashOk
    BY DEF CanonicalHashOk, CanonicalHash
  <2>3. SnapshotIntegrity' <=> SnapshotIntegrity
    BY DEF SnapshotIntegrity
  <2> QED
    BY <2>1, <2>2, <2>3
<1>2. ASSUME Complete(events', 3) \/ Complete(events', 4)
      PROVE  ChainValid' /\ AcceptanceEventsOk' /\ StatementHashOk'
  <2>1. record'.statement = 0
    BY DEF Written
  <2> QED
    BY <1>2, <2>1, PassesThen DEF ChainPasses
<1> QED
  BY <1>1, <1>2, WrittenPasses DEF IntegrityChecksPass

LEMMA EventsAltered ==
    ASSUME Written, NEW i \in DOMAIN events,
           AlterEvent(i) \/ AlterClient(i) \/ LoseEvent(i) \/ LoseEventsFrom(i)
    PROVE  IntegrityChecksPass' <=> ~Vouched(altered)'
<1>1. /\ certificate # Null /\ UNCHANGED <<certificate, record, recipient, offerSnapshot, documents>>
  BY DEF AlterEvent, AlterClient, LoseEvent, LoseEventsFrom, Altered
<1>2. PICK n \in 3..4 : Complete(events, n)
  BY DEF Written
<1>3. i \in 1..n
  BY <1>2, CompleteLen
<1>4. CASE AlterEvent(i)
  <2>1. altered' = "an event" /\ events' = [events EXCEPT ![i].payload = OtherHash]
    BY <1>4 DEF AlterEvent, Altered
  <2>2. ~ChainValid'
    BY <1>2, <1>3, <2>1, EventChanged
  <2> QED
    BY <1>1, <2>1, <2>2, OnlyTheChain DEF Vouched
<1>5. CASE AlterClient(i)
  <2>1. altered' = "a client" /\ events' = [events EXCEPT ![i].client = 1]
    BY <1>5 DEF AlterClient, Altered
  <2>2. Complete(events', n)
    BY <1>2, <1>3, <2>1, ClientChanged
  <2>3. n = 3 \/ n = 4
    OBVIOUS
  <2>4. IntegrityChecksPass'
    BY <1>1, <2>2, <2>3, OnlyTheChain
  <2> QED
    BY <2>1, <2>4 DEF Vouched
<1>6. CASE LoseEvent(i) \/ LoseEventsFrom(i)
  <2>1. /\ altered' = IF i <= 3 THEN "an event" ELSE "a late event"
        /\ events' = RemoveAt(events, i) \/ events' = SubSeq(events, 1, i - 1)
    BY <1>6 DEF LoseEvent, LoseEventsFrom, Altered
  <2>2. /\ i <= 3 => ~(ChainValid' /\ AcceptanceEventsOk')
        /\ i = 4 => Complete(events', 3)
    BY <1>2, <1>3, <2>1, EventLost, ChainCut
  <2>3. CASE i <= 3
    BY <1>1, <2>1, <2>2, <2>3, OnlyTheChain DEF Vouched
  <2>4. CASE i = 4
    BY <1>1, <2>1, <2>2, <2>4, OnlyTheChain DEF Vouched
  <2> QED
    BY <1>3, <2>3, <2>4
<1> QED
  BY <1>4, <1>5, <1>6

LEMMA CertificateAltered ==
    ASSUME Written, AlterCertificate
    PROVE  /\ IntegrityChecksPass' <=> ~Vouched(altered)'
           /\ ~Vouched(altered)' => certificate'.hash = certificate.hash
<1>1. certificate # Null /\ UNCHANGED <<record, recipient, offerSnapshot, documents, events>>
  BY DEF AlterCertificate, Altered
<1>2. /\ certificate = [hash |-> CertificateHash(0), canonical |-> certificate.canonical, issuedAt |-> 0]
      /\ certificate.canonical \in {CanonicalHash, Null}
  BY <1>1 DEF Written
<1>3. CertificateHash(0)' = CertificateHash(0) /\ CertificateHash(1)' = CertificateHash(1)
  BY <1>1 DEF CertificateHash, RecipientName
<1>4. CertificateHash(1) # CertificateHash(0) /\ CertificateHash(0) # OtherHash
  <2> DEFINE parts(at) == <<at, offerSnapshot.content, offerSnapshot.frozen, offerSnapshot.contentHash, RecipientName, Named,
                            record.statement, record.act, record.circumstances>>
  <2>1. parts(1) # parts(0) /\ parts(0) # <<>>
    <3> HIDE DEF RecipientName, Named
    <3> QED
      OBVIOUS
  <2>2. CertificateHash(0) = Sha256(parts(0)) /\ CertificateHash(1) = Sha256(parts(1)) /\ OtherHash = Sha256(<<>>)
    BY DEF CertificateHash, Named, OtherHash
  <2> HIDE DEF parts
  <2> QED
    BY <2>1, <2>2, HashesApart
<1>5. CASE altered' = "hash" /\ certificate' = [certificate EXCEPT !.hash = OtherHash]
  <2>1. certificate'.hash = OtherHash /\ certificate'.issuedAt = 0
    BY <1>2, <1>5
  <2>2. ~CertificateHashMatch'
    BY <1>3, <1>4, <2>1 DEF CertificateHashMatch
  <2> QED
    BY <1>5, <2>2 DEF IntegrityChecksPass, Vouched
<1>6. CASE altered' = "issuedAt" /\ certificate' = [certificate EXCEPT !.issuedAt = 1]
  <2>1. certificate'.hash = CertificateHash(0) /\ certificate'.issuedAt = 1
    BY <1>2, <1>6
  <2>2. ~CertificateHashMatch'
    BY <1>3, <1>4, <2>1 DEF CertificateHashMatch
  <2> QED
    BY <1>6, <2>2 DEF IntegrityChecksPass, Vouched
<1>7. ASSUME altered' = "canonical", NEW c \in {Null, OtherHash}, certificate' = [certificate EXCEPT !.canonical = c]
      PROVE  /\ IntegrityChecksPass' <=> ~Vouched(altered)'
             /\ ~Vouched(altered)' => certificate'.hash = certificate.hash
  <2>1. certificate'.hash = certificate.hash /\ certificate'.issuedAt = certificate.issuedAt /\ certificate'.canonical = c
    BY <1>2, <1>7
  <2>2. certificate.hash = CertificateHash(0) /\ certificate.issuedAt = 0
    BY <1>2
  <2>3. CertificateHashMatch'
    BY <1>3, <2>1, <2>2 DEF CertificateHashMatch
  <2>4. /\ SnapshotIntegrity' <=> SnapshotIntegrity
        /\ ChainValid' <=> ChainValid
        /\ AcceptanceEventsOk' <=> AcceptanceEventsOk
        /\ StatementHashOk' <=> StatementHashOk
    BY <1>1 DEF SnapshotIntegrity, ChainValid, AcceptanceEventsOk, OfType, StatementHashOk
  <2>5. CanonicalHash' # OtherHash
    <3>1. <<record'.act>> # <<>>
      OBVIOUS
    <3> QED
      BY <3>1, HashesApart DEF CanonicalHash, OtherHash
  <2>6. CanonicalHashOk' <=> c = Null
    BY <2>1, <2>5 DEF CanonicalHashOk
  <2>7. Vouched(altered)' <=> c # Null
    BY <1>7, <2>1 DEF Vouched
  <2> QED
    BY <1>1, <2>1, <2>3, <2>4, <2>6, <2>7, WrittenPasses DEF IntegrityChecksPass
<1> QED
  BY <1>5, <1>6, <1>7 DEF AlterCertificate, Altered

\* Whatever is altered, verification knows it if the certificate vouches for it.
LEMMA AlterTold ==
    ASSUME Written, Alter
    PROVE  /\ IntegrityChecksPass' <=> ~Vouched(altered)'
           /\ ~Vouched(altered)' => certificate'.hash = certificate.hash
           /\ altered = "nothing" /\ altered' # "nothing" /\ certificate # Null /\ UNCHANGED <<copy, page>>
<1>1. altered = "nothing" /\ certificate # Null /\ UNCHANGED <<copy, page>>
  BY DEF Alter, AlterRecord, AlterRecipient, AlterSnapshot, AlterDocument, LoseDocument, AlterEvent, AlterClient,
         LoseEvent, LoseEventsFrom, AlterCertificate, Altered
<1>2. CASE \E f \in RecordField : AlterRecord(f)
  <2>1. PICK f \in RecordField : AlterRecord(f)
    BY <1>2
  <2>2. certificate' = certificate /\ altered' = f
    BY <2>1 DEF AlterRecord, Altered
  <2> QED
    BY <1>1, <2>1, <2>2, RecordAltered DEF RecordField
<1>3. CASE \E f \in SnapshotField : AlterSnapshot(f)
  <2>1. PICK f \in SnapshotField : AlterSnapshot(f)
    BY <1>3
  <2>2. certificate' = certificate /\ altered' = f
    BY <2>1 DEF AlterSnapshot, Altered
  <2> QED
    BY <1>1, <2>1, <2>2, SnapshotAltered DEF SnapshotField
<1>4. CASE (\E f \in DocumentField : AlterDocument(f)) \/ LoseDocument
  <2>1. AlterDocument("file") \/ AlterDocument("type") \/ AlterDocument("key") \/ LoseDocument
    BY <1>4 DEF DocumentField
  <2>2. certificate' = certificate /\ altered' # "nothing"
    BY <2>1 DEF AlterDocument, LoseDocument, Altered
  <2> QED
    BY <1>1, <2>1, <2>2, DocumentsAltered
<1>5. CASE \E i \in DOMAIN events : AlterEvent(i) \/ AlterClient(i) \/ LoseEvent(i) \/ LoseEventsFrom(i)
  <2>1. PICK i \in DOMAIN events : AlterEvent(i) \/ AlterClient(i) \/ LoseEvent(i) \/ LoseEventsFrom(i)
    BY <1>5
  <2>2. certificate' = certificate /\ altered' # "nothing"
    BY <2>1 DEF AlterEvent, AlterClient, LoseEvent, LoseEventsFrom, Altered
  <2> QED
    BY <1>1, <2>1, <2>2, EventsAltered
<1>6. CASE AlterRecipient
  <2>1. certificate' = certificate /\ altered' # "nothing"
    BY <1>6 DEF AlterRecipient, Altered
  <2> QED
    BY <1>1, <1>6, <2>1, RecipientAltered
<1>7. CASE AlterCertificate
  <2>1. altered' # "nothing"
    BY <1>7 DEF AlterCertificate, Altered
  <2> QED
    BY <1>1, <1>7, <2>1, CertificateAltered
<1> QED
  BY <1>2, <1>3, <1>4, <1>5, <1>6, <1>7 DEF Alter

-----------------------------------------------------------------------------
(* The verdict and the page.                                               *)

LEMMA NothingVouched == ~Vouched("nothing")
BY DEF Vouched

\* Rows that stay give the verdict they gave.
LEMMA RowsStay ==
    ASSUME EvidenceInv, UNCHANGED rows
    PROVE  /\ altered' = "nothing" => Written'
           /\ IntegrityChecksPass' <=> IntegrityChecksPass
           /\ \A what : Vouched(what)' <=> Vouched(what)
           /\ altered' = altered /\ certificate' = certificate
<1>1. UNCHANGED <<certificate, record, recipient, offerSnapshot, documents, events, altered>>
  BY DEF rows
<1>2. altered' = "nothing" => Written'
  BY <1>1 DEF EvidenceInv, Written, CanonicalHash, CertificateHash, RecipientName
<1>3. \A what : Vouched(what)' <=> Vouched(what)
  BY <1>1 DEF Vouched
<1>4. IntegrityChecksPass' <=> IntegrityChecksPass
  BY <1>1 DEF IntegrityChecksPass, CertificateHashMatch, CertificateHash, RecipientName, CanonicalHashOk, CanonicalHash,
         SnapshotIntegrity, ChainValid, AcceptanceEventsOk, OfType, StatementHashOk
<1> QED
  BY <1>1, <1>2, <1>3, <1>4

LEMMA EvidenceStarts == EvidenceInit => EvidenceInv
<1> SUFFICES ASSUME EvidenceInit PROVE EvidenceInv
  OBVIOUS
<1>1. certificate = Null /\ altered = "nothing" /\ page = NoTry
  BY DEF EvidenceInit
<1>2. Written
  <2>1. PICK hashed \in BOOLEAN, name \in {0, Null} :
          /\ record = [act |-> 0, statement |-> 0, circumstances |-> 0, recipientName |-> name, statementVersion |-> 0]
          /\ events = Signed(hashed)
    BY DEF EvidenceInit
  <2>2. Complete(events, 3)
    BY <2>1, SignedComplete
  <2>3. record.recipientName = name
    BY <2>1
  <2> QED
    BY <1>1, <2>1, <2>2, <2>3 DEF EvidenceInit, Written
<1>3. VerdictIsTrue
  BY <1>1 DEF VerdictIsTrue
<1>4. PageTrue /\ ValidIsIntact
  BY <1>1, NothingVouched, EvidenceAssumption DEF PageTrue, ValidIsIntact, NoTry
<1>5. NoneBefore
  BY DEF EvidenceInit, NoneBefore
<1> QED
  BY <1>1, <1>2, <1>3, <1>4, <1>5 DEF EvidenceInv

\* What the application does to the rows: a late event, the certificate.
LEMMA RowsWritten ==
    ASSUME EvidenceInv, LateEvent \/ Issue
    PROVE  EvidenceInv'
<1>1. altered = "nothing" /\ altered' = "nothing" /\ UNCHANGED <<copy, page>> /\ Written
  BY DEF LateEvent, Issue, EvidenceInv
<1>2. CASE LateEvent
  <2>1. Len(events) = 3 /\ events' = Linked(events, "OTP_ATTEMPT_FAILED", Null)
        /\ UNCHANGED <<certificate, record, recipient, offerSnapshot, documents>>
    BY <1>2 DEF LateEvent
  <2>2. Complete(events, 3)
    <3>1. Complete(events, 4) => Len(events) = 4
      BY CompleteLen
    <3> QED
      BY <1>1, <2>1, <3>1 DEF Written
  <2>3. Complete(Linked(events, "OTP_ATTEMPT_FAILED", Null), 3 + 1)
    BY <2>2, LinkKeeps
  <2>4. Complete(events', 4)
    BY <2>1, <2>3
  <2>5. Written'
    BY <1>1, <2>1, <2>4 DEF Written, CertificateHash, RecipientName, CanonicalHash
  <2>6. certificate # Null => IntegrityChecksPass'
    BY <1>1, <2>1, <2>4, OnlyTheChain
  <2>10. NoneBefore'
    BY <1>1, <2>1 DEF NoneBefore, EvidenceInv
  <2>7. VerdictIsTrue'
    <3> SUFFICES ASSUME certificate # Null PROVE VerdictIsTrue'
      BY <2>1 DEF VerdictIsTrue
    <3>1. ~Vouched(altered)' /\ ~Vouched(altered)
      BY <1>1, NothingVouched DEF Vouched
    <3>2. copy # Null => copy.to # "another organization" /\ copy.hash = certificate.hash
      BY <3>1 DEF EvidenceInv, VerdictIsTrue
    <3> QED
      BY <1>1, <2>1, <2>6, <3>1, <3>2 DEF VerdictIsTrue
  <2>8. page.asked = "nothing" /\ (\A what : what = "nothing" => ~Vouched(what)')
    BY <1>1 DEF EvidenceInv, PageTrue, Vouched
  <2>9. PageTrue' /\ ValidIsIntact'
    BY <1>1, <2>8 DEF EvidenceInv, PageTrue, ValidIsIntact
  <2> QED
    BY <1>1, <2>10, <2>5, <2>7, <2>9 DEF EvidenceInv
<1>3. CASE Issue
  <2>1. PICK canonical \in {CanonicalHash, Null} :
           certificate' = [hash |-> CertificateHash(0), canonical |-> canonical, issuedAt |-> 0]
    BY <1>3 DEF Issue
  <2>2. certificate = Null /\ UNCHANGED <<record, recipient, offerSnapshot, documents, events>>
    BY <1>3 DEF Issue
  <2>3. CertificateHash(0)' = CertificateHash(0) /\ CanonicalHash' = CanonicalHash
    BY <2>2 DEF CertificateHash, RecipientName, CanonicalHash
  <2>4. certificate'.canonical = canonical
    BY <2>1
  <2>5. Written'
    BY <1>1, <2>1, <2>2, <2>3, <2>4 DEF Written
  <2>6. certificate' # Null => IntegrityChecksPass'
    BY <2>5, WrittenThen DEF WrittenOk
  <2>7. copy = Null
    BY <1>1, <2>2 DEF EvidenceInv, NoneBefore
  <2>8. ~Vouched(altered)'
    BY <1>1 DEF Vouched
  <2>9. VerdictIsTrue'
    BY <1>1, <2>6, <2>7, <2>8 DEF VerdictIsTrue
  <2>10. page.asked = "nothing" /\ (\A what : what = "nothing" => ~Vouched(what)')
    BY <1>1 DEF EvidenceInv, PageTrue, Vouched
  <2>11. PageTrue' /\ ValidIsIntact'
    BY <1>1, <2>10 DEF EvidenceInv, PageTrue, ValidIsIntact
  <2>12. NoneBefore'
    BY <1>1, <2>7 DEF NoneBefore
  <2> QED
    BY <1>1, <2>5, <2>9, <2>11, <2>12 DEF EvidenceInv
<1> QED
  BY <1>2, <1>3

LEMMA AlterKeeps ==
    ASSUME EvidenceInv, Alter
    PROVE  EvidenceInv'
<1>1. /\ IntegrityChecksPass' <=> ~Vouched(altered)'
      /\ ~Vouched(altered)' => certificate'.hash = certificate.hash
      /\ altered = "nothing" /\ altered' # "nothing" /\ certificate # Null /\ UNCHANGED <<copy, page>>
  <2>1. Written
    BY DEF EvidenceInv, Alter, AlterRecord, AlterRecipient, AlterSnapshot, AlterDocument, LoseDocument, AlterEvent,
           AlterClient, LoseEvent, LoseEventsFrom, AlterCertificate, Altered
  <2> QED
    BY <2>1, AlterTold
<1>2. VerdictIsTrue'
  <2>1. copy # Null => copy.to # "another organization" /\ copy.hash = certificate.hash
    BY <1>1, NothingVouched DEF EvidenceInv, VerdictIsTrue
  <2> QED
    BY <1>1, <2>1 DEF VerdictIsTrue
<1>3. page.asked = "nothing"
  BY <1>1 DEF EvidenceInv, PageTrue
<1>4. ~Vouched("nothing")'
  BY DEF Vouched
<1>5. PageTrue'
  BY <1>1, <1>3, <1>4 DEF EvidenceInv, PageTrue
<1>6. ValidIsIntact'
  BY <1>1, <1>3, <1>4 DEF ValidIsIntact
<1> QED
  BY <1>1, <1>2, <1>5, <1>6 DEF EvidenceInv, NoneBefore

LEMMA ExportKeeps ==
    ASSUME EvidenceInv, NEW c \in {"own organization", "another organization", "support"}, Export(c)
    PROVE  EvidenceInv'
<1>1. /\ certificate # Null /\ c # "another organization" /\ UNCHANGED rows /\ page' = page
      /\ copy' = [to |-> c, hash |-> CertificateHash(certificate.issuedAt)]
  BY DEF Export, CanAccess
<1>2. /\ altered' = "nothing" => Written'
      /\ IntegrityChecksPass' <=> IntegrityChecksPass
      /\ \A what : Vouched(what)' <=> Vouched(what)
      /\ altered' = altered /\ certificate' = certificate
  BY <1>1, RowsStay
<1>3. VerdictIsTrue'
  <2>1. IntegrityChecksPass => CertificateHash(certificate.issuedAt) = certificate.hash
    BY DEF IntegrityChecksPass, CertificateHashMatch
  <2>2. copy'.to # "another organization" /\ copy'.hash = CertificateHash(certificate.issuedAt)
    BY <1>1
  <2>3. IntegrityChecksPass <=> ~Vouched(altered)
    BY <1>1 DEF EvidenceInv, VerdictIsTrue
  <2> QED
    BY <1>2, <2>1, <2>2, <2>3 DEF VerdictIsTrue
<1>4. PageTrue' /\ ValidIsIntact'
  BY <1>1, <1>2 DEF EvidenceInv, PageTrue, ValidIsIntact
<1>5. NoneBefore'
  BY <1>1, <1>2 DEF NoneBefore
<1> QED
  BY <1>2, <1>3, <1>4, <1>5 DEF EvidenceInv

\* The page changes no row; what it says of them is true when it asks.
LEMMA PageKeeps ==
    ASSUME EvidenceInv, UNCHANGED <<rows, copy>>, PageTrue', ValidIsIntact'
    PROVE  EvidenceInv'
<1>1. /\ altered' = "nothing" => Written'
      /\ IntegrityChecksPass' <=> IntegrityChecksPass
      /\ \A what : Vouched(what)' <=> Vouched(what)
      /\ altered' = altered /\ certificate' = certificate
  BY RowsStay
<1>2. VerdictIsTrue' /\ NoneBefore'
  BY <1>1 DEF EvidenceInv, VerdictIsTrue, NoneBefore
<1> QED
  BY <1>1, <1>2 DEF EvidenceInv

LEMMA VerdictTold == EvidenceInv /\ Verdict = "valid" => ~Vouched(altered)
<1> SUFFICES ASSUME EvidenceInv, Verdict = "valid" PROVE ~Vouched(altered)
  OBVIOUS
<1>1. certificate # Null /\ Truthy(Verification, "valid")
  BY DEF Verdict
<1>2. Valid
  BY <1>1 DEF Truthy, Verification
<1> QED
  BY <1>1, <1>2 DEF Valid, EvidenceInv, VerdictIsTrue

LEMMA PageSteps ==
    ASSUME EvidenceInv,
           \/ RunVerification \/ FiveSecondsPass
           \/ \E t \in 1..MaxTries : Verify(t) \/ Resolved(t) \/ TurnedAway(t)
    PROVE  EvidenceInv'
<1>0. /\ page = [phase |-> page.phase, try |-> page.try, underWay |-> page.underWay, asked |-> page.asked,
                 answers |-> page.answers]
      /\ page.try \in 0..MaxTries /\ page.underWay \subseteq 1..page.try
      /\ page.answers = [t \in 1..MaxTries |-> page.answers[t]]
      /\ page.asked \in {"nothing", altered} /\ MaxTries \in Nat
      /\ \A t \in 1..MaxTries : t > page.try => page.answers[t] = "none"
      /\ page.try \in 1..MaxTries /\ page.answers[page.try] = "valid" => ~Vouched(page.asked)
      /\ page.phase = "valid" => ~Vouched(page.asked)
  BY EvidenceAssumption DEF EvidenceInv, PageTrue, ValidIsIntact
<1>1. UNCHANGED <<rows, copy>> /\ altered' = altered /\ (\A what : Vouched(what)' <=> Vouched(what))
  <2>1. UNCHANGED <<rows, copy>>
    BY DEF RunVerification, FiveSecondsPass, Verify, Resolved, TurnedAway
  <2> QED
    BY <2>1, RowsStay
<1>2. CASE RunVerification
  <2>1. page.try < MaxTries
        /\ page' = [page EXCEPT !.phase = "loading", !.try = page.try + 1, !.underWay = page.underWay \cup {page.try + 1},
                                !.asked = altered]
    BY <1>2 DEF RunVerification
  <2>2. /\ page' = [phase |-> "loading", try |-> page.try + 1, underWay |-> page.underWay \cup {page.try + 1},
                    asked |-> altered, answers |-> page.answers]
    BY <1>0, <2>1
  <2>3. /\ page'.phase = "loading" /\ page'.try = page.try + 1 /\ page'.underWay = page.underWay \cup {page.try + 1}
        /\ page'.asked = altered /\ page'.answers = page.answers
    BY <2>2
  <2>4. page'.answers[page'.try] = "none"
    BY <1>0, <2>1, <2>3
  <2>5. page'.try \in 0..MaxTries /\ page'.underWay \subseteq 1..page'.try
    BY <1>0, <2>1, <2>3
  <2>6. PageTrue'
    BY <1>0, <1>1, <2>2, <2>3, <2>4, <2>5 DEF PageTrue
  <2>7. ValidIsIntact'
    BY <2>3 DEF ValidIsIntact
  <2> QED
    BY <1>1, <2>6, <2>7, PageKeeps
<1>3. CASE FiveSecondsPass
  <2>1. page' = [phase |-> "timeout", try |-> page.try, underWay |-> page.underWay, asked |-> page.asked,
                 answers |-> page.answers]
    BY <1>0, <1>3 DEF FiveSecondsPass
  <2>2. PageTrue'
    BY <1>0, <1>1, <2>1 DEF PageTrue
  <2>3. ValidIsIntact'
    BY <2>1 DEF ValidIsIntact
  <2> QED
    BY <1>1, <2>2, <2>3, PageKeeps
<1>4. ASSUME NEW t \in 1..MaxTries, Verify(t) PROVE EvidenceInv'
  <2>1. /\ t \in page.underWay /\ page' = [page EXCEPT !.answers = [page.answers EXCEPT ![t] = Verdict]]
    BY <1>4 DEF Verify
  <2> DEFINE answers == [page.answers EXCEPT ![t] = Verdict]
  <2>2. page' = [phase |-> page.phase, try |-> page.try, underWay |-> page.underWay, asked |-> page.asked,
                 answers |-> answers]
    BY <1>0, <2>1
  <2>3. answers[t] = Verdict /\ answers = [u \in 1..MaxTries |-> answers[u]]
        /\ \A u \in 1..MaxTries : u # t => answers[u] = page.answers[u]
    BY <1>0
  <2>4. Verdict = "valid" => ~Vouched(altered)
    BY VerdictTold
  <2>5. \A u \in 1..MaxTries : u > page.try => answers[u] = "none"
    BY <1>0, <2>1, <2>3
  <2> HIDE DEF answers
  <2>6. page.try \in 1..MaxTries /\ answers[page.try] = "valid" => ~Vouched(page.asked)
    BY <1>0, <2>3, <2>4, NothingVouched
  <2>7. /\ page'.phase = page.phase /\ page'.try = page.try /\ page'.underWay = page.underWay
        /\ page'.asked = page.asked /\ page'.answers = answers
    BY <2>2
  <2>8. PageTrue'
    BY <1>0, <1>1, <2>2, <2>3, <2>5, <2>6, <2>7 DEF PageTrue
  <2>9. ValidIsIntact'
    BY <1>0, <1>1, <2>7 DEF ValidIsIntact
  <2> QED
    BY <1>1, <2>8, <2>9, PageKeeps
<1>5. ASSUME NEW t \in 1..MaxTries, Resolved(t) \/ TurnedAway(t) PROVE EvidenceInv'
  <2>1. PICK x \in {page.phase, "error", page.answers[t]} :
           /\ page' = [page EXCEPT !.underWay = page.underWay \ {t}, !.phase = x]
           /\ x = page.phase \/ x = "error" \/ (x = page.answers[t] /\ t = page.try)
    BY <1>5 DEF Resolved, TurnedAway, Settles
  <2>2. page' = [phase |-> x, try |-> page.try, underWay |-> page.underWay \ {t}, asked |-> page.asked,
                 answers |-> page.answers]
    BY <1>0, <2>1
  <2>3. /\ page'.phase = x /\ page'.try = page.try /\ page'.underWay = page.underWay \ {t}
        /\ page'.asked = page.asked /\ page'.answers = page.answers
    BY <2>2
  <2>4. PageTrue'
    BY <1>0, <1>1, <2>2, <2>3 DEF PageTrue
  <2>5. ValidIsIntact'
    BY <1>0, <1>1, <2>1, <2>3 DEF ValidIsIntact
  <2> QED
    BY <1>1, <2>4, <2>5, PageKeeps
<1> QED
  BY <1>2, <1>3, <1>4, <1>5

LEMMA EvidenceKeeps == EvidenceInv /\ [EvidenceNext]_evidenceVars => EvidenceInv'
<1> SUFFICES ASSUME EvidenceInv, [EvidenceNext]_evidenceVars PROVE EvidenceInv'
  OBVIOUS
<1>1. CASE EvidenceNext
  BY <1>1, RowsWritten, AlterKeeps, ExportKeeps, PageSteps DEF EvidenceNext
<1>2. CASE UNCHANGED evidenceVars
  <2>1. UNCHANGED <<rows, copy>> /\ page' = page
    BY <1>2 DEF evidenceVars
  <2>2. /\ \A what : Vouched(what)' <=> Vouched(what)
        /\ altered' = altered
    BY <2>1, RowsStay
  <2>3. PageTrue' /\ ValidIsIntact'
    BY <2>1, <2>2 DEF EvidenceInv, PageTrue, ValidIsIntact
  <2> QED
    BY <2>1, <2>3, PageKeeps
<1> QED
  BY <1>1, <1>2

LEMMA EvidenceInvariant == EvidenceSpec => []EvidenceInv
BY EvidenceStarts, EvidenceKeeps, PTL DEF EvidenceSpec

\* CertificateService.verify passes exactly as long as nothing a certificate
\* vouches for has changed, and a copy made till then bears the hash it confirms.
THEOREM VerdictAlwaysTrue == EvidenceSpec => []VerdictIsTrue
<1>1. EvidenceInv => VerdictIsTrue
  BY DEF EvidenceInv
<1> QED
  BY <1>1, EvidenceInvariant, PTL

\* However often a visitor retries, and in whatever order the answers of earlier
\* tries come in, the verification page says valid only of rows that were intact
\* when she last asked.
THEOREM ValidAlwaysIntact == EvidenceSpec => []ValidIsIntact
<1>1. EvidenceInv => ValidIsIntact
  BY DEF EvidenceInv
<1> QED
  BY <1>1, EvidenceInvariant, PTL

=============================================================================
