---------------------------- MODULE Deals_proofs ----------------------------
(***************************************************************************)
(* What surrounds the signing of a deal: with any number of drafts, calls  *)
(* in flight, titles, addresses and documents, the draft it was sent from  *)
(* and what the wizard had shown of it (DealWizard); for every number of   *)
(* events, emits, sweeps and slow clocks, the log of its events (DealLog); *)
(* for every number of completions in flight and of uploads, the files of  *)
(* an API client (Uploads).                                                *)
(***************************************************************************)
EXTENDS DealWizard, DealLog, Uploads, FiniteSetTheorems, WellFoundedInduction, TLAPS

-----------------------------------------------------------------------------
(* The draft.  Whatever the wizard and others do, what a sent offer says   *)
(* is what was frozen, unless an edit overlapped its send.                 *)
(*                                                                         *)
(* The invariant adds what a call between its check and its write relies   *)
(* on: a send has read what the draft says, and an edit is of a draft.     *)

IsRow(r) == r = [status |-> r.status, title |-> r.title, message |-> r.message, email |-> r.email, docs |-> r.docs]

IsCall(k) ==
    k = [at |-> k.at, by |-> k.by, kind |-> k.kind, offer |-> k.offer, value |-> k.value,
         template |-> k.template, seen |-> k.seen]

\* A call between its check and its write was there before, on the same errand.
Same(k, before) ==
    k.at = "write" => /\ before.at = "write" /\ k.kind = before.kind
                      /\ k.offer = before.offer /\ k.seen = before.seen

Settled(o) ==
    /\ row[o].status = "SENT" => [row[o] EXCEPT !.status = "DRAFT"] = snapshot[o].says
    /\ \A c \in Calls :
          call[c].at = "write" /\ call[c].offer = o =>
              /\ call[c].kind = "send" /\ row[o].status = "DRAFT" => call[c].seen = row[o]
              /\ call[c].kind \in EditKinds => row[o].status # "SENT"

Shape ==
    /\ row = [o \in Offer |-> row[o]] /\ \A o \in Offer : IsRow(row[o])
    /\ snapshot = [o \in Offer |-> snapshot[o]]
    /\ call = [c \in Calls |-> call[c]] /\ \A c \in Calls : IsCall(call[c])
    /\ \A c \in Calls : call[c].at = "write" /\ call[c].offer \in Offer => row[call[c].offer].status # "absent"

DraftInv == Shape /\ \A o \in Offer \ overlapped : Settled(o)

-----------------------------------------------------------------------------
\* One field of a call, or of a row, is replaced.
LEMMA CallAt ==
    ASSUME NEW r, IsCall(r), NEW x, NEW s, s = [r EXCEPT !.at = x]
    PROVE  IsCall(s) /\ s.at = x /\ s.kind = r.kind /\ s.offer = r.offer /\ s.seen = r.seen
  BY DEF IsCall

LEMMA CallSeen ==
    ASSUME NEW r, IsCall(r), NEW x, NEW s, s = [r EXCEPT !.seen = x]
    PROVE  IsCall(s) /\ s.at = r.at /\ s.kind = r.kind /\ s.offer = r.offer /\ s.seen = x
  BY DEF IsCall

LEMMA CallOffer ==
    ASSUME NEW r, IsCall(r), NEW x, NEW s, s = [r EXCEPT !.offer = x] PROVE IsCall(s) /\ s.at = r.at
  BY DEF IsCall

LEMMA CallBy ==
    ASSUME NEW r, IsCall(r), NEW x, NEW s, s = [r EXCEPT !.by = x]
    PROVE  IsCall(s) /\ s.at = r.at /\ s.kind = r.kind /\ s.offer = r.offer /\ s.seen = r.seen
  BY DEF IsCall

LEMMA RowStatus ==
    ASSUME NEW r, IsRow(r), NEW x, NEW s, s = [r EXCEPT !.status = x] PROVE IsRow(s) /\ s.status = x
  BY DEF IsRow

LEMMA RowTitle ==
    ASSUME NEW r, IsRow(r), NEW x, NEW s, s = [r EXCEPT !.title = x] PROVE IsRow(s) /\ s.status = r.status
  BY DEF IsRow

LEMMA RowMessage ==
    ASSUME NEW r, IsRow(r), NEW x, NEW s, s = [r EXCEPT !.message = x] PROVE IsRow(s) /\ s.status = r.status
  BY DEF IsRow

LEMMA RowEmail ==
    ASSUME NEW r, IsRow(r), NEW x, NEW s, s = [r EXCEPT !.email = x] PROVE IsRow(s) /\ s.status = r.status
  BY DEF IsRow

LEMMA RowDocs ==
    ASSUME NEW r, IsRow(r), NEW x, NEW s, s = [r EXCEPT !.docs = x] PROVE IsRow(s) /\ s.status = r.status
  BY DEF IsRow

LEMMA FirstState == ASSUME DraftInit PROVE DraftInv
<1>1. \A o \in Offer : IsRow(row[o]) /\ row[o].status = "absent"
  BY DEF DraftInit, NoRow, IsRow
<1>2. \A c \in Calls : IsCall(call[c]) /\ call[c].at = "idle"
  BY DEF DraftInit, Idle, IsCall
<1>3. row = [o \in Offer |-> row[o]] /\ snapshot = [o \in Offer |-> snapshot[o]] /\ call = [c \in Calls |-> call[c]]
  BY DEF DraftInit
<1> QED
  BY <1>1, <1>2, <1>3 DEF DraftInv, Shape, Settled

\* A step that writes nothing and brings no call to its write.
LEMMA NothingWritten ==
    ASSUME DraftInv, UNCHANGED <<row, snapshot, overlapped>>, call' = [c \in Calls |-> call'[c]],
           \A c \in Calls : IsCall(call'[c]) /\ Same(call'[c], call[c])
    PROVE  DraftInv'
<1>1. Shape'
  BY DEF DraftInv, Shape, Same
<1>2. \A o \in Offer \ overlapped : Settled(o)'
  BY DEF DraftInv, Settled, Same
<1> QED
  BY <1>1, <1>2 DEF DraftInv

\* An answer ends what a call may still write.
LEMMA Answers ==
    ASSUME DraftInv, NEW c \in Calls, NEW step, step # "write", Answer(c, step)
    PROVE  /\ call' = [d \in Calls |-> call'[d]] /\ call'[c].at # "write"
           /\ \A d \in Calls : IsCall(call'[d]) /\ Same(call'[d], call[d])
<1>1. call = [d \in Calls |-> call[d]] /\ \A d \in Calls : IsCall(call[d])
  BY DEF DraftInv, Shape
<1> DEFINE said == [call[c] EXCEPT !.at = step]
<1>2. IsCall(said) /\ said.at = step
  BY <1>1 DEF IsCall
<1>3. IsCall(Idle) /\ Idle.at = "idle"
  BY DEF IsCall, Idle
<1>4. call' = [call EXCEPT ![c] = Idle] \/ call' = [call EXCEPT ![c] = said]
  BY DEF Answer
<1> HIDE DEF said
<1>5. PICK k \in {said, Idle} : call' = [call EXCEPT ![c] = k]
  BY <1>4
<1>6. \A d \in Calls : call'[d] = IF d = c THEN k ELSE call[d]
  BY <1>1, <1>5
<1> QED
  BY <1>1, <1>2, <1>3, <1>5, <1>6 DEF Same

\* One row is written, by a call on its way to its answer.
LEMMA RowWritten ==
    ASSUME DraftInv, NEW w \in Offer, NEW new, IsRow(new), new.status # "absent",
           row' = [row EXCEPT ![w] = new],
           snapshot' = [o \in Offer |-> snapshot'[o]], overlapped \subseteq overlapped',
           \A o \in Offer : o # w => snapshot'[o] = snapshot[o],
           call' = [d \in Calls |-> call'[d]], \A d \in Calls : IsCall(call'[d]) /\ Same(call'[d], call[d]),
           w \notin overlapped' => Settled(w)'
    PROVE  DraftInv'
<1>1. row = [o \in Offer |-> row[o]] /\ \A o \in Offer : IsRow(row[o])
  BY DEF DraftInv, Shape
<1>2. row' = [o \in Offer |-> row'[o]] /\ \A o \in Offer : row'[o] = IF o = w THEN new ELSE row[o]
  BY <1>1
<1>3. \A d \in Calls : call'[d].at = "write" /\ call'[d].offer \in Offer => row'[call'[d].offer].status # "absent"
  BY <1>2 DEF DraftInv, Shape, Same
<1>4. Shape'
  BY <1>1, <1>2, <1>3 DEF Shape
<1>5. ASSUME NEW o \in Offer \ overlapped', o # w PROVE Settled(o)'
  <2>1. Settled(o) /\ row'[o] = row[o] /\ snapshot'[o] = snapshot[o]
    BY <1>2, <1>5 DEF DraftInv
  <2> QED
    BY <2>1 DEF Settled, Same
<1> QED
  BY <1>4, <1>5 DEF DraftInv

LEMMA CreatePreserves ==
    ASSUME DraftInv, NEW c \in Calls, Create(c) PROVE DraftInv'
<1>1. PICK o \in Unused :
         /\ row' = [row EXCEPT ![o] = [NoRow EXCEPT !.status = "DRAFT", !.title = call[c].value]]
         /\ call' = IF call[c].by = "nobody" THEN [call EXCEPT ![c] = Idle]
                    ELSE [call EXCEPT ![c].at = "ok", ![c].offer = o]
  BY DEF Create
<1> DEFINE new == [NoRow EXCEPT !.status = "DRAFT", !.title = call[c].value]
           informed == [call[c] EXCEPT !.at = "ok", !.offer = o]
<1>2. /\ row = [p \in Offer |-> row[p]] /\ call = [d \in Calls |-> call[d]]
      /\ \A p \in Offer : IsRow(row[p])
      /\ \A d \in Calls : IsCall(call[d])
      /\ o \in Offer /\ row[o].status = "absent" /\ snapshot' = snapshot /\ overlapped' = overlapped
  BY DEF DraftInv, Shape, Create, Unused
<1>3. IsRow(new) /\ new.status = "DRAFT"
  <2>1. IsRow(NoRow)
    BY DEF NoRow, IsRow
  <2>2. PICK draft : draft = [NoRow EXCEPT !.status = "DRAFT"]
    OBVIOUS
  <2>3. IsRow(draft) /\ draft.status = "DRAFT"
    BY <2>1, <2>2, RowStatus
  <2>4. new = [draft EXCEPT !.title = call[c].value]
    BY <2>2
  <2> HIDE DEF new
  <2> QED
    BY <2>3, <2>4, RowTitle
<1>4. IsCall(informed) /\ informed.at = "ok" /\ IsCall(Idle) /\ Idle.at = "idle"
  <2>1. PICK k : k = [call[c] EXCEPT !.at = "ok"]
    OBVIOUS
  <2>2. IsCall(k) /\ k.at = "ok"
    BY <1>2, <2>1, CallAt
  <2>3. informed = [k EXCEPT !.offer = o]
    BY <2>1
  <2>4. IsCall(Idle) /\ Idle.at = "idle"
    BY DEF IsCall, Idle
  <2> HIDE DEF informed
  <2> QED
    BY <2>2, <2>3, <2>4, CallOffer
<1>5. call' = [call EXCEPT ![c] = Idle] \/ call' = [call EXCEPT ![c] = informed]
  BY <1>1
<1>6. row' = [row EXCEPT ![o] = new]
  BY <1>1
<1> HIDE DEF new, informed
<1>7. PICK k \in {informed, Idle} : call' = [call EXCEPT ![c] = k]
  BY <1>5
<1>8. \A d \in Calls : call'[d] = IF d = c THEN k ELSE call[d]
  BY <1>2, <1>7
<1>9. \A d \in Calls : IsCall(call'[d]) /\ Same(call'[d], call[d])
  BY <1>2, <1>4, <1>8 DEF Same
<1>10. row' = [p \in Offer |-> row'[p]] /\ \A p \in Offer : row'[p] = IF p = o THEN new ELSE row[p]
  BY <1>2, <1>6
<1>11. call' = [d \in Calls |-> call'[d]]
  BY <1>2, <1>7
<1>12. \A d \in Calls : call'[d].at = "write" => call'[d].offer # o
  BY <1>2, <1>9 DEF Same, DraftInv, Shape
<1>13. Shape'
  BY <1>2, <1>3, <1>9, <1>10, <1>11 DEF Shape, DraftInv, Same
<1>14. ASSUME NEW p \in Offer \ overlapped PROVE Settled(p)'
  <2>1. CASE p = o
    BY <1>3, <1>10, <1>12, <2>1 DEF Settled
  <2>2. CASE p # o
    <3>1. Settled(p) /\ row'[p] = row[p]
      BY <1>10, <2>2 DEF DraftInv
    <3> QED
      BY <1>2, <1>9, <3>1 DEF Settled, Same
  <2> QED
    BY <2>1, <2>2
<1> QED
  BY <1>2, <1>13, <1>14 DEF DraftInv

\* requireDraft: what a send has read is what the draft says now.
LEMMA CheckPreserves ==
    ASSUME DraftInv, NEW c \in Calls, Check(c) PROVE DraftInv'
<1>1. UNCHANGED <<row, snapshot, overlapped>>
  BY DEF Check
<1>2. CASE Answer(c, "failed")
  BY <1>1, <1>2, Answers, NothingWritten
<1>3. CASE /\ IsDraft(call[c].offer)
           /\ call' = [call EXCEPT ![c].at = "write", ![c].seen = Read(call[c].kind, call[c].offer)]
  <2> DEFINE k == [call[c] EXCEPT !.at = "write", !.seen = Read(call[c].kind, call[c].offer)]
  <2>1. call = [d \in Calls |-> call[d]] /\ \A d \in Calls : IsCall(call[d])
    BY DEF DraftInv, Shape
  <2>2. IsCall(k) /\ k.at = "write" /\ k.kind = call[c].kind /\ k.offer = call[c].offer
        /\ k.seen = Read(call[c].kind, call[c].offer)
    <3>1. PICK going : going = [call[c] EXCEPT !.at = "write"]
      OBVIOUS
    <3>2. IsCall(going) /\ going.at = "write" /\ going.kind = call[c].kind /\ going.offer = call[c].offer
      BY <2>1, <3>1, CallAt
    <3>3. k = [going EXCEPT !.seen = Read(call[c].kind, call[c].offer)]
      BY <3>1
    <3> HIDE DEF k
    <3> QED
      BY <3>2, <3>3, CallSeen
  <2>3. call' = [call EXCEPT ![c] = k]
    BY <1>3
  <2> HIDE DEF k
  <2>4. call' = [d \in Calls |-> call'[d]] /\ \A d \in Calls : call'[d] = IF d = c THEN k ELSE call[d]
    BY <2>1, <2>3
  <2>5. Shape'
    BY <1>1, <1>3, <2>1, <2>2, <2>4 DEF Shape, DraftInv, IsDraft
  <2>6. ASSUME NEW o \in Offer \ overlapped PROVE Settled(o)'
    <3>1. Settled(o) /\ row'[o] = row[o] /\ snapshot'[o] = snapshot[o]
      BY <1>1 DEF DraftInv
    <3>2. row[call[c].offer].status = "DRAFT"
      BY <1>3 DEF IsDraft
    <3>3. ASSUME NEW d \in Calls, call'[d].at = "write", call'[d].offer = o
          PROVE  /\ call'[d].kind = "send" /\ row[o].status = "DRAFT" => call'[d].seen = row[o]
                 /\ call'[d].kind \in EditKinds => row[o].status # "SENT"
      <4>1. CASE d = c
        BY <2>2, <2>4, <3>2, <3>3, <4>1 DEF Read
      <4>2. CASE d # c
        BY <2>4, <3>1, <3>3, <4>2 DEF Settled
      <4> QED
        BY <4>1, <4>2
    <3> QED
      BY <3>1, <3>3 DEF Settled
  <2> QED
    BY <1>1, <2>5, <2>6 DEF DraftInv
<1> QED
  BY <1>2, <1>3 DEF Check

\* An edit writes a draft no send has read, or overlaps that send.
LEMMA Edit ==
    ASSUME DraftInv, NEW c \in Calls, NEW kind \in EditKinds, Edits(c, kind), NEW new, IsRow(new),
           new.status = Current(c).status, Written(c, new), call[c].offer \in Offer
    PROVE  DraftInv'
<1>0. PICK o : o = call[c].offer
  OBVIOUS
<1>1. /\ call[c].at = "write" /\ call[c].kind \in EditKinds /\ row' = [row EXCEPT ![o] = new]
      /\ overlapped' = IF Midway(o, {"send"}) THEN overlapped \cup {o} ELSE overlapped
      /\ Answer(c, "ok") /\ snapshot' = snapshot
  BY <1>0 DEF Edits, At, Written
<1>2. /\ call' = [d \in Calls |-> call'[d]]
      /\ \A d \in Calls : IsCall(call'[d]) /\ Same(call'[d], call[d])
  BY <1>1, Answers
<1>3. row = [p \in Offer |-> row[p]] /\ snapshot = [p \in Offer |-> snapshot[p]]
  BY DEF DraftInv, Shape
<1>4. o \in Offer
  BY <1>0
<1>5. DraftInv'
  <2>1. new.status # "absent"
    BY <1>0, <1>1, <1>4 DEF DraftInv, Shape, Current
  <2>2. ASSUME o \notin overlapped' PROVE Settled(o)'
    <3>1. ~Midway(o, {"send"}) /\ o \in Offer \ overlapped
      BY <1>1, <1>4, <2>2
    <3>2. row'[o] = new
      BY <1>1, <1>3, <1>4
    <3>3. row'[o].status # "SENT"
      BY <1>0, <1>1, <3>1, <3>2 DEF DraftInv, Settled, Current
    <3>4. \A d \in Calls : call'[d].at = "write" /\ call'[d].offer = o => call'[d].kind # "send"
      BY <1>2, <3>1 DEF Same, Midway, At
    <3> QED
      BY <3>3, <3>4 DEF Settled
  <2> QED
    BY <1>1, <1>2, <1>3, <1>4, <2>1, <2>2, RowWritten
<1> QED
  BY <1>5

\* A write by an id that no offer has.
LEMMA NowhereWritten ==
    ASSUME DraftInv, NEW c \in Calls, NEW new, Written(c, new), call[c].offer \notin Offer PROVE DraftInv'
<1>1. /\ call' = [d \in Calls |-> call'[d]]
      /\ \A d \in Calls : IsCall(call'[d]) /\ Same(call'[d], call[d])
  BY Answers DEF Written
<1>2. row = [p \in Offer |-> row[p]] /\ snapshot = [p \in Offer |-> snapshot[p]]
  BY DEF DraftInv, Shape
<1>3. row' = row /\ snapshot' = snapshot /\ overlapped \subseteq overlapped'
  BY <1>2 DEF Written
<1>4. Shape'
  BY <1>1, <1>2, <1>3 DEF DraftInv, Shape, Same
<1>5. \A p \in Offer \ overlapped' : Settled(p)'
  BY <1>1, <1>3 DEF DraftInv, Settled, Same
<1> QED
  BY <1>4, <1>5 DEF DraftInv

\* What an edit may refuse.
LEMMA Refuses ==
    ASSUME DraftInv, NEW c \in Calls, Refused(c) PROVE DraftInv'
  BY Answers, NothingWritten DEF Refused

LEMMA EditsPreserve ==
    ASSUME DraftInv, NEW c \in Calls,
           \/ UpdateTitle(c) \/ UpdateMessage(c) \/ SetRecipient(c) \/ AddDocument(c) \/ RemoveDocument(c)
    PROVE  DraftInv'
<1>1. ASSUME NEW kind \in EditKinds, Edits(c, kind), NEW new, Written(c, new),
             IsRow(Current(c)) => IsRow(new) /\ new.status = Current(c).status
      PROVE  DraftInv'
  <2>1. CASE call[c].offer \in Offer
    <3>1. IsRow(Current(c))
      BY <2>1 DEF DraftInv, Shape, Current
    <3> QED
      BY <1>1, <2>1, <3>1, Edit
  <2>2. CASE call[c].offer \notin Offer
    BY <1>1, <2>2, NowhereWritten
  <2> QED
    BY <2>1, <2>2
<1>2. CASE UpdateTitle(c)
  <2> DEFINE new == [Current(c) EXCEPT !.title = call[c].value]
  <2>1. Edits(c, "title") /\ Written(c, new) /\ "title" \in EditKinds
    BY <1>2 DEF UpdateTitle, EditKinds
  <2>2. IsRow(Current(c)) => IsRow(new) /\ new.status = Current(c).status
    BY RowTitle
  <2> HIDE DEF new
  <2> QED
    BY <1>1, <2>1, <2>2
<1>3. CASE UpdateMessage(c)
  <2> DEFINE new == [Current(c) EXCEPT !.message = TRUE]
  <2>1. Edits(c, "message") /\ Written(c, new) /\ "message" \in EditKinds
    BY <1>3 DEF UpdateMessage, EditKinds
  <2>2. IsRow(Current(c)) => IsRow(new) /\ new.status = Current(c).status
    BY RowMessage
  <2> HIDE DEF new
  <2> QED
    BY <1>1, <2>1, <2>2
<1>4. CASE SetRecipient(c)
  <2> DEFINE new == [Current(c) EXCEPT !.email = call[c].value]
  <2>1. Edits(c, "recipient") /\ "recipient" \in EditKinds /\ (Refused(c) \/ Written(c, new))
    BY <1>4 DEF SetRecipient, EditKinds
  <2>2. IsRow(Current(c)) => IsRow(new) /\ new.status = Current(c).status
    BY RowEmail
  <2> HIDE DEF new
  <2> QED
    BY <1>1, <2>1, <2>2, Refuses
<1>5. CASE AddDocument(c)
  <2> DEFINE new == [Current(c) EXCEPT !.docs = @ \cup {call[c].value}]
  <2>1. Edits(c, "add") /\ Written(c, new) /\ "add" \in EditKinds
    BY <1>5 DEF AddDocument, EditKinds
  <2>2. IsRow(Current(c)) => IsRow(new) /\ new.status = Current(c).status
    BY RowDocs
  <2> HIDE DEF new
  <2> QED
    BY <1>1, <2>1, <2>2
<1>6. CASE RemoveDocument(c)
  <2> DEFINE new == [Current(c) EXCEPT !.docs = @ \ {call[c].value}]
  <2>1. Edits(c, "remove") /\ "remove" \in EditKinds /\ (Refused(c) \/ Written(c, new))
    BY <1>6 DEF RemoveDocument, EditKinds
  <2>2. IsRow(Current(c)) => IsRow(new) /\ new.status = Current(c).status
    BY RowDocs
  <2> HIDE DEF new
  <2> QED
    BY <1>1, <2>1, <2>2, Refuses
<1> QED
  BY <1>2, <1>3, <1>4, <1>5, <1>6

\* What was read is what the draft still says, unless an edit is under way.
LEMMA FreezePreserves ==
    ASSUME DraftInv, NEW c \in Calls, Freeze(c) PROVE DraftInv'
<1>0. PICK o : o = call[c].offer
  OBVIOUS
<1>1. CASE Refused(c)
  BY <1>1, Refuses
<1>2. CASE /\ row' = [row EXCEPT ![o].status = "SENT"]
           /\ snapshot' = [snapshot EXCEPT ![o] = [sent |-> TRUE, says |-> call[c].seen]]
           /\ overlapped' = IF Midway(o, EditKinds) THEN overlapped \cup {o} ELSE overlapped
           /\ Answer(c, "ok") /\ row[o].status = "DRAFT"
  <2>1. /\ row = [p \in Offer |-> row[p]] /\ \A p \in Offer : IsRow(row[p])
        /\ snapshot = [p \in Offer |-> snapshot[p]]
    BY DEF DraftInv, Shape
  <2>2. /\ call' = [d \in Calls |-> call'[d]]
        /\ \A d \in Calls : IsCall(call'[d]) /\ Same(call'[d], call[d])
    BY <1>2, Answers
  <2>3. CASE o \in Offer
    <3> DEFINE new == [row[o] EXCEPT !.status = "SENT"]
    <3>1. IsRow(new) /\ new.status = "SENT"
      BY <2>1, <2>3, RowStatus
    <3>2. [new EXCEPT !.status = "DRAFT"] = row[o]
      <4>1. IsRow(row[o])
        BY <2>1, <2>3
      <4> QED
        BY <1>2, <4>1 DEF IsRow
    <3>3. row' = [row EXCEPT ![o] = new]
      BY <1>2
    <3> HIDE DEF new
    <3>4. row'[o] = new /\ snapshot'[o].says = call[c].seen
      BY <1>2, <2>1, <2>3, <3>3
    <3>5. ASSUME o \notin overlapped' PROVE Settled(o)'
      <4>1. ~Midway(o, EditKinds) /\ o \in Offer \ overlapped
        BY <1>2, <2>3, <3>5
      <4>2. call[c].at = "write" /\ call[c].kind = "send"
        BY DEF Freeze, Edits, At
      <4>3. call[c].seen = row[o]
        BY <1>0, <1>2, <4>1, <4>2 DEF DraftInv, Settled
      <4>4. \A d \in Calls : call'[d].at = "write" /\ call'[d].offer = o => call'[d].kind \notin EditKinds
        BY <2>2, <4>1 DEF Same, Midway, At
      <4> QED
        BY <3>1, <3>2, <3>4, <4>3, <4>4 DEF Settled
    <3>6. \A p \in Offer : p # o => snapshot'[p] = snapshot[p]
      BY <1>2, <2>1
    <3>7. snapshot' = [p \in Offer |-> snapshot'[p]] /\ overlapped \subseteq overlapped'
      BY <1>2, <2>1
    <3> QED
      BY <2>2, <2>3, <3>1, <3>3, <3>5, <3>6, <3>7, RowWritten
  <2>4. CASE o \notin Offer
    <3>1. row' = row /\ snapshot' = snapshot /\ overlapped \subseteq overlapped'
      BY <1>2, <2>1, <2>4
    <3>2. Shape'
      BY <2>1, <2>2, <3>1 DEF DraftInv, Shape, Same
    <3>3. \A p \in Offer \ overlapped' : Settled(p)'
      BY <2>2, <3>1 DEF DraftInv, Settled, Same
    <3> QED
      BY <3>2, <3>3 DEF DraftInv
  <2> QED
    BY <2>3, <2>4
<1> QED
  BY <1>0, <1>1, <1>2 DEF Freeze, Freezes, Frozen, IsDraft

LEMMA ServePreserves ==
    ASSUME DraftInv, NEW c \in Calls, Serve(c) PROVE DraftInv'
<1>1. CASE Fail(c)
  BY <1>1, Answers, NothingWritten DEF Fail
<1> QED
  BY <1>1, CreatePreserves, CheckPreserves, EditsPreserve, FreezePreserves DEF Serve

-----------------------------------------------------------------------------
(* The wizard.                                                             *)

\* What the wizard, or anyone, does with a call that it makes or hears of.
LEMMA CallReplaced ==
    ASSUME DraftInv, Server, NEW c \in Calls, NEW k, IsCall(k), Same(k, call[c]),
           call' = [call EXCEPT ![c] = k]
    PROVE  DraftInv'
<1>1. call = [d \in Calls |-> call[d]] /\ \A d \in Calls : IsCall(call[d])
  BY DEF DraftInv, Shape
<1>2. \A d \in Calls : call'[d] = IF d = c THEN k ELSE call[d]
  BY <1>1
<1>3. \A d \in Calls : IsCall(call'[d]) /\ Same(call'[d], call[d])
  BY <1>1, <1>2 DEF Same
<1>4. call' = [d \in Calls |-> call'[d]]
  BY <1>1
<1> QED
  BY <1>3, <1>4, NothingWritten DEF Server

LEMMA Unheard == ASSUME DraftInv, Server, call' = call PROVE DraftInv'
  BY NothingWritten DEF Server, DraftInv, Shape, Same

LEMMA NewCall ==
    ASSUME NEW by, NEW kind, NEW o, NEW value, NEW template
    PROVE  LET k == Asks(by, kind, o, value, template) IN IsCall(k) /\ k.at = "arriving"
  BY DEF Asks, IsCall

LEMMA IdleCall == IsCall(Idle) /\ Idle.at = "idle"
  BY DEF Idle, IsCall

LEMMA Asked ==
    ASSUME DraftInv, Server, NEW c \in Calls, NEW by, NEW kind, NEW o, NEW value, NEW template,
           call' = [call EXCEPT ![c] = Asks(by, kind, o, value, template)]
    PROVE  DraftInv'
<1>1. PICK k : k = Asks(by, kind, o, value, template)
  OBVIOUS
<1>2. IsCall(k) /\ k.at = "arriving"
  BY <1>1, NewCall
<1> QED
  BY <1>1, <1>2, CallReplaced DEF Same

LEMMA Settles ==
    ASSUME DraftInv, Server, NEW c \in Calls, Settle(c) PROVE DraftInv'
  BY IdleCall, CallReplaced DEF Settle, Same

\* Leaving the upload step changes only who waits for an answer.
LEMMA Detaches ==
    ASSUME DraftInv, Server, NEW calls, calls = [d \in Calls |-> calls[d]],
           \A d \in Calls : IsCall(calls[d]) /\ Same(calls[d], call[d]),
           call' = Detached(calls)
    PROVE  DraftInv'
<1>1. call' = [d \in Calls |-> call'[d]]
  BY DEF Detached
<1>2. ASSUME NEW d \in Calls PROVE IsCall(call'[d]) /\ Same(call'[d], call[d])
  <2>1. PICK k : k = [calls[d] EXCEPT !.by = "detached"]
    OBVIOUS
  <2>2. IsCall(k) /\ Same(k, call[d])
    BY <2>1, CallBy DEF Same
  <2>3. call'[d] = k \/ call'[d] = calls[d]
    BY <2>1 DEF Detached
  <2> QED
    BY <2>2, <2>3
<1> QED
  BY <1>1, <1>2, NothingWritten DEF Server

\* The same, after a call that has been heard of.
LEMMA DetachesAfter ==
    ASSUME DraftInv, Server, NEW c \in Calls, call' = Detached([call EXCEPT ![c] = Idle]) PROVE DraftInv'
<1>1. call = [d \in Calls |-> call[d]] /\ \A d \in Calls : IsCall(call[d])
  BY DEF DraftInv, Shape
<1>2. PICK calls : calls = [call EXCEPT ![c] = Idle]
  OBVIOUS
<1>3. calls = [d \in Calls |-> calls[d]] /\ \A d \in Calls : calls[d] = IF d = c THEN Idle ELSE call[d]
  BY <1>1, <1>2
<1>4. \A d \in Calls : IsCall(calls[d]) /\ Same(calls[d], call[d])
  BY <1>1, <1>3, IdleCall DEF Same
<1> QED
  BY <1>2, <1>3, <1>4, Detaches

LEMMA MovesPreserve ==
    ASSUME DraftInv, TypeName \/ TypeEmail \/ DocumentDone \/ Back \/ PickTemplate PROVE DraftInv'
<1>1. Server /\ (call' = call \/ call' = Detached(call))
  BY DEF TypeName, TypeEmail, DocumentDone, Back, PickTemplate
<1>2. call = [d \in Calls |-> call[d]] /\ \A d \in Calls : IsCall(call[d]) /\ Same(call[d], call[d])
  BY DEF DraftInv, Shape, Same
<1> QED
  BY <1>1, <1>2, Unheard, Detaches

LEMMA PressPreserves ==
    ASSUME DraftInv, NEW c \in Calls, Press(c) \/ OtherAsk(c) PROVE DraftInv'
<1>1. Server
  BY DEF Press, OtherAsk, NameDone, RecipientDone, SendIt, Upload
<1>2. ASSUME NEW by, NEW kind, NEW o, NEW value, NEW template,
             call' = [call EXCEPT ![c] = Asks(by, kind, o, value, template)]
      PROVE  DraftInv'
  BY <1>1, <1>2, Asked
<1>3. CASE NameDone(c)
  BY <1>2, <1>3 DEF NameDone, Ask
<1>4. CASE RecipientDone(c)
  BY <1>2, <1>4 DEF RecipientDone, Ask
<1>5. CASE SendIt(c)
  BY <1>2, <1>5 DEF SendIt, Ask
<1>6. CASE Upload(c)
  <2>1. PICK d : call' = [call EXCEPT ![c] = Asks("upload", "add", ui.draft, d, FALSE)]
    BY <1>6 DEF Upload
  <2> QED
    BY <1>2, <2>1
<1>7. CASE OtherAsk(c)
  <2>1. PICK o, kind, v : call' = [call EXCEPT ![c] = Asks("other", kind, o, v, FALSE)]
    BY <1>7 DEF OtherAsk
  <2> QED
    BY <1>2, <2>1
<1> QED
  BY <1>3, <1>4, <1>5, <1>6, <1>7 DEF Press

LEMMA HearPreserves ==
    ASSUME DraftInv, NEW c \in Calls, Hear(c) PROVE DraftInv'
<1>1. Server
  BY DEF Hear, NameSaved, MessageSaved, RecipientSaved, Sent, Failed, Uploaded, TimeOut
<1>2. CASE NameSaved(c)
  BY <1>1, <1>2, Asked, DetachesAfter DEF NameSaved
<1>3. CASE MessageSaved(c) \/ RecipientSaved(c)
  BY <1>1, <1>3, DetachesAfter DEF MessageSaved, RecipientSaved
<1>4. CASE Sent(c) \/ Failed(c) \/ Uploaded(c)
  BY <1>1, <1>4, Settles DEF Sent, Failed, Uploaded
<1>5. CASE TimeOut(c)
  <2>1. PICK k : k = [call[c] EXCEPT !.by = "nobody"]
    OBVIOUS
  <2>2. IsCall(call[c])
    BY DEF DraftInv, Shape
  <2>3. IsCall(k) /\ Same(k, call[c])
    BY <2>1, <2>2, CallBy DEF Same
  <2>4. Settle(c) \/ call' = [call EXCEPT ![c] = k]
    BY <1>5, <2>1 DEF TimeOut
  <2> QED
    BY <1>1, <2>3, <2>4, Settles, CallReplaced
<1> QED
  BY <1>2, <1>3, <1>4, <1>5 DEF Hear

-----------------------------------------------------------------------------
LEMMA StepPreserves ==
    ASSUME DraftInv, [Next]_vars PROVE DraftInv'
<1>1. CASE TypeName \/ TypeEmail \/ DocumentDone \/ Back \/ PickTemplate
  BY <1>1, MovesPreserve
<1>2. ASSUME NEW c \in Calls, Press(c) \/ Hear(c) \/ OtherAsk(c) PROVE DraftInv'
  BY <1>2, PressPreserves, HearPreserves
<1>3. ASSUME NEW c \in Calls, Serve(c) PROVE DraftInv'
  BY <1>3, ServePreserves
<1>4. CASE UNCHANGED vars
  BY <1>4, Unheard DEF vars, draftVars, Server
<1> QED
  BY <1>1, <1>2, <1>3, <1>4 DEF Next

LEMMA Invariant == Spec => []DraftInv
<1>1. Init => DraftInv
  BY FirstState DEF Init
<1>2. DraftInv /\ [Next]_vars => DraftInv'
  BY StepPreserves
<1> QED
  BY <1>1, <1>2, PTL DEF Spec

\* Whatever the wizard, other tabs and lost answers do, an offer that was sent
\* still says what was frozen, unless an edit overlapped its send
\* (offers.service.ts edits by id after requireDraft; send is one transaction).
THEOREM DriftAlwaysNeedsOverlap == Spec => []DriftNeedsOverlap
<1>1. DraftInv => DriftNeedsOverlap
  BY DEF DraftInv, Settled, DriftNeedsOverlap
<1> QED
  BY <1>1, Invariant, PTL

-----------------------------------------------------------------------------
(* What the wizard sends.  The invariant says of every call in flight what *)
(* it has to do with what the wizard shows, in two parts: one about the    *)
(* documents, which holds until two drafts take each other's place, and    *)
(* one about the name and the address, which holds while nothing happened  *)
(* that the review cannot show.                                            *)

IsUi(u) ==
    u = [step |-> u.step, draft |-> u.draft, title |-> u.title, email |-> u.email, template |-> u.template,
         docs |-> u.docs, reviewed |-> u.reviewed, uploading |-> u.uploading, sent |-> u.sent]

\* What a call of the wizard, or of its uploads, is about: the draft the wizard
\* shows, and for a send, documents that the draft has, or had when it was read.
Fits(k, u, r, s) ==
    /\ k.by \in {"nobody", "wizard", "upload", "detached"} /\ k.kind # "remove"
    /\ k.at = "idle" => k.by = "nobody"
    /\ k.at # "idle" /\ k.kind # "create" => k.offer \in Offer
    /\ k.by = "wizard" =>
         /\ ~u.sent /\ k.kind # "add"
         /\ k.kind = "create" =>
              /\ u.draft = NoOffer
              /\ k.at = "ok" => k.offer \in Offer /\ r[k.offer].status # "absent"
         /\ k.kind # "create" => u.draft \in Offer /\ k.offer = u.draft
         /\ k.kind = "send" =>
              /\ k.at = "arriving" => u.reviewed \subseteq r[k.offer].docs
              /\ k.at = "write" => u.reviewed \subseteq k.seen.docs
              /\ k.at = "ok" => s[k.offer].sent /\ u.reviewed \subseteq s[k.offer].says.docs
    /\ k.by \in {"upload", "detached"} =>
         /\ k.kind = "add" /\ u.draft \in Offer /\ k.offer = u.draft
         /\ k.at = "ok" => k.value \in r[k.offer].docs

\* What the wizard shows, beside the draft it shows.
Shows(u, r, s) ==
    /\ u.draft = NoOffer => u.docs = {} /\ u.step = 1 /\ ~u.sent
    /\ u.draft # NoOffer => /\ u.draft \in Offer /\ r[u.draft].status # "absent"
                            /\ u.docs \subseteq r[u.draft].docs
    /\ u.sent => s[u.draft].sent /\ u.reviewed \subseteq s[u.draft].says.docs

\* The same for the name and the address.
Names(k, u, r, s) ==
    /\ k.by = "nobody" => k.at = "idle"
    /\ k.by = "wizard" =>
         /\ k.kind \in {"create", "title", "message", "recipient", "send"}
         /\ k.kind \in {"create", "title"} =>
              /\ u.step = 1 /\ k.value = u.title
              /\ k.at = "ok" => r[k.offer].title = u.title
         /\ k.kind = "message" => u.step = 1 /\ r[k.offer].title = u.title
         /\ k.kind = "recipient" =>
              /\ u.step = 3 /\ k.value = u.email
              /\ k.at = "ok" => r[k.offer].email = u.email
         /\ k.kind = "send" =>
              /\ u.step = 4
              /\ k.at = "write" => k.seen.title = u.title /\ k.seen.email = u.email
              /\ k.at = "ok" => s[k.offer].says.title = u.title /\ s[k.offer].says.email = u.email

Named(u, r, s) ==
    /\ u.step \in 1..4
    /\ u.step >= 2 => r[u.draft].title = u.title
    /\ u.step = 4 => r[u.draft].email = u.email
    /\ u.sent => u.step = 4 /\ s[u.draft].says.title = u.title /\ s[u.draft].says.email = u.email

OneAwaited == \A c, d \in Calls : Awaited(c) /\ Awaited(d) => c = d

\* No second draft may have taken the place of the first, and nobody else writes.
Alone == disturbed \subseteq {"typed", "abandoned"}

ReviewInv ==
    /\ IsUi(ui)
    /\ Alone => /\ \A c \in Calls : Fits(call[c], ui, row, snapshot)
                /\ OneAwaited /\ Shows(ui, row, snapshot)
    /\ disturbed = {} => (\A c \in Calls : Names(call[c], ui, row, snapshot)) /\ Named(ui, row, snapshot)

\* Drafts keep their documents, and what was sent stays.
Grown ==
    \A o \in Offer :
        /\ row[o].status # "absent" => row'[o].status # "absent" /\ row[o].docs \subseteq row'[o].docs
        /\ snapshot[o].sent => snapshot'[o] = snapshot[o]

SameNames ==
    \A o \in Offer : row[o].status # "absent" => row'[o].title = row[o].title /\ row'[o].email = row[o].email

LEMMA NoOfferIsNone == NoOffer \notin Offer
  BY DraftingAssumption DEF NoOffer, Offer

LEMMA IdleFits ==
    ASSUME NEW u, NEW r, NEW s PROVE Fits(Idle, u, r, s) /\ Names(Idle, u, r, s) /\ Idle.by = "nobody"
  BY DEF Idle, Fits, Names, None

\* Drafts that only grow leave every call as it is.
LEMMA FitsStill ==
    ASSUME NEW k, NEW u, Fits(k, u, row, snapshot), Shows(u, row, snapshot), Grown
    PROVE  Fits(k, u, row', snapshot')
<1>1. u.draft \in Offer => row[u.draft].status # "absent"
  BY NoOfferIsNone DEF Shows
<1>2. ASSUME NEW o \in Offer, row[o].status # "absent"
      PROVE  row'[o].status # "absent" /\ row[o].docs \subseteq row'[o].docs
  BY <1>2 DEF Grown
<1>3. ASSUME NEW o \in Offer, snapshot[o].sent PROVE snapshot'[o] = snapshot[o]
  BY <1>3 DEF Grown
<1>4. CASE k.by = "wizard"
  <2>1. k.kind = "create" => /\ u.draft = NoOffer
                             /\ k.at = "ok" => k.offer \in Offer /\ row'[k.offer].status # "absent"
    BY <1>2, <1>4 DEF Fits
  <2>2. k.kind = "send" => /\ k.at = "arriving" => u.reviewed \subseteq row'[k.offer].docs
                           /\ k.at = "ok" => /\ snapshot'[k.offer].sent
                                             /\ u.reviewed \subseteq snapshot'[k.offer].says.docs
    BY <1>1, <1>2, <1>3, <1>4 DEF Fits
  <2> QED
    BY <1>4, <2>1, <2>2 DEF Fits
<1>5. CASE k.by \in {"upload", "detached"}
  BY <1>1, <1>2, <1>5 DEF Fits
<1>6. CASE k.by = "nobody"
  BY <1>6 DEF Fits
<1> QED
  BY <1>4, <1>5, <1>6 DEF Fits

LEMMA ShowsStill ==
    ASSUME NEW u, Shows(u, row, snapshot), Grown PROVE Shows(u, row', snapshot')
  BY NoOfferIsNone DEF Shows, Grown

LEMMA NamesStill ==
    ASSUME NEW k, NEW u, Fits(k, u, row, snapshot), Names(k, u, row, snapshot), Shows(u, row, snapshot),
           Grown, SameNames
    PROVE  Names(k, u, row', snapshot')
<1>1. u.draft \in Offer => row[u.draft].status # "absent"
  BY NoOfferIsNone DEF Shows
<1>2. CASE k.by # "wizard"
  BY <1>2 DEF Names
<1>3. CASE k.by = "wizard" /\ k.kind = "create"
  BY <1>3 DEF Names, Fits, SameNames
<1>4. CASE k.by = "wizard" /\ k.kind # "create"
  <2>1. /\ k.offer \in Offer
        /\ row'[k.offer].title = row[k.offer].title /\ row'[k.offer].email = row[k.offer].email
    BY <1>1, <1>4 DEF Fits, SameNames
  <2>2. k.kind = "send" /\ k.at = "ok" => snapshot'[k.offer] = snapshot[k.offer]
    BY <1>4, <2>1 DEF Fits, Grown
  <2> QED
    BY <1>4, <2>1, <2>2 DEF Names
<1> QED
  BY <1>2, <1>3, <1>4

LEMMA NamedStill ==
    ASSUME NEW u, Named(u, row, snapshot), Shows(u, row, snapshot), Grown, SameNames
    PROVE  Named(u, row', snapshot')
<1>1. CASE u.draft = NoOffer
  BY <1>1 DEF Named, Shows
<1>2. CASE u.draft # NoOffer
  <2>1. u.draft \in Offer /\ row[u.draft].status # "absent"
    BY <1>2 DEF Shows
  <2>2. row'[u.draft].title = row[u.draft].title /\ row'[u.draft].email = row[u.draft].email
    BY <2>1 DEF SameNames
  <2>3. u.sent => snapshot'[u.draft] = snapshot[u.draft]
    BY <2>1 DEF Shows, Grown
  <2> QED
    BY <2>2, <2>3 DEF Named
<1> QED
  BY <1>1, <1>2

\* A step of the server on one call.
LEMMA Served ==
    ASSUME ReviewInv, NEW c \in Calls, UNCHANGED <<ui, disturbed>>,
           \A d \in Calls : d # c => call'[d] = call[d],
           Alone => /\ Grown /\ Fits(call'[c], ui, row', snapshot')
                    /\ call'[c].by = call[c].by \/ call'[c].by = "nobody",
           disturbed = {} => /\ Names(call'[c], ui, row', snapshot')
                             /\ SameNames \/ (call[c].by = "wizard" /\ Named(ui, row', snapshot'))
    PROVE  ReviewInv'
<1>1. ASSUME Alone
      PROVE  /\ \A d \in Calls : Fits(call'[d], ui, row', snapshot')
             /\ OneAwaited' /\ Shows(ui, row', snapshot')
  <2>1. (\A d \in Calls : Fits(call[d], ui, row, snapshot)) /\ OneAwaited /\ Shows(ui, row, snapshot)
    BY <1>1 DEF ReviewInv
  <2>2. ASSUME NEW d \in Calls, d # c PROVE Fits(call'[d], ui, row', snapshot')
    <3>1. Fits(call[d], ui, row, snapshot) /\ Grown /\ call'[d] = call[d]
      BY <1>1, <2>1, <2>2
    <3> QED
      BY <2>1, <3>1, FitsStill
  <2>3. \A d \in Calls : call'[d].by = "wizard" => call[d].by = "wizard"
    BY <1>1
  <2>4. OneAwaited'
    BY <2>1, <2>3 DEF OneAwaited, Awaited
  <2>5. Shows(ui, row', snapshot')
    BY <1>1, <2>1, ShowsStill
  <2> QED
    BY <1>1, <2>2, <2>4, <2>5
<1>2. ASSUME disturbed = {}
      PROVE  (\A d \in Calls : Names(call'[d], ui, row', snapshot')) /\ Named(ui, row', snapshot')
  <2>1. /\ \A d \in Calls : Fits(call[d], ui, row, snapshot) /\ Names(call[d], ui, row, snapshot)
        /\ OneAwaited /\ Shows(ui, row, snapshot) /\ Named(ui, row, snapshot) /\ Grown
    BY <1>2 DEF ReviewInv, Alone
  <2>2. CASE SameNames
    <3>1. ASSUME NEW d \in Calls, d # c PROVE Names(call'[d], ui, row', snapshot')
      <4>1. Fits(call[d], ui, row, snapshot) /\ Names(call[d], ui, row, snapshot) /\ call'[d] = call[d]
        BY <2>1, <3>1
      <4> QED
        BY <2>1, <2>2, <4>1, NamesStill
    <3>2. Named(ui, row', snapshot')
      BY <2>1, <2>2, NamedStill
    <3> QED
      BY <1>2, <3>1, <3>2
  <2>3. CASE call[c].by = "wizard" /\ Named(ui, row', snapshot')
    <3>1. ASSUME NEW d \in Calls, d # c PROVE Names(call'[d], ui, row', snapshot')
      <4>1. Names(call[d], ui, row, snapshot) /\ call[d].by # "wizard" /\ call'[d] = call[d]
        BY <2>1, <2>3, <3>1 DEF OneAwaited, Awaited
      <4> QED
        BY <4>1 DEF Names
    <3> QED
      BY <1>2, <2>3, <3>1
  <2> QED
    BY <1>2, <2>2, <2>3
<1>3. IsUi(ui)
  BY DEF ReviewInv
<1> QED
  BY <1>1, <1>2, <1>3 DEF ReviewInv, Alone

\* Once two drafts were confused, or someone else wrote, nothing is left to keep.
LEMMA NotAlone ==
    ASSUME ReviewInv, ~Alone, disturbed \subseteq disturbed', IsUi(ui') PROVE ReviewInv'
<1>1. ~Alone' /\ disturbed' # {}
  BY DEF Alone
<1> QED
  BY <1>1 DEF ReviewInv

\* An answer reaches the call with what it was asked, or nobody.
Told(k, old, step) ==
    /\ k.at = step /\ k.by = old.by /\ k.kind = old.kind /\ k.offer = old.offer
    /\ k.value = old.value /\ k.seen = old.seen

LEMMA Spoken ==
    ASSUME DraftInv, NEW c \in Calls, NEW step, Answer(c, step)
    PROVE  /\ \A d \in Calls : d # c => call'[d] = call[d]
           /\ call'[c] = Idle \/ (call[c].by \notin {"other", "nobody"} /\ Told(call'[c], call[c], step))
<1>1. call = [d \in Calls |-> call[d]] /\ IsCall(call[c])
  BY DEF DraftInv, Shape
<1>2. CASE call[c].by \in {"other", "nobody"}
  <2>1. call' = [call EXCEPT ![c] = Idle]
    BY <1>2 DEF Answer
  <2> QED
    BY <1>1, <2>1
<1>3. CASE call[c].by \notin {"other", "nobody"}
  <2>1. PICK k : k = [call[c] EXCEPT !.at = step]
    OBVIOUS
  <2>2. call' = [call EXCEPT ![c] = k]
    BY <1>3, <2>1 DEF Answer
  <2>3. Told(k, call[c], step)
    BY <1>1, <2>1 DEF IsCall, Told
  <2> QED
    BY <1>1, <1>3, <2>2, <2>3
<1> QED
  BY <1>2, <1>3

\* A call that changes nothing, whatever it answers, but for what an "ok" means.
LEMMA FailureFits ==
    ASSUME DraftInv, ReviewInv, NEW c \in Calls, Answer(c, "failed"), call[c].at # "idle",
           UNCHANGED <<row, snapshot, ui, disturbed>>
    PROVE  ReviewInv'
<1>1. /\ \A d \in Calls : d # c => call'[d] = call[d]
      /\ call'[c] = Idle \/ Told(call'[c], call[c], "failed")
  BY Spoken
<1>2. Grown /\ SameNames
  BY DEF Grown, SameNames
<1>3. CASE call'[c] = Idle
  <2>1. Fits(call'[c], ui, row', snapshot') /\ Names(call'[c], ui, row', snapshot') /\ call'[c].by = "nobody"
    BY <1>3, IdleFits
  <2> QED
    BY <1>1, <1>2, <2>1, Served
<1>4. CASE Told(call'[c], call[c], "failed")
  <2>1. Alone => Fits(call'[c], ui, row', snapshot') /\ call'[c].by = call[c].by
    <3>1. Alone => Fits(call[c], ui, row, snapshot)
      BY DEF ReviewInv
    <3> QED
      BY <1>4, <3>1 DEF Fits, Told
  <2>2. disturbed = {} => Names(call'[c], ui, row', snapshot')
    <3>1. disturbed = {} => Names(call[c], ui, row, snapshot)
      BY DEF ReviewInv
    <3> QED
      BY <1>4, <3>1 DEF Names, Told
  <2> QED
    BY <1>1, <1>2, <2>1, <2>2, Served
<1> QED
  BY <1>1, <1>3, <1>4

LEMMA RefusalFits ==
    ASSUME DraftInv, ReviewInv, NEW c \in Calls, Refused(c), At(c, "write"), UNCHANGED <<ui, disturbed>>
    PROVE  ReviewInv'
  BY FailureFits DEF Refused, At

-----------------------------------------------------------------------------
(* The server's steps.                                                     *)

LEMMA CreateFits ==
    ASSUME DraftInv, ReviewInv, NEW c \in Calls, Create(c), UNCHANGED <<ui, disturbed>> PROVE ReviewInv'
<1>1. PICK o \in Unused :
         /\ row' = [row EXCEPT ![o] = [NoRow EXCEPT !.status = "DRAFT", !.title = call[c].value]]
         /\ call' = IF call[c].by = "nobody" THEN [call EXCEPT ![c] = Idle]
                    ELSE [call EXCEPT ![c].at = "ok", ![c].offer = o]
  BY DEF Create
<1>2. /\ row = [p \in Offer |-> row[p]] /\ call = [d \in Calls |-> call[d]] /\ IsCall(call[c])
      /\ o \in Offer /\ row[o].status = "absent" /\ snapshot' = snapshot /\ call[c].kind = "create"
  BY DEF DraftInv, Shape, Create, Unused
<1>3. row'[o].status = "DRAFT" /\ row'[o].title = call[c].value /\ \A p \in Offer \ {o} : row'[p] = row[p]
  BY <1>1, <1>2 DEF NoRow
<1>4. Grown /\ SameNames
  BY <1>2, <1>3 DEF Grown, SameNames
<1>5. \A d \in Calls : d # c => call'[d] = call[d]
  BY <1>1, <1>2
<1>6. CASE call[c].by = "nobody"
  <2>1. call'[c] = Idle
    BY <1>1, <1>2, <1>6
  <2> QED
    BY <1>4, <1>5, <2>1, IdleFits, Served
<1>7. CASE call[c].by # "nobody"
  <2>1. PICK k : k = [call[c] EXCEPT !.at = "ok", !.offer = o]
    OBVIOUS
  <2>2. call' = [call EXCEPT ![c] = k]
    BY <1>1, <1>7, <2>1
  <2>3. call'[c] = k
    BY <1>2, <2>2
  <2>4. k.at = "ok" /\ k.offer = o /\ k.by = call[c].by /\ k.kind = "create" /\ k.value = call[c].value
    BY <1>2, <2>1 DEF IsCall
  <2>5. Alone => Fits(k, ui, row', snapshot')
    <3>1. Alone => Fits(call[c], ui, row, snapshot)
      BY DEF ReviewInv
    <3> QED
      BY <1>2, <1>3, <1>7, <2>4, <3>1 DEF Fits
  <2>6. disturbed = {} => Names(k, ui, row', snapshot')
    <3>1. disturbed = {} => Names(call[c], ui, row, snapshot)
      BY DEF ReviewInv
    <3> QED
      BY <1>2, <1>3, <1>7, <2>4, <3>1 DEF Names
  <2> QED
    BY <1>4, <1>5, <2>3, <2>4, <2>5, <2>6, Served
<1> QED
  BY <1>6, <1>7

\* A send that found a draft has read the names and the documents it shows.
LEMMA CheckFits ==
    ASSUME DraftInv, ReviewInv, NEW c \in Calls, Check(c), UNCHANGED <<ui, disturbed>> PROVE ReviewInv'
<1>0. call[c].at = "arriving" /\ call[c].kind # "create" /\ UNCHANGED <<row, snapshot>>
  BY DEF Check, At
<1>1. CASE Answer(c, "failed")
  BY <1>0, <1>1, FailureFits
<1>2. CASE call' = [call EXCEPT ![c].at = "write", ![c].seen = Read(call[c].kind, call[c].offer)]
  <2>1. PICK k : k = [call[c] EXCEPT !.at = "write", !.seen = Read(call[c].kind, call[c].offer)]
    OBVIOUS
  <2>2. call = [d \in Calls |-> call[d]] /\ IsCall(call[c])
    BY DEF DraftInv, Shape
  <2>3. call' = [call EXCEPT ![c] = k]
    BY <1>2, <2>1
  <2>4. call'[c] = k /\ \A d \in Calls : d # c => call'[d] = call[d]
    BY <2>2, <2>3
  <2>5. /\ k.at = "write" /\ k.by = call[c].by /\ k.kind = call[c].kind /\ k.offer = call[c].offer
        /\ k.value = call[c].value /\ k.seen = Read(call[c].kind, call[c].offer)
    BY <2>1, <2>2 DEF IsCall
  <2>6. k.kind = "send" => k.seen = row[k.offer]
    BY <2>5 DEF Read
  <2>7. Grown /\ SameNames
    BY <1>0 DEF Grown, SameNames
  <2>8. Alone => Fits(k, ui, row', snapshot')
    <3>1. Alone => Fits(call[c], ui, row, snapshot)
      BY DEF ReviewInv
    <3> QED
      BY <1>0, <2>5, <2>6, <3>1 DEF Fits
  <2>9. disturbed = {} => Names(k, ui, row', snapshot')
    <3>1. disturbed = {} => /\ Names(call[c], ui, row, snapshot) /\ Fits(call[c], ui, row, snapshot)
                            /\ Named(ui, row, snapshot)
      BY DEF ReviewInv, Alone
    <3>2. disturbed = {} /\ k.by = "wizard" /\ k.kind = "send" =>
            /\ k.offer = ui.draft /\ ui.step = 4
            /\ row[ui.draft].title = ui.title /\ row[ui.draft].email = ui.email
      BY <2>5, <3>1 DEF Fits, Names, Named
    <3> QED
      BY <1>0, <2>5, <2>6, <3>1, <3>2 DEF Names
  <2> QED
    BY <2>4, <2>5, <2>7, <2>8, <2>9, Served
<1> QED
  BY <1>1, <1>2 DEF Check

\* A write adds documents and keeps the names, but for the one it was asked to set.
LEMMA WriteFits ==
    ASSUME DraftInv, ReviewInv, NEW c \in Calls, UNCHANGED <<ui, disturbed>>,
           NEW kind \in {"title", "message", "recipient", "add"}, Edits(c, kind), NEW new, Written(c, new),
           call[c].offer \in Offer =>
              /\ new.status = Current(c).status /\ Current(c).docs \subseteq new.docs
              /\ kind = "add" => call[c].value \in new.docs
              /\ new.title = IF kind = "title" THEN call[c].value ELSE Current(c).title
              /\ new.email = IF kind = "recipient" THEN call[c].value ELSE Current(c).email
    PROVE  ReviewInv'
<1>1. CASE ~Alone
  BY <1>1, NotAlone DEF ReviewInv
<1>2. CASE Alone
  <2>1. PICK o : o = call[c].offer
    OBVIOUS
  <2>2. /\ Fits(call[c], ui, row, snapshot) /\ Shows(ui, row, snapshot)
        /\ disturbed = {} => Names(call[c], ui, row, snapshot) /\ Named(ui, row, snapshot)
    BY <1>2 DEF ReviewInv
  <2>3. /\ call[c].at = "write" /\ call[c].kind = kind /\ Answer(c, "ok")
        /\ row' = [row EXCEPT ![o] = new] /\ snapshot' = snapshot
    BY <2>1 DEF Edits, At, Written
  <2>4. o \in Offer
    BY <2>1, <2>2, <2>3 DEF Fits
  <2>5. row = [p \in Offer |-> row[p]] /\ row[o].status # "absent"
    BY <2>1, <2>3, <2>4 DEF DraftInv, Shape
  <2>6. row'[o] = new /\ \A p \in Offer \ {o} : row'[p] = row[p]
    BY <2>3, <2>4, <2>5
  <2>7. /\ new.status = row[o].status /\ row[o].docs \subseteq new.docs
        /\ kind = "add" => call[c].value \in new.docs
        /\ new.title = IF kind = "title" THEN call[c].value ELSE row[o].title
        /\ new.email = IF kind = "recipient" THEN call[c].value ELSE row[o].email
    BY <2>1, <2>4 DEF Current
  <2>8. Grown
    BY <2>3, <2>5, <2>6, <2>7 DEF Grown
  <2>9. /\ \A d \in Calls : d # c => call'[d] = call[d]
        /\ call'[c] = Idle \/ (call[c].by # "nobody" /\ Told(call'[c], call[c], "ok"))
    BY <2>3, Spoken
  <2>10. Fits(call'[c], ui, row', snapshot') /\ (call'[c].by = call[c].by \/ call'[c].by = "nobody")
    <3>1. CASE call'[c] = Idle
      BY <3>1, IdleFits
    <3>2. CASE Told(call'[c], call[c], "ok")
      BY <2>1, <2>2, <2>3, <2>6, <2>7, <3>2 DEF Fits, Told
    <3> QED
      BY <2>9, <3>1, <3>2
  <2>11. disturbed = {} => Names(call'[c], ui, row', snapshot')
    <3>1. CASE call'[c] = Idle
      BY <3>1, IdleFits
    <3>2. CASE call[c].by # "nobody" /\ Told(call'[c], call[c], "ok")
      BY <2>1, <2>2, <2>3, <2>6, <2>7, <3>2 DEF Names, Told
    <3> QED
      BY <2>9, <3>1, <3>2
  <2>12. ASSUME disturbed = {} PROVE SameNames \/ (call[c].by = "wizard" /\ Named(ui, row', snapshot'))
    <3>1. CASE kind \in {"message", "add"}
      BY <2>6, <2>7, <3>1 DEF SameNames
    <3>2. CASE kind \in {"title", "recipient"}
      <4>1. call[c].by = "wizard" /\ o = ui.draft /\ ~ui.sent
        BY <2>1, <2>2, <2>3, <2>12, <3>2 DEF Fits, Names
      <4>2. CASE kind = "title"
        <5>1. ui.step = 1
          BY <2>2, <2>3, <2>12, <4>1, <4>2 DEF Names
        <5> QED
          BY <2>2, <2>12, <4>1, <5>1 DEF Named
      <4>3. CASE kind = "recipient"
        <5>1. ui.step = 3 /\ row'[ui.draft].title = row[ui.draft].title
          BY <2>2, <2>3, <2>6, <2>7, <2>12, <4>1, <4>3 DEF Names
        <5> QED
          BY <2>2, <2>12, <4>1, <5>1 DEF Named
      <4> QED
        BY <3>2, <4>2, <4>3
    <3> QED
      BY <3>1, <3>2
  <2> QED
    BY <2>8, <2>9, <2>10, <2>11, <2>12, Served
<1> QED
  BY <1>1, <1>2

LEMMA EditsFit ==
    ASSUME DraftInv, ReviewInv, NEW c \in Calls, UNCHANGED <<ui, disturbed>>,
           \/ UpdateTitle(c) \/ UpdateMessage(c) \/ SetRecipient(c) \/ AddDocument(c) \/ RemoveDocument(c)
    PROVE  ReviewInv'
<1>1. call[c].offer \in Offer => IsRow(Current(c))
  BY DEF DraftInv, Shape, Current
<1>2. CASE UpdateTitle(c)
  <2>1. PICK new : new = [Current(c) EXCEPT !.title = call[c].value]
    OBVIOUS
  <2>2. Edits(c, "title") /\ Written(c, new)
    BY <1>2, <2>1 DEF UpdateTitle
  <2>3. call[c].offer \in Offer =>
          /\ new.status = Current(c).status /\ new.docs = Current(c).docs
          /\ new.title = call[c].value /\ new.email = Current(c).email
    BY <1>1, <2>1 DEF IsRow
  <2> QED
    BY <2>2, <2>3, WriteFits
<1>3. CASE UpdateMessage(c)
  <2>1. PICK new : new = [Current(c) EXCEPT !.message = TRUE]
    OBVIOUS
  <2>2. Edits(c, "message") /\ Written(c, new)
    BY <1>3, <2>1 DEF UpdateMessage
  <2>3. call[c].offer \in Offer =>
          /\ new.status = Current(c).status /\ new.docs = Current(c).docs
          /\ new.title = Current(c).title /\ new.email = Current(c).email
    BY <1>1, <2>1 DEF IsRow
  <2> QED
    BY <2>2, <2>3, WriteFits
<1>4. CASE SetRecipient(c)
  <2>1. PICK new : new = [Current(c) EXCEPT !.email = call[c].value]
    OBVIOUS
  <2>2. Edits(c, "recipient") /\ (Refused(c) \/ Written(c, new))
    BY <1>4, <2>1 DEF SetRecipient
  <2>3. call[c].offer \in Offer =>
          /\ new.status = Current(c).status /\ new.docs = Current(c).docs
          /\ new.title = Current(c).title /\ new.email = call[c].value
    BY <1>1, <2>1 DEF IsRow
  <2>4. CASE Refused(c)
    BY <2>2, <2>4, RefusalFits DEF Edits
  <2>5. CASE Written(c, new)
    BY <2>2, <2>3, <2>5, WriteFits
  <2> QED
    BY <2>2, <2>4, <2>5
<1>5. CASE AddDocument(c)
  <2>1. PICK new : new = [Current(c) EXCEPT !.docs = Current(c).docs \cup {call[c].value}]
    OBVIOUS
  <2>2. Edits(c, "add") /\ Written(c, new)
    BY <1>5, <2>1 DEF AddDocument
  <2>3. call[c].offer \in Offer =>
          /\ new.status = Current(c).status /\ new.docs = Current(c).docs \cup {call[c].value}
          /\ new.title = Current(c).title /\ new.email = Current(c).email
    BY <1>1, <2>1 DEF IsRow
  <2> QED
    BY <2>2, <2>3, WriteFits
<1>6. CASE RemoveDocument(c)
  <2>1. ~Alone
    BY <1>6 DEF RemoveDocument, Edits, At, ReviewInv, Fits
  <2> QED
    BY <2>1, NotAlone DEF ReviewInv
<1> QED
  BY <1>2, <1>3, <1>4, <1>5, <1>6

\* What is frozen is what the send read.
LEMMA FreezeFits ==
    ASSUME DraftInv, ReviewInv, NEW c \in Calls, Freeze(c), UNCHANGED <<ui, disturbed>> PROVE ReviewInv'
<1>0. PICK o : o = call[c].offer
  OBVIOUS
<1>1. CASE Refused(c)
  BY <1>1, RefusalFits DEF Freeze, Edits
<1>2. CASE ~Alone
  BY <1>2, NotAlone DEF ReviewInv
<1>3. CASE /\ Alone /\ ~snapshot[o].sent /\ row' = [row EXCEPT ![o].status = "SENT"]
           /\ snapshot' = [snapshot EXCEPT ![o] = [sent |-> TRUE, says |-> call[c].seen]]
           /\ Answer(c, "ok") /\ call[c].at = "write" /\ call[c].kind = "send"
  <2>1. /\ Fits(call[c], ui, row, snapshot) /\ Shows(ui, row, snapshot)
        /\ disturbed = {} => Names(call[c], ui, row, snapshot) /\ Named(ui, row, snapshot)
    BY <1>3 DEF ReviewInv
  <2>2. o \in Offer
    BY <1>0, <1>3, <2>1 DEF Fits
  <2>3. row = [p \in Offer |-> row[p]] /\ IsRow(row[o]) /\ snapshot = [p \in Offer |-> snapshot[p]]
    BY <2>2 DEF DraftInv, Shape
  <2>4. PICK new : new = [row[o] EXCEPT !.status = "SENT"]
    OBVIOUS
  <2>5. new.status = "SENT" /\ new.docs = row[o].docs /\ new.title = row[o].title /\ new.email = row[o].email
    BY <2>3, <2>4 DEF IsRow
  <2>6. row'[o] = new /\ \A p \in Offer \ {o} : row'[p] = row[p]
    BY <1>3, <2>2, <2>3, <2>4
  <2>7. /\ snapshot'[o].sent /\ snapshot'[o].says = call[c].seen
        /\ \A p \in Offer \ {o} : snapshot'[p] = snapshot[p]
    BY <1>3, <2>2, <2>3
  <2>8. Grown /\ SameNames
    BY <1>3, <2>5, <2>6, <2>7 DEF Grown, SameNames
  <2>9. /\ \A d \in Calls : d # c => call'[d] = call[d]
        /\ call'[c] = Idle \/ (call[c].by # "nobody" /\ Told(call'[c], call[c], "ok"))
    BY <1>3, Spoken
  <2>10. Fits(call'[c], ui, row', snapshot') /\ (call'[c].by = call[c].by \/ call'[c].by = "nobody")
    <3>1. CASE call'[c] = Idle
      BY <3>1, IdleFits
    <3>2. CASE Told(call'[c], call[c], "ok")
      BY <1>0, <1>3, <2>1, <2>7, <3>2 DEF Fits, Told
    <3> QED
      BY <2>9, <3>1, <3>2
  <2>11. disturbed = {} => Names(call'[c], ui, row', snapshot')
    <3>1. CASE call'[c] = Idle
      BY <3>1, IdleFits
    <3>2. CASE Told(call'[c], call[c], "ok")
      BY <1>0, <1>3, <2>1, <2>7, <3>2 DEF Names, Told
    <3> QED
      BY <2>9, <3>1, <3>2
  <2> QED
    BY <2>8, <2>9, <2>10, <2>11, Served
<1> QED
  BY <1>0, <1>1, <1>2, <1>3 DEF Freeze, Freezes, Frozen, Edits, At

LEMMA ServeFits ==
    ASSUME DraftInv, ReviewInv, NEW c \in Calls, Serve(c), UNCHANGED <<ui, disturbed>> PROVE ReviewInv'
<1>1. CASE Fail(c)
  BY <1>1, FailureFits DEF Fail, At
<1> QED
  BY <1>1, CreateFits, CheckFits, EditsFit, FreezeFits DEF Serve

-----------------------------------------------------------------------------
(* The wizard's steps.                                                     *)

\* What the wizard shows, without its template and its spinner.
SameUi(v, u) ==
    /\ v.draft = u.draft /\ v.title = u.title /\ v.email = u.email /\ v.docs = u.docs
    /\ v.reviewed = u.reviewed /\ v.sent = u.sent

LEMMA ShownAs ==
    ASSUME NEW old, NEW new, IsUi(new), NEW v, v = Shown(old, new)
    PROVE  IsUi(v) /\ SameUi(v, new) /\ v.step = new.step
<1>1. PICK w : w = [new EXCEPT !.uploading = FALSE]
  OBVIOUS
<1>2. IsUi(w) /\ SameUi(w, new) /\ w.step = new.step
  BY <1>1 DEF IsUi, SameUi
<1>3. v = w \/ v = new
  BY <1>1 DEF Shown
<1> QED
  BY <1>2, <1>3 DEF SameUi

\* A call that goes on, is done, or reports to nobody but the list of documents.
Fewer(k, old) ==
    \/ k = old \/ k = Idle
    \/ /\ old.by = "upload" /\ k.by = "detached" /\ k.at = old.at /\ k.kind = old.kind
       /\ k.offer = old.offer /\ k.value = old.value /\ k.seen = old.seen

LEMMA FewerFits ==
    ASSUME NEW k, NEW old, Fewer(k, old), NEW v, NEW u, SameUi(v, u), NEW r, NEW s
    PROVE  /\ Fits(old, u, r, s) => Fits(k, v, r, s)
           /\ Names(old, u, r, s) /\ (v.step = u.step \/ k.by # "wizard") => Names(k, v, r, s)
           /\ k.by = "wizard" => old.by = "wizard"
<1>1. CASE k = Idle
  BY <1>1, IdleFits
<1>2. CASE k = old
  BY <1>2 DEF Fits, Names, SameUi
<1>3. CASE k # old /\ k # Idle
  BY <1>3 DEF Fewer, Fits, Names, SameUi
<1> QED
  BY <1>1, <1>2, <1>3

\* Moving between the steps.
LEMMA MoveFits ==
    ASSUME ReviewInv, Server, disturbed' = disturbed, IsUi(ui'), SameUi(ui', ui),
           \A d \in Calls : Fewer(call'[d], call[d]),
           Alone => /\ ui.draft = NoOffer => ui'.step = 1
                    /\ ui'.step = ui.step \/ \A d \in Calls : call'[d].by # "wizard",
           disturbed = {} => Named(ui', row, snapshot)
    PROVE  ReviewInv'
<1>1. row' = row /\ snapshot' = snapshot
  BY DEF Server
<1>2. ASSUME Alone
      PROVE  (\A d \in Calls : Fits(call'[d], ui', row, snapshot)) /\ OneAwaited' /\ Shows(ui', row, snapshot)
  <2>1. (\A d \in Calls : Fits(call[d], ui, row, snapshot)) /\ OneAwaited /\ Shows(ui, row, snapshot)
    BY <1>2 DEF ReviewInv
  <2>2. ASSUME NEW d \in Calls
        PROVE  Fits(call'[d], ui', row, snapshot) /\ (call'[d].by = "wizard" => call[d].by = "wizard")
    <3>1. Fewer(call'[d], call[d]) /\ Fits(call[d], ui, row, snapshot)
      BY <2>1
    <3> QED
      BY <3>1, FewerFits
  <2>3. OneAwaited'
    BY <2>1, <2>2 DEF OneAwaited, Awaited
  <2>4. Shows(ui', row, snapshot)
    BY <1>2, <2>1 DEF Shows, SameUi
  <2> QED
    BY <2>2, <2>3, <2>4
<1>3. ASSUME disturbed = {} PROVE \A d \in Calls : Names(call'[d], ui', row, snapshot)
  <2> SUFFICES ASSUME NEW d \in Calls PROVE Names(call'[d], ui', row, snapshot)
    OBVIOUS
  <2>1. Fewer(call'[d], call[d]) /\ Names(call[d], ui, row, snapshot)
    BY <1>3 DEF ReviewInv
  <2>2. ui'.step = ui.step \/ call'[d].by # "wizard"
    BY <1>3 DEF Alone
  <2> QED
    BY <2>1, <2>2, FewerFits
<1>4. Alone' = Alone
  BY DEF Alone
<1> QED
  BY <1>1, <1>2, <1>3, <1>4 DEF ReviewInv

\* The calls that are left when one has been heard of, and an upload unmounted.
LEMMA DetachedFewer ==
    ASSUME DraftInv, NEW c, NEW calls, calls = call \/ calls = [call EXCEPT ![c] = Idle],
           call' = Detached(calls)
    PROVE  /\ \A d \in Calls : Fewer(call'[d], call[d])
           /\ \A d \in Calls : call'[d].by = "wizard" => calls[d].by = "wizard"
           /\ calls # call => c \in Calls /\ call'[c] = Idle
<1>1. call = [d \in Calls |-> call[d]] /\ \A d \in Calls : IsCall(call[d])
  BY DEF DraftInv, Shape
<1>2. \A d \in Calls : calls[d] = call[d] \/ calls[d] = Idle
  BY <1>1
<1>3. calls # call => c \in Calls /\ calls[c] = Idle
  BY <1>1
<1>4. ASSUME NEW d \in Calls
      PROVE  /\ Fewer(call'[d], call[d]) /\ (call'[d].by = "wizard" => calls[d].by = "wizard")
             /\ calls[d] = Idle => call'[d] = Idle
  <2>1. PICK k : k = [calls[d] EXCEPT !.by = "detached"]
    OBVIOUS
  <2>2. call'[d] = calls[d] \/ (call'[d] = k /\ calls[d].by = "upload")
    BY <2>1 DEF Detached
  <2>3. Idle.by = "nobody"
    BY DEF Idle
  <2>4. CASE call'[d] = calls[d]
    BY <1>2, <2>4 DEF Fewer
  <2>5. CASE call'[d] = k /\ calls[d].by = "upload"
    <3>1. calls[d] = call[d]
      BY <1>2, <2>3, <2>5
    <3>2. /\ k.by = "detached" /\ k.at = call[d].at /\ k.kind = call[d].kind
          /\ k.offer = call[d].offer /\ k.value = call[d].value /\ k.seen = call[d].seen
      BY <1>1, <2>1, <3>1 DEF IsCall
    <3> QED
      BY <2>3, <2>5, <3>1, <3>2 DEF Fewer
  <2> QED
    BY <2>2, <2>4, <2>5
<1> QED
  BY <1>3, <1>4

LEMMA MovesFit ==
    ASSUME DraftInv, ReviewInv, DocumentDone \/ Back \/ PickTemplate PROVE ReviewInv'
<1>1. Server /\ call' = Detached(call) /\ disturbed' = disturbed
  BY DEF DocumentDone, Back, PickTemplate
<1>2. (\A d \in Calls : Fewer(call'[d], call[d])) /\ \A d \in Calls : call'[d].by = "wizard" => call[d].by = "wizard"
  BY <1>1, DetachedFewer
<1>3. /\ IsUi(ui) /\ (Alone => Shows(ui, row, snapshot))
      /\ disturbed = {} => Alone /\ Named(ui, row, snapshot)
  BY DEF ReviewInv, Alone
<1>4. ASSUME NEW step, GoTo(step), ~Busy, ui.step # 1,
             disturbed = {} => step \in 1..4 /\ (step >= 2 => ui.step >= 2) /\ step # 4 /\ ~ui.sent
      PROVE  ReviewInv'
  <2>1. PICK new : new = [ui EXCEPT !.step = step]
    OBVIOUS
  <2>2. IsUi(new) /\ SameUi(new, ui) /\ new.step = step
    BY <1>3, <2>1 DEF IsUi, SameUi
  <2>3. ui' = Shown(ui, new)
    BY <1>4, <2>1 DEF GoTo
  <2>4. IsUi(ui') /\ SameUi(ui', new) /\ ui'.step = step
    BY <2>2, <2>3, ShownAs
  <2>5. SameUi(ui', ui)
    BY <2>2, <2>4 DEF SameUi
  <2>6. Alone => ui.draft # NoOffer
    BY <1>3, <1>4 DEF Shows
  <2>7. \A d \in Calls : call'[d].by # "wizard"
    BY <1>2, <1>4 DEF Busy, Awaited
  <2>8. disturbed = {} => Named(ui', row, snapshot)
    BY <1>3, <1>4, <2>4, <2>5 DEF Named, SameUi
  <2> QED
    BY <1>1, <1>2, <2>4, <2>5, <2>6, <2>7, <2>8, MoveFits
<1>5. CASE DocumentDone
  <2>1. GoTo(3) /\ ~Busy /\ ui.step = 2 /\ ~ui.sent
    BY <1>5 DEF DocumentDone
  <2> QED
    BY <1>4, <2>1
<1>6. CASE Back
  <2>1. GoTo(ui.step - 1) /\ ~Busy /\ ui.step > 1 /\ ~ui.sent
    BY <1>6 DEF Back
  <2>2. disturbed = {} => ui.step - 1 \in 1..4 /\ (ui.step - 1 >= 2 => ui.step >= 2) /\ ui.step - 1 # 4
    <3>1. disturbed = {} => ui.step \in {2, 3, 4}
      BY <1>3, <2>1 DEF Named
    <3> QED
      BY <3>1
  <2> QED
    BY <1>4, <2>1, <2>2
<1>7. CASE PickTemplate
  <2>1. PICK new : new = [ui EXCEPT !.template = ~ui.template]
    OBVIOUS
  <2>2. IsUi(new) /\ SameUi(new, ui) /\ new.step = ui.step
    BY <1>3, <2>1 DEF IsUi, SameUi
  <2>3. ui' = Shown(ui, new)
    BY <1>7, <2>1 DEF PickTemplate
  <2>4. IsUi(ui') /\ SameUi(ui', new) /\ ui'.step = ui.step
    BY <2>2, <2>3, ShownAs
  <2>5. SameUi(ui', ui)
    BY <2>2, <2>4 DEF SameUi
  <2>6. Alone => (ui.draft = NoOffer => ui'.step = 1)
    BY <1>3, <2>4 DEF Shows
  <2>7. disturbed = {} => Named(ui', row, snapshot)
    BY <1>3, <2>4, <2>5 DEF Named, SameUi
  <2> QED
    BY <1>1, <1>2, <2>4, <2>5, <2>6, <2>7, MoveFits
<1> QED
  BY <1>5, <1>6, <1>7

\* Retyping, with no call in flight unless the name or the address was typed over.
LEMMA TypingFits ==
    ASSUME ReviewInv, TypeName \/ TypeEmail PROVE ReviewInv'
<1>1. call' = call /\ row' = row /\ snapshot' = snapshot /\ ~ui.sent /\ ui.step \in {1, 3}
  BY DEF TypeName, TypeEmail, Server
<1>2. /\ IsUi(ui') /\ ui'.step = ui.step /\ ui'.draft = ui.draft /\ ui'.docs = ui.docs
      /\ ui'.reviewed = ui.reviewed /\ ui'.sent = ui.sent
      /\ ui'.title = ui.title \/ ui.step = 1
  <2>1. IsUi(ui)
    BY DEF ReviewInv
  <2>2. CASE TypeName
    <3>1. PICK t : ui' = [ui EXCEPT !.title = t]
      BY <2>2 DEF TypeName
    <3>2. ui.step = 1
      BY <2>2 DEF TypeName
    <3> QED
      BY <2>1, <3>1, <3>2 DEF IsUi
  <2>3. CASE TypeEmail
    <3>1. PICK e : ui' = [ui EXCEPT !.email = e]
      BY <2>3 DEF TypeEmail
    <3> QED
      BY <2>1, <3>1 DEF IsUi
  <2> QED
    BY <2>2, <2>3
<1>3. disturbed' = disturbed \cup (IF Busy THEN {"typed"} ELSE {})
  BY DEF TypeName, TypeEmail, Note
<1>4. ASSUME Alone'
      PROVE  (\A d \in Calls : Fits(call[d], ui', row, snapshot)) /\ OneAwaited' /\ Shows(ui', row, snapshot)
  <2>1. (\A d \in Calls : Fits(call[d], ui, row, snapshot)) /\ OneAwaited /\ Shows(ui, row, snapshot)
    BY <1>3, <1>4 DEF ReviewInv, Alone
  <2>2. Shows(ui', row, snapshot)
    BY <1>2, <2>1 DEF Shows
  <2>3. OneAwaited'
    BY <1>1, <2>1 DEF OneAwaited, Awaited
  <2>4. \A d \in Calls : Fits(call[d], ui', row, snapshot)
    BY <1>2, <2>1 DEF Fits
  <2> QED
    BY <2>2, <2>3, <2>4
<1>5. ASSUME disturbed' = {}
      PROVE  (\A d \in Calls : Names(call[d], ui', row, snapshot)) /\ Named(ui', row, snapshot)
  <2>1. ~Busy /\ disturbed = {}
    BY <1>3, <1>5
  <2>2. (\A d \in Calls : Names(call[d], ui, row, snapshot)) /\ Named(ui, row, snapshot)
    BY <2>1 DEF ReviewInv
  <2>3. \A d \in Calls : Names(call[d], ui', row, snapshot)
    BY <2>1, <2>2 DEF Names, Busy, Awaited
  <2>4. Named(ui', row, snapshot)
    BY <1>1, <1>2, <2>2 DEF Named
  <2> QED
    BY <2>3, <2>4
<1> QED
  BY <1>1, <1>2, <1>4, <1>5 DEF ReviewInv

\* A new call of the wizard's, or of an upload.
LEMMA AskingFits ==
    ASSUME DraftInv, ReviewInv, Server, NEW c \in Calls, NEW k, call' = [call EXCEPT ![c] = k],
           IsUi(ui'), disturbed \subseteq disturbed', ui'.step = ui.step, ui'.draft = ui.draft,
           ui'.title = ui.title, ui'.email = ui.email, ui'.docs = ui.docs, ui'.sent = ui.sent, ~ui.sent,
           ui'.reviewed = ui.reviewed \/ ~Busy,
           Alone' => Fits(k, ui', row, snapshot) /\ (k.by = "wizard" => ~Busy),
           disturbed' = {} => Names(k, ui', row, snapshot)
    PROVE  ReviewInv'
<1>1. row' = row /\ snapshot' = snapshot
  BY DEF Server
<1>2. call'[c] = k /\ \A d \in Calls : d # c => call'[d] = call[d]
  BY DEF DraftInv, Shape
<1>3. ASSUME Alone'
      PROVE  (\A d \in Calls : Fits(call'[d], ui', row, snapshot)) /\ OneAwaited' /\ Shows(ui', row, snapshot)
  <2>1. (\A d \in Calls : Fits(call[d], ui, row, snapshot)) /\ OneAwaited /\ Shows(ui, row, snapshot)
    BY <1>3 DEF ReviewInv, Alone
  <2>2. Shows(ui', row, snapshot)
    BY <2>1 DEF Shows
  <2>3. OneAwaited'
    BY <1>2, <1>3, <2>1 DEF OneAwaited, Awaited, Busy
  <2>4. ASSUME NEW d \in Calls, d # c PROVE Fits(call'[d], ui', row, snapshot)
    <3>1. Fits(call[d], ui, row, snapshot) /\ call'[d] = call[d]
      BY <1>2, <2>1, <2>4
    <3>2. call[d].by # "wizard" \/ ui'.reviewed = ui.reviewed
      BY DEF Busy, Awaited
    <3> QED
      BY <3>1, <3>2 DEF Fits
  <2> QED
    BY <1>2, <1>3, <2>2, <2>3, <2>4
<1>4. ASSUME disturbed' = {}
      PROVE  (\A d \in Calls : Names(call'[d], ui', row, snapshot)) /\ Named(ui', row, snapshot)
  <2>1. (\A d \in Calls : Names(call[d], ui, row, snapshot)) /\ Named(ui, row, snapshot)
    BY <1>4 DEF ReviewInv
  <2>2. Named(ui', row, snapshot)
    BY <2>1 DEF Named
  <2>3. ASSUME NEW d \in Calls, d # c PROVE Names(call'[d], ui', row, snapshot)
    BY <1>2, <2>1, <2>3 DEF Names
  <2> QED
    BY <1>2, <1>4, <2>2, <2>3
<1> QED
  BY <1>1, <1>3, <1>4 DEF ReviewInv

LEMMA PressFits ==
    ASSUME DraftInv, ReviewInv, NEW c \in Calls, Press(c) PROVE ReviewInv'
<1>1. /\ IsUi(ui) /\ (Alone => Shows(ui, row, snapshot))
      /\ disturbed = {} => Alone /\ Named(ui, row, snapshot)
  BY DEF ReviewInv, Alone
<1>2. Alone => ui.draft \in Offer \cup {NoOffer}
  BY <1>1 DEF Shows
<1>3. ASSUME NEW kind \in {"create", "title", "recipient"}, NEW o, NEW value, NEW template,
             call' = [call EXCEPT ![c] = Asks("wizard", kind, o, value, template)],
             Server, ui' = ui, ~ui.sent, Note(IF Busy THEN {"doubled"} ELSE {}),
             IF kind = "create" THEN ui.draft = NoOffer ELSE o = ui.draft /\ ui.draft # NoOffer,
             IF kind = "recipient" THEN ui.step = 3 /\ value = ui.email ELSE ui.step = 1 /\ value = ui.title
      PROVE  ReviewInv'
  <2>1. PICK k : k = Asks("wizard", kind, o, value, template)
    OBVIOUS
  <2>2. k.at = "arriving" /\ k.by = "wizard" /\ k.kind = kind /\ k.offer = o /\ k.value = value
    BY <2>1 DEF Asks
  <2>3. disturbed' = disturbed \cup (IF Busy THEN {"doubled"} ELSE {})
    BY <1>3 DEF Note
  <2>4. Alone' => Alone /\ ~Busy
    BY <2>3 DEF Alone
  <2>5. Alone' => Fits(k, ui, row, snapshot)
    BY <1>2, <1>3, <2>2, <2>4 DEF Fits
  <2>6. Names(k, ui, row, snapshot)
    BY <1>3, <2>2 DEF Names
  <2>7. call' = [call EXCEPT ![c] = k]
    BY <1>3, <2>1
  <2> QED
    BY <1>1, <1>3, <2>3, <2>4, <2>5, <2>6, <2>7, AskingFits
<1>4. CASE NameDone(c)
  <2>1. /\ ui.step = 1 /\ ~ui.sent /\ ui' = ui /\ Server /\ Note(IF Busy THEN {"doubled"} ELSE {})
    BY <1>4 DEF NameDone
  <2>2. CASE ui.draft = NoOffer
    <3>1. call' = [call EXCEPT ![c] = Asks("wizard", "create", NoOffer, ui.title, ui.template)]
      BY <1>4, <2>2 DEF NameDone, Ask
    <3> QED
      BY <1>3, <2>1, <2>2, <3>1
  <2>3. CASE ui.draft # NoOffer
    <3>1. call' = [call EXCEPT ![c] = Asks("wizard", "title", ui.draft, ui.title, ui.template)]
      BY <1>4, <2>3 DEF NameDone, Ask
    <3> QED
      BY <1>3, <2>1, <2>3, <3>1
  <2> QED
    BY <2>2, <2>3
<1>5. CASE RecipientDone(c)
  <2>1. /\ ui.step = 3 /\ ~ui.sent /\ ui.draft # NoOffer /\ ui' = ui /\ Server
        /\ Note(IF Busy THEN {"doubled"} ELSE {})
        /\ call' = [call EXCEPT ![c] = Asks("wizard", "recipient", ui.draft, ui.email, FALSE)]
    BY <1>5 DEF RecipientDone, Ask, Address
  <2> QED
    BY <1>3, <2>1
<1>6. CASE SendIt(c)
  <2>1. PICK k : k = Asks("wizard", "send", ui.draft, None, FALSE)
    OBVIOUS
  <2>2. k.at = "arriving" /\ k.by = "wizard" /\ k.kind = "send" /\ k.offer = ui.draft
    BY <2>1 DEF Asks
  <2>3. /\ ui.step = 4 /\ ~Busy /\ ~ui.sent /\ disturbed' = disturbed /\ Server
        /\ call' = [call EXCEPT ![c] = k] /\ ui' = [ui EXCEPT !.reviewed = ui.docs]
    BY <1>6, <2>1 DEF SendIt, Ask, Review
  <2>4. /\ IsUi(ui') /\ ui'.step = 4 /\ ui'.draft = ui.draft /\ ui'.title = ui.title /\ ui'.email = ui.email
        /\ ui'.docs = ui.docs /\ ui'.sent = ui.sent /\ ui'.reviewed = ui.docs
    BY <1>1, <2>3 DEF IsUi
  <2>5. Alone => ui.draft \in Offer /\ ui.docs \subseteq row[ui.draft].docs
    BY <1>1, <2>3 DEF Shows
  <2>6. Alone => Fits(k, ui', row, snapshot)
    BY <2>2, <2>3, <2>4, <2>5 DEF Fits
  <2>7. Names(k, ui', row, snapshot)
    BY <2>2, <2>4 DEF Names
  <2>8. Alone' = Alone
    BY <2>3 DEF Alone
  <2> QED
    BY <2>3, <2>4, <2>6, <2>7, <2>8, AskingFits
<1>7. CASE Upload(c)
  <2>1. PICK d : call' = [call EXCEPT ![c] = Asks("upload", "add", ui.draft, d, FALSE)]
    BY <1>7 DEF Upload
  <2>2. PICK k : k = Asks("upload", "add", ui.draft, d, FALSE)
    OBVIOUS
  <2>3. k.at = "arriving" /\ k.by = "upload" /\ k.kind = "add" /\ k.offer = ui.draft
    BY <2>2 DEF Asks
  <2>4. ui.step = 2 /\ ~ui.sent /\ disturbed' = disturbed /\ Server /\ call' = [call EXCEPT ![c] = k]
    BY <1>7, <2>1, <2>2 DEF Upload, Mounted
  <2>5. SameUi(ui', ui) /\ IsUi(ui') /\ ui'.step = ui.step
    <3>1. ui' = [ui EXCEPT !.uploading = TRUE]
      BY <1>7 DEF Upload
    <3> QED
      BY <1>1, <3>1 DEF IsUi, SameUi
  <2>6. Alone => ui.draft \in Offer
    BY <1>1, <2>4 DEF Shows
  <2>7. Alone => Fits(k, ui', row, snapshot)
    BY <2>3, <2>5, <2>6 DEF Fits, SameUi
  <2>8. Names(k, ui', row, snapshot)
    BY <2>3 DEF Names
  <2>9. Alone' = Alone
    BY <2>4 DEF Alone
  <2> QED
    BY <2>3, <2>4, <2>5, <2>7, <2>8, <2>9, AskingFits DEF SameUi
<1> QED
  BY <1>4, <1>5, <1>6, <1>7 DEF Press

\* Calls that are not the wizard's do not care which draft took the place of none.
LEMMA FitsNewDraft ==
    ASSUME NEW k, NEW old, Fewer(k, old), k.by # "wizard", NEW u, NEW r, NEW s, Fits(old, u, r, s),
           NEW v, u.draft = NoOffer \/ v.draft = u.draft
    PROVE  Fits(k, v, r, s)
<1>1. CASE k = Idle
  BY <1>1, IdleFits
<1>2. CASE k # Idle
  BY <1>2, NoOfferIsNone DEF Fewer, Fits
<1> QED
  BY <1>1, <1>2

\* The first step's name was saved: the draft is there, and has it.
LEMMA NameSavedFits ==
    ASSUME DraftInv, ReviewInv, NEW c \in Calls, NameSaved(c) PROVE ReviewInv'
<1>1. PICK o : o = call[c].offer
  OBVIOUS
<1>2. /\ call[c].at = "ok" /\ call[c].by = "wizard" /\ call[c].kind \in {"create", "title"}
      /\ disturbed' = disturbed /\ row' = row /\ snapshot' = snapshot
  BY DEF NameSaved, Answered, At, Server
<1>3. IsUi(ui) /\ call = [d \in Calls |-> call[d]]
  BY DEF ReviewInv, DraftInv, Shape
<1>4. ASSUME Alone
      PROVE  /\ \A d \in Calls : Fits(call[d], ui, row, snapshot) /\ (call[d].by = "wizard" => d = c)
             /\ ui.draft = NoOffer \/ ui.draft = o
             /\ ~ui.sent /\ o \in Offer /\ row[o].status # "absent" /\ ui.docs \subseteq row[o].docs
  <2>1. (\A d \in Calls : Fits(call[d], ui, row, snapshot)) /\ OneAwaited /\ Shows(ui, row, snapshot)
    BY <1>4 DEF ReviewInv
  <2>2. \A d \in Calls : call[d].by = "wizard" => d = c
    BY <1>2, <2>1 DEF OneAwaited, Awaited
  <2>3. Fits(call[c], ui, row, snapshot)
    BY <2>1
  <2>4. /\ ui.draft = NoOffer \/ ui.draft = o
        /\ ~ui.sent /\ o \in Offer /\ row[o].status # "absent" /\ ui.docs \subseteq row[o].docs
    BY <1>1, <1>2, <2>1, <2>3, NoOfferIsNone DEF Fits, Shows
  <2> QED
    BY <2>1, <2>2, <2>4
<1>5. ASSUME disturbed = {} PROVE ui.step = 1 /\ row[o].title = ui.title /\ \A d \in Calls : Names(call[d], ui, row, snapshot)
  <2>1. \A d \in Calls : Names(call[d], ui, row, snapshot)
    BY <1>5 DEF ReviewInv
  <2> QED
    BY <1>1, <1>2, <2>1 DEF Names
<1>6. Alone' = Alone /\ (disturbed = {} => Alone)
  BY <1>2 DEF Alone
\* What is left to show: a wizard in step 1 or 2 that shows the draft o.
<1>7. ASSUME IsUi(ui'), ui'.draft = o, ui'.docs = ui.docs, ui'.title = ui.title, ui'.sent = ui.sent,
             disturbed = {} => ui'.step \in {1, 2},
             \A d \in Calls : d # c => Fewer(call'[d], call[d]) /\ (call'[d].by = "wizard" => call[d].by = "wizard"),
             Alone => Fits(call'[c], ui', row, snapshot), disturbed = {} => Names(call'[c], ui', row, snapshot)
      PROVE  ReviewInv'
  <2>1. ASSUME Alone
        PROVE  (\A d \in Calls : Fits(call'[d], ui', row, snapshot)) /\ OneAwaited' /\ Shows(ui', row, snapshot)
    <3>1. ASSUME NEW d \in Calls, d # c PROVE Fits(call'[d], ui', row, snapshot) /\ call'[d].by # "wizard"
      <4>1. Fewer(call'[d], call[d]) /\ call'[d].by # "wizard" /\ Fits(call[d], ui, row, snapshot)
        BY <1>4, <1>7, <2>1, <3>1
      <4>2. ui.draft = NoOffer \/ ui'.draft = ui.draft
        BY <1>4, <1>7, <2>1
      <4> QED
        BY <4>1, <4>2, FitsNewDraft
    <3>2. OneAwaited'
      BY <3>1 DEF OneAwaited, Awaited
    <3>3. Shows(ui', row, snapshot)
      BY <1>4, <1>7, <2>1, NoOfferIsNone DEF Shows
    <3> QED
      BY <1>7, <2>1, <3>1, <3>2, <3>3
  <2>2. ASSUME disturbed = {}
        PROVE  (\A d \in Calls : Names(call'[d], ui', row, snapshot)) /\ Named(ui', row, snapshot)
    <3>1. ASSUME NEW d \in Calls, d # c PROVE Names(call'[d], ui', row, snapshot)
      <4>1. Fewer(call'[d], call[d]) /\ call'[d].by # "wizard" /\ Names(call[d], ui, row, snapshot)
        BY <1>4, <1>5, <1>6, <1>7, <2>2, <3>1
      <4>2. call'[d].by = "nobody" => call'[d].at = "idle"
        BY <4>1 DEF Fewer, Names, Idle
      <4> QED
        BY <4>1, <4>2 DEF Names
    <3>2. Named(ui', row, snapshot)
      BY <1>4, <1>5, <1>6, <1>7, <2>2 DEF Named
    <3> QED
      BY <1>7, <2>2, <3>1, <3>2
  <2> QED
    BY <1>2, <1>6, <1>7, <2>1, <2>2 DEF ReviewInv
<1>8. CASE call[c].template
  <2>1. PICK k : k = Asks("wizard", "message", o, None, FALSE)
    OBVIOUS
  <2>2. k.at = "arriving" /\ k.by = "wizard" /\ k.kind = "message" /\ k.offer = o
    BY <2>1 DEF Asks
  <2>3. call' = [call EXCEPT ![c] = k] /\ ui' = [ui EXCEPT !.draft = o]
    BY <1>1, <1>8, <2>1 DEF NameSaved
  <2>4. call'[c] = k /\ \A d \in Calls : d # c => call'[d] = call[d]
    BY <1>3, <2>3
  <2>5. /\ IsUi(ui') /\ ui'.draft = o /\ ui'.docs = ui.docs /\ ui'.title = ui.title /\ ui'.sent = ui.sent
        /\ ui'.step = ui.step
    BY <1>3, <2>3 DEF IsUi
  <2>6. Alone => Fits(k, ui', row, snapshot)
    BY <1>4, <2>2, <2>5 DEF Fits
  <2>7. disturbed = {} => Names(k, ui', row, snapshot)
    BY <1>5, <2>2, <2>5 DEF Names
  <2> QED
    BY <1>5, <1>7, <2>4, <2>5, <2>6, <2>7 DEF Fewer
<1>9. CASE ~call[c].template
  <2>1. PICK new : new = [ui EXCEPT !.draft = o, !.step = 2]
    OBVIOUS
  <2>2. /\ IsUi(new) /\ new.draft = o /\ new.docs = ui.docs /\ new.title = ui.title /\ new.sent = ui.sent
        /\ new.step = 2
    BY <1>3, <2>1 DEF IsUi
  <2>3. PICK calls : calls = [call EXCEPT ![c] = Idle]
    OBVIOUS
  <2>4. ui' = Shown(ui, new) /\ call' = Detached(calls)
    BY <1>1, <1>9, <2>1, <2>3 DEF NameSaved
  <2>5. IsUi(ui') /\ SameUi(ui', new) /\ ui'.step = 2
    BY <2>2, <2>4, ShownAs
  <2>6. calls[c] = Idle /\ \A d \in Calls : d # c => calls[d] = call[d]
    BY <1>3, <2>3
  <2>7. calls # call
    BY <1>2, <2>6 DEF Idle
  <2>8. /\ \A d \in Calls : Fewer(call'[d], call[d])
        /\ \A d \in Calls : call'[d].by = "wizard" => calls[d].by = "wizard"
        /\ call'[c] = Idle
    BY <2>3, <2>4, <2>7, DetachedFewer
  <2>9. Fits(call'[c], ui', row, snapshot) /\ Names(call'[c], ui', row, snapshot)
    BY <2>8, IdleFits
  <2>10. ui'.draft = o /\ ui'.docs = ui.docs /\ ui'.title = ui.title /\ ui'.sent = ui.sent
    BY <2>2, <2>5 DEF SameUi
  <2> QED
    BY <1>7, <2>5, <2>6, <2>8, <2>9, <2>10
<1> QED
  BY <1>8, <1>9

\* The answers that let the wizard go on.
LEMMA StepSavedFits ==
    ASSUME DraftInv, ReviewInv, NEW c \in Calls, MessageSaved(c) \/ RecipientSaved(c) PROVE ReviewInv'
<1>1. /\ call[c].at = "ok" /\ call[c].by = "wizard" /\ Server /\ disturbed' = disturbed
      /\ call' = Detached([call EXCEPT ![c] = Idle])
      /\ \/ call[c].kind = "message" /\ GoTo(2)
         \/ call[c].kind = "recipient" /\ GoTo(4)
  BY DEF MessageSaved, RecipientSaved, Answered, At
<1>2. PICK step \in {2, 4} : GoTo(step) /\ call[c].kind = IF step = 2 THEN "message" ELSE "recipient"
  BY <1>1
<1>3. IsUi(ui) /\ call = [d \in Calls |-> call[d]]
  BY DEF ReviewInv, DraftInv, Shape
<1>4. PICK new : new = [ui EXCEPT !.step = step]
  OBVIOUS
<1>5. IsUi(new) /\ SameUi(new, ui) /\ new.step = step
  BY <1>3, <1>4 DEF IsUi, SameUi
<1>6. ui' = Shown(ui, new)
  BY <1>2, <1>4 DEF GoTo
<1>7. IsUi(ui') /\ SameUi(ui', new) /\ ui'.step = step
  BY <1>5, <1>6, ShownAs
<1>8. SameUi(ui', ui)
  BY <1>5, <1>7 DEF SameUi
<1>9. PICK calls : calls = [call EXCEPT ![c] = Idle]
  OBVIOUS
<1>10. calls[c] = Idle /\ \A d \in Calls : d # c => calls[d] = call[d]
  BY <1>3, <1>9
<1>11. (\A d \in Calls : Fewer(call'[d], call[d])) /\ \A d \in Calls : call'[d].by = "wizard" => calls[d].by = "wizard"
  BY <1>1, <1>9, DetachedFewer
<1>12. ASSUME Alone
       PROVE  ui.draft \in Offer /\ ~ui.sent /\ call[c].offer = ui.draft /\ \A d \in Calls : call'[d].by # "wizard"
  <2>1. Fits(call[c], ui, row, snapshot) /\ OneAwaited
    BY <1>12 DEF ReviewInv
  <2>2. \A d \in Calls : call'[d].by = "wizard" => d # c /\ call[d].by = "wizard"
    BY <1>10, <1>11, IdleFits
  <2> QED
    BY <1>1, <1>2, <2>1, <2>2 DEF Fits, OneAwaited, Awaited
<1>13. ASSUME disturbed = {} PROVE Named(ui', row, snapshot)
  <2>1. Names(call[c], ui, row, snapshot) /\ Named(ui, row, snapshot) /\ Alone
    BY <1>13 DEF ReviewInv, Alone
  <2>2. CASE step = 2
    BY <1>2, <1>1, <1>7, <1>8, <1>12, <2>1, <2>2 DEF Names, Named, SameUi
  <2>3. CASE step = 4
    BY <1>2, <1>1, <1>7, <1>8, <1>12, <2>1, <2>3 DEF Names, Named, SameUi
  <2> QED
    BY <1>2, <2>2, <2>3
<1>14. Alone => ui.draft # NoOffer
  BY <1>12, NoOfferIsNone
<1> QED
  BY <1>1, <1>7, <1>8, <1>11, <1>12, <1>13, <1>14, MoveFits

\* The send's answer: what the review listed is in the snapshot.
LEMMA SentFits ==
    ASSUME DraftInv, ReviewInv, NEW c \in Calls, Sent(c) PROVE ReviewInv'
<1>1. /\ call[c].at = "ok" /\ call[c].by = "wizard" /\ call[c].kind = "send" /\ disturbed' = disturbed
      /\ ui' = [ui EXCEPT !.sent = TRUE] /\ call' = [call EXCEPT ![c] = Idle]
      /\ row' = row /\ snapshot' = snapshot
  BY DEF Sent, Answered, At, Settle, Server
<1>2. IsUi(ui) /\ call'[c] = Idle /\ \A d \in Calls : d # c => call'[d] = call[d]
  BY <1>1 DEF ReviewInv, DraftInv, Shape
<1>3. /\ IsUi(ui') /\ ui'.step = ui.step /\ ui'.draft = ui.draft /\ ui'.title = ui.title /\ ui'.email = ui.email
      /\ ui'.docs = ui.docs /\ ui'.reviewed = ui.reviewed /\ ui'.sent
  BY <1>1, <1>2 DEF IsUi
<1>4. ASSUME Alone
      PROVE  /\ (\A d \in Calls : Fits(call'[d], ui', row, snapshot)) /\ OneAwaited' /\ Shows(ui', row, snapshot)
             /\ call[c].offer = ui.draft /\ \A d \in Calls : call'[d].by # "wizard"
  <2>1. (\A d \in Calls : Fits(call[d], ui, row, snapshot)) /\ OneAwaited /\ Shows(ui, row, snapshot)
    BY <1>4 DEF ReviewInv
  <2>2. ASSUME NEW d \in Calls PROVE Fits(call'[d], ui', row, snapshot) /\ call'[d].by # "wizard"
    <3>1. CASE d = c
      BY <1>2, <3>1, IdleFits
    <3>2. CASE d # c
      <4>1. call[d].by # "wizard" /\ Fits(call[d], ui, row, snapshot)
        BY <1>1, <2>1, <3>2 DEF OneAwaited, Awaited
      <4> QED
        BY <1>2, <1>3, <3>2, <4>1 DEF Fits
    <3> QED
      BY <3>1, <3>2
  <2>3. Fits(call[c], ui, row, snapshot)
    BY <2>1
  <2>4. Shows(ui', row, snapshot) /\ call[c].offer = ui.draft
    BY <1>1, <1>3, <2>1, <2>3, NoOfferIsNone DEF Fits, Shows
  <2>5. OneAwaited'
    BY <2>2 DEF OneAwaited, Awaited
  <2> QED
    BY <2>2, <2>4, <2>5
<1>5. ASSUME disturbed = {}
      PROVE  (\A d \in Calls : Names(call'[d], ui', row, snapshot)) /\ Named(ui', row, snapshot)
  <2>1. (\A d \in Calls : Names(call[d], ui, row, snapshot)) /\ Named(ui, row, snapshot) /\ Alone
    BY <1>5 DEF ReviewInv, Alone
  <2>2. Names(call[c], ui, row, snapshot) /\ call[c].offer = ui.draft
    BY <1>4, <2>1
  <2>3. Named(ui', row, snapshot)
    BY <1>1, <1>3, <2>1, <2>2 DEF Names, Named
  <2>4. \A d \in Calls : Names(call'[d], ui', row, snapshot)
    <3> SUFFICES ASSUME NEW d \in Calls PROVE Names(call'[d], ui', row, snapshot)
      OBVIOUS
    <3>1. Names(call[d], ui, row, snapshot) /\ call'[d].by # "wizard"
      BY <1>4, <2>1
    <3> QED
      BY <1>2, <3>1, IdleFits DEF Names
  <2> QED
    BY <2>3, <2>4
<1>6. Alone' = Alone
  BY <1>1 DEF Alone
<1> QED
  BY <1>1, <1>3, <1>4, <1>5, <1>6 DEF ReviewInv

LEMMA FailedFits ==
    ASSUME DraftInv, ReviewInv, NEW c \in Calls, Failed(c) PROVE ReviewInv'
<1>1. Server /\ ui' = ui /\ disturbed' = disturbed /\ call' = [call EXCEPT ![c] = Idle]
  BY DEF Failed, Settle
<1>2. \A d \in Calls : Fewer(call'[d], call[d])
  BY <1>1 DEF Fewer, DraftInv, Shape
<1>3. /\ IsUi(ui) /\ SameUi(ui', ui) /\ (Alone => Shows(ui, row, snapshot))
      /\ disturbed = {} => Named(ui, row, snapshot)
  BY <1>1 DEF ReviewInv, SameUi
<1>4. Alone => (ui.draft = NoOffer => ui'.step = 1)
  BY <1>1, <1>3 DEF Shows
<1> QED
  BY <1>1, <1>2, <1>3, <1>4, MoveFits

\* An upload's answer: the wizard lists the document the draft has.
LEMMA UploadedFits ==
    ASSUME DraftInv, ReviewInv, NEW c \in Calls, Uploaded(c) PROVE ReviewInv'
<1>1. /\ call[c].by \in {"upload", "detached"} /\ disturbed' = disturbed
      /\ call' = [call EXCEPT ![c] = Idle] /\ row' = row /\ snapshot' = snapshot
  BY DEF Uploaded, Settle, Server
<1>2. /\ IsUi(ui) /\ call'[c] = Idle /\ \A d \in Calls : d # c => call'[d] = call[d]
      /\ \A d \in Calls : Fewer(call'[d], call[d])
  BY <1>1 DEF ReviewInv, DraftInv, Shape, Fewer
<1>3. PICK docs, busy :
         /\ ui' = [ui EXCEPT !.docs = docs, !.uploading = busy]
         /\ docs = IF call[c].at = "ok" THEN ui.docs \cup {call[c].value} ELSE ui.docs
  BY DEF Uploaded, At
<1>4. /\ IsUi(ui') /\ ui'.step = ui.step /\ ui'.draft = ui.draft /\ ui'.title = ui.title /\ ui'.email = ui.email
      /\ ui'.docs = docs /\ ui'.reviewed = ui.reviewed /\ ui'.sent = ui.sent
  BY <1>2, <1>3 DEF IsUi
<1>5. ASSUME Alone
      PROVE  (\A d \in Calls : Fits(call'[d], ui', row, snapshot)) /\ OneAwaited' /\ Shows(ui', row, snapshot)
  <2>1. (\A d \in Calls : Fits(call[d], ui, row, snapshot)) /\ OneAwaited /\ Shows(ui, row, snapshot)
    BY <1>5 DEF ReviewInv
  <2>2. ASSUME NEW d \in Calls PROVE Fits(call'[d], ui', row, snapshot)
    <3>1. CASE d = c
      BY <1>2, <3>1, IdleFits
    <3>2. CASE d # c
      <4>1. Fits(call[d], ui, row, snapshot) /\ call'[d] = call[d]
        BY <1>2, <2>1, <3>2
      <4> QED
        BY <1>4, <4>1 DEF Fits
    <3> QED
      BY <3>1, <3>2
  <2>3. \A d \in Calls : call'[d].by = "wizard" => call[d].by = "wizard"
    BY <1>2, IdleFits
  <2>4. OneAwaited'
    BY <2>1, <2>3 DEF OneAwaited, Awaited
  <2>5. /\ ui.draft \in Offer /\ call[c].offer = ui.draft
        /\ call[c].at = "ok" => call[c].value \in row[ui.draft].docs
    <3>1. Fits(call[c], ui, row, snapshot)
      BY <2>1
    <3> QED
      BY <1>1, <3>1 DEF Fits
  <2>6. Shows(ui', row, snapshot)
    BY <1>3, <1>4, <2>1, <2>5, NoOfferIsNone DEF Shows
  <2> QED
    BY <2>2, <2>4, <2>6
<1>6. ASSUME disturbed = {}
      PROVE  (\A d \in Calls : Names(call'[d], ui', row, snapshot)) /\ Named(ui', row, snapshot)
  <2>1. (\A d \in Calls : Names(call[d], ui, row, snapshot)) /\ Named(ui, row, snapshot)
    BY <1>6 DEF ReviewInv
  <2>2. ASSUME NEW d \in Calls PROVE Names(call'[d], ui', row, snapshot)
    <3>1. CASE d = c
      BY <1>2, <3>1, IdleFits
    <3>2. CASE d # c
      <4>1. Names(call[d], ui, row, snapshot) /\ call'[d] = call[d]
        BY <1>2, <2>1, <3>2
      <4> QED
        BY <1>4, <4>1 DEF Names
    <3> QED
      BY <3>1, <3>2
  <2>3. Named(ui', row, snapshot)
    BY <1>4, <2>1 DEF Named
  <2> QED
    BY <2>2, <2>3
<1>7. Alone' = Alone
  BY <1>1 DEF Alone
<1> QED
  BY <1>1, <1>4, <1>5, <1>6, <1>7 DEF ReviewInv

\* After thirty seconds nobody waits; what the call may still do, it does.
LEMMA TimeOutFits ==
    ASSUME DraftInv, ReviewInv, NEW c \in Calls, TimeOut(c) PROVE ReviewInv'
<1>1. /\ call[c].by = "wizard" /\ disturbed' = disturbed \cup {"abandoned"}
      /\ ui' = ui /\ row' = row /\ snapshot' = snapshot
  BY DEF TimeOut, Note, Awaited, Server
<1>2. PICK k : k = [call[c] EXCEPT !.by = "nobody"]
  OBVIOUS
<1>3. call = [d \in Calls |-> call[d]] /\ IsCall(call[c])
  BY DEF DraftInv, Shape
<1>4. k.by = "nobody" /\ k.at = call[c].at /\ k.kind = call[c].kind /\ k.offer = call[c].offer
  BY <1>2, <1>3 DEF IsCall
<1>5. call' = [call EXCEPT ![c] = Idle] \/ call' = [call EXCEPT ![c] = k]
  BY <1>2 DEF TimeOut, Settle
<1>6. (\A d \in Calls : d # c => call'[d] = call[d]) /\ (call'[c] = Idle \/ call'[c] = k)
  BY <1>3, <1>5
<1>7. ASSUME Alone'
      PROVE  (\A d \in Calls : Fits(call'[d], ui, row, snapshot)) /\ OneAwaited' /\ Shows(ui, row, snapshot)
  <2>1. (\A d \in Calls : Fits(call[d], ui, row, snapshot)) /\ OneAwaited /\ Shows(ui, row, snapshot)
    BY <1>1, <1>7 DEF ReviewInv, Alone
  <2>2. Fits(k, ui, row, snapshot)
    <3>1. Fits(call[c], ui, row, snapshot)
      BY <2>1
    <3> QED
      BY <1>4, <3>1 DEF Fits
  <2>3. \A d \in Calls : Fits(call'[d], ui, row, snapshot)
    BY <1>6, <2>1, <2>2, IdleFits
  <2>4. \A d \in Calls : call'[d].by = "wizard" => call[d].by = "wizard"
    BY <1>4, <1>6, IdleFits
  <2>5. OneAwaited'
    BY <2>1, <2>4 DEF OneAwaited, Awaited
  <2> QED
    BY <2>1, <2>3, <2>5
<1>8. disturbed' # {}
  BY <1>1
<1> QED
  BY <1>1, <1>7, <1>8 DEF ReviewInv

LEMMA OtherFits ==
    ASSUME ReviewInv, NEW c \in Calls, OtherAsk(c) PROVE ReviewInv'
<1>1. disturbed' = disturbed \cup {"foreign"} /\ ui' = ui
  BY DEF OtherAsk, Note
<1>2. ~Alone' /\ disturbed' # {}
  BY <1>1 DEF Alone
<1> QED
  BY <1>1, <1>2 DEF ReviewInv

LEMMA StepFits == ASSUME DraftInv, ReviewInv, [Next]_vars PROVE ReviewInv'
<1>1. CASE TypeName \/ TypeEmail \/ DocumentDone \/ Back \/ PickTemplate
  BY <1>1, TypingFits, MovesFit
<1>2. ASSUME NEW c \in Calls, Press(c) \/ Hear(c) \/ OtherAsk(c) PROVE ReviewInv'
  BY <1>2, PressFits, NameSavedFits, StepSavedFits, SentFits, FailedFits, UploadedFits, TimeOutFits, OtherFits
     DEF Hear
<1>3. ASSUME NEW c \in Calls, Serve(c), UNCHANGED <<ui, disturbed>> PROVE ReviewInv'
  BY <1>3, ServeFits
<1>4. CASE UNCHANGED vars
  BY <1>4 DEF vars, draftVars, ReviewInv, OneAwaited, Awaited, Alone
<1> QED
  BY <1>1, <1>2, <1>3, <1>4 DEF Next

LEMMA ReviewFirst == Init => ReviewInv
<1> SUFFICES ASSUME Init PROVE ReviewInv
  OBVIOUS
<1>1. /\ IsUi(ui) /\ ui.step = 1 /\ ui.draft = NoOffer /\ ui.docs = {} /\ ~ui.sent
      /\ \A c \in Calls : call[c] = Idle
  BY DEF Init, IsUi, DraftInit
<1>2. \A c \in Calls : Fits(call[c], ui, row, snapshot) /\ Names(call[c], ui, row, snapshot) /\ call[c].by = "nobody"
  BY <1>1, IdleFits
<1>3. OneAwaited /\ Shows(ui, row, snapshot) /\ Named(ui, row, snapshot)
  BY <1>1, <1>2 DEF OneAwaited, Awaited, Shows, Named
<1> QED
  BY <1>1, <1>2, <1>3 DEF ReviewInv

\* What the review step showed is what was frozen and where the link went: the
\* documents whatever was retyped or timed out, the name and the address while
\* nothing of the sort happened (NewDealPage and FileUploadFlow, whose answers
\* come late, and SendOfferService.send, which reads before it freezes).
THEOREM ReviewedIsAlwaysSent == Spec => []ReviewedIsSent
<1>1. DraftInv /\ ReviewInv /\ [Next]_vars => ReviewInv'
  BY StepFits
<1>2. ReviewInv => ReviewedIsSent
  BY DEF ReviewInv, Alone, Shows, Named, ReviewedIsSent, Review
<1> QED
  BY <1>1, <1>2, ReviewFirst, Invariant, PTL DEF Spec

-----------------------------------------------------------------------------
(* The event log of a deal (DealLog).                                      *)

Logged     == [type : Type, seq : Nat \ {0}, prev : Type \cup {Nothing}, at : Nat]
Writing == [type : Type, tail : [seq : Nat, type : Type \cup {Nothing}]]
Ending  == {"deal_accepted", "deal_declined", "deal_expired", "deal_revoked"}

LogTypeOK ==
    /\ begun \subseteq Type
    /\ writing \subseteq Writing
    /\ hot \subseteq Logged /\ cold \subseteq Logged
    /\ sweep \in [Sweepers -> SUBSET (hot \cup cold)]
    /\ disturbances \in Nat
    /\ IsFiniteSet(failed) /\ Cardinality(failed) <= disturbances

\* Every event emitted is in one place.
Placed(type) ==
    \/ type \in waiting \cup failed
    \/ \E w \in writing : w.type = type
    \/ \E e \in hot \cup cold : e.type = type

OnePlace ==
    /\ waiting \cup failed \subseteq begun
    /\ \A type \in begun : Placed(type)
    /\ waiting \cap failed = {}
    /\ \A w \in writing : w.type \in begun /\ w.type \notin waiting \cup failed
    /\ \A e \in hot \cup cold :
          /\ e.type \in begun /\ e.type \notin waiting \cup failed
          /\ \A w \in writing : w.type # e.type
          /\ \A d \in hot \cup cold : d.type = e.type => d = e
    /\ hot \cap cold = {}

\* The lock leaves one writer, and nothing newer than the tail it read.
OneWriter ==
    /\ \A v, w \in writing : v = w
    /\ \A w \in writing : \A e \in hot : e.seq <= w.tail.seq

\* Which events the course of the offer leaves to emit.
Course ==
    /\ status = "NONE" => begun = {}
    /\ status = "DRAFT" => begun \subseteq {"deal_created"}
    /\ status \in {"NONE", "DRAFT"} => ending = {}
    /\ status = "SENT" => begun \cap Ending = {}
    /\ status = "ACCEPTED" => "deal_accepted" \in begun /\ begun \cap {"deal_declined", "deal_expired", "deal_revoked"} = {}
    /\ status = "DECLINED" => "deal_declined" \in begun /\ begun \cap {"deal_expired", "deal_revoked"} = {}
    /\ status = "EXPIRED" => "deal_expired" \in begun
    /\ status = "REVOKED" => "deal_revoked" \in begun

\* The chain, as long as nothing is archived: every row and every emit in its
\* transaction hangs on the row one number before.
HangsOn(seq, type) == IF seq = 0 THEN type = Nothing ELSE \E d \in hot : d.seq = seq /\ d.type = type

Hanging ==
    /\ \E bound \in Nat : \A e \in hot : e.seq <= bound
    /\ \A d, e \in hot : d.seq = e.seq \/ d.at = e.at => d = e
    /\ \A e \in hot : e.at <= 2 * e.seq
    /\ cold = {} => /\ \A e \in hot : HangsOn(e.seq - 1, e.prev)
                    /\ \A w \in writing : HangsOn(w.tail.seq, w.tail.type)

LogInv == LogTypeOK /\ OnePlace /\ OneWriter /\ Course /\ Hanging

LEMMA GreatestNumber ==
    ASSUME NEW T, T \subseteq Nat, T # {}, NEW bound \in Nat, \A n \in T : n <= bound
    PROVE  \E m \in T : \A n \in T : n <= m
<1> DEFINE U == {bound - n : n \in T}
<1>1. U \subseteq Nat /\ U # {}
  <2>1. \A n \in T : bound - n \in Nat
    OBVIOUS
  <2>2. PICK n : n \in T
    OBVIOUS
  <2>3. bound - n \in U
    BY <2>2
  <2> QED
    BY <2>1, <2>3
<1>2. PICK u \in U : \A v \in U : ~(<<v, u>> \in OpToRel(<, Nat))
  BY <1>1, NatLessThanWellFounded, WFMin
<1>3. \A v \in U : ~(v < u)
  BY <1>1, <1>2 DEF OpToRel
<1>4. PICK m \in T : u = bound - m
  OBVIOUS
<1>5. ASSUME NEW n \in T PROVE n <= m
  <2>1. bound - n \in U
    OBVIOUS
  <2>2. ~(bound - n < u)
    BY <1>3, <2>1
  <2> QED
    BY <1>4, <2>2
<1> QED
  BY <1>5

\* findFirst by descending sequenceNumber.
LEMMA NewestFacts ==
    ASSUME hot \subseteq Logged, Hanging
    PROVE  /\ Newest \in [seq : Nat, type : Type \cup {Nothing}]
           /\ \A e \in hot : e.seq <= Newest.seq
           /\ HangsOn(Newest.seq, Newest.type)
<1>1. CASE hot = {}
  BY <1>1 DEF Newest, HangsOn
<1>2. CASE hot # {}
  <2> DEFINE last == CHOOSE e \in hot : \A d \in hot : d.seq <= e.seq
             T == {e.seq : e \in hot}
  <2>1. PICK bound \in Nat : \A e \in hot : e.seq <= bound
    BY DEF Hanging
  <2>2. T \subseteq Nat /\ T # {} /\ \A n \in T : n <= bound
    BY <1>2, <2>1 DEF Logged
  <2>3. PICK m \in T : \A n \in T : n <= m
    BY <2>2, GreatestNumber
  <2>4. \E e \in hot : \A d \in hot : d.seq <= e.seq
    BY <2>3
  <2>5. last \in hot /\ \A d \in hot : d.seq <= last.seq
    BY <2>4
  <2>6. Newest = [seq |-> last.seq, type |-> last.type]
    BY <1>2 DEF Newest
  <2> HIDE DEF last
  <2> QED
    BY <2>5, <2>6 DEF Logged, HangsOn
<1> QED
  BY <1>1, <1>2

LEMMA LogFirst == LogInit => LogInv
<1> SUFFICES ASSUME LogInit PROVE LogInv
  OBVIOUS
<1>1. LogTypeOK
  BY FS_EmptySet DEF LogInit, LogTypeOK
<1>2. OnePlace /\ OneWriter /\ Course
  BY DEF LogInit, OnePlace, OneWriter, Course
<1>3. Hanging
  BY DEF LogInit, Hanging
<1> QED
  BY <1>1, <1>2, <1>3 DEF LogInv

\* An event is emitted for the first time, or nothing is.
LEMMA EmitKeeps ==
    ASSUME LogInv, NEW type \in Type,
           \/ type \notin begun /\ Emit(type)
           \/ UNCHANGED <<begun, waiting>>,
           LogUnchanged, Course'
    PROVE  LogInv'
<1> USE DEF LogInv, LogUnchanged
<1>1. UNCHANGED <<writing, failed, hot, cold, sweep, sweeps, disturbances>>
  OBVIOUS
<1>2. LogTypeOK'
  BY <1>1 DEF LogTypeOK, Emit
<1>3. OnePlace'
  BY <1>1 DEF OnePlace, Placed, Emit
<1>4. OneWriter' /\ Hanging'
  BY <1>1 DEF OneWriter, Hanging, HangsOn
<1> QED
  BY <1>2, <1>3, <1>4

\* The offer's own steps, of which each emits its event once.
LEMMA OfferKeeps == ASSUME LogInv, OfferStep PROVE LogInv'
<1> USE DEF LogInv, OnePlace
<1>1. CASE CreateOffer
  <2>1. Goes("NONE", "DRAFT", "deal_created")
    BY <1>1 DEF CreateOffer
  <2>2. "deal_created" \notin begun /\ Course'
    BY <2>1 DEF Goes, Emit, Course
  <2> QED
    BY <2>1, <2>2, EmitKeeps DEF Goes, Type
<1>2. CASE SendOffer
  <2>1. CASE Goes("DRAFT", "SENT", "deal_sent")
    <3>1. "deal_sent" \notin begun /\ Course'
      BY <2>1 DEF Goes, Emit, Course, Ending
    <3> QED
      BY <2>1, <3>1, EmitKeeps DEF Goes, Type
  <2>2. CASE SendUndelivered
    <3>1. Course' /\ UNCHANGED <<begun, waiting>> /\ LogUnchanged
      BY <2>2 DEF SendUndelivered, Course, Ending
    <3> QED
      BY <3>1, EmitKeeps DEF Type
  <2> QED
    BY <1>2, <2>1, <2>2 DEF SendOffer
<1>3. ASSUME NEW type \in Type \ Ending, Notes("SENT", type) PROVE LogInv'
  <2>1. Course'
    BY <1>3 DEF Notes, Emit, Course, Ending
  <2> QED
    BY <1>3, <2>1, EmitKeeps DEF Notes
<1>4. CASE Open \/ VerifyOtp \/ Remind
  BY <1>3, <1>4 DEF Open, VerifyOtp, Remind, Type, Ending
<1>5. ASSUME NEW to, NEW type,
             \/ to = "ACCEPTED" /\ type = "deal_accepted"
             \/ to = "DECLINED" /\ type = "deal_declined",
             Goes("SENT", to, type)
      PROVE  LogInv'
  <2>1. type \notin begun /\ Course'
    BY <1>5 DEF Goes, Emit, Course, Ending
  <2> QED
    BY <1>5, <2>1, EmitKeeps DEF Goes, Type
<1>6. CASE IssueCertificate
  <2>1. Course'
    BY <1>6 DEF IssueCertificate, Emit, Course, Ending
  <2> QED
    BY <1>6, <2>1, EmitKeeps DEF IssueCertificate, Type
<1>7. ASSUME NEW to, FindEnding(to) PROVE LogInv'
  <2>1. Course'
    BY <1>7 DEF FindEnding, Course
  <2> QED
    BY <1>7, <2>1, EmitKeeps DEF FindEnding, Type
<1>8. ASSUME NEW to, NEW type,
             \/ to = "REVOKED" /\ type = "deal_revoked"
             \/ to = "EXPIRED" /\ type = "deal_expired",
             CommitEnding(to, type)
      PROVE  LogInv'
  <2>1. Course'
    BY <1>8 DEF CommitEnding, Emit, Course
  <2> QED
    BY <1>8, <2>1, EmitKeeps DEF CommitEnding, Type
<1> QED
  BY <1>1, <1>2, <1>4, <1>5, <1>6, <1>7, <1>8 DEF OfferStep, Accept, Decline

\* Course is about the offer, which no emit in flight and no sweep touches.
LEMMA CourseKept == LogInv /\ OfferUnchanged => Course'
BY DEF LogInv, OfferUnchanged, Course

LEMMA ReadTailKeeps == ASSUME LogInv, NEW type \in Type, ReadTail(type) PROVE LogInv'
<1> USE DEF LogInv
<1> DEFINE w == [type |-> type, tail |-> Newest]
<1>1. /\ type \in waiting /\ writing = {}
      /\ waiting' = waiting \ {type} /\ writing' = {w}
      /\ UNCHANGED <<status, ending, begun, failed, hot, cold, sweep, sweeps, disturbances>>
  BY DEF ReadTail, Unlocked, OfferUnchanged
<1>2. /\ w \in Writing /\ w.type = type
      /\ \A e \in hot : e.seq <= w.tail.seq
      /\ HangsOn(w.tail.seq, w.tail.type)
  BY NewestFacts DEF LogTypeOK, Writing
<1> HIDE DEF w
<1>3. LogTypeOK'
  BY <1>1, <1>2 DEF LogTypeOK
<1>4. OnePlace'
  BY <1>1, <1>2 DEF OnePlace, Placed
<1>5. OneWriter'
  BY <1>1, <1>2 DEF OneWriter
<1>6. Hanging'
  BY <1>1, <1>2 DEF Hanging, HangsOn
<1> QED
  BY <1>3, <1>4, <1>5, <1>6, CourseKept DEF ReadTail

\* A row lands: it is the newest of the hot ones.
LEMMA LandingKeeps ==
    ASSUME LogInv, NEW w \in writing, NEW at \in Nat,
           \A e \in hot : e.at # at, at <= OnTime(w),
           hot' = hot \cup {Chained(w, at)}, writing' = writing \ {w},
           disturbances' \in {disturbances, disturbances + 1},
           UNCHANGED <<status, ending, begun, waiting, failed, cold, sweep>>
    PROVE  LogInv'
<1> USE DEF LogInv
<1> DEFINE entry == Chained(w, at)
<1>1. w \in Writing /\ w.type \in Type /\ w.tail.seq \in Nat /\ w.tail.type \in Type \cup {Nothing}
  BY DEF LogTypeOK, Writing
<1>2. /\ entry \in Logged /\ entry.type = w.type /\ entry.seq = w.tail.seq + 1
      /\ entry.prev = w.tail.type /\ entry.at = at /\ at <= 2 * entry.seq
  BY <1>1 DEF Chained, Logged, OnTime
<1>3. writing' = {}
  BY DEF OneWriter
<1>4. /\ hot' = hot \cup {entry} /\ hot \subseteq Logged /\ cold \subseteq Logged /\ cold' = cold
      /\ \A e \in hot : e.seq < entry.seq
  <2>1. \A e \in hot : e.seq <= w.tail.seq /\ e.seq \in Nat
    BY DEF OneWriter, LogTypeOK, Logged
  <2> QED
    BY <1>1, <1>2, <2>1 DEF LogTypeOK
<1> HIDE DEF entry
<1>5. LogTypeOK'
  <2>1. Cardinality(failed) \in Nat
    BY FS_CardinalityType DEF LogTypeOK
  <2>2. disturbances' \in Nat /\ Cardinality(failed) <= disturbances'
    BY <2>1 DEF LogTypeOK
  <2>3. sweep' \in [Sweepers -> SUBSET (hot' \cup cold')]
    BY <1>4 DEF LogTypeOK
  <2> QED
    BY <1>2, <1>3, <1>4, <2>2, <2>3 DEF LogTypeOK
<1>6. OnePlace'
  <2>1. \A e \in hot \cup cold : e.type # w.type
    BY DEF OnePlace
  <2>2. entry \notin hot \cup cold
    BY <1>2, <2>1
  <2>3. w.type \in begun /\ w.type \notin waiting \cup failed
    BY DEF OnePlace
  <2>4. \A type \in begun : Placed(type)'
    <3>1. ASSUME NEW type \in begun PROVE Placed(type)'
      <4>1. CASE type = w.type
        BY <1>2, <1>4, <4>1 DEF Placed
      <4>2. CASE type # w.type
        BY <1>4, <4>2 DEF OnePlace, Placed, OneWriter
      <4> QED
        BY <4>1, <4>2
    <3> QED
      BY <3>1
  <2> QED
    BY <1>2, <1>3, <1>4, <2>1, <2>2, <2>3, <2>4 DEF OnePlace
<1>7. OneWriter'
  BY <1>3 DEF OneWriter
<1>8. Hanging'
  <2>1. \E bound \in Nat : \A e \in hot' : e.seq <= bound
    <3>1. \A e \in hot' : e.seq <= entry.seq
      BY <1>2, <1>4 DEF Logged
    <3> QED
      BY <1>1, <1>2, <3>1
  <2>2. \A d, e \in hot' : d.seq = e.seq \/ d.at = e.at => d = e
    <3>1. \A e \in hot : e.seq # entry.seq /\ e.at # entry.at
      BY <1>2, <1>4 DEF Logged
    <3> QED
      BY <1>4, <3>1 DEF Hanging
  <2>3. \A e \in hot' : e.at <= 2 * e.seq
    BY <1>2, <1>4 DEF Hanging
  <2>4. ASSUME cold = {}, NEW e \in hot' PROVE HangsOn(e.seq - 1, e.prev)'
    <3>1. CASE e \in hot
      <4>1. HangsOn(e.seq - 1, e.prev)
        BY <2>4, <3>1 DEF Hanging
      <4> QED
        BY <1>4, <4>1 DEF HangsOn
    <3>2. CASE e = entry
      <4>1. HangsOn(w.tail.seq, w.tail.type)
        BY <2>4 DEF Hanging
      <4>2. e.seq - 1 = w.tail.seq /\ e.prev = w.tail.type
        BY <1>1, <1>2, <3>2
      <4> QED
        BY <1>4, <4>1, <4>2 DEF HangsOn
    <3> QED
      BY <1>4, <3>1, <3>2
  <2> QED
    BY <1>3, <1>4, <2>1, <2>2, <2>3, <2>4 DEF Hanging
<1> QED
  BY <1>5, <1>6, <1>7, <1>8, CourseKept DEF OfferUnchanged

LEMMA WriteKeeps == ASSUME LogInv, NEW w \in writing, WriteEvent(w) PROVE LogInv'
<1>1. /\ w.tail.seq \in Nat
      /\ \A e \in hot : e.seq <= w.tail.seq /\ e.seq \in Nat /\ e.at \in Nat /\ e.at <= 2 * e.seq
  BY DEF LogInv, LogTypeOK, Writing, Logged, OneWriter, Hanging
<1>2. ~\E e \in hot : e.seq = w.tail.seq + 1
  BY <1>1
<1>3. /\ UNCHANGED <<status, ending, begun, waiting, failed, cold, sweep>>
      /\ writing' = writing \ {w}
      /\ \/ hot' = hot \cup {Chained(w, OnTime(w))} /\ UNCHANGED disturbances
         \/ /\ \E n \in 1..w.tail.seq :
                  /\ \A e \in hot : e.at # 2 * n - 1
                  /\ hot' = hot \cup {Chained(w, 2 * n - 1)}
            /\ disturbances' = disturbances + 1
  BY <1>2 DEF WriteEvent, OfferUnchanged
<1>4. PICK at \in Nat :
         /\ \A e \in hot : e.at # at
         /\ at <= OnTime(w)
         /\ hot' = hot \cup {Chained(w, at)}
         /\ disturbances' \in {disturbances, disturbances + 1}
  <2>1. CASE hot' = hot \cup {Chained(w, OnTime(w))} /\ UNCHANGED disturbances
    <3>1. OnTime(w) \in Nat /\ \A e \in hot : e.at # OnTime(w)
      BY <1>1 DEF OnTime
    <3> QED
      BY <2>1, <3>1
  <2>2. ASSUME NEW n \in 1..w.tail.seq,
               \A e \in hot : e.at # 2 * n - 1,
               hot' = hot \cup {Chained(w, 2 * n - 1)},
               disturbances' = disturbances + 1
        PROVE  \E at \in Nat :
                  /\ \A e \in hot : e.at # at
                  /\ at <= OnTime(w)
                  /\ hot' = hot \cup {Chained(w, at)}
                  /\ disturbances' \in {disturbances, disturbances + 1}
    <3>1. 2 * n - 1 \in Nat /\ 2 * n - 1 <= OnTime(w)
      BY <1>1 DEF OnTime
    <3> QED
      BY <2>2, <3>1
  <2> QED
    BY <1>3, <2>1, <2>2
<1> QED
  BY <1>3, <1>4, LandingKeeps

LEMMA FailKeeps == ASSUME LogInv, NEW type \in Type, EmitFails(type) PROVE LogInv'
<1> USE DEF LogInv
<1>1. /\ type \in waiting \/ \E w \in writing : w.type = type
      /\ waiting' = waiting \ {type}
      /\ writing' = {w \in writing : w.type # type}
      /\ failed' = failed \cup {type}
      /\ disturbances' = disturbances + 1
      /\ UNCHANGED <<status, ending, begun, hot, cold, sweep>>
  BY DEF EmitFails, OfferUnchanged
<1>2. LogTypeOK'
  <2>1. /\ IsFiniteSet(failed') /\ Cardinality(failed') <= Cardinality(failed) + 1
        /\ Cardinality(failed) \in Nat
    <3>1. IsFiniteSet(failed)
      BY DEF LogTypeOK
    <3>2. Cardinality(failed) \in Nat
      BY <3>1, FS_CardinalityType
    <3>3. /\ IsFiniteSet(failed \cup {type})
          /\ Cardinality(failed \cup {type}) = IF type \in failed THEN Cardinality(failed) ELSE Cardinality(failed) + 1
      BY <3>1, FS_AddElement
    <3> QED
      BY <1>1, <3>2, <3>3
  <2>2. Cardinality(failed') \in Nat
    BY <2>1, FS_CardinalityType
  <2>3. Cardinality(failed') <= disturbances' /\ disturbances' \in Nat
    BY <1>1, <2>1, <2>2 DEF LogTypeOK
  <2> QED
    BY <1>1, <2>1, <2>3 DEF LogTypeOK
<1>3. OnePlace'
  BY <1>1 DEF OnePlace, Placed
<1>4. OneWriter'
  BY <1>1 DEF OneWriter
<1>5. Hanging'
  BY <1>1 DEF Hanging, HangsOn
<1> QED
  BY <1>2, <1>3, <1>4, <1>5, CourseKept DEF EmitFails

\* The archive sweep.
LEMMA SweepKeeps ==
    ASSUME LogInv, NEW w \in Sweepers, SelectBatch(w) \/ SweepDies(w)
    PROVE  LogInv'
<1> USE DEF LogInv
<1>1. /\ UNCHANGED <<status, ending, begun, waiting, writing, failed, hot, cold>>
      /\ disturbances' \in {disturbances, disturbances + 1}
      /\ \E rows \in SUBSET hot : sweep' = [sweep EXCEPT ![w] = rows]
  BY DEF SelectBatch, SweepDies, OfferUnchanged
<1>2. LogTypeOK'
  <2>1. Cardinality(failed) \in Nat
    BY FS_CardinalityType DEF LogTypeOK
  <2>2. disturbances' \in Nat /\ Cardinality(failed) <= disturbances'
    BY <1>1, <2>1 DEF LogTypeOK
  <2> QED
    BY <1>1, <2>2 DEF LogTypeOK
<1>3. OnePlace' /\ OneWriter' /\ Hanging'
  BY <1>1 DEF OnePlace, Placed, OneWriter, Hanging, HangsOn
<1> QED
  BY <1>2, <1>3, CourseKept DEF SelectBatch, SweepDies

LEMMA ArchiveKeeps == ASSUME LogInv, NEW w \in Sweepers, Archive(w) PROVE LogInv'
<1> USE DEF LogInv
<1>1. /\ UNCHANGED <<status, ending, begun, waiting, writing, failed, disturbances>>
      /\ sweep[w] # {} /\ sweep' = [sweep EXCEPT ![w] = {}]
      /\ cold' = cold \cup sweep[w]
      /\ hot' = hot \ sweep[w]
      /\ sweep[w] \subseteq hot \cup cold
  BY DEF Archive, Deleted, OfferUnchanged, LogTypeOK
<1>2. hot' \cup cold' = hot \cup cold
  BY <1>1
<1>3. LogTypeOK'
  BY <1>1, <1>2 DEF LogTypeOK
<1>4. OnePlace'
  BY <1>1, <1>2 DEF OnePlace, Placed
<1>5. OneWriter'
  BY <1>1 DEF OneWriter
<1>6. Hanging'
  BY <1>1 DEF Hanging
<1> QED
  BY <1>3, <1>4, <1>5, <1>6, CourseKept DEF Archive

LEMMA LogKeeps == LogInv /\ [LogNext]_logVars => LogInv'
<1> SUFFICES ASSUME LogInv, [LogNext]_logVars PROVE LogInv'
  OBVIOUS
<1>1. CASE UNCHANGED logVars
  BY <1>1 DEF logVars, LogInv, LogTypeOK, OnePlace, Placed, OneWriter, Course, Hanging, HangsOn
<1> QED
  BY <1>1, OfferKeeps, ReadTailKeeps, WriteKeeps, FailKeeps, SweepKeeps, ArchiveKeeps DEF LogNext

LEMMA LogInvariant == LogSpec => []LogInv
BY LogFirst, LogKeeps, PTL DEF LogSpec

\* No race between emits and no pair of sweeps loses an event or doubles it.
THEOREM EventsAlwaysKept == LogSpec => []EventsKept
<1>1. ASSUME LogInv PROVE EventsKept
  <2> SUFFICES ASSUME NEW type \in begun
               PROVE  LET rows == {e \in hot \cup cold : e.type = type}
                      IN  /\ Cardinality(rows) <= 1 /\ hot \cap cold = {}
                          /\ type \in failed => rows = {}
                          /\ rows = {} => type \in waiting \cup failed \cup {w.type : w \in writing}
                          /\ Cardinality(failed) <= disturbances
    BY DEF EventsKept
  <2> DEFINE rows == {e \in hot \cup cold : e.type = type}
  <2>1. \A d, e \in rows : d = e
    BY <1>1 DEF LogInv, OnePlace
  <2>2. Cardinality(rows) <= 1
    <3>1. CASE rows = {}
      BY <3>1, FS_EmptySet
    <3>2. CASE rows # {}
      <4>1. PICK e : rows = {e}
        BY <2>1, <3>2
      <4>2. Cardinality({e}) = 1
        BY FS_Singleton
      <4> QED
        BY <4>1, <4>2
    <3> QED
      BY <3>1, <3>2
  <2>3. type \in failed => rows = {}
    BY <1>1 DEF LogInv, OnePlace
  <2>4. rows = {} => type \in waiting \cup failed \cup {w.type : w \in writing}
    BY <1>1 DEF LogInv, OnePlace, Placed
  <2> QED
    BY <1>1, <2>2, <2>3, <2>4 DEF LogInv, OnePlace, LogTypeOK
<1> QED
  BY <1>1, LogInvariant, PTL

\* Once everything has landed, the computed status of a deal that has ended
\* is the offer's, in whatever order it landed.
THEOREM StatusAlwaysAgrees == LogSpec => []StatusAgrees
<1>1. ASSUME LogInv PROVE StatusAgrees
  <2> SUFFICES ASSUME waiting = {}, writing = {}, failed = {}, cold = {},
                      status \in {"ACCEPTED", "DECLINED", "EXPIRED", "REVOKED"},
                      ~({"deal_revoked", "deal_expired"} \subseteq begun)
               PROVE  ComputedStatus = status
    BY DEF StatusAgrees
  <2> DEFINE seen == {"CREATED"} \cup {StatusOf[e.type] : e \in hot}
  <2>1. \A type \in Type : type \in begun <=> \E e \in hot : e.type = type
    BY <1>1 DEF LogInv, OnePlace, Placed
  <2>2. \A e \in hot : e.type \in Type
    BY <1>1 DEF LogInv, LogTypeOK, Logged
  <2>3. status \in seen
    <3>1. PICK type \in begun \cap Type : StatusOf[type] = status
      BY <1>1 DEF LogInv, Course, StatusOf, Type
    <3> QED
      BY <2>1, <3>1
  <2>4. \A r \in seen : r # status => StatusRank[r] < StatusRank[status]
    <3>1. \A type \in Type \cap begun :
             StatusOf[type] # status => StatusRank[StatusOf[type]] < StatusRank[status]
      BY <1>1 DEF LogInv, Course, StatusOf, StatusRank, Type
    <3>2. "CREATED" # status /\ StatusRank["CREATED"] < StatusRank[status]
      BY DEF StatusRank
    <3> QED
      BY <2>1, <2>2, <3>1, <3>2
  <2>5. \A r \in seen : StatusRank[r] \in Nat
    <3>1. \A type \in Type : StatusRank[StatusOf[type]] \in Nat
      BY DEF StatusOf, StatusRank, Type
    <3>2. StatusRank["CREATED"] \in Nat
      BY DEF StatusRank
    <3> QED
      BY <2>2, <3>1, <3>2
  <2>6. ComputedStatus = CHOOSE s \in seen : \A r \in seen : StatusRank[r] <= StatusRank[s]
    BY DEF ComputedStatus
  <2> HIDE DEF seen
  <2>7. \A r \in seen : StatusRank[r] <= StatusRank[status]
    BY <2>3, <2>4, <2>5
  <2>8. \A s \in seen : (\A r \in seen : StatusRank[r] <= StatusRank[s]) => s = status
    BY <2>3, <2>4, <2>5
  <2> QED
    BY <2>3, <2>6, <2>7, <2>8
<1> QED
  BY <1>1, LogInvariant, PTL

\* The chain verifies as long as nothing is archived and no clock was slow.
THEOREM AlwaysVerifiesUntilArchived == LogSpec => []VerifiesUntilArchived
<1>1. ASSUME LogInv PROVE VerifiesUntilArchived
  <2> SUFFICES ASSUME cold = {}, \A d, e \in hot : d.at < e.at => d.seq < e.seq,
                      NEW e \in hot
               PROVE  IF Before(e) = {} THEN e.prev = Nothing
                      ELSE \E d \in hot : Follows(e, d) /\ e.prev = d.type
    BY DEF VerifiesUntilArchived, Verifies
  <2>1. /\ \A d \in hot : d.seq \in Nat \ {0} /\ d.at \in Nat
        /\ \A c, d \in hot : c.seq = d.seq \/ c.at = d.at => c = d
        /\ HangsOn(e.seq - 1, e.prev)
    BY <1>1 DEF LogInv, LogTypeOK, Logged, Hanging
  <2>2. CASE e.seq = 1
    <3>1. Before(e) = {}
      BY <2>1, <2>2 DEF Before
    <3> QED
      BY <2>1, <2>2, <3>1 DEF HangsOn
  <2>3. CASE e.seq # 1
    <3>1. PICK d \in hot : d.seq = e.seq - 1 /\ d.type = e.prev
      BY <2>1, <2>3 DEF HangsOn
    <3>2. d.at < e.at
      BY <2>1, <3>1
    <3>3. \A c \in hot : c.at < e.at => c.at <= d.at
      BY <2>1, <3>1
    <3> QED
      BY <3>1, <3>2, <3>3 DEF Before, Follows
  <2> QED
    BY <2>2, <2>3
<1> QED
  BY <1>1, LogInvariant, PTL

-----------------------------------------------------------------------------
(* One file of an API client (Uploads).                                    *)

Completing == [at : {"none", "hash", "type", "mark"}, sha256 : Contents \cup {Nil}]

UploadTypeOK ==
    /\ file \in [status : {"none", "PENDING", "READY", "deleted"}, sha256 : Contents \cup {Nil}]
    /\ checksums \in BOOLEAN /\ replaced \in BOOLEAN
    /\ completion \in [Completions -> Completing]

\* What a call has seen of the object holds until the object is replaced.
Seen(c) ==
    /\ completion[c].at \in {"type", "mark"} /\ ~replaced /\ object # Nil /\ checksums
          => completion[c].sha256 = object
    /\ completion[c].at = "mark" /\ ~replaced /\ object # Nil => object \notin Foreign

UploadInv ==
    /\ UploadTypeOK
    /\ url = "unissued" => told = {} /\ file.status = "none"
    /\ \A c \in Completions : Seen(c)
    /\ ReadyIsAsUploaded

LEMMA UploadFirst == UploadInit => UploadInv
<1> SUFFICES ASSUME UploadInit PROVE UploadInv
  OBVIOUS
<1>1. NoCompletion \in Completing /\ NoCompletion.at = "none"
  BY DEF NoCompletion, Completing
<1>2. UploadTypeOK
  BY <1>1 DEF UploadInit, UploadTypeOK
<1>3. \A c \in Completions : Seen(c)
  BY <1>1 DEF UploadInit, Seen
<1> QED
  BY <1>2, <1>3 DEF UploadInit, UploadInv, ReadyIsAsUploaded

\* A call goes on or ends, and the others stay where they are.
LEMMA CompletionMoves ==
    ASSUME UploadTypeOK, NEW c \in Completions
    PROVE  /\ Ends(c) => /\ completion' \in [Completions -> Completing]
                         /\ completion'[c].at = "none"
                         /\ \A d \in Completions : d # c => completion'[d] = completion[d]
           /\ \A to \in {"type", "mark"} : GoesOn(c, to) =>
                /\ completion' \in [Completions -> Completing]
                /\ completion'[c].at = to /\ completion'[c].sha256 = completion[c].sha256
                /\ \A d \in Completions : d # c => completion'[d] = completion[d]
BY DEF UploadTypeOK, Ends, GoesOn, NoCompletion, Completing

\* Nothing but the row changes, and the row only from PENDING.
LEMMA RejectKeeps ==
    ASSUME UploadInv, NEW c \in Completions, Reject(c), S3Unchanged, told' = told
    PROVE  UploadInv'
<1>0. url' = "unissued" => told' = {} /\ file'.status = "none"
  BY DEF Reject, IsPending, S3Unchanged, UploadInv
<1>1. /\ completion' \in [Completions -> Completing]
      /\ completion'[c].at = "none"
      /\ \A d \in Completions : d # c => completion'[d] = completion[d]
  BY CompletionMoves DEF Reject, UploadInv
<1>2. UploadTypeOK'
  BY <1>1 DEF Reject, S3Unchanged, UploadInv, UploadTypeOK
<1>3. \A d \in Completions : Seen(d)'
  BY <1>1 DEF S3Unchanged, UploadInv, Seen
<1>4. ReadyIsAsUploaded'
  BY DEF Reject, IsPending, S3Unchanged, UploadInv, UploadTypeOK, ReadyIsAsUploaded
<1> QED
  BY <1>0, <1>2, <1>3, <1>4 DEF UploadInv

LEMMA PutKeeps == ASSUME UploadInv, Put PROVE UploadInv'
<1>1. /\ completion' = completion /\ file' = file /\ told' = told /\ checksums' = checksums
      /\ object' \in Contents
      /\ replaced' <=> (replaced \/ file.status = "READY" \/ \E c \in Completions : Is(c, "type") \/ Is(c, "mark"))
  BY DEF Put
<1>2. UploadTypeOK'
  BY <1>1 DEF UploadInv, UploadTypeOK, Put
<1>3. \A c \in Completions : Seen(c)'
  BY <1>1 DEF UploadInv, Seen, Is
<1>4. ReadyIsAsUploaded'
  BY <1>1 DEF UploadInv, ReadyIsAsUploaded
<1> QED
  BY <1>2, <1>3, <1>4 DEF UploadInv, Put

LEMMA CompletionKeeps ==
    ASSUME UploadInv, NEW c \in Completions,
           StartCompletion(c) \/ CompareHash(c) \/ CompareMimeType(c) \/ MarkReady(c) \/ CompletionFails(c)
    PROVE  UploadInv'
<1> USE DEF UploadInv
<1>1. CASE StartCompletion(c)
  BY <1>1 DEF StartCompletion, Is, S3Unchanged, UploadTypeOK, Completing, Seen, ReadyIsAsUploaded
<1>2. CASE CompareHash(c)
  <2>1. CASE ~Matches(completion[c].sha256)
    BY <1>2, <2>1, RejectKeeps DEF CompareHash
  <2>2. CASE Matches(completion[c].sha256)
    <3>1. GoesOn(c, "type") /\ UNCHANGED <<file, told>> /\ S3Unchanged
      BY <1>2, <2>2 DEF CompareHash
    <3>2. /\ completion' \in [Completions -> Completing]
          /\ completion'[c].at = "type" /\ completion'[c].sha256 = completion[c].sha256
          /\ \A d \in Completions : d # c => completion'[d] = completion[d]
      BY <3>1, CompletionMoves
    <3> QED
      BY <2>2, <3>1, <3>2 DEF S3Unchanged, Matches, UploadTypeOK, Seen, ReadyIsAsUploaded
  <2> QED
    BY <2>1, <2>2
<1>3. CASE CompareMimeType(c)
  <2>1. CASE object \in Foreign
    BY <1>3, <2>1, RejectKeeps DEF CompareMimeType
  <2>2. CASE object \notin Foreign
    <3>1. GoesOn(c, "mark") /\ UNCHANGED <<file, told>> /\ S3Unchanged /\ completion[c].at = "type"
      BY <1>3, <2>2 DEF CompareMimeType, Is
    <3>2. /\ completion' \in [Completions -> Completing]
          /\ completion'[c].at = "mark" /\ completion'[c].sha256 = completion[c].sha256
          /\ \A d \in Completions : d # c => completion'[d] = completion[d]
      BY <3>1, CompletionMoves
    <3> QED
      BY <2>2, <3>1, <3>2 DEF S3Unchanged, UploadTypeOK, Seen, ReadyIsAsUploaded
  <2> QED
    BY <2>1, <2>2
<1>4. CASE MarkReady(c)
  <2>1. /\ completion' \in [Completions -> Completing]
        /\ completion'[c].at = "none"
        /\ \A d \in Completions : d # c => completion'[d] = completion[d]
    BY <1>4, CompletionMoves DEF MarkReady
  <2>2. UploadTypeOK'
    BY <1>4, <2>1 DEF MarkReady, S3Unchanged, UploadTypeOK, Completing
  <2>3. \A d \in Completions : Seen(d)'
    BY <1>4, <2>1 DEF MarkReady, S3Unchanged, Seen
  <2>4. ReadyIsAsUploaded'
    BY <1>4 DEF MarkReady, Is, IsPending, S3Unchanged, Seen, ReadyIsAsUploaded
  <2> QED
    BY <1>4, <2>2, <2>3, <2>4 DEF MarkReady, IsPending, S3Unchanged
<1>5. CASE CompletionFails(c)
  <2>1. /\ completion' \in [Completions -> Completing]
        /\ completion'[c].at = "none"
        /\ \A d \in Completions : d # c => completion'[d] = completion[d]
    BY <1>5, CompletionMoves DEF CompletionFails
  <2> QED
    BY <1>5, <2>1 DEF CompletionFails, S3Unchanged, UploadTypeOK, Seen, ReadyIsAsUploaded
<1> QED
  BY <1>1, <1>2, <1>3, <1>4, <1>5

LEMMA UploadKeeps == UploadInv /\ [UploadNext]_uploadVars => UploadInv'
<1> SUFFICES ASSUME UploadInv, [UploadNext]_uploadVars PROVE UploadInv'
  OBVIOUS
<1>1. CASE Presign
  BY <1>1 DEF Presign, UploadInv, UploadTypeOK, Seen, ReadyIsAsUploaded
<1>2. CASE UrlExpires
  BY <1>2 DEF UrlExpires, UploadInv, UploadTypeOK, Seen, ReadyIsAsUploaded
<1>3. CASE UNCHANGED uploadVars
  BY <1>3 DEF uploadVars, UploadInv, UploadTypeOK, Seen, ReadyIsAsUploaded
<1> QED
  BY <1>1, <1>2, <1>3, PutKeeps, CompletionKeeps DEF UploadNext

\* A client is told READY of one hash at most, the row keeps it, and it is the
\* hash and the type of what S3 holds, unless the URL was used again after a
\* completion had looked.
THEOREM ReadyAlwaysAsUploaded == UploadSpec => []ReadyIsAsUploaded
<1>1. UploadInv => ReadyIsAsUploaded
  BY DEF UploadInv
<1> QED
  BY <1>1, UploadFirst, UploadKeeps, PTL DEF UploadSpec

=============================================================================
