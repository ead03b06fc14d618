------------------------------ MODULE Evidence ------------------------------
(***************************************************************************)
(* What a certificate is worth: the rows it was computed from, the check   *)
(* of them that anyone may ask for (CertificateService.verify), the copies *)
(* that are handed out, and the page that shows the verdict (web           *)
(* app/verify/[certificateId]).  The application only adds to these rows,  *)
(* and triggers refuse anything else; verify is there for the day a        *)
(* migration, a repair or a restored backup does it all the same.  Fields  *)
(* that the hashes treat alike are one field here.                         *)
(***************************************************************************)
EXTENDS Integers, Sequences, SequencesExt

CONSTANTS
    Null,        \* a column without a value
    MaxTries     \* bound: times the page asks

ASSUME EvidenceAssumption == MaxTries \in Nat \ {0}

VARIABLES
    certificate,   \* AcceptanceCertificate row, or Null
    record,        \* AcceptanceRecord row
    recipient,     \* OfferRecipient.name
    offerSnapshot, \* OfferSnapshot row
    documents,     \* OfferSnapshotDocument rows, in the order of their storageKey
    events,        \* SigningEvent rows of the session, in the order of their numbers
    altered,       \* what was done to the rows past the application
    copy,          \* of the certificate, handed out: to whom, with which hash; or Null
    page           \* the verification page: phase, the try it waits for and the earlier
                   \* ones still under way, what had been altered when it last asked

rows         == <<certificate, record, recipient, offerSnapshot, documents, events, altered>>
evidenceVars == <<rows, copy, page>>

-----------------------------------------------------------------------------
(* Plausible bugs, each a form of a definition below (README.md, Mutants). *)

AnyOrder              == TRUE           \* AcceptanceEventsOk: the chain is enough
LastAnswer(t)         == TRUE           \* Settles: no race with the timer

-----------------------------------------------------------------------------
(* Hashes.  SHA-256 is taken to have no collisions, and the canonical JSON *)
(* not to depend on the order of keys.                                     *)

Sha256(x) == [sha256 |-> x]
OtherHash == Sha256(<<>>)

ASSUME NullAssumption == Null # 0 /\ Null # 1 /\ Null # Sha256(<<0>>) /\ Null # OtherHash

\* computeEventHash: neither the address nor the browser of an event is in it.
EventHash(e) == Sha256(<<e.number, e.type, e.payload, e.prev>>)

\* computeSnapshotHash: of a document its name, its bytes and its key.
SnapshotHash(s, docs) ==
    Sha256(<<s.content, [i \in DOMAIN docs |-> <<docs[i].file, docs[i].key>>]>>)

\* A record that has no name yet falls back on the recipient's.
RecipientName == IF record.recipientName = Null THEN recipient ELSE record.recipientName

\* CertificatePayloadBuilder.build: the key is left out.
CertificateHash(issuedAt) ==
    Sha256(<<issuedAt, offerSnapshot.content, offerSnapshot.frozen, offerSnapshot.contentHash, RecipientName,
             [i \in DOMAIN documents |-> <<documents[i].file, documents[i].type>>],
             record.statement, record.act, record.circumstances>>)

\* computeCanonicalAcceptanceHash: when, from where and by whom it was accepted.
CanonicalHash == Sha256(<<record.act>>)

-----------------------------------------------------------------------------
(* The rows, as the application writes them.                               *)

\* SigningEventService.append, under the session's lock.
Linked(chain, type, payload) ==
    LET e == [number |-> Len(chain) + 1, type |-> type, payload |-> payload, client |-> 0,
              prev |-> IF chain = <<>> THEN Null ELSE Last(chain).hash]
    IN  Append(chain, [number |-> e.number, type |-> type, payload |-> payload, client |-> 0,
                       prev |-> e.prev, hash |-> EventHash(e)])

\* The acceptance, as of before the statement's hash went into its event, or after.
Signed(hashed) ==
    LET opened == Linked(<<>>, "SESSION_STARTED", Null)
        proven == Linked(opened, "OTP_VERIFIED", Null)
    IN  Linked(proven, "OFFER_ACCEPTED", IF hashed THEN Sha256(<<0>>) ELSE Null)

WrittenSnapshot  == [content |-> 0, frozen |-> 0]
WrittenDocuments == <<[file |-> 0, type |-> 0, key |-> 1], [file |-> 0, type |-> 0, key |-> 2]>>

\* A request that overlapped the acceptance logs after it.
LateEvent ==
    /\ altered = "nothing" /\ Len(events) = 3
    /\ events' = Linked(events, "OTP_ATTEMPT_FAILED", Null)
    /\ UNCHANGED <<certificate, record, recipient, offerSnapshot, documents, altered, copy, page>>

\* generateForAcceptance, today or before the canonical hash was introduced.
Issue ==
    /\ certificate = Null /\ altered = "nothing"
    /\ \E canonical \in {CanonicalHash, Null} :
          certificate' = [hash |-> CertificateHash(0), canonical |-> canonical, issuedAt |-> 0]
    /\ UNCHANGED <<record, recipient, offerSnapshot, documents, events, altered, copy, page>>

-----------------------------------------------------------------------------
(* What is done past the application, once.                                *)

\* Of a row one field; of the chain an event's content, who sent it, an event,
\* or all from one on; of the documents one.
Altered(what) ==
    /\ altered = "nothing" /\ certificate # Null
    /\ altered' = what

RecordField   == {"act", "statement", "circumstances", "recipientName", "statementVersion"}
SnapshotField == {"content", "frozen", "contentHash"}
DocumentField == {"file", "type", "key"}

AlterRecord(f) ==
    /\ Altered(f) /\ record' = [record EXCEPT ![f] = 1]
    /\ UNCHANGED <<certificate, recipient, offerSnapshot, documents, events>>
AlterRecipient ==
    /\ Altered("recipient") /\ recipient' = 1
    /\ UNCHANGED <<certificate, record, offerSnapshot, documents, events>>
AlterSnapshot(f) ==
    /\ Altered(f) /\ offerSnapshot' = [offerSnapshot EXCEPT ![f] = IF f = "contentHash" THEN OtherHash ELSE 1]
    /\ UNCHANGED <<certificate, record, recipient, documents, events>>
AlterDocument(f) ==
    /\ Altered(f) /\ documents' = [documents EXCEPT ![1][f] = 0 - 1]
    /\ UNCHANGED <<certificate, record, recipient, offerSnapshot, events>>
LoseDocument ==
    /\ Altered("a document") /\ documents' = Tail(documents)
    /\ UNCHANGED <<certificate, record, recipient, offerSnapshot, events>>
AlterEvent(i) ==
    /\ Altered("an event") /\ events' = [events EXCEPT ![i].payload = OtherHash]
    /\ UNCHANGED <<certificate, record, recipient, offerSnapshot, documents>>
AlterClient(i) ==
    /\ Altered("a client") /\ events' = [events EXCEPT ![i].client = 1]
    /\ UNCHANGED <<certificate, record, recipient, offerSnapshot, documents>>
LoseEvent(i) ==
    /\ Altered(IF i <= 3 THEN "an event" ELSE "a late event") /\ events' = RemoveAt(events, i)
    /\ UNCHANGED <<certificate, record, recipient, offerSnapshot, documents>>
LoseEventsFrom(i) ==
    /\ Altered(IF i <= 3 THEN "an event" ELSE "a late event") /\ events' = SubSeq(events, 1, i - 1)
    /\ UNCHANGED <<certificate, record, recipient, offerSnapshot, documents>>
AlterCertificate ==
    /\ UNCHANGED <<record, recipient, offerSnapshot, documents, events>>
    /\ \/ Altered("hash") /\ certificate' = [certificate EXCEPT !.hash = OtherHash]
       \/ Altered("issuedAt") /\ certificate' = [certificate EXCEPT !.issuedAt = 1]
       \/ certificate # Null /\ certificate.canonical # Null /\ Altered("canonical")
          /\ \E c \in {Null, OtherHash} : certificate' = [certificate EXCEPT !.canonical = c]

Alter ==
    /\ UNCHANGED <<copy, page>>
    /\ \/ \E f \in RecordField : AlterRecord(f)
       \/ \E f \in SnapshotField : AlterSnapshot(f)
       \/ \E f \in DocumentField : AlterDocument(f)
       \/ \E i \in DOMAIN events : AlterEvent(i) \/ AlterClient(i) \/ LoseEvent(i) \/ LoseEventsFrom(i)
       \/ AlterRecipient \/ LoseDocument \/ AlterCertificate

-----------------------------------------------------------------------------
(* CertificateService.verify.                                              *)

CertificateHashMatch == CertificateHash(certificate.issuedAt) = certificate.hash

\* Certificates from before this hash have none to compare.
CanonicalHashOk == certificate.canonical # Null => CanonicalHash = certificate.canonical

SnapshotIntegrity == SnapshotHash(offerSnapshot, documents) = offerSnapshot.contentHash

\* verifyChain: numbers without a gap, each event on the one before it.
ChainValid ==
    /\ events # <<>>
    /\ \A i \in DOMAIN events :
          /\ events[i].number = i
          /\ events[i].prev = IF i = 1 THEN Null ELSE events[i - 1].hash
          /\ events[i].hash = EventHash(events[i])

OfType(type) == {i \in DOMAIN events : events[i].type = type}

\* A chain that lost its end is still a chain.
AcceptanceEventsOk ==
    \E v \in OfType("OTP_VERIFIED"), a \in OfType("OFFER_ACCEPTED") : v <= a

\* Acceptances from before this hash have none to compare.
StatementHashOk ==
    \A a \in OfType("OFFER_ACCEPTED") :
        events[a].payload # Null => events[a].payload = Sha256(<<record.statement>>)

IntegrityChecksPass ==
    /\ CertificateHashMatch /\ CanonicalHashOk /\ SnapshotIntegrity
    /\ ChainValid /\ AcceptanceEventsOk /\ StatementHashOk

Advisory == certificate.canonical = Null

Valid == IntegrityChecksPass /\ ~Advisory

\* What the controller answers with.
Verification == [valid |-> Valid, certificateHashMatch |-> CertificateHashMatch,
                 snapshotIntegrity |-> SnapshotIntegrity,
                 eventChainIntegrity |-> ChainValid /\ AcceptanceEventsOk]

-----------------------------------------------------------------------------
(* Copies: the metadata, the JSON, the PDF and the archive of them all.    *)

\* assertCanAccess.
CanAccess(caller) == caller \in {"own organization", "support"}

\* exportPayload: the hash is the one the rows have now.
Export(caller) ==
    /\ certificate # Null /\ CanAccess(caller) /\ copy = Null
    /\ copy' = [to |-> caller, hash |-> CertificateHash(certificate.issuedAt)]
    /\ UNCHANGED <<rows, page>>

-----------------------------------------------------------------------------
(* The verification page.                                                  *)

\* runVerification, on load and from the Retry button.
CanRun == page.try = 0 \/ page.phase \in {"timeout", "error"}

RunVerification ==
    /\ CanRun /\ page.try < MaxTries
    /\ page' = [page EXCEPT !.phase = "loading", !.try = @ + 1, !.underWay = @ \cup {page.try + 1},
                            !.asked = altered]
    /\ UNCHANGED <<rows, copy>>

\* A promise settles once: an answer after the timer is not looked at.
Settles(t) == page.phase = "loading" /\ t = page.try

\* A field the answer does not have is as good as false.
Truthy(result, field) == field \in DOMAIN result /\ result[field]

Verdict ==
    IF certificate = Null THEN "not-found"
    ELSE IF Truthy(Verification, "valid") THEN "valid"
    ELSE IF Truthy(Verification, "integrityChecksPass") THEN "legacy" ELSE "invalid"

\* The answer to a try was worked out at any time since it was asked for.
Resolved(t) ==
    /\ t \in page.underWay /\ page.answers[t] # "none"
    /\ page' = [page EXCEPT !.underWay = @ \ {t}, !.phase = IF Settles(t) THEN page.answers[t] ELSE @]
    /\ UNCHANGED <<rows, copy>>

Verify(t) ==
    /\ t \in page.underWay /\ page.answers[t] = "none"
    /\ page' = [page EXCEPT !.answers[t] = Verdict]
    /\ UNCHANGED <<rows, copy>>

\* Too many calls, or no connection.
TurnedAway(t) ==
    /\ t \in page.underWay
    /\ page' = [page EXCEPT !.underWay = @ \ {t}, !.phase = IF Settles(t) THEN "error" ELSE @]
    /\ UNCHANGED <<rows, copy>>

FiveSecondsPass ==
    /\ page.phase = "loading" /\ page.try > 0
    /\ page' = [page EXCEPT !.phase = "timeout"]
    /\ UNCHANGED <<rows, copy>>

-----------------------------------------------------------------------------
NoTry == [phase |-> "loading", try |-> 0, underWay |-> {}, asked |-> "nothing",
          answers |-> [t \in 1..MaxTries |-> "none"]]

EvidenceInit ==
    /\ certificate = Null
    /\ recipient = 0 /\ documents = WrittenDocuments
    /\ offerSnapshot = [content |-> 0, frozen |-> 0, contentHash |-> SnapshotHash(WrittenSnapshot, WrittenDocuments)]
    /\ \E hashed \in BOOLEAN, name \in {0, Null} :
          /\ record = [act |-> 0, statement |-> 0, circumstances |-> 0, recipientName |-> name, statementVersion |-> 0]
          /\ events = Signed(hashed)
    /\ altered = "nothing" /\ copy = Null /\ page = NoTry

EvidenceNext ==
    \/ LateEvent \/ Issue \/ Alter
    \/ \E c \in {"own organization", "another organization", "support"} : Export(c)
    \/ RunVerification \/ FiveSecondsPass
    \/ \E t \in 1..MaxTries : Verify(t) \/ Resolved(t) \/ TurnedAway(t)

EvidenceSpec == EvidenceInit /\ [][EvidenceNext]_evidenceVars

-----------------------------------------------------------------------------
\* What was done to the rows that a certificate vouches for.
Vouched(what) ==
    /\ what \notin {"nothing", "statementVersion", "a client", "a late event"}
    /\ what = "recipient" => record.recipientName = Null
    /\ what = "canonical" => certificate.canonical # Null

\* Verification passes exactly as long as nothing a certificate vouches for has
\* changed: not the order of rows, nor what the application adds later, nor
\* the age of the certificate makes it fail, and no row that is changed or
\* lost lets it pass.  A copy made till then bears the hash it confirms, and none
\* is made for another organization.
VerdictIsTrue ==
    certificate # Null =>
        /\ IntegrityChecksPass <=> ~Vouched(altered)
        /\ copy # Null =>
              /\ copy.to # "another organization"
              /\ ~Vouched(altered) => copy.hash = certificate.hash

\* A page that says valid does not say so of rows that had changed when the
\* visitor last asked, however late the answers of earlier tries come in.
ValidIsIntact == page.phase = "valid" => ~Vouched(page.asked)
=============================================================================
