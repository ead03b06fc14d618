------------------------------ MODULE Drafting ------------------------------
(***************************************************************************)
(* Drafts of an organization on the server: the edits of OffersService and *)
(* the transaction of SendOfferService.send that freezes what a draft      *)
(* says.  Every edit reads the status first (requireDraft) and writes      *)
(* later, by id.  Who makes the calls, and reads the answers, is           *)
(* DealWizard's; what becomes of the link is Delivery's.                   *)
(***************************************************************************)
EXTENDS Integers, FiniteSets

CONSTANTS
    Calls,      \* API calls that may be in flight at once
    NumOffers,  \* bound: drafts created
    Titles,     \* titles a sender may give
    Emails,     \* addresses of a recipient
    Docs        \* documents that may be attached

ASSUME DraftingAssumption == NumOffers \in Nat \ {0}

Offer   == 1..NumOffers
NoOffer == 0
None    == "none"               \* no title, no address, no document

VARIABLES
    row,        \* Offer, with its OfferRecipient and its OfferDocuments
    snapshot,   \* its OfferSnapshot, with the address the link is mailed to
    call,       \* calls in flight: what each asks for, and has read
    overlapped  \* offers whose send has overlapped an edit

draftVars == <<row, snapshot, call, overlapped>>

-----------------------------------------------------------------------------
(* Plausible bugs, each a form of a definition below (README.md, Mutants). *)

AnyOffer(o)    == row[o].status # "absent"       \* IsDraft: no check

-----------------------------------------------------------------------------
NoRow == [status |-> "absent", title |-> None, message |-> FALSE, email |-> None, docs |-> {}]
Idle  == [at |-> "idle", by |-> "nobody", kind |-> None, offer |-> NoOffer,
          value |-> None, template |-> FALSE, seen |-> NoRow]

Asks(by, kind, o, value, template) ==
    [at |-> "arriving", by |-> by, kind |-> kind, offer |-> o,
     value |-> value, template |-> template, seen |-> NoRow]

At(c, step) == call[c].at = step

\* An answer that nobody waits for is gone.
Answer(c, step) ==
    call' = IF call[c].by \in {"other", "nobody"} THEN [call EXCEPT ![c] = Idle]
            ELSE [call EXCEPT ![c].at = step]

EditKinds == {"title", "message", "recipient", "add", "remove"}
Kinds     == EditKinds \cup {"create", "send"}

\* In the middle of a call that may write the offer.
Midway(o, kinds) == \E c \in Calls : At(c, "write") /\ call[c].offer = o /\ call[c].kind \in kinds

-----------------------------------------------------------------------------
(* create(), and requireDraft before every edit and every send.            *)

Unused == {o \in Offer : row[o].status = "absent"}

Create(c) ==
    /\ At(c, "arriving") /\ call[c].kind = "create"
    /\ \E o \in Unused :
          /\ \A u \in Unused : o <= u
          /\ row' = [row EXCEPT ![o] = [NoRow EXCEPT !.status = "DRAFT", !.title = call[c].value]]
          /\ call' = IF call[c].by = "nobody" THEN [call EXCEPT ![c] = Idle]
                     ELSE [call EXCEPT ![c].at = "ok", ![c].offer = o]
    /\ UNCHANGED <<snapshot, overlapped>>

IsDraft(o) == row[o].status = "DRAFT"

\* assertOfferIsComplete: a title and a recipient; documents are optional.
IsComplete(o) == row[o].title # None /\ row[o].email # None

\* What the write will use: the whole draft, or whether it has a recipient.
Read(kind, o) ==
    IF kind = "send" THEN row[o]
    ELSE IF kind = "recipient" THEN [NoRow EXCEPT !.email = row[o].email]
    ELSE NoRow

Check(c) ==
    /\ At(c, "arriving") /\ call[c].kind # "create"
    /\ LET o == call[c].offer
       IN  IF IsDraft(o) /\ (call[c].kind = "send" => IsComplete(o))
           THEN call' = [call EXCEPT ![c].at = "write", ![c].seen = Read(call[c].kind, o)]
           ELSE Answer(c, "failed")
    /\ UNCHANGED <<row, snapshot, overlapped>>

\* A statement, a rate limit or the plan limit fails the call.
Fail(c) ==
    /\ At(c, "arriving") \/ At(c, "write")
    /\ Answer(c, "failed")
    /\ UNCHANGED <<row, snapshot, overlapped>>

-----------------------------------------------------------------------------
(* The writes, by id.                                                      *)

Written(c, new) ==
    /\ row' = [row EXCEPT ![call[c].offer] = new]
    /\ overlapped' = IF Midway(call[c].offer, {"send"}) THEN overlapped \cup {call[c].offer} ELSE overlapped
    /\ Answer(c, "ok") /\ UNCHANGED snapshot

Refused(c) == Answer(c, "failed") /\ UNCHANGED <<row, snapshot, overlapped>>

Edits(c, kind) == At(c, "write") /\ call[c].kind = kind
Current(c)     == row[call[c].offer]

UpdateTitle(c) ==
    Edits(c, "title") /\ Written(c, [Current(c) EXCEPT !.title = call[c].value])

UpdateMessage(c) ==
    Edits(c, "message") /\ Written(c, [Current(c) EXCEPT !.message = TRUE])

\* offerId is UNIQUE: a recipient someone else created meanwhile is not created again.
SetRecipient(c) ==
    /\ Edits(c, "recipient")
    /\ IF call[c].seen.email = None /\ Current(c).email # None
       THEN Refused(c)
       ELSE Written(c, [Current(c) EXCEPT !.email = call[c].value])

AddDocument(c) ==
    Edits(c, "add") /\ Written(c, [Current(c) EXCEPT !.docs = @ \cup {call[c].value}])

\* A document the snapshot refers to cannot be deleted any more.
Referenced(o) == IF snapshot[o].sent THEN snapshot[o].says.docs ELSE {}

RemoveDocument(c) ==
    /\ Edits(c, "remove")
    /\ IF call[c].value \in Current(c).docs \ Referenced(call[c].offer)
       THEN Written(c, [Current(c) EXCEPT !.docs = @ \ {call[c].value}])
       ELSE Refused(c)

-----------------------------------------------------------------------------
(* send(): one transaction writes what was read, on the condition that the *)
(* offer is still a draft, and its snapshot's documents still exist.       *)

NotSent == [sent |-> FALSE, says |-> NoRow]

Freezes(c) == IsDraft(call[c].offer) /\ ~snapshot[call[c].offer].sent

Frozen(c) == call[c].seen

Freeze(c) ==
    /\ Edits(c, "send")
    /\ LET o == call[c].offer
       IN  IF Freezes(c) /\ call[c].seen.docs \subseteq row[o].docs
           THEN /\ row' = [row EXCEPT ![o].status = "SENT"]
                /\ snapshot' = [snapshot EXCEPT ![o] = [sent |-> TRUE, says |-> Frozen(c)]]
                /\ overlapped' = IF Midway(o, EditKinds) THEN overlapped \cup {o} ELSE overlapped
                /\ Answer(c, "ok")
           ELSE Refused(c)

-----------------------------------------------------------------------------
DraftInit ==
    /\ row = [o \in Offer |-> NoRow]
    /\ snapshot = [o \in Offer |-> NotSent]
    /\ call = [c \in Calls |-> Idle]
    /\ overlapped = {}

Serve(c) ==
    \/ Create(c) \/ Check(c) \/ Fail(c)
    \/ UpdateTitle(c) \/ UpdateMessage(c) \/ SetRecipient(c) \/ AddDocument(c) \/ RemoveDocument(c)
    \/ Freeze(c)

-----------------------------------------------------------------------------
\* A sent offer still says what its snapshot says, and its link went to the
\* recipient it shows, unless an edit overlapped the send: requireDraft and the
\* compare-and-swap leave nothing else.
DriftNeedsOverlap ==
    \A o \in Offer \ overlapped :
        row[o].status = "SENT" => [row[o] EXCEPT !.status = "DRAFT"] = snapshot[o].says
=============================================================================
