----------------------------- MODULE DealWizard -----------------------------
(***************************************************************************)
(* The new-deal wizard of the web application (app/dashboard/deals/new)    *)
(* and its FileUploadFlow, against the drafts of the API: four steps       *)
(* (name, document, recipient, review), each of which saves with calls     *)
(* whose answers come back in any order, late, or not at all.  Someone     *)
(* else, or another tab, may edit the same draft.                          *)
(***************************************************************************)
EXTENDS Drafting, TLC

CONSTANT MaxDisturbed   \* bound: kinds of disturbance in one behaviour

ASSUME WizardAssumption == MaxDisturbed \in Nat

VARIABLES
    ui,         \* the wizard's React state
    disturbed   \* what has happened that the review cannot show

vars == <<draftVars, ui, disturbed>>

-----------------------------------------------------------------------------
(* Plausible bugs, each a form of a definition below (README.md, Mutants). *)

FirstAddress ==                                      \* Address: saved once
    IF row[ui.draft].email = None THEN ui.email ELSE row[ui.draft].email

-----------------------------------------------------------------------------
(* Calls: one request each; answers come back to who asked.                *)

Ask(c, kind, o, value, template) ==
    At(c, "idle") /\ call' = [call EXCEPT ![c] = Asks("wizard", kind, o, value, template)]
Settle(c) == call' = [call EXCEPT ![c] = Idle]

Awaited(c) == call[c].by = "wizard"
Busy       == \E c \in Calls : Awaited(c)
Note(what) == disturbed' = disturbed \cup what /\ Cardinality(disturbed') <= MaxDisturbed

Server == UNCHANGED <<row, snapshot, overlapped>>

-----------------------------------------------------------------------------
(* Moving between the steps.  The upload component lives in step 2 only,   *)
(* and only while no template is chosen: leaving unmounts it, coming back  *)
(* mounts a new one, whose first effect reports that nothing is uploading. *)

Mounted(u) == u.step = 2 /\ ~u.template

Shown(old, new) ==
    IF Mounted(new) /\ ~Mounted(old) THEN [new EXCEPT !.uploading = FALSE] ELSE new

GoTo(step) == ui' = Shown(ui, [ui EXCEPT !.step = step])

\* The uploads of a component that is gone report to the wizard only when done.
Detached(calls) ==
    [c \in Calls |-> IF calls[c].by = "upload" /\ ~Mounted(ui') THEN [calls[c] EXCEPT !.by = "detached"]
                     ELSE calls[c]]

TypeName ==
    /\ ui.step = 1 /\ ~ui.sent
    /\ \E t \in Titles : ui' = [ui EXCEPT !.title = t]
    /\ Note(IF Busy THEN {"typed"} ELSE {})
    /\ UNCHANGED call /\ Server

TypeEmail ==
    /\ ui.step = 3 /\ ~ui.sent
    /\ \E e \in Emails : ui' = [ui EXCEPT !.email = e]
    /\ Note(IF Busy THEN {"typed"} ELSE {})
    /\ UNCHANGED call /\ Server

\* The button waits for the answer, but Enter in the field does not.
NameDone(c) ==
    /\ ui.step = 1 /\ ui.title # None /\ ~ui.sent
    /\ IF ui.draft = NoOffer
       THEN Ask(c, "create", NoOffer, ui.title, ui.template)
       ELSE Ask(c, "title", ui.draft, ui.title, ui.template)
    /\ Note(IF Busy THEN {"doubled"} ELSE {})
    /\ UNCHANGED ui /\ Server

DocumentDone ==
    /\ ui.step = 2 /\ ~ui.uploading /\ ~Busy /\ ~ui.sent
    /\ GoTo(3)
    /\ call' = Detached(call) /\ UNCHANGED disturbed /\ Server

Address == ui.email

RecipientDone(c) ==
    /\ ui.step = 3 /\ ui.email # None /\ ui.draft # NoOffer /\ ~ui.sent
    /\ Ask(c, "recipient", ui.draft, Address, FALSE)
    /\ Note(IF Busy THEN {"doubled"} ELSE {})
    /\ UNCHANGED ui /\ Server

Back ==
    /\ ui.step > 1 /\ ~Busy /\ ~ui.sent
    /\ GoTo(ui.step - 1)
    /\ call' = Detached(call) /\ UNCHANGED disturbed /\ Server

\* What step 4 shows (with a template chosen, its name instead of the documents).
Review == [title |-> ui.title, email |-> ui.email, docs |-> ui.docs]

SendIt(c) ==
    /\ ui.step = 4 /\ ~Busy /\ ~ui.sent
    /\ Ask(c, "send", ui.draft, None, FALSE)
    /\ ui' = [ui EXCEPT !.reviewed = Review.docs]
    /\ UNCHANGED disturbed /\ Server

\* In step 2; its message is saved by step 1's Continue only.
PickTemplate ==
    /\ ui.step = 2 /\ ~ui.sent
    /\ ui' = Shown(ui, [ui EXCEPT !.template = ~ui.template])
    /\ call' = Detached(call) /\ UNCHANGED disturbed /\ Server

\* Hash, presigned URL and PUT come first, and may fail like the call itself
\* (at this commit no controller answers the first of them: README.md).
Upload(c) ==
    /\ Mounted(ui) /\ ~ui.sent /\ At(c, "idle")
    /\ \E d \in Docs : call' = [call EXCEPT ![c] = Asks("upload", "add", ui.draft, d, FALSE)]
    /\ ui' = [ui EXCEPT !.uploading = TRUE]
    /\ UNCHANGED disturbed /\ Server

-----------------------------------------------------------------------------
(* The answers.                                                            *)

Answered(c, kind, by) == At(c, "ok") /\ call[c].kind = kind /\ call[c].by = by

\* Then the template's message, if one was chosen when Continue was pressed.
NameSaved(c) ==
    /\ Answered(c, "create", "wizard") \/ Answered(c, "title", "wizard")
    /\ LET o == call[c].offer
       IN  IF call[c].template
           THEN /\ ui' = [ui EXCEPT !.draft = o]
                /\ call' = [call EXCEPT ![c] = Asks("wizard", "message", o, None, FALSE)]
           ELSE /\ ui' = Shown(ui, [ui EXCEPT !.draft = o, !.step = 2])
                /\ call' = Detached([call EXCEPT ![c] = Idle])
    /\ UNCHANGED disturbed /\ Server

MessageSaved(c) ==
    /\ Answered(c, "message", "wizard")
    /\ GoTo(2)
    /\ call' = Detached([call EXCEPT ![c] = Idle]) /\ UNCHANGED disturbed /\ Server

RecipientSaved(c) ==
    /\ Answered(c, "recipient", "wizard")
    /\ GoTo(4)
    /\ call' = Detached([call EXCEPT ![c] = Idle]) /\ UNCHANGED disturbed /\ Server

\* The wizard leaves for the deal's page.
Sent(c) ==
    /\ Answered(c, "send", "wizard")
    /\ ui' = [ui EXCEPT !.sent = TRUE]
    /\ Settle(c) /\ UNCHANGED disturbed /\ Server

\* An error message, and another try.
Failed(c) ==
    /\ At(c, "failed") /\ Awaited(c)
    /\ Settle(c) /\ UNCHANGED <<ui, disturbed>> /\ Server

StillUploading(c) == \E d \in Calls \ {c} : call[d].by = "upload"

Uploaded(c) ==
    /\ call[c].by \in {"upload", "detached"} /\ (At(c, "ok") \/ At(c, "failed"))
    /\ ui' = [ui EXCEPT !.docs = IF At(c, "ok") THEN @ \cup {call[c].value} ELSE @,
                        !.uploading = IF call[c].by = "upload" THEN StillUploading(c) ELSE @]
    /\ Settle(c) /\ UNCHANGED disturbed /\ Server

\* 30 seconds: an error for the wizard; the server goes on.
TimeOut(c) ==
    /\ Awaited(c) /\ ~At(c, "failed")
    /\ IF At(c, "ok") THEN Settle(c) ELSE call' = [call EXCEPT ![c].by = "nobody"]
    /\ Note({"abandoned"})
    /\ UNCHANGED ui /\ Server

-----------------------------------------------------------------------------
(* Anyone else: the deal's page in another tab, an API client; one call of *)
(* theirs at a time (a bound).                                             *)

OtherAsk(c) ==
    /\ At(c, "idle") /\ \A d \in Calls : call[d].by # "other"
    /\ \E o \in Offer, kind \in Kinds \ {"create", "message"} :
          /\ IsDraft(o)
          /\ \E v \in IF kind = "title" THEN Titles ELSE IF kind = "recipient" THEN Emails
                      ELSE IF kind = "send" THEN {None} ELSE Docs :
                call' = [call EXCEPT ![c] = Asks("other", kind, o, v, FALSE)]
    /\ Note({"foreign"})
    /\ UNCHANGED ui /\ Server

-----------------------------------------------------------------------------
Init ==
    /\ DraftInit
    /\ ui = [step |-> 1, draft |-> NoOffer, title |-> None, email |-> None, template |-> FALSE,
             docs |-> {}, reviewed |-> {}, uploading |-> FALSE, sent |-> FALSE]
    /\ disturbed = {}

Press(c) == NameDone(c) \/ RecipientDone(c) \/ SendIt(c) \/ Upload(c)
Hear(c)  == NameSaved(c) \/ MessageSaved(c) \/ RecipientSaved(c) \/ Sent(c) \/ Failed(c) \/ Uploaded(c) \/ TimeOut(c)

Next ==
    \/ TypeName \/ TypeEmail \/ DocumentDone \/ Back \/ PickTemplate
    \/ \E c \in Calls : Press(c) \/ Hear(c) \/ OtherAsk(c)
    \/ \E c \in Calls : Serve(c) /\ UNCHANGED <<ui, disturbed>>

Spec == Init /\ [][Next]_vars

AnyCall == Permutations(Calls)

-----------------------------------------------------------------------------
Row ==
    [status : {"absent", "DRAFT", "SENT"}, title : Titles \cup {None}, message : BOOLEAN,
     email : Emails \cup {None}, docs : SUBSET Docs]
Call ==
    [at : {"idle", "arriving", "write", "ok", "failed"},
     by : {"nobody", "wizard", "upload", "detached", "other"},
     kind : Kinds \cup {None}, offer : 0..NumOffers,
     value : Titles \cup Emails \cup Docs \cup {None}, template : BOOLEAN, seen : Row]

\* What the review step showed is what was frozen and where the link went:
\* the name and the address unless they were typed over, entered twice,
\* abandoned or edited elsewhere meanwhile; the documents it listed unless a
\* second draft took the place of the one they were uploaded to.
ReviewedIsSent ==
    ui.sent =>
        LET says == snapshot[ui.draft].says
        IN  /\ disturbed = {} => says.title = Review.title /\ says.email = Review.email
            /\ disturbed \subseteq {"typed", "abandoned"} => ui.reviewed \subseteq says.docs
=============================================================================
