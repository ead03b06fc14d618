------------------------------ MODULE Uploads ------------------------------
(***************************************************************************)
(* ONE file of FileService: a presigned URL and a PENDING row, the upload  *)
(* that goes to S3 past the server, and completeUpload, which compares     *)
(* what S3 says of the object with what the client says, and marks the row *)
(* READY.  No page of the web application uses it; its wizard has calls of *)
(* its own (DealWizard).                                                   *)
(***************************************************************************)
EXTENDS Integers, FiniteSets

CONSTANTS
    Completions,    \* calls of completeUpload that may be in flight at once
    Contents,       \* what may be uploaded, or claimed to be
    Foreign,        \* those of another MIME type than declared
    MaxPuts         \* bound: uploads

ASSUME UploadsAssumption == Foreign \subseteq Contents /\ MaxPuts \in Nat

Nil == "nil"

VARIABLES
    file,       \* File: status and sha256
    url,        \* the presigned URL: "unissued", "live", "expired"
    object,     \* what S3 holds under the key
    puts,
    checksums,  \* whether the bucket is configured to keep a SHA-256
    completion, \* calls in flight: the hash claimed, and the step
    replaced,   \* whether the object was replaced once a call had looked at it
    told        \* the hashes a client was told are READY

uploadVars == <<file, url, object, puts, checksums, completion, replaced, told>>

-----------------------------------------------------------------------------
(* Plausible bugs, each a form of a definition below (README.md, Mutants). *)

AnyStatus == file.status # "none"       \* IsPending: replayed after READY

-----------------------------------------------------------------------------
NoCompletion == [at |-> "none", sha256 |-> Nil]

Is(c, step)    == completion[c].at = step
Ends(c)        == completion' = [completion EXCEPT ![c] = NoCompletion]
GoesOn(c, to)  == completion' = [completion EXCEPT ![c].at = to]
S3Unchanged    == UNCHANGED <<url, object, puts, checksums, replaced>>

\* generatePresignUrl: the URL first, then the row.
Presign ==
    /\ url = "unissued" /\ url' = "live"
    /\ file' = [status |-> "PENDING", sha256 |-> Nil]
    /\ UNCHANGED <<object, puts, checksums, completion, replaced, told>>

\* For 300 seconds, as often as the client likes.
Put ==
    /\ url = "live" /\ puts < MaxPuts /\ puts' = puts + 1
    /\ object' \in Contents
    /\ replaced' = (replaced \/ file.status = "READY" \/ \E c \in Completions : Is(c, "type") \/ Is(c, "mark"))
    /\ UNCHANGED <<file, url, checksums, completion, told>>

UrlExpires ==
    /\ url = "live" /\ url' = "expired"
    /\ UNCHANGED <<file, object, puts, checksums, completion, replaced, told>>

-----------------------------------------------------------------------------
(* completeUpload.                                                         *)

\* findByIdAndOrg: in whatever status.
StartCompletion(c) ==
    /\ Is(c, "none") /\ file.status \in {"PENDING", "READY"}
    /\ \E sha256 \in Contents :
          completion' = [completion EXCEPT ![c] = [at |-> "hash", sha256 |-> sha256]]
    /\ S3Unchanged /\ UNCHANGED <<file, told>>

IsPending == file.status = "PENDING"

\* deletePendingFile, and an error.
Reject(c) ==
    /\ file' = IF IsPending THEN [file EXCEPT !.status = "deleted"] ELSE file
    /\ Ends(c)

\* getObjectSha256: none where there is no object, or no checksum of it.
Matches(sha256) == ~checksums \/ object \in {Nil, sha256}

CompareHash(c) ==
    /\ Is(c, "hash")
    /\ IF Matches(completion[c].sha256) THEN GoesOn(c, "type") /\ UNCHANGED file ELSE Reject(c)
    /\ S3Unchanged /\ UNCHANGED told

CompareMimeType(c) ==
    /\ Is(c, "type")
    /\ IF object \in Foreign THEN Reject(c) ELSE GoesOn(c, "mark") /\ UNCHANGED file
    /\ S3Unchanged /\ UNCHANGED told

\* One statement, where the row is PENDING; otherwise "not found".
MarkReady(c) ==
    /\ Is(c, "mark")
    /\ IF IsPending
       THEN /\ file' = [status |-> "READY", sha256 |-> completion[c].sha256]
            /\ told' = told \cup {completion[c].sha256}
       ELSE UNCHANGED <<file, told>>
    /\ Ends(c)
    /\ S3Unchanged

CompletionFails(c) ==
    /\ ~Is(c, "none") /\ Ends(c)
    /\ S3Unchanged /\ UNCHANGED <<file, told>>

-----------------------------------------------------------------------------
UploadInit ==
    /\ file = [status |-> "none", sha256 |-> Nil]
    /\ url = "unissued" /\ object = Nil /\ puts = 0
    /\ checksums \in BOOLEAN
    /\ completion = [c \in Completions |-> NoCompletion]
    /\ replaced = FALSE /\ told = {}

UploadNext ==
    \/ Presign \/ Put \/ UrlExpires
    \/ \E c \in Completions :
          StartCompletion(c) \/ CompareHash(c) \/ CompareMimeType(c) \/ MarkReady(c) \/ CompletionFails(c)

UploadSpec == UploadInit /\ [][UploadNext]_uploadVars

-----------------------------------------------------------------------------
\* What a client was told is READY stays so, with the hash it gave, whatever
\* another completion finds; and it has the hash and the type of what S3 holds,
\* unless the URL was used again after a completion had looked, the bucket
\* keeps no checksums, or nothing was uploaded at all.
ReadyIsAsUploaded ==
    /\ told # {} => file.status = "READY" /\ told = {file.sha256}
    /\ file.status = "READY" /\ ~replaced /\ object # Nil =>
          /\ object \notin Foreign
          /\ checksums => file.sha256 = object
=============================================================================
