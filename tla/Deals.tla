------------------------------- MODULE Deals -------------------------------
(***************************************************************************)
(* What surrounds the signing of a deal: the wizard that drafts it, the    *)
(* log of its events, and the files of an API client, each checked while   *)
(* the others rest.  They write no row in common: the log has the offer's  *)
(* status as it emits it, the drafts as they are edited.                   *)
(***************************************************************************)
EXTENDS DealWizard, DealLog, Uploads

VARIABLE part   \* which of the three a behaviour is about

dealsVars == <<vars, logVars, uploadVars, part>>

\* Of the two buckets a file may begin in, one is enough for the others.
UploadRests == UploadInit /\ checksums

DealsInit ==
    /\ part \in {"draft", "log", "file"}
    /\ Init /\ LogInit
    /\ IF part = "file" THEN UploadInit ELSE UploadRests

DealsNext ==
    \/ part = "draft" /\ Next /\ UNCHANGED <<logVars, uploadVars, part>>
    \/ part = "log" /\ LogNext /\ UNCHANGED <<vars, uploadVars, part>>
    \/ part = "file" /\ UploadNext /\ UNCHANGED <<vars, logVars, part>>

DealsSpec == DealsInit /\ [][DealsNext]_dealsVars

\* Symmetry, for TLC.
Anyone == Permutations(Calls) \cup Permutations(Emails)
=============================================================================
