------------------------------ MODULE Accounts ------------------------------
(***************************************************************************)
(* A user's way to an account, the organization it belongs to, and the     *)
(* limiter in front of both, each checked while the others rest: they      *)
(* write no row in common.  The limiter only lets a request begin or not,  *)
(* which may be at any time.  The sessions that an account opens are       *)
(* checked by themselves; what removal from the organization does to one   *)
(* is Sessions' RemovedFromOrg.                                            *)
(***************************************************************************)
EXTENDS Organization, Credentials, RateLimit, TLC

VARIABLE part   \* which of the three a behaviour is about

accountVars == <<orgVars, credentialVars, rateVars, part>>

\* Of the states each may begin in, one is enough for the others; and the
\* founder is any user: the model does not tell them apart.
RateRests == RateInit /\ ~highRisk
Founded   == OrgInit /\ role[CHOOSE u \in Users : TRUE] = "OWNER"

Init ==
    /\ part \in {"organization", "credentials", "limiter"}
    /\ IF part = "limiter" THEN RateInit ELSE RateRests
    /\ Founded /\ CredentialsInit

Next ==
    \/ part = "organization" /\ OrgNext /\ UNCHANGED <<credentialVars, rateVars, part>>
    \/ part = "credentials" /\ CredentialsNext /\ UNCHANGED <<orgVars, rateVars, part>>
    \/ part = "limiter" /\ RateNext /\ UNCHANGED <<orgVars, credentialVars, part>>

Spec == Init /\ [][Next]_accountVars

\* Symmetry, for TLC.
Anyone == Permutations(Calls)
=============================================================================
