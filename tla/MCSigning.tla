------------------------------ MODULE MCSigning ------------------------------
(***************************************************************************)
(* SigningSystem for TLC: which worker runs a request does not matter, and *)
(* the clock passes deadlines only while there is one session.             *)
(***************************************************************************)
EXTENDS SigningClaims, TLC

Workers == Permutations(Procs)

Lapses == {offer.lapsed} \cup {session[s].lapsed : s \in Session} \cup {challenge[c].lapsed : c \in Challenge}
LapseOrRace == TRUE \in Lapses => Cardinality({s \in Session : session[s].status # "NONE"}) <= 1
=============================================================================
