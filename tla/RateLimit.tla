----------------------------- MODULE RateLimit -----------------------------
(***************************************************************************)
(* ONE key of RateLimitService: a log of the requests let through in the   *)
(* last window, pruned, counted and extended by a script that Redis runs   *)
(* as one step.  Each request is dated before it is sent, so the script    *)
(* may see dates in any order; and Redis may not answer, or not in time.   *)
(* The memory backend does the same within one process.                    *)
(***************************************************************************)
EXTENDS Integers, FiniteSets

CONSTANTS
    Limit, Window,  \* of the profile
    MaxTime,        \* bound: the clock
    MaxRequests,    \* bound: requests
    MaxOnTheWay     \* bound: requests dated and not yet answered

ASSUME RateLimitAssumption ==
    /\ Limit \in Nat /\ Window \in Nat \ {0}
    /\ MaxTime \in Nat /\ MaxRequests \in Nat /\ MaxOnTheWay \in Nat

VARIABLES
    highRisk,   \* whether the profile is one of HIGH_RISK_PROFILES
    time,
    requested,  \* requests so far
    onTheWay,   \* those whose script has not run
    entries,    \* the sorted set of the key
    passed,     \* those let through
    outOfTurn,  \* ... although the script had seen a later date
    unmetered,  \* ... without an answer of Redis
    newest      \* the latest date the script has seen

rateVars == <<highRisk, time, requested, onTheWay, entries, passed, outOfTurn, unmetered, newest>>

-----------------------------------------------------------------------------
(* Plausible bugs, each a form of a definition below (README.md, Mutants). *)

OneTooMany(log)  == Cardinality(log) <= Limit                               \* HasRoom: off by one

-----------------------------------------------------------------------------
\* check(): Date.now(), and a member of its own.
Ask ==
    /\ requested < MaxRequests /\ Cardinality(onTheWay) < MaxOnTheWay
    /\ requested' = requested + 1
    /\ onTheWay' = onTheWay \cup {[id |-> requested', date |-> time]}
    /\ UNCHANGED <<highRisk, time, entries, passed, outOfTurn, unmetered, newest>>

TimePasses ==
    /\ time < MaxTime /\ time' = time + 1
    /\ UNCHANGED <<highRisk, requested, onTheWay, entries, passed, outOfTurn, unmetered, newest>>

Pruned(now)  == {e \in entries : e.date > now - Window}
HasRoom(log) == Cardinality(log) < Limit

\* CHECK_SCRIPT, by the date of the request.
Run(r) ==
    LET log == Pruned(r.date)
    IN  /\ entries' = IF HasRoom(log) THEN log \cup {r} ELSE log
        /\ newest' = IF r.date > newest THEN r.date ELSE newest

LetThrough(r) ==
    /\ passed' = passed \cup {r}
    /\ outOfTurn' = IF r.date < newest THEN outOfTurn \cup {r} ELSE outOfTurn

Check(r) ==
    /\ r \in onTheWay /\ onTheWay' = onTheWay \ {r}
    /\ Run(r)
    /\ IF HasRoom(Pruned(r.date)) THEN LetThrough(r) ELSE UNCHANGED <<passed, outOfTurn>>
    /\ UNCHANGED <<highRisk, time, requested, unmetered>>

FailsClosed == highRisk

\* The backend throws, before the script ran or after: a profile of high risk
\* refuses the request, any other lets it through.
Unanswered(r) ==
    /\ r \in onTheWay /\ onTheWay' = onTheWay \ {r}
    /\ Run(r) \/ UNCHANGED <<entries, newest>>
    /\ IF FailsClosed THEN UNCHANGED <<passed, outOfTurn, unmetered>>
       ELSE LetThrough(r) /\ unmetered' = unmetered \cup {r}
    /\ UNCHANGED <<highRisk, time, requested>>

RateInit ==
    /\ highRisk \in BOOLEAN
    /\ time = 0 /\ requested = 0 /\ newest = 0
    /\ onTheWay = {} /\ entries = {} /\ passed = {} /\ outOfTurn = {} /\ unmetered = {}

RateNext ==
    \/ Ask \/ TimePasses
    \/ \E r \in onTheWay : Check(r) \/ Unanswered(r)

RateSpec == RateInit /\ [][RateNext]_rateVars

-----------------------------------------------------------------------------
\* No window lets more than the limit through, but for the requests the script
\* saw out of turn, after a later one had pruned the log, and, on a profile
\* that is not of high risk, those that Redis did not answer.
WindowRespected ==
    /\ highRisk => unmetered = {}
    /\ \A t \in 0..MaxTime :
          LET within == {r \in passed : t - Window < r.date /\ r.date <= t}
          IN  Cardinality(within \ (outOfTurn \cup unmetered)) <= Limit
=============================================================================
