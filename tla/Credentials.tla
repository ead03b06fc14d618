---------------------------- MODULE Credentials ----------------------------
(***************************************************************************)
(* How ONE e-mail address comes by an account and into it: AuthService's   *)
(* signup, login, verifyEmail and resetPassword, the links that            *)
(* AuthRepository keeps for the last two, and the count of failed logins   *)
(* that LoginLockoutService keeps in Redis.  What a login opens and a new  *)
(* password ends is Sessions'.                                             *)
(***************************************************************************)
EXTENDS Integers, FiniteSets

CONSTANTS
    Visitors,           \* requests in flight
    MaxFailures,        \* MAX_ATTEMPTS of login-lockout.service.ts
    MaxLockout,         \* MAX_LOCKOUT_MINUTES
    NumLinks,           \* bound: links of either kind
    MaxMinutes,         \* bound: minutes
    MaxDeaths           \* bound: requests that die between two writes

ASSUME CredentialsAssumption ==
    /\ IsFiniteSet(Visitors)
    /\ MaxFailures \in Nat \ {0} /\ MaxLockout \in Nat \ {0}
    /\ NumLinks \in Nat /\ MaxMinutes \in Nat /\ MaxDeaths \in Nat

LinkId == 1..NumLinks
NoLink == 0
Kinds  == {"verification", "reset"}

VARIABLES
    account,    \* User: whether it exists, is verified, has its LegalAcceptance; the version of its password
    link,       \* EmailVerificationToken and PasswordResetToken, and how often each was consumed
    lockout,    \* the Redis hash of this address: attempts, lockedUntil
    visit,      \* what each request is about to do
    minute,
    guessed,    \* wrong passwords compared since the count was last cleared, and since when
    stranded,   \* whether the signup that made the account died before it stored the terms
    deaths

credentialVars == <<account, link, lockout, visit, minute, guessed, stranded, deaths>>

-----------------------------------------------------------------------------
(* Plausible bugs, each a form of a definition below (README.md, Mutants). *)

KnownLink(l) == link[l].state # "none"                      \* Valid: used or not
AfterIt(n)   == IF n > MaxFailures THEN MaxLockout ELSE 0   \* Backoff: none at first
ConsentLater(v) == "invalidate"                             \* AfterRegistration

-----------------------------------------------------------------------------
NoVisit  == [at |-> "away", kind |-> "none", password |-> 0, count |-> 0, link |-> NoLink]
NoLockout == [attempts |-> 0, until |-> 0]

Is(v, step)    == visit[v].at = step
Leaves(v)      == visit' = [visit EXCEPT ![v] = NoVisit]
Enters(v, new) == Is(v, "away") /\ visit' = [visit EXCEPT ![v] = new]
Steps(v, to)   == visit' = [visit EXCEPT ![v].at = to]

Links(kind)  == {l \in LinkId : link[l].kind = kind}
Unissued     == Links("none")

-----------------------------------------------------------------------------
(* AuthController.login with LoginLockoutService.                          *)

\* check: the lock, not the count.
StartLogin(v) ==
    /\ lockout.until <= minute
    /\ \E password \in {0, account.password} :
          Enters(v, [NoVisit EXCEPT !.at = "authenticate", !.password = password])
    /\ UNCHANGED <<account, link, lockout, minute, guessed, stranded, deaths>>

\* The e-mail must be verified too; either error counts as a failure.
Authenticate(v) ==
    /\ Is(v, "authenticate")
    /\ IF account.exists /\ visit[v].password = account.password
       THEN /\ Steps(v, IF account.verified THEN "clear" ELSE "count")
            /\ UNCHANGED guessed
       ELSE Steps(v, "count") /\ guessed' = [guessed EXCEPT !.passwords = @ + 1]
    /\ UNCHANGED <<account, link, lockout, minute, stranded, deaths>>

\* recordFailure: hincrby first ...
CountFailure(v) ==
    /\ Is(v, "count")
    /\ LET n == lockout.attempts + 1
       IN  /\ lockout' = [lockout EXCEPT !.attempts = n]
           /\ IF n >= MaxFailures
              THEN visit' = [visit EXCEPT ![v].at = "lock", ![v].count = n]
              ELSE Leaves(v)
    /\ UNCHANGED <<account, link, minute, guessed, stranded, deaths>>

Backoff(n) ==
    LET doubled == 2 ^ (n - MaxFailures)
    IN  IF doubled \in 1..MaxLockout THEN doubled ELSE MaxLockout

\* ... and hset after it, whatever the other requests have set by then.
SetLockedUntil(v) ==
    /\ Is(v, "lock")
    /\ lockout' = [lockout EXCEPT !.until = minute + Backoff(visit[v].count)]
    /\ Leaves(v)
    /\ UNCHANGED <<account, link, minute, guessed, stranded, deaths>>

\* clearFailures, once the session is there.
ClearFailures(v) ==
    /\ Is(v, "clear")
    /\ lockout' = NoLockout
    /\ guessed' = [passwords |-> 0, since |-> minute]
    /\ Leaves(v)
    /\ UNCHANGED <<account, link, minute, stranded, deaths>>

-----------------------------------------------------------------------------
(* signup, and asking for either link.                                     *)

AsksFor(kind) == [NoVisit EXCEPT !.at = "invalidate", !.kind = kind]

\* An address that is taken gets a reset link instead.
Signup(v) ==
    /\ Enters(v, IF account.exists THEN AsksFor("reset") ELSE [NoVisit EXCEPT !.at = "register"])
    /\ UNCHANGED <<account, link, lockout, minute, guessed, stranded, deaths>>

AfterRegistration(v) == "consent"

\* createOrgAndOwner: the address is UNIQUE, so the second of two fails.
Register(v) ==
    /\ Is(v, "register")
    /\ IF account.exists
       THEN Leaves(v) /\ UNCHANGED account
       ELSE /\ account' = [account EXCEPT !.exists = TRUE, !.password = 1]
            /\ visit' = [visit EXCEPT ![v].at = AfterRegistration(v), ![v].kind = "verification"]
    /\ UNCHANGED <<link, lockout, minute, guessed, stranded, deaths>>

\* createLegalAcceptance, a statement of its own.
Consent(v) ==
    /\ Is(v, "consent")
    /\ account' = [account EXCEPT !.terms = TRUE]
    /\ Steps(v, "invalidate")
    /\ UNCHANGED <<link, lockout, minute, guessed, stranded, deaths>>

RequestLink(v) ==
    /\ account.exists
    /\ \E kind \in Kinds :
          /\ kind = "verification" => ~account.verified
          /\ Enters(v, AsksFor(kind))
    /\ UNCHANGED <<account, link, lockout, minute, guessed, stranded, deaths>>

\* createPasswordResetToken and createEmailVerificationToken: every unused link
\* of the kind is spent, and then there is a new one.
Invalidate(v) ==
    /\ Is(v, "invalidate")
    /\ link' = [l \in LinkId |-> IF link[l].kind = visit[v].kind /\ link[l].state \in {"unused", "expired"}
                                 THEN [link[l] EXCEPT !.state = "spent"] ELSE link[l]]
    /\ Steps(v, "create")
    /\ UNCHANGED <<account, lockout, minute, guessed, stranded, deaths>>

CreateLink(v) ==
    /\ Is(v, "create")
    /\ \E l \in Unissued :
          /\ \A m \in Unissued : l <= m
          /\ link' = [link EXCEPT ![l] = [kind |-> visit[v].kind, state |-> "unused", uses |-> 0]]
    /\ Leaves(v)
    /\ UNCHANGED <<account, lockout, minute, guessed, stranded, deaths>>

-----------------------------------------------------------------------------
(* verifyEmail and resetPassword.                                          *)

Valid(l) == link[l].state = "unused"

FindLink(v) ==
    /\ \E l \in LinkId : Valid(l) /\ Enters(v, [NoVisit EXCEPT !.at = "consume", !.link = l])
    /\ UNCHANGED <<account, link, lockout, minute, guessed, stranded, deaths>>

\* One transaction, by id: it does not ask whether the link is still unused.
ConsumeLink(v) ==
    /\ Is(v, "consume")
    /\ LET l == visit[v].link
       IN  /\ link' = [link EXCEPT ![l].state = "spent", ![l].uses = @ + 1]
           /\ account' = IF link[l].kind = "reset" THEN [account EXCEPT !.password = @ + 1]
                         ELSE [account EXCEPT !.verified = TRUE]
    /\ Leaves(v)
    /\ UNCHANGED <<lockout, minute, guessed, stranded, deaths>>

-----------------------------------------------------------------------------
\* 24 hours for a verification, one for a reset.
LinkExpires ==
    /\ \E l \in LinkId : Valid(l) /\ link' = [link EXCEPT ![l].state = "expired"]
    /\ UNCHANGED <<account, lockout, visit, minute, guessed, stranded, deaths>>

MinutePasses ==
    /\ minute < MaxMinutes /\ minute' = minute + 1
    /\ UNCHANGED <<account, link, lockout, visit, guessed, stranded, deaths>>

\* The process dies, or Redis or the database fails a statement.
RequestDies(v) ==
    /\ ~Is(v, "away") /\ Leaves(v)
    /\ deaths < MaxDeaths /\ deaths' = deaths + 1
    /\ stranded' = (stranded \/ Is(v, "consent"))
    /\ UNCHANGED <<account, link, lockout, minute, guessed>>

CredentialsInit ==
    /\ account = [exists |-> FALSE, verified |-> FALSE, terms |-> FALSE, password |-> 0]
    /\ link = [l \in LinkId |-> [kind |-> "none", state |-> "none", uses |-> 0]]
    /\ lockout = NoLockout
    /\ visit = [v \in Visitors |-> NoVisit]
    /\ minute = 0 /\ guessed = [passwords |-> 0, since |-> 0]
    /\ stranded = FALSE /\ deaths = 0

CredentialsNext ==
    \/ \E v \in Visitors :
          \/ StartLogin(v) \/ Authenticate(v) \/ CountFailure(v) \/ SetLockedUntil(v) \/ ClearFailures(v)
          \/ Signup(v) \/ Register(v) \/ Consent(v)
          \/ RequestLink(v) \/ Invalidate(v) \/ CreateLink(v)
          \/ FindLink(v) \/ ConsumeLink(v)
          \/ RequestDies(v)
    \/ LinkExpires \/ MinutePasses

CredentialsSpec == CredentialsInit /\ [][CredentialsNext]_credentialVars

-----------------------------------------------------------------------------
\* Whoever guesses gets MAX_ATTEMPTS guesses and, for every minute after that,
\* no more than can be in flight at once: the count and the lock are two
\* commands, and a request may pass the check between them.
GuessesLimited ==
    guessed.passwords <=
        MaxFailures - 1 + Cardinality(Visitors) * (minute - guessed.since + 1) + deaths

\* A link is consumed by no more requests than were in flight, and the newest
\* one works until it is used or has expired, unless a request that was to
\* replace it is under way or died.
LinksWork ==
    /\ \A l \in LinkId : link[l].uses <= Cardinality(Visitors)
    /\ \A l \in LinkId \ Unissued :
          /\ link[l].state = "spent" /\ link[l].uses = 0
          /\ \A m \in Links(link[l].kind) : m <= l
          => deaths > 0 \/ \E v \in Visitors : Is(v, "create") /\ visit[v].kind = link[l].kind

\* Nobody is let in to an account without its terms accepted, unless its
\* signup is still at it, or died before just that statement.
LetInWithTerms ==
    \A v \in Visitors :
        Is(v, "clear") => account.terms \/ stranded \/ \E u \in Visitors : Is(u, "consent")
=============================================================================
