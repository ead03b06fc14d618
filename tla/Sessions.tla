------------------------------ MODULE Sessions ------------------------------
(***************************************************************************)
(* ONE user's refresh-token sessions: AuthService, SessionService, and the *)
(* browsers that hold their cookies (web lib/auth, lib/offers-api).  Tabs  *)
(* of a browser share its cookies and refresh on a 401 each by itself, so  *)
(* the same token is presented twice.  Access tokens are checked by their  *)
(* signature only.                                                         *)
(***************************************************************************)
EXTENDS Integers, FiniteSets, TLC

CONSTANTS
    Browsers,
    Tabs,               \* requests in flight; each in one browser
    NumSessions,        \* bound: sessions ever created
    MaxPasswords,       \* bound: passwords the user ever has
    MaxLosses           \* bound: lost answers and deaths of the server

ASSUME SessionsAssumption ==
    NumSessions \in Nat /\ MaxPasswords \in Nat \ {0} /\ MaxLosses \in Nat

SessionId == 1..NumSessions
NoSession == 0

VARIABLES
    session,    \* Session rows; `family` is the root's id, `known` the password it was opened with
    password,   \* User.hashedPassword, as a version
    member,     \* whether the user has a Membership row
    jar,        \* cookies of each browser: access (until it runs out), refresh, the oa_sess indicator
    tab,        \* what each tab waits for
    late,       \* sessions opened by a request that looked before what was to stop it, or rotated from those
    replayed,   \* families in which a consumed token was presented
    unwiped,    \* whether the server died between a new password and the revocation of the old one's sessions
    losses

sessionVars == <<session, password, member, jar, tab, late, replayed, unwiped, losses>>

-----------------------------------------------------------------------------
(* Plausible bugs, each a form of a definition below (README.md, Mutants). *)

RotateInPlace(s, n) ==      \* Rotated: leaves the consumed one live
    [session EXCEPT ![n] = [state |-> "live", family |-> session[s].family, known |-> session[s].known]]
WipedExcept(kept) ==        \* Wiped: all but the current session
    [s \in SessionId |-> IF session[s].state = "live" /\ s # kept
                         THEN [session[s] EXCEPT !.state = "revoked"] ELSE session[s]]
OnlyItself(s) == {s}        \* Family: the replayed session alone

-----------------------------------------------------------------------------
NoRow  == [state |-> "none", family |-> NoSession, known |-> 0]
Empty  == [access |-> NoSession, refresh |-> NoSession, signedIn |-> FALSE]
Idle(b) == [browser |-> b, at |-> "idle", token |-> NoSession, known |-> 0]

Unused      == {s \in SessionId : session[s].state = "none"}
NextSession(n) == n \in Unused /\ \A s \in Unused : n <= s
Cookies(t)  == jar[tab[t].browser]
Fresh(t)    == Cookies(t).access # NoSession
At(t, step) == tab[t].at = step
To(t, step) == tab' = [tab EXCEPT ![t].at = step]
Finish(t)   == tab' = [tab EXCEPT ![t] = Idle(tab[t].browser)]
SignOut(t)  == jar' = [jar EXCEPT ![tab[t].browser].signedIn = FALSE]
Rows        == <<session, password, member>>
Ghosts      == <<late, replayed, unwiped, losses>>

Live == {s \in SessionId : session[s].state = "live"}

Revoked(ids) == [s \in SessionId |->
                    IF s \in ids /\ session[s].state = "live" THEN [session[s] EXCEPT !.state = "revoked"]
                    ELSE session[s]]
Family(s)    == {r \in SessionId : session[r].state # "none" /\ session[r].family = session[s].family}

-----------------------------------------------------------------------------
(* request() of the web client: one refresh on a 401, and the retry.       *)

Unauthorized(t) ==
    /\ At(t, "idle") /\ Cookies(t).signedIn /\ ~Fresh(t)
    /\ To(t, "unauthorized")
    /\ UNCHANGED <<Rows, jar, Ghosts>>

\* With the cookie as it is by now.
SendRefresh(t) ==
    /\ At(t, "unauthorized")
    /\ IF Cookies(t).refresh = NoSession THEN Finish(t) /\ SignOut(t)
       ELSE tab' = [tab EXCEPT ![t].at = "find", ![t].token = Cookies(t).refresh] /\ UNCHANGED jar
    /\ UNCHANGED <<Rows, Ghosts>>

\* findByRawToken: a revoked one revokes its family.
FindByRawToken(t) ==
    /\ At(t, "find")
    /\ LET s == tab[t].token
       IN  IF session[s].state = "live" THEN To(t, "rotate") /\ UNCHANGED <<session, replayed>>
           ELSE /\ To(t, "refused")
                /\ session' = Revoked(Family(s))
                /\ replayed' = replayed \cup {session[s].family}
    /\ UNCHANGED <<password, member, jar, late, unwiped, losses>>

\* One transaction, by id: it does not ask whether the token is still live.
Rotated(s, n) == [session EXCEPT ![s].state = "revoked",
                                 ![n] = [state |-> "live", family |-> session[s].family,
                                         known |-> session[s].known]]

Rotate(t) ==
    /\ At(t, "rotate")
    /\ \E n \in SessionId : LET s == tab[t].token IN
           /\ NextSession(n)
           /\ session' = Rotated(s, n)
           /\ late' = IF session[s].state = "revoked" \/ s \in late THEN late \cup {n} ELSE late
           /\ tab' = [tab EXCEPT ![t].at = "member", ![t].token = n]
    /\ UNCHANGED <<password, member, jar, replayed, unwiped, losses>>

\* findPrimaryMembership.  Without one the call throws: after a rotation it
\* revokes the OLD session again, and the new one, which nobody holds, stays.
FindMembership(t) ==
    /\ At(t, "member")
    /\ IF member THEN To(t, "answer") ELSE To(t, "refused")
    /\ UNCHANGED <<Rows, jar, Ghosts>>

SetCookies(b, n) == [jar EXCEPT ![b] = [access |-> n, refresh |-> n, signedIn |-> TRUE]]

Answer(t) ==
    /\ At(t, "answer")
    /\ jar' = SetCookies(tab[t].browser, tab[t].token)
    /\ Finish(t)
    /\ UNCHANGED <<Rows, Ghosts>>

\* The cookies stay, only the indicator goes.
Refused(t) ==
    /\ At(t, "refused")
    /\ Finish(t) /\ SignOut(t)
    /\ UNCHANGED <<Rows, Ghosts>>

-----------------------------------------------------------------------------
(* login, logout, switch-org.                                              *)

Login(t) ==
    /\ At(t, "idle") /\ ~Cookies(t).signedIn
    /\ tab' = [tab EXCEPT ![t].at = "create", ![t].known = password]
    /\ UNCHANGED <<Rows, jar, Ghosts>>

\* login asks for the membership after it, switchOrg has done so before.
Create(t) ==
    /\ At(t, "create") \/ At(t, "recreate")
    /\ \E n \in SessionId :
           /\ NextSession(n)
           /\ session' = [session EXCEPT ![n] = [state |-> "live", family |-> n, known |-> tab[t].known]]
           /\ late' = IF tab[t].known # password THEN late \cup {n} ELSE late
           /\ tab' = [tab EXCEPT ![t].at = IF @ = "create" THEN "member" ELSE "answer", ![t].token = n]
    /\ UNCHANGED <<password, member, jar, replayed, unwiped, losses>>

\* Behind the guard: an access token that has run out revokes nothing, and
\* the web client erases its indicator all the same.
Logout(t) ==
    /\ At(t, "idle") /\ Cookies(t).signedIn
    /\ IF Fresh(t) THEN tab' = [tab EXCEPT ![t].at = "logout", ![t].token = Cookies(t).access]
       ELSE To(t, "refused")
    /\ UNCHANGED <<Rows, jar, Ghosts>>

SwitchOrg(t) ==
    /\ At(t, "idle") /\ Fresh(t) /\ member
    /\ tab' = [tab EXCEPT ![t].at = "switch", ![t].token = Cookies(t).access,
                          ![t].known = session[Cookies(t).access].known]
    /\ UNCHANGED <<Rows, jar, Ghosts>>

\* revoke: the session of the access token, live or not.
RevokeOwn(t) ==
    /\ At(t, "logout") \/ At(t, "switch")
    /\ session' = Revoked({tab[t].token})
    /\ To(t, IF At(t, "logout") THEN "leave" ELSE "recreate")
    /\ UNCHANGED <<password, member, jar, Ghosts>>

-----------------------------------------------------------------------------
(* changePassword, and resetPassword with a token from an e-mail.          *)

ChangePassword(t) ==
    /\ At(t, "idle") /\ Fresh(t)
    /\ To(t, "store")
    /\ UNCHANGED <<Rows, jar, Ghosts>>

ResetPassword(t) ==
    /\ At(t, "idle") /\ ~Cookies(t).signedIn
    /\ To(t, "store")
    /\ UNCHANGED <<Rows, jar, Ghosts>>

StorePassword(t) ==
    /\ At(t, "store") /\ password < MaxPasswords
    /\ password' = password + 1
    /\ To(t, "wipe")
    /\ UNCHANGED <<session, member, jar, Ghosts>>

Wiped(kept) == Revoked(SessionId)

\* revokeAll: the current session too.
RevokeAll(t) ==
    /\ At(t, "wipe")
    /\ session' = Wiped(Cookies(t).access)
    /\ To(t, "clear") /\ unwiped' = FALSE
    /\ UNCHANGED <<password, member, jar, late, replayed, losses>>

\* These and logout end at the login page.
Cleared(t) ==
    /\ At(t, "clear") \/ At(t, "leave")
    /\ jar' = [jar EXCEPT ![tab[t].browser] = Empty]
    /\ Finish(t)
    /\ UNCHANGED <<Rows, Ghosts>>

-----------------------------------------------------------------------------
\* The request dies on the server, or its answer on the way: nothing is set,
\* and the client takes it for a network error.  Only logout erases the
\* indicator even so.
Lost(t) ==
    /\ tab[t].at \in {"find", "rotate", "member", "answer", "create", "recreate", "switch", "logout", "leave",
                      "store", "wipe", "clear"}
    /\ losses < MaxLosses /\ losses' = losses + 1
    /\ Finish(t)
    /\ IF At(t, "logout") \/ At(t, "leave") THEN SignOut(t) ELSE UNCHANGED jar
    /\ unwiped' = (unwiped \/ At(t, "wipe"))
    /\ UNCHANGED <<Rows, late, replayed>>

AccessExpires(b) ==
    /\ jar[b].access # NoSession
    /\ jar' = [jar EXCEPT ![b].access = NoSession]
    /\ UNCHANGED <<Rows, tab, Ghosts>>

\* By an administrator of the only organization.
RemovedFromOrg ==
    /\ member /\ member' = FALSE
    /\ UNCHANGED <<session, password, jar, tab, Ghosts>>

-----------------------------------------------------------------------------
SessionsInit ==
    /\ session = [s \in SessionId |-> NoRow]
    /\ password = 1
    /\ member = TRUE
    /\ jar = [b \in Browsers |-> Empty]
    /\ \E browser \in [Tabs -> Browsers] : tab = [t \in Tabs |-> Idle(browser[t])]
    /\ late = {} /\ replayed = {} /\ unwiped = FALSE /\ losses = 0

SessionsNext ==
    \/ \E t \in Tabs :
          \/ Unauthorized(t) \/ SendRefresh(t) \/ FindByRawToken(t) \/ Rotate(t) \/ FindMembership(t)
          \/ Answer(t) \/ Refused(t) \/ Login(t) \/ Create(t) \/ Logout(t) \/ SwitchOrg(t) \/ RevokeOwn(t)
          \/ ChangePassword(t) \/ ResetPassword(t) \/ StorePassword(t) \/ RevokeAll(t) \/ Cleared(t)
          \/ Lost(t)
    \/ \E b \in Browsers : AccessExpires(b)
    \/ RemovedFromOrg

SessionsSpec == SessionsInit /\ [][SessionsNext]_sessionVars

\* Symmetry, for TLC.
Interchangeable == Permutations(Tabs) \cup Permutations(Browsers)
-----------------------------------------------------------------------------
SessionRow == [state : {"none", "live", "revoked"}, family : {NoSession} \cup SessionId,
               known : 0..MaxPasswords]
CookieJar  == [access : {NoSession} \cup SessionId, refresh : {NoSession} \cup SessionId, signedIn : BOOLEAN]
InFlight   == [browser : Browsers,
               at : {"idle", "unauthorized", "find", "rotate", "member", "answer", "refused",
                     "create", "recreate", "switch", "logout", "leave", "store", "wipe", "clear"},
               token : {NoSession} \cup SessionId, known : 0..MaxPasswords]

SessionsTypeOK ==
    /\ session \in [SessionId -> SessionRow]
    /\ password \in 1..MaxPasswords /\ member \in BOOLEAN
    /\ jar \in [Browsers -> CookieJar]
    /\ tab \in [Tabs -> InFlight]
    /\ late \subseteq SessionId /\ replayed \subseteq SessionId
    /\ unwiped \in BOOLEAN /\ losses \in 0..MaxLosses

\* Of the live sessions of a family only one was not opened by a request that
\* had found a token live which was consumed or revoked by the time it rotated.
OneLivePerFamily ==
    \A r, s \in Live : session[r].family = session[s].family /\ r # s => r \in late \/ s \in late

\* Where a consumed token was presented nothing is live any more but what came
\* of a refresh that had been let through before.
ReplayEndsFamily == \A s \in Live : session[s].family \in replayed => s \in late

\* A new password ends every session opened with an old one, but those that a
\* request under way, or an access token switched to a new family, opened
\* after it; while the revocation is under way, or if the server died first.
PasswordChangeSignsOut ==
    \A s \in Live :
        session[s].known < password => s \in late \/ unwiped \/ \E t \in Tabs : At(t, "wipe")
=============================================================================
