-------------------------- MODULE Accounts_proofs ---------------------------
(***************************************************************************)
(* Who may act, with any number of browsers, tabs, sessions, members,      *)
(* invitations, links and calls in flight: the sessions of an account      *)
(* (Sessions), the members of an organization (Organization), the way to   *)
(* an account (Credentials) and the limiter in front of them (RateLimit).  *)
(***************************************************************************)
EXTENDS Sessions, Organization, Credentials, RateLimit, FiniteSetTheorems, TLAPS

-----------------------------------------------------------------------------
(* Sessions.  A family has one live session, a replayed family has none,   *)
(* and a new password leaves none of before, except as Sessions.tla says   *)
(* of each.                                                                *)
(*                                                                         *)
(* The invariant adds to the three that every token a cookie or a request  *)
(* holds is of a session that was opened, and so is every family: then the *)
(* session that is opened next shares its family with none before it.      *)

Opened(n, rows) == n \in SessionId /\ rows[n].state # "none"

TabHolds(row, rows) ==
    row.at \in {"find", "rotate", "member", "answer", "logout", "switch"} => Opened(row.token, rows)

JarHolds(cookies, rows) ==
    /\ cookies.access # NoSession => Opened(cookies.access, rows)
    /\ cookies.refresh # NoSession => Opened(cookies.refresh, rows)

\* The sessions, with those that are excepted and the families replayed.
Books(rows, excepted, again) ==
    /\ rows \in [SessionId -> SessionRow] /\ excepted \subseteq SessionId
    /\ \A s \in SessionId : rows[s].state # "none" => Opened(rows[s].family, rows)
    /\ \A n \in again : Opened(n, rows)
    /\ \A r, s \in SessionId :
          rows[r].state = "live" /\ rows[s].state = "live" /\ rows[r].family = rows[s].family /\ r # s
          => r \in excepted \/ s \in excepted
    /\ \A s \in SessionId : rows[s].state = "live" /\ rows[s].family \in again => s \in excepted

SignedOut(rows, current, excepted) ==
    \A s \in SessionId : rows[s].state = "live" /\ rows[s].known < current => s \in excepted

\* Nothing that was opened is unopened.
Keeps(rows, later) == \A n \in SessionId : Opened(n, rows) => Opened(n, later)

SessionsInv ==
    /\ SessionsTypeOK
    /\ Books(session, late, replayed)
    /\ \A t \in Tabs : TabHolds(tab[t], session)
    /\ \A b \in Browsers : JarHolds(jar[b], session)
    /\ SignedOut(session, password, late) \/ unwiped \/ \E t \in Tabs : tab[t].at = "wipe"

-----------------------------------------------------------------------------
\* The invariant says more than the three properties.
LEMMA SessionsInvImplies ==
    ASSUME SessionsInv PROVE OneLivePerFamily /\ ReplayEndsFamily /\ PasswordChangeSignsOut
<1>1. OneLivePerFamily
  BY DEF SessionsInv, Books, OneLivePerFamily, Live
<1>2. ReplayEndsFamily
  BY DEF SessionsInv, Books, ReplayEndsFamily, Live
<1>3. PasswordChangeSignsOut
  BY DEF SessionsInv, SignedOut, PasswordChangeSignsOut, Live, At
<1> QED
  BY <1>1, <1>2, <1>3

LEMMA FirstSession == ASSUME SessionsInit PROVE SessionsInv
<1>0. /\ NumSessions \in Nat /\ MaxPasswords \in Nat \ {0} /\ MaxLosses \in Nat
      /\ 0 \in 0..MaxPasswords /\ 1 \in 1..MaxPasswords /\ 0 \in 0..MaxLosses
  BY SessionsAssumption
<1>1. /\ session \in [SessionId -> SessionRow] /\ \A s \in SessionId : session[s].state = "none"
      /\ late = {} /\ replayed = {} /\ unwiped = FALSE /\ losses = 0 /\ password = 1 /\ member = TRUE
  BY <1>0 DEF SessionsInit, NoRow, SessionRow
<1>2. jar \in [Browsers -> CookieJar] /\ \A b \in Browsers : JarHolds(jar[b], session)
  BY DEF SessionsInit, Empty, CookieJar, JarHolds
<1>3. tab \in [Tabs -> InFlight] /\ \A t \in Tabs : TabHolds(tab[t], session)
  BY <1>0 DEF SessionsInit, Idle, InFlight, TabHolds
<1>4. SignedOut(session, password, late) /\ Books(session, late, replayed)
  BY <1>1 DEF SignedOut, Books
<1> QED
  BY <1>0, <1>1, <1>2, <1>3, <1>4 DEF SessionsInv, SessionsTypeOK

\* A step of a request, with what it must leave behind.
LEMMA StepOfTab ==
    ASSUME SessionsInv, NEW t \in Tabs, NEW row \in InFlight, tab' = [tab EXCEPT ![t] = row],
           TabHolds(row, session'), Books(session', late', replayed'), Keeps(session, session'),
           jar' \in [Browsers -> CookieJar], \A b \in Browsers : JarHolds(jar'[b], session'),
           password' \in 1..MaxPasswords, member' \in BOOLEAN, losses' \in 0..MaxLosses, unwiped' \in BOOLEAN,
           SignedOut(session', password', late') \/ unwiped' \/ \E u \in Tabs : tab'[u].at = "wipe"
    PROVE  SessionsInv'
<1>1. tab \in [Tabs -> InFlight] /\ \A u \in Tabs : TabHolds(tab[u], session)
  BY DEF SessionsInv, SessionsTypeOK
<1>2. tab' \in [Tabs -> InFlight] /\ \A u \in Tabs : tab'[u] = IF u = t THEN row ELSE tab[u]
  BY <1>1
<1>3. \A u \in Tabs : TabHolds(tab'[u], session')
  <2>1. ASSUME NEW u \in Tabs, u # t PROVE TabHolds(tab[u], session')
    BY <1>1 DEF TabHolds, Keeps, Opened
  <2> QED
    BY <1>2, <2>1
<1>4. session' \in [SessionId -> SessionRow] /\ late' \subseteq SessionId /\ replayed' \subseteq SessionId
  BY DEF Books, Opened
<1>5. SessionsTypeOK'
  BY <1>2, <1>4 DEF SessionsTypeOK
<1> QED
  BY <1>3, <1>5 DEF SessionsInv

\* A request that leaves sessions, password and cookies alone.
LEMMA Quiet ==
    ASSUME SessionsInv, NEW t \in Tabs, NEW row \in InFlight, tab' = [tab EXCEPT ![t] = row],
           TabHolds(row, session), UNCHANGED <<session, password, member, late, replayed>>,
           jar' \in [Browsers -> CookieJar], \A b \in Browsers : JarHolds(jar'[b], session),
           losses' \in 0..MaxLosses, unwiped' \in BOOLEAN, unwiped => unwiped',
           tab[t].at = "wipe" => unwiped'
    PROVE  SessionsInv'
<1>1. /\ tab \in [Tabs -> InFlight] /\ losses \in 0..MaxLosses /\ MaxLosses \in Nat /\ unwiped \in BOOLEAN
      /\ password' \in 1..MaxPasswords /\ member' \in BOOLEAN
      /\ session' = session /\ late' = late /\ replayed' = replayed /\ password' = password
  BY SessionsAssumption DEF SessionsInv, SessionsTypeOK
<1>2. SignedOut(session', password', late') \/ unwiped' \/ \E u \in Tabs : tab'[u].at = "wipe"
  <2>1. CASE SignedOut(session, password, late)
    BY <1>1, <2>1
  <2>2. CASE unwiped
    BY <1>1, <2>2
  <2>3. ASSUME NEW u \in Tabs, tab[u].at = "wipe" PROVE unwiped' \/ tab'[u].at = "wipe"
    BY <1>1, <2>3
  <2> QED
    BY <2>1, <2>2, <2>3 DEF SessionsInv
<1>3. Books(session', late', replayed') /\ Keeps(session, session')
  BY <1>1 DEF SessionsInv, Keeps
<1>4. TabHolds(row, session') /\ \A b \in Browsers : JarHolds(jar'[b], session')
  BY <1>1
<1> HIDE DEF SessionsInv
<1> QED
  BY <1>1, <1>2, <1>3, <1>4, StepOfTab

\* Revoking unopens nothing and makes nothing live.
LEMMA Revoking ==
    ASSUME SessionsInv, NEW ids, session' = Revoked(ids)
    PROVE  /\ Books(session', late, replayed) /\ Keeps(session, session')
           /\ \A s \in SessionId : /\ session'[s].family = session[s].family
                                   /\ session'[s].known = session[s].known
                                   /\ session'[s].state = "live" <=> session[s].state = "live" /\ s \notin ids
                                   /\ session'[s].state = "none" <=> session[s].state = "none"
<1>1. session \in [SessionId -> SessionRow] /\ Books(session, late, replayed)
  BY DEF SessionsInv, SessionsTypeOK
<1>2. \A s \in SessionId : session[s] \in SessionRow
  BY <1>1
<1>3. ASSUME NEW s \in SessionId
      PROVE  /\ session'[s] \in SessionRow
             /\ session'[s].family = session[s].family /\ session'[s].known = session[s].known
             /\ session'[s].state = "live" <=> session[s].state = "live" /\ s \notin ids
             /\ session'[s].state = "none" <=> session[s].state = "none"
  BY <1>2 DEF Revoked, SessionRow
<1>4. session' \in [SessionId -> SessionRow]
  BY <1>3 DEF Revoked
<1>5. Keeps(session, session')
  BY <1>3 DEF Keeps, Opened
<1>6. Books(session', late, replayed)
  BY <1>1, <1>3, <1>4 DEF Books, Opened
<1> QED
  BY <1>3, <1>5, <1>6

\* Revoking signs nobody in.
LEMMA RevokingSignsOut ==
    ASSUME SessionsInv, NEW ids, session' = Revoked(ids), SignedOut(session, password, late)
    PROVE  SignedOut(session', password, late)
  BY Revoking DEF SignedOut

\* A request that revokes some sessions and goes on without a token.
LEMMA TabRevokes ==
    ASSUME SessionsInv, NEW ids, session' = Revoked(ids), NEW t \in Tabs, NEW row \in InFlight,
           tab' = [tab EXCEPT ![t] = row], row.at \in {"leave", "recreate"}, tab[t].at # "wipe",
           UNCHANGED <<password, member, jar, late, replayed, unwiped, losses>>
    PROVE  SessionsInv'
<1>1. Books(session', late', replayed') /\ Keeps(session, session')
  BY Revoking
<1>2. TabHolds(row, session')
  BY DEF TabHolds
<1>3. /\ jar' \in [Browsers -> CookieJar] /\ password' \in 1..MaxPasswords /\ member' \in BOOLEAN
      /\ losses' \in 0..MaxLosses /\ unwiped' \in BOOLEAN /\ tab \in [Tabs -> InFlight]
  BY DEF SessionsInv, SessionsTypeOK
<1>4. \A b \in Browsers : JarHolds(jar'[b], session')
  BY <1>1 DEF SessionsInv, JarHolds, Keeps, Opened
<1>5. SignedOut(session', password', late') \/ unwiped' \/ \E u \in Tabs : tab'[u].at = "wipe"
  <2>1. CASE SignedOut(session, password, late)
    BY <2>1, RevokingSignsOut
  <2>2. CASE unwiped
    BY <2>2
  <2>3. ASSUME NEW u \in Tabs, tab[u].at = "wipe" PROVE tab'[u].at = "wipe"
    BY <1>3, <2>3
  <2> QED
    BY <2>1, <2>2, <2>3 DEF SessionsInv
<1> QED
  BY <1>1, <1>2, <1>3, <1>4, <1>5, StepOfTab

\* One more session: its own family's first, or the successor of one.
LEMMA Opening ==
    ASSUME SessionsInv, NEW n \in SessionId, session[n].state = "none", NEW new \in SessionRow, NEW s,
           new.state = "live",
           session' \in [SessionId -> SessionRow],
           \A r \in SessionId : /\ r = n => session'[r] = new
                                /\ r # n => /\ session'[r].family = session[r].family
                                            /\ session'[r].known = session[r].known
                                            /\ session'[r].state = "none" <=> session[r].state = "none"
                                            /\ session'[r].state = "live" <=> session[r].state = "live" /\ r # s,
           late \subseteq late', late' \subseteq SessionId,
           \/ new.family = n
           \/ /\ Opened(s, session) /\ new.family = session[s].family
              /\ session[s].state # "live" \/ s \in late => n \in late'
    PROVE  Books(session', late', replayed) /\ Keeps(session, session')
<1>1. Books(session, late, replayed)
  BY DEF SessionsInv
<1>2. Keeps(session, session') /\ Opened(n, session')
  BY DEF Keeps, Opened
<1>3. ASSUME NEW r \in SessionId, session'[r].state # "none" PROVE Opened(session'[r].family, session')
  BY <1>1, <1>2, <1>3 DEF Books, Keeps, Opened
<1>4. ASSUME NEW r \in SessionId, session'[r].state = "live", r # n, session'[r].family = new.family
      PROVE  r \in late' \/ n \in late'
  <2>1. session[r].state = "live" /\ r # s /\ session[r].family = new.family
    BY <1>4
  <2>2. CASE new.family = n
    BY <1>1, <2>1, <2>2 DEF Books, Opened
  <2>3. CASE /\ Opened(s, session) /\ new.family = session[s].family
             /\ session[s].state # "live" \/ s \in late => n \in late'
    <3>1. CASE session[s].state # "live" \/ s \in late
      BY <2>3, <3>1
    <3>2. CASE session[s].state = "live" /\ s \notin late
      BY <1>1, <2>1, <2>3, <3>2 DEF Books, Opened
    <3> QED
      BY <3>1, <3>2
  <2> QED
    BY <2>2, <2>3
<1>5. ASSUME NEW q \in SessionId, NEW r \in SessionId, session'[q].state = "live", session'[r].state = "live",
             session'[q].family = session'[r].family, q # r
      PROVE  q \in late' \/ r \in late'
  <2>1. CASE q = n \/ r = n
    BY <1>4, <1>5, <2>1
  <2>2. CASE q # n /\ r # n
    BY <1>1, <1>5, <2>2 DEF Books
  <2> QED
    BY <2>1, <2>2
<1>6. ASSUME NEW r \in SessionId, session'[r].state = "live", session'[r].family \in replayed
      PROVE  r \in late'
  <2>1. CASE r # n
    BY <1>1, <1>6, <2>1 DEF Books
  <2>2. CASE r = n /\ new.family = n
    BY <1>1, <1>6, <2>2 DEF Books, Opened
  <2>3. CASE /\ r = n /\ Opened(s, session) /\ new.family = session[s].family
             /\ session[s].state # "live" \/ s \in late => n \in late'
    <3>1. session[s].family \in replayed /\ s \in SessionId
      BY <1>6, <2>3 DEF Opened
    <3>2. session[s].state # "live" \/ s \in late
      BY <1>1, <3>1 DEF Books
    <3> QED
      BY <2>3, <3>2
  <2> QED
    BY <2>1, <2>2, <2>3
<1>7. \A m \in replayed : Opened(m, session')
  BY <1>1, <1>2 DEF Books, Keeps, Opened
<1> QED
  BY <1>2, <1>3, <1>5, <1>6, <1>7 DEF Books

-----------------------------------------------------------------------------
\* A request that goes one step on, and does nothing else.
LEMMA GoesOn ==
    ASSUME SessionsInv, NEW t \in Tabs,
           NEW step \in {"idle", "unauthorized", "find", "rotate", "member", "answer", "refused",
                         "create", "store", "wipe", "clear"},
           To(t, step), UNCHANGED <<Rows, jar, Ghosts>>, tab[t].at # "wipe",
           step \in {"rotate", "answer"} => Opened(tab[t].token, session),
           step \notin {"find", "member"}
    PROVE  SessionsInv'
<1> DEFINE row == [tab[t] EXCEPT !.at = step]
<1>1. tab[t] \in InFlight /\ jar \in [Browsers -> CookieJar] /\ losses \in 0..MaxLosses /\ MaxLosses \in Nat /\ unwiped \in BOOLEAN
  BY SessionsAssumption DEF SessionsInv, SessionsTypeOK
<1>2. row \in InFlight /\ row.at = step /\ row.token = tab[t].token
  BY <1>1 DEF InFlight
<1>3. tab' = [tab EXCEPT ![t] = row]
  BY DEF To
<1> HIDE DEF row
<1>4. TabHolds(row, session)
  BY <1>2 DEF TabHolds
<1>5. /\ UNCHANGED <<session, password, member, late, replayed>> /\ jar' = jar /\ losses' = losses /\ unwiped' = unwiped
      /\ \A b \in Browsers : JarHolds(jar[b], session)
  BY DEF Rows, Ghosts, SessionsInv
<1>6. losses' \in 0..MaxLosses /\ unwiped' \in BOOLEAN /\ (unwiped => unwiped')
  BY <1>1, <1>5
<1> QED
  BY <1>1, <1>2, <1>3, <1>4, <1>5, <1>6, Quiet

\* A request that is over, with the cookies it leaves.
LEMMA IsOver ==
    ASSUME SessionsInv, NEW t \in Tabs, Finish(t), UNCHANGED <<session, password, member, late, replayed>>,
           jar' \in [Browsers -> CookieJar], \A b \in Browsers : JarHolds(jar'[b], session),
           losses' \in 0..MaxLosses, unwiped' \in BOOLEAN, unwiped => unwiped', tab[t].at = "wipe" => unwiped'
    PROVE  SessionsInv'
<1> DEFINE row == Idle(tab[t].browser)
<1>1. tab[t].browser \in Browsers /\ 0 \in 0..MaxPasswords
  BY SessionsAssumption DEF SessionsInv, SessionsTypeOK, InFlight
<1>2. row \in InFlight /\ row.at = "idle"
  BY <1>1 DEF Idle, InFlight
<1>3. tab' = [tab EXCEPT ![t] = row]
  BY DEF Finish
<1> HIDE DEF row
<1>4. TabHolds(row, session)
  BY <1>2 DEF TabHolds
<1> QED
  BY <1>2, <1>3, <1>4, Quiet

\* The state that steps start from.
LEMMA Typed ==
    ASSUME SessionsInv
    PROVE  /\ session \in [SessionId -> SessionRow] /\ jar \in [Browsers -> CookieJar]
           /\ tab \in [Tabs -> InFlight] /\ losses \in 0..MaxLosses /\ MaxLosses \in Nat /\ unwiped \in BOOLEAN
           /\ MaxPasswords \in Nat /\ password \in 1..MaxPasswords /\ member \in BOOLEAN
           /\ late \subseteq SessionId
           /\ \A t \in Tabs : tab[t].browser \in Browsers
           /\ \A b \in Browsers : JarHolds(jar[b], session)
  BY SessionsAssumption DEF SessionsInv, SessionsTypeOK, InFlight

\* Cookies that are signed out, or gone, hold no more than before.
LEMMA CookiesGo ==
    ASSUME SessionsInv, NEW b \in Browsers,
           \/ jar' = [jar EXCEPT ![b].signedIn = FALSE]
           \/ jar' = [jar EXCEPT ![b].access = NoSession]
           \/ jar' = [jar EXCEPT ![b] = Empty]
    PROVE  jar' \in [Browsers -> CookieJar] /\ \A a \in Browsers : JarHolds(jar'[a], session)
<1>1. \A a \in Browsers : jar[a] \in CookieJar /\ JarHolds(jar[a], session)
  BY Typed
<1> DEFINE out == [jar[b] EXCEPT !.signedIn = FALSE]
           old == [jar[b] EXCEPT !.access = NoSession]
<1>2. \A cookies \in {out, old, Empty} : cookies \in CookieJar /\ JarHolds(cookies, session)
  <2>1. jar[b] = [access |-> jar[b].access, refresh |-> jar[b].refresh, signedIn |-> jar[b].signedIn]
    BY <1>1 DEF CookieJar
  <2>2. out \in CookieJar /\ JarHolds(out, session)
    BY <1>1, <2>1 DEF CookieJar, JarHolds
  <2>3. old \in CookieJar /\ JarHolds(old, session)
    BY <1>1, <2>1 DEF CookieJar, JarHolds
  <2>4. Empty \in CookieJar /\ JarHolds(Empty, session)
    BY DEF CookieJar, JarHolds, Empty
  <2> HIDE DEF out, old
  <2> QED
    BY <2>2, <2>3, <2>4
<1>3. PICK cookies \in {out, old, Empty} : jar' = [jar EXCEPT ![b] = cookies]
  OBVIOUS
<1> HIDE DEF out, old
<1>4. \A a \in Browsers : jar'[a] = IF a = b THEN cookies ELSE jar[a]
  BY <1>3, Typed
<1> QED
  BY <1>1, <1>2, <1>3, <1>4, Typed

LEMMA RefreshSent ==
    ASSUME SessionsInv, NEW t \in Tabs, SendRefresh(t) PROVE SessionsInv'
<1> DEFINE b == tab[t].browser
           row == [tab[t] EXCEPT !.at = "find", !.token = jar[b].refresh]
<1>0. /\ At(t, "unauthorized") /\ UNCHANGED <<session, password, member, late, replayed>> /\ losses' = losses /\ unwiped' = unwiped
  BY DEF SendRefresh, Rows, Ghosts
<1>1. tab[t] \in InFlight /\ b \in Browsers /\ jar[b] \in CookieJar /\ losses' \in 0..MaxLosses /\ unwiped' \in BOOLEAN /\ (unwiped => unwiped')
  BY <1>0, Typed
<1>2. CASE Finish(t) /\ SignOut(t)
  <2>1. jar' \in [Browsers -> CookieJar] /\ \A a \in Browsers : JarHolds(jar'[a], session)
    BY <1>1, <1>2, CookiesGo DEF SignOut
  <2> QED
    BY <1>0, <1>1, <1>2, <2>1, IsOver DEF At
<1>3. CASE jar[b].refresh # NoSession /\ tab' = [tab EXCEPT ![t] = row] /\ UNCHANGED jar
  <2>1. Opened(jar[b].refresh, session) /\ jar[b].refresh \in {NoSession} \cup SessionId
    BY <1>1, <1>3, Typed DEF JarHolds, CookieJar
  <2>2. row \in InFlight /\ TabHolds(row, session)
    BY <1>1, <2>1 DEF InFlight, TabHolds
  <2>3. jar' \in [Browsers -> CookieJar] /\ \A a \in Browsers : JarHolds(jar'[a], session)
    BY <1>3, Typed
  <2> HIDE DEF row
  <2> QED
    BY <1>0, <1>1, <1>3, <2>2, <2>3, Quiet DEF At
<1> QED
  BY <1>2, <1>3 DEF SendRefresh, Cookies

\* A token that is found live goes on; one that is not ends its family.
LEMMA TokenFound ==
    ASSUME SessionsInv, NEW t \in Tabs, FindByRawToken(t) PROVE SessionsInv'
<1> DEFINE s == tab[t].token
<1>0. At(t, "find") /\ UNCHANGED <<password, member, jar, late, unwiped, losses>> /\ Opened(s, session)
  BY DEF FindByRawToken, SessionsInv, TabHolds, At
<1>1. CASE To(t, "rotate") /\ UNCHANGED <<session, replayed>>
  BY <1>0, <1>1, GoesOn DEF Rows, Ghosts, At
<1>2. CASE To(t, "refused") /\ session' = Revoked(Family(s)) /\ replayed' = replayed \cup {session[s].family}
  <2> DEFINE row == [tab[t] EXCEPT !.at = "refused"]
  <2>1. row \in InFlight /\ row.at = "refused" /\ tab' = [tab EXCEPT ![t] = row]
    BY <1>2, Typed DEF InFlight, To
  <2> HIDE DEF row
  <2>2. TabHolds(row, session')
    BY <2>1 DEF TabHolds
  <2>3. Books(session', late, replayed) /\ Keeps(session, session')
    BY <1>2, Revoking
  <2>4. Opened(session[s].family, session')
    BY <1>0, <2>3 DEF SessionsInv, Books, Keeps, Opened
  <2>5. ASSUME NEW r \in SessionId, session'[r].state = "live" PROVE session'[r].family # session[s].family
    <3>1. session[r].state = "live" /\ r \notin Family(s) /\ session'[r].family = session[r].family
      BY <1>2, <2>5, Revoking
    <3> QED
      BY <3>1 DEF Family
  <2>6. Books(session', late', replayed')
    BY <1>0, <1>2, <2>3, <2>4, <2>5 DEF Books
  <2>7. \A b \in Browsers : JarHolds(jar'[b], session')
    BY <1>0, <2>3, Typed DEF JarHolds, Keeps, Opened
  <2>8. SignedOut(session', password', late') \/ unwiped' \/ \E u \in Tabs : tab'[u].at = "wipe"
    <3>1. CASE SignedOut(session, password, late)
      BY <1>0, <1>2, <3>1, RevokingSignsOut
    <3>2. CASE unwiped
      BY <1>0, <3>2
    <3>3. ASSUME NEW u \in Tabs, tab[u].at = "wipe" PROVE tab'[u].at = "wipe"
      BY <1>0, <2>1, <3>3, Typed DEF At
    <3> QED
      BY <3>1, <3>2, <3>3 DEF SessionsInv
  <2>9. jar' \in [Browsers -> CookieJar] /\ password' \in 1..MaxPasswords /\ member' \in BOOLEAN /\ losses' \in 0..MaxLosses
      /\ unwiped' \in BOOLEAN
    BY <1>0, Typed
  <2> QED
    BY <2>1, <2>2, <2>3, <2>6, <2>7, <2>8, <2>9, StepOfTab
<1> QED
  BY <1>1, <1>2 DEF FindByRawToken

\* A request opens a session and goes on with it.
LEMMA TabOpens ==
    ASSUME SessionsInv, NEW t \in Tabs, tab[t].at # "wipe", NEW n \in SessionId, NEW step \in {"member", "answer"},
           tab' = [tab EXCEPT ![t].at = step, ![t].token = n],
           UNCHANGED <<password, member, jar, replayed, unwiped, losses>>,
           Books(session', late', replayed), Keeps(session, session'), Opened(n, session'),
           SignedOut(session, password, late) => SignedOut(session', password, late')
    PROVE  SessionsInv'
<1> DEFINE row == [tab[t] EXCEPT !.at = step, !.token = n]
<1>1. row \in InFlight /\ row.at = step /\ row.token = n
  BY Typed DEF InFlight
<1>2. tab' = [tab EXCEPT ![t] = row]
  OBVIOUS
<1> HIDE DEF row
<1>3. TabHolds(row, session')
  BY <1>1 DEF TabHolds
<1>4. \A b \in Browsers : JarHolds(jar'[b], session')
  BY Typed DEF JarHolds, Keeps, Opened
<1>5. SignedOut(session', password', late') \/ unwiped' \/ \E u \in Tabs : tab'[u].at = "wipe"
  <2>1. CASE SignedOut(session, password, late)
    BY <2>1
  <2>2. CASE unwiped
    BY <2>2
  <2>3. ASSUME NEW u \in Tabs, tab[u].at = "wipe" PROVE tab'[u].at = "wipe"
    BY <2>3, Typed
  <2> QED
    BY <2>1, <2>2, <2>3 DEF SessionsInv
<1>6. jar' \in [Browsers -> CookieJar] /\ password' \in 1..MaxPasswords /\ member' \in BOOLEAN /\ losses' \in 0..MaxLosses
      /\ unwiped' \in BOOLEAN
  BY Typed
<1>7. Books(session', late', replayed')
  OBVIOUS
<1> QED
  BY <1>1, <1>2, <1>3, <1>4, <1>5, <1>6, <1>7, StepOfTab

\* The successor is live; the other is not, or was not when it was rotated.
LEMMA RotatePreserves ==
    ASSUME SessionsInv, NEW t \in Tabs, Rotate(t) PROVE SessionsInv'
<1> DEFINE s == tab[t].token
<1>1. PICK n \in SessionId :
         /\ NextSession(n) /\ session' = Rotated(s, n)
         /\ late' = IF session[s].state = "revoked" \/ s \in late THEN late \cup {n} ELSE late
         /\ tab' = [tab EXCEPT ![t].at = "member", ![t].token = n]
  BY DEF Rotate
<1>2. /\ At(t, "rotate") /\ UNCHANGED <<password, member, jar, replayed, unwiped, losses>>
      /\ Opened(s, session) /\ session[n].state = "none"
  BY <1>1 DEF Rotate, SessionsInv, TabHolds, At, NextSession, Unused
<1>3. /\ \A r \in SessionId : session[r] \in SessionRow
      /\ session[s].family \in SessionId /\ s # n
  BY <1>2, Typed DEF SessionsInv, Books, Opened
<1> DEFINE new == [state |-> "live", family |-> session[s].family, known |-> session[s].known]
           old == [session[s] EXCEPT !.state = "revoked"]
<1>4. new \in SessionRow /\ new.state = "live" /\ new.family = session[s].family /\ new.known = session[s].known
  BY <1>2, <1>3 DEF SessionRow, Opened
<1>5. old \in SessionRow /\ old.state = "revoked" /\ old.family = session[s].family /\ old.known = session[s].known
  BY <1>2, <1>3 DEF SessionRow, Opened
<1>6. session' = [[session EXCEPT ![s] = old] EXCEPT ![n] = new]
  BY <1>1 DEF Rotated
<1> HIDE DEF new, old
<1>7. /\ session' \in [SessionId -> SessionRow]
      /\ \A r \in SessionId : session'[r] = IF r = n THEN new ELSE IF r = s THEN old ELSE session[r]
  BY <1>2, <1>4, <1>5, <1>6, Typed DEF Opened
<1>8. \A r \in SessionId : /\ r = n => session'[r] = new
                           /\ r # n => /\ session'[r].family = session[r].family
                                       /\ session'[r].known = session[r].known
                                       /\ session'[r].state = "none" <=> session[r].state = "none"
                                       /\ session'[r].state = "live" <=> session[r].state = "live" /\ r # s
  BY <1>2, <1>5, <1>7 DEF Opened
<1>9. late \subseteq late' /\ late' \subseteq SessionId
      /\ (session[s].state # "live" \/ s \in late => n \in late')
  BY <1>1, <1>2, <1>3, Typed DEF SessionRow, Opened
<1>10. Books(session', late', replayed) /\ Keeps(session, session')
  BY <1>2, <1>4, <1>7, <1>8, <1>9, Opening
<1>11. SignedOut(session, password, late) => SignedOut(session', password, late')
  BY <1>2, <1>4, <1>8, <1>9 DEF SignedOut, Opened
<1>12. Opened(n, session')
  BY <1>4, <1>8 DEF Opened
<1> QED
  BY <1>1, <1>2, <1>10, <1>11, <1>12, TabOpens DEF At

\* A new family; with the password of before, an excepted one.
LEMMA CreatePreserves ==
    ASSUME SessionsInv, NEW t \in Tabs, Create(t) PROVE SessionsInv'
<1> DEFINE new(n) == [state |-> "live", family |-> n, known |-> tab[t].known]
<1>1. PICK n \in SessionId :
         /\ NextSession(n) /\ session' = [session EXCEPT ![n] = new(n)]
         /\ late' = IF tab[t].known # password THEN late \cup {n} ELSE late
         /\ tab' = [tab EXCEPT ![t].at = IF @ = "create" THEN "member" ELSE "answer", ![t].token = n]
  BY DEF Create
<1>2. /\ tab[t].at # "wipe" /\ UNCHANGED <<password, member, jar, replayed, unwiped, losses>> /\ session[n].state = "none"
  BY <1>1 DEF Create, At, NextSession, Unused
<1>3. new(n) \in SessionRow /\ new(n).state = "live" /\ new(n).family = n /\ new(n).known = tab[t].known
  BY Typed DEF InFlight, SessionRow
<1> HIDE DEF new
<1>4. session' \in [SessionId -> SessionRow] /\ \A r \in SessionId : session'[r] = IF r = n THEN new(n) ELSE session[r]
  BY <1>1, <1>3, Typed
<1>5. \A r \in SessionId : /\ r = n => session'[r] = new(n)
                           /\ r # n => /\ session'[r].family = session[r].family
                                       /\ session'[r].known = session[r].known
                                       /\ session'[r].state = "none" <=> session[r].state = "none"
                                       /\ session'[r].state = "live" <=> session[r].state = "live" /\ r # n
  BY <1>4
<1>6. late \subseteq late' /\ late' \subseteq SessionId
  BY <1>1, Typed
<1>7. Books(session', late', replayed) /\ Keeps(session, session')
  BY <1>2, <1>3, <1>4, <1>5, <1>6, Opening
<1>8. ASSUME SignedOut(session, password, late) PROVE SignedOut(session', password, late')
  <2>1. password \in Int /\ (new(n).known < password => n \in late')
    BY <1>1, <1>3, Typed
  <2> QED
    BY <1>3, <1>5, <1>6, <1>8, <2>1 DEF SignedOut
<1>9. Opened(n, session')
  BY <1>3, <1>5 DEF Opened
<1>10. PICK step \in {"member", "answer"} : step = IF tab[t].at = "create" THEN "member" ELSE "answer"
  OBVIOUS
<1>11. tab' = [tab EXCEPT ![t].at = step, ![t].token = n]
  BY <1>1, <1>10, Typed
<1> QED
  BY <1>2, <1>7, <1>8, <1>9, <1>11, TabOpens

\* The server sets the cookies of a session that was opened.
LEMMA AnswerPreserves ==
    ASSUME SessionsInv, NEW t \in Tabs, Answer(t) PROVE SessionsInv'
<1> DEFINE n == tab[t].token
           cookies == [access |-> n, refresh |-> n, signedIn |-> TRUE]
<1>1. /\ At(t, "answer") /\ Finish(t) /\ jar' = [jar EXCEPT ![tab[t].browser] = cookies]
      /\ UNCHANGED <<session, password, member, late, replayed>> /\ losses' = losses /\ unwiped' = unwiped
  BY DEF Answer, SetCookies, Rows, Ghosts
<1>2. Opened(n, session)
  BY <1>1 DEF SessionsInv, TabHolds, At
<1>3. cookies \in CookieJar /\ JarHolds(cookies, session)
  BY <1>2 DEF CookieJar, JarHolds, Opened
<1> HIDE DEF cookies
<1>4. \A a \in Browsers : jar'[a] = IF a = tab[t].browser THEN cookies ELSE jar[a]
  BY <1>1, Typed
<1>5. jar' \in [Browsers -> CookieJar] /\ \A a \in Browsers : JarHolds(jar'[a], session)
  BY <1>1, <1>3, <1>4, Typed
<1>6. losses' \in 0..MaxLosses /\ unwiped' \in BOOLEAN /\ (unwiped => unwiped')
  BY <1>1, Typed
<1> QED
  BY <1>1, <1>5, <1>6, IsOver DEF At

LEMMA RefusedOrCleared ==
    ASSUME SessionsInv, NEW t \in Tabs, Refused(t) \/ Cleared(t) PROVE SessionsInv'
<1>1. /\ Finish(t) /\ tab[t].at # "wipe" /\ UNCHANGED <<session, password, member, late, replayed>> /\ losses' = losses /\ unwiped' = unwiped
  BY DEF Refused, Cleared, Rows, Ghosts, At
<1>2. jar' \in [Browsers -> CookieJar] /\ \A b \in Browsers : JarHolds(jar'[b], session)
  BY CookiesGo, Typed DEF Refused, Cleared, SignOut
<1>3. losses' \in 0..MaxLosses /\ unwiped' \in BOOLEAN /\ (unwiped => unwiped')
  BY <1>1, Typed
<1> QED
  BY <1>1, <1>2, <1>3, IsOver

LEMMA LoginPreserves ==
    ASSUME SessionsInv, NEW t \in Tabs, Login(t) PROVE SessionsInv'
<1> DEFINE row == [tab[t] EXCEPT !.at = "create", !.known = password]
<1>1. /\ At(t, "idle") /\ tab' = [tab EXCEPT ![t] = row] /\ jar' = jar
      /\ UNCHANGED <<session, password, member, late, replayed>> /\ losses' = losses /\ unwiped' = unwiped
  BY DEF Login, Rows, Ghosts
<1>2. password \in 0..MaxPasswords
  BY Typed
<1>3. row \in InFlight /\ TabHolds(row, session)
  BY <1>2, Typed DEF InFlight, TabHolds
<1> HIDE DEF row
<1>4. losses' \in 0..MaxLosses /\ unwiped' \in BOOLEAN /\ (unwiped => unwiped')
  BY <1>1, Typed
<1>5. jar' \in [Browsers -> CookieJar] /\ \A b \in Browsers : JarHolds(jar'[b], session)
  BY <1>1, Typed
<1> QED
  BY <1>1, <1>3, <1>4, <1>5, Quiet DEF At

\* The session that a browser's access token names is one that was opened.
LEMMA HoldsOwn ==
    ASSUME SessionsInv, NEW t \in Tabs, Fresh(t), tab[t].at # "wipe", UNCHANGED <<Rows, jar, Ghosts>>,
           tab' = [tab EXCEPT ![t].at = "logout", ![t].token = Cookies(t).access]
    PROVE  SessionsInv'
<1> DEFINE a == Cookies(t).access
           row == [tab[t] EXCEPT !.at = "logout", !.token = a]
<1>1. /\ UNCHANGED <<session, password, member, late, replayed>> /\ jar' = jar
      /\ losses' = losses /\ unwiped' = unwiped
      /\ tab' = [tab EXCEPT ![t] = row] /\ a # NoSession
  BY DEF Rows, Ghosts, Fresh
<1>2. Opened(a, session)
  BY <1>1, Typed DEF Cookies, JarHolds
<1>3. row \in InFlight /\ row.token = a
  BY <1>2, Typed DEF InFlight, Opened
<1> HIDE DEF row
<1>4. TabHolds(row, session)
  BY <1>2, <1>3 DEF TabHolds
<1>5. losses' \in 0..MaxLosses /\ unwiped' \in BOOLEAN /\ (unwiped => unwiped')
  BY <1>1, Typed
<1>6. jar' \in [Browsers -> CookieJar] /\ \A b \in Browsers : JarHolds(jar'[b], session)
  BY <1>1, Typed
<1> QED
  BY <1>1, <1>3, <1>4, <1>5, <1>6, Quiet

LEMMA LogoutPreserves ==
    ASSUME SessionsInv, NEW t \in Tabs, Logout(t) PROVE SessionsInv'
<1>0. At(t, "idle") /\ UNCHANGED <<Rows, jar, Ghosts>>
  BY DEF Logout
<1>1. CASE Fresh(t) /\ tab' = [tab EXCEPT ![t].at = "logout", ![t].token = Cookies(t).access]
  BY <1>0, <1>1, HoldsOwn DEF At
<1>2. CASE To(t, "refused")
  BY <1>0, <1>2, GoesOn DEF At
<1> QED
  BY <1>1, <1>2 DEF Logout

LEMMA SwitchPreserves ==
    ASSUME SessionsInv, NEW t \in Tabs, SwitchOrg(t) PROVE SessionsInv'
<1> DEFINE a == Cookies(t).access
           row == [tab[t] EXCEPT !.at = "switch", !.token = a, !.known = session[a].known]
<1>1. /\ At(t, "idle") /\ UNCHANGED <<session, password, member, late, replayed>> /\ jar' = jar
      /\ losses' = losses /\ unwiped' = unwiped
      /\ tab' = [tab EXCEPT ![t] = row] /\ a # NoSession
  BY DEF SwitchOrg, Rows, Ghosts, Fresh
<1>2. Opened(a, session)
  BY <1>1, Typed DEF Cookies, JarHolds
<1>3. session[a].known \in 0..MaxPasswords
  BY <1>2, Typed DEF SessionRow, Opened
<1>4. row \in InFlight /\ row.token = a
  BY <1>2, <1>3, Typed DEF InFlight, Opened
<1> HIDE DEF row
<1>5. TabHolds(row, session)
  BY <1>2, <1>4 DEF TabHolds
<1>6. losses' \in 0..MaxLosses /\ unwiped' \in BOOLEAN /\ (unwiped => unwiped')
  BY <1>1, Typed
<1>7. jar' \in [Browsers -> CookieJar] /\ \A b \in Browsers : JarHolds(jar'[b], session)
  BY <1>1, Typed
<1> QED
  BY <1>1, <1>4, <1>5, <1>6, <1>7, Quiet DEF At

LEMMA OwnRevoked ==
    ASSUME SessionsInv, NEW t \in Tabs, RevokeOwn(t) PROVE SessionsInv'
<1>1. /\ tab[t].at # "wipe" /\ session' = Revoked({tab[t].token})
      /\ UNCHANGED <<password, member, jar, late, replayed, unwiped, losses>>
  BY DEF RevokeOwn, Ghosts, At
<1>2. PICK step \in {"leave", "recreate"} : tab' = [tab EXCEPT ![t].at = step]
  BY DEF RevokeOwn, To
<1> DEFINE row == [tab[t] EXCEPT !.at = step]
<1>3. row \in InFlight /\ row.at = step /\ tab' = [tab EXCEPT ![t] = row]
  BY <1>2, Typed DEF InFlight
<1> HIDE DEF row
<1> QED
  BY <1>1, <1>2, <1>3, TabRevokes

\* Until the wipe that follows, a new password signs nobody out.
LEMMA StorePreserves ==
    ASSUME SessionsInv, NEW t \in Tabs, StorePassword(t) PROVE SessionsInv'
<1> DEFINE row == [tab[t] EXCEPT !.at = "wipe"]
<1>1. /\ password < MaxPasswords /\ password' = password + 1 /\ tab' = [tab EXCEPT ![t] = row]
      /\ session' = session /\ member' = member /\ jar' = jar
      /\ late' = late /\ replayed' = replayed /\ losses' = losses /\ unwiped' = unwiped
  BY DEF StorePassword, Ghosts, To
<1>2. row \in InFlight /\ row.at = "wipe"
  BY Typed DEF InFlight
<1> HIDE DEF row
<1>3. password' \in 1..MaxPasswords
  BY <1>1, Typed
<1>4. tab'[t].at = "wipe"
  BY <1>1, <1>2, Typed
<1>5. TabHolds(row, session') /\ Books(session', late', replayed') /\ Keeps(session, session')
  BY <1>1, <1>2 DEF TabHolds, Keeps, SessionsInv
<1>6. jar' \in [Browsers -> CookieJar] /\ member' \in BOOLEAN /\ losses' \in 0..MaxLosses
      /\ unwiped' \in BOOLEAN
      /\ \A b \in Browsers : JarHolds(jar'[b], session')
  BY <1>1, Typed
<1> QED
  BY <1>1, <1>2, <1>3, <1>4, <1>5, <1>6, StepOfTab

\* The wipe leaves nothing live.
LEMMA WipePreserves ==
    ASSUME SessionsInv, NEW t \in Tabs, RevokeAll(t) PROVE SessionsInv'
<1> DEFINE row == [tab[t] EXCEPT !.at = "clear"]
<1>1. /\ session' = Revoked(SessionId) /\ tab' = [tab EXCEPT ![t] = row] /\ unwiped' = FALSE
      /\ UNCHANGED <<password, member, jar, late, replayed, losses>>
  BY DEF RevokeAll, Wiped, To
<1>2. row \in InFlight /\ TabHolds(row, session')
  BY Typed DEF InFlight, TabHolds
<1> HIDE DEF row
<1>3. Books(session', late', replayed') /\ Keeps(session, session')
  BY <1>1, Revoking
<1>4. SignedOut(session', password', late')
  BY <1>1, Revoking DEF SignedOut
<1>5. \A b \in Browsers : JarHolds(jar'[b], session')
  BY <1>1, <1>3, Typed DEF JarHolds, Keeps, Opened
<1>6. jar' \in [Browsers -> CookieJar] /\ password' \in 1..MaxPasswords /\ member' \in BOOLEAN /\ losses' \in 0..MaxLosses
      /\ unwiped' \in BOOLEAN
  BY <1>1, Typed
<1> QED
  BY <1>1, <1>2, <1>3, <1>4, <1>5, <1>6, StepOfTab

LEMMA LostPreserves ==
    ASSUME SessionsInv, NEW t \in Tabs, Lost(t) PROVE SessionsInv'
<1>1. /\ Finish(t) /\ losses < MaxLosses /\ losses' = losses + 1
      /\ UNCHANGED <<session, password, member, late, replayed>>
  BY DEF Lost, Rows
<1>2. unwiped' = (unwiped \/ tab[t].at = "wipe")
  BY DEF Lost, At
<1>3. losses' \in 0..MaxLosses
  BY <1>1, Typed
<1>4. unwiped' \in BOOLEAN /\ (unwiped => unwiped') /\ (tab[t].at = "wipe" => unwiped')
  BY <1>2
<1>5. jar' \in [Browsers -> CookieJar] /\ \A b \in Browsers : JarHolds(jar'[b], session)
  <2>1. CASE SignOut(t)
    BY <2>1, CookiesGo, Typed DEF SignOut
  <2>2. CASE UNCHANGED jar
    BY <2>2, Typed
  <2> QED
    BY <2>1, <2>2 DEF Lost
<1> QED
  BY <1>1, <1>3, <1>4, <1>5, IsOver

\* What no request does: an access token runs out, a member is removed.
LEMMA OutsidePreserves ==
    ASSUME SessionsInv, (\E b \in Browsers : AccessExpires(b)) \/ RemovedFromOrg PROVE SessionsInv'
<1>1. UNCHANGED <<session, password, tab, late, replayed, unwiped, losses>> /\ member' \in BOOLEAN
  BY Typed DEF AccessExpires, RemovedFromOrg, Rows, Ghosts
<1>2. jar' \in [Browsers -> CookieJar] /\ \A b \in Browsers : JarHolds(jar'[b], session)
  BY CookiesGo, Typed DEF AccessExpires, RemovedFromOrg
<1>3. SessionsTypeOK'
  BY <1>1, <1>2 DEF SessionsInv, SessionsTypeOK
<1> QED
  BY <1>1, <1>2, <1>3 DEF SessionsInv

-----------------------------------------------------------------------------
LEMMA SessionStep ==
    ASSUME SessionsInv, [SessionsNext]_sessionVars PROVE SessionsInv'
<1>1. ASSUME NEW t \in Tabs, Unauthorized(t) \/ FindMembership(t) \/ ChangePassword(t) \/ ResetPassword(t)
      PROVE  SessionsInv'
  <2>1. At(t, "member") => Opened(tab[t].token, session)
    BY DEF SessionsInv, TabHolds, At
  <2> QED
    BY <1>1, <2>1, GoesOn DEF Unauthorized, FindMembership, ChangePassword, ResetPassword, At
<1>2. ASSUME NEW t \in Tabs,
             \/ SendRefresh(t) \/ FindByRawToken(t) \/ Rotate(t) \/ Answer(t) \/ Refused(t)
             \/ Login(t) \/ Create(t) \/ Logout(t) \/ SwitchOrg(t) \/ RevokeOwn(t)
      PROVE  SessionsInv'
  BY <1>2, RefreshSent, TokenFound, RotatePreserves, AnswerPreserves, RefusedOrCleared,
     LoginPreserves, CreatePreserves, LogoutPreserves, SwitchPreserves, OwnRevoked
<1>3. ASSUME NEW t \in Tabs, StorePassword(t) \/ RevokeAll(t) \/ Cleared(t) \/ Lost(t)
      PROVE  SessionsInv'
  BY <1>3, StorePreserves, WipePreserves, RefusedOrCleared, LostPreserves
<1>4. CASE (\E b \in Browsers : AccessExpires(b)) \/ RemovedFromOrg
  BY <1>4, OutsidePreserves
<1>5. CASE UNCHANGED sessionVars
  BY <1>5 DEF sessionVars, SessionsInv, SessionsTypeOK
<1> QED
  BY <1>1, <1>2, <1>3, <1>4, <1>5 DEF SessionsNext

LEMMA SessionsInvariant == SessionsSpec => []SessionsInv
<1>1. SessionsInit => SessionsInv
  BY FirstSession
<1>2. SessionsInv /\ [SessionsNext]_sessionVars => SessionsInv'
  BY SessionStep
<1> QED
  BY <1>1, <1>2, PTL DEF SessionsSpec

\* However many tabs refresh at once, a family has one live session unless a
\* rotation was late (session.service.ts rotates by id, in one transaction).
THEOREM OneLiveAlways == SessionsSpec => []OneLivePerFamily
<1>1. SessionsInv => OneLivePerFamily
  BY SessionsInvImplies
<1> QED
  BY <1>1, SessionsInvariant, PTL

\* A family in which a consumed token was presented has nothing live, unless a
\* rotation was late (findByRawToken revokes the family).
THEOREM ReplayAlwaysEnds == SessionsSpec => []ReplayEndsFamily
<1>1. SessionsInv => ReplayEndsFamily
  BY SessionsInvImplies
<1> QED
  BY <1>1, SessionsInvariant, PTL

\* A new password leaves no session of an old one, except as the property says
\* (auth.service.ts stores the password, then revokes).
THEOREM PasswordAlwaysSignsOut == SessionsSpec => []PasswordChangeSignsOut
<1>1. SessionsInv => PasswordChangeSignsOut
  BY SessionsInvImplies
<1> QED
  BY <1>1, SessionsInvariant, PTL
-----------------------------------------------------------------------------
(* Members.  Only a call that writes on a role that is another by then can *)
(* leave the organization without its one owner, and only one that settles *)
(* an invitation under an acceptance can let two in, or one too late.      *)
(*                                                                         *)
(* Neither is inductive.  The invariant adds what a call has read, and     *)
(* that an invitation about to be accepted is still unused, or overtaken.  *)

\* The steps of each operation, and the role that each was let in with.
Shape(row) ==
    /\ row.at = "count" => row.op = "remove" /\ row.seen = "OWNER"
    /\ row.at = "revoke" => row.op = "invite"
    /\ row.op \in {"remove", "transfer", "invite"} => row.actor \in Users /\ row.target \in Users
    /\ row.op = "transfer" => row.seen = "OWNER"
    /\ row.op = "accept" => row.invite \in InviteId

\* The one owner is never counted as one of several.
SparesOwner(row) == row.op = "remove" /\ row.at = "write" => row.seen # "OWNER"

Accepts(row, i) == row.op = "accept" /\ row.at = "write" /\ row.invite = i

OneIn(roles) == \E u \in Users : {v \in Users : roles[v] = "OWNER"} = {u}

Usable(row)  == row.state \in {"open", "lapsed"} /\ row.uses = 0
Settled(row) == /\ row.state # "accepted" => row.uses = 0
                /\ row.uses <= 1

OrgInv ==
    /\ OrgTypeOK
    /\ \A c \in Calls : Shape(call[c])
    /\ ~stale => OneIn(role) /\ \A c \in Calls : SparesOwner(call[c])
    /\ \A i \in InviteId \ overtaken : Settled(invite[i])
    /\ \A i \in InviteId \ overtaken, c \in Calls : Accepts(call[c], i) => Usable(invite[i])

-----------------------------------------------------------------------------
\* The invariant says more than the two properties.
LEMMA OrgInvImplies ==
    ASSUME OrgInv PROVE OneOwner /\ AcceptedWhileOpen
<1>1. ASSUME ~stale PROVE Cardinality(Owners) = 1
  <2>1. PICK u \in Users : Owners = {u}
    BY <1>1 DEF OrgInv, OneIn, Owners
  <2> QED
    BY <2>1, FS_Singleton
<1>2. ASSUME NEW i \in InviteId, i \notin overtaken
      PROVE  ~(invite[i].uses > (IF invite[i].state = "revoked" THEN 0 ELSE 1))
  <2>1. invite[i] \in Invitation /\ Settled(invite[i])
    BY <1>2 DEF OrgInv, OrgTypeOK
  <2> QED
    BY <2>1 DEF Settled, Invitation
<1> QED
  BY <1>1, <1>2 DEF OneOwner, AcceptedWhileOpen

LEMMA IdleCall ==
    NoCall \in Request /\ Shape(NoCall) /\ NoCall.op = "none" /\ SparesOwner(NoCall)
<1>1. NumInvites \in Nat /\ 0 \in 0..NumInvites
  BY OrganizationAssumption
<1> QED
  BY <1>1 DEF NoCall, Request, Shape, SparesOwner, Roles

\* A call writes: it harms only an invitation that others are about to accept.
LEMMA CallWrites ==
    ASSUME OrgInv, NEW c \in Calls, NEW row \in Request, call' = [call EXCEPT ![c] = row],
           Shape(row), ~stale' => SparesOwner(row), row.op # "accept",
           role' \in [Users -> Roles], invite' \in [InviteId -> Invitation],
           stale' \in BOOLEAN, stale => stale', overtaken' \subseteq InviteId, overtaken \subseteq overtaken',
           ~stale' => OneIn(role'),
           \A i \in InviteId \ overtaken' : Settled(invite'[i]),
           \A i \in InviteId \ overtaken', d \in Calls \ {c} : Accepts(call[d], i) => Usable(invite'[i])
    PROVE  OrgInv'
<1>1. call \in [Calls -> Request] /\ \A d \in Calls : Shape(call[d])
  BY DEF OrgInv, OrgTypeOK
<1>2. call' \in [Calls -> Request] /\ \A d \in Calls : call'[d] = IF d = c THEN row ELSE call[d]
  BY <1>1
<1>3. OrgTypeOK'
  BY <1>2 DEF OrgTypeOK
<1>4. \A d \in Calls : Shape(call'[d])
  BY <1>1, <1>2
<1>5. ASSUME ~stale', NEW d \in Calls PROVE SparesOwner(call'[d])
  BY <1>2, <1>5 DEF OrgInv
<1>6. \A i \in InviteId \ overtaken', d \in Calls : Accepts(call'[d], i) => Usable(invite'[i])
  BY <1>2 DEF Accepts
<1> QED
  BY <1>3, <1>4, <1>5, <1>6 DEF OrgInv

\* A call goes on, or ends, and writes nothing.
LEMMA CallMoves ==
    ASSUME OrgInv, NEW c \in Calls, NEW row \in Request, call' = [call EXCEPT ![c] = row],
           Shape(row), ~stale => SparesOwner(row),
           \A i \in InviteId : Accepts(row, i) => Usable(invite[i]) \/ i \in overtaken, Unwritten
    PROVE  OrgInv'
<1>1. role' = role /\ invite' = invite /\ stale' = stale /\ overtaken' = overtaken
  BY DEF Unwritten
<1>2. call \in [Calls -> Request] /\ \A d \in Calls : Shape(call[d])
  BY DEF OrgInv, OrgTypeOK
<1>3. call' \in [Calls -> Request] /\ \A d \in Calls : call'[d] = IF d = c THEN row ELSE call[d]
  BY <1>2
<1>4. OrgTypeOK'
  BY <1>1, <1>3 DEF OrgInv, OrgTypeOK
<1>5. \A d \in Calls : Shape(call'[d])
  BY <1>2, <1>3
<1>6. ~stale => OneIn(role) /\ \A d \in Calls : SparesOwner(call'[d])
  BY <1>3 DEF OrgInv
<1>7. \A i \in InviteId \ overtaken, d \in Calls : Accepts(call'[d], i) => Usable(invite[i])
  BY <1>3 DEF OrgInv
<1>8. \A i \in InviteId \ overtaken : Settled(invite[i])
  BY DEF OrgInv
<1> QED
  BY <1>1, <1>4, <1>5, <1>6, <1>7, <1>8 DEF OrgInv

\* A step of a call keeps the operation and whom it is about.
LEMMA StepOfCall ==
    ASSUME OrgInv, NEW c \in Calls, NEW from, NEW to \in {"write", "count", "revoke"}, Goes(c, from, to)
    PROVE  LET row == [call[c] EXCEPT !.at = to]
           IN  /\ call[c].at = from /\ call' = [call EXCEPT ![c] = row] /\ row \in Request
               /\ row.at = to /\ row.op = call[c].op /\ row.actor = call[c].actor
               /\ row.target = call[c].target /\ row.invite = call[c].invite /\ row.seen = call[c].seen
  BY DEF Goes, OrgInv, OrgTypeOK, Request

LEMMA CallEnds ==
    ASSUME OrgInv, NEW c \in Calls, Ends(c), Unwritten
    PROVE  OrgInv'
<1>1. NoCall \in Request /\ Shape(NoCall) /\ SparesOwner(NoCall) /\ \A i \in InviteId : ~Accepts(NoCall, i)
  BY IdleCall DEF Accepts
<1> QED
  BY <1>1, CallMoves DEF Ends

-----------------------------------------------------------------------------
LEMMA FirstMembers == ASSUME OrgInit PROVE OrgInv
<1>1. PICK founder \in Users : role = [u \in Users |-> IF u = founder THEN "OWNER" ELSE "NONE"]
  BY DEF OrgInit
<1>2. OneIn(role) /\ role \in [Users -> Roles]
  <2>1. {v \in Users : role[v] = "OWNER"} = {founder}
    BY <1>1
  <2> QED
    BY <1>1, <2>1 DEF OneIn, Roles
<1>3. invite \in [InviteId -> Invitation] /\ \A i \in InviteId : Settled(invite[i])
  BY DEF OrgInit, NoInvite, Invitation, Settled
<1>4. call \in [Calls -> Request] /\ \A c \in Calls : call[c] = NoCall
  BY IdleCall DEF OrgInit
<1>5. \A c \in Calls, i \in InviteId : ~Accepts(call[c], i)
  BY <1>4, IdleCall DEF Accepts
<1>6. stale = FALSE /\ overtaken = {}
  BY DEF OrgInit
<1> QED
  BY <1>2, <1>3, <1>4, <1>5, <1>6, IdleCall DEF OrgInv, OrgTypeOK

\* Only the owner ranks as one.
LEMMA OwnerRank ==
    ASSUME NEW r \in Roles, RoleAtLeast(r, "OWNER") PROVE r = "OWNER"
<1>1. Rank["NONE"] = 0 /\ Rank["MEMBER"] = 2 /\ Rank["ADMIN"] = 3 /\ Rank["OWNER"] = 4
  BY DEF Rank
<1> QED
  BY <1>1 DEF RoleAtLeast, Roles

LEMMA Begins ==
    ASSUME OrgInv, NEW c \in Calls, NEW actor \in Users, NEW target \in Users, NEW required,
           NEW op \in {"remove", "transfer", "invite"}, NEW asked \in {"NONE", "MEMBER", "ADMIN"},
           Begin(c, op, actor, required, target, asked), op = "transfer" => required = "OWNER"
    PROVE  OrgInv'
<1> DEFINE seen == role[actor]
           row == [op |-> op, at |-> "read", actor |-> actor, target |-> target, role |-> asked, invite |-> 0,
                   seen |-> seen]
<1>1. call' = [call EXCEPT ![c] = row] /\ Unwritten
  BY DEF Begin
<1>2. seen \in Roles
  BY DEF OrgInv, OrgTypeOK
<1>3. op = "transfer" => seen = "OWNER"
  <2>1. op = "transfer" => RoleAtLeast(seen, "OWNER")
    BY DEF Begin
  <2> HIDE DEF seen
  <2> QED
    BY <1>2, <2>1, OwnerRank
<1> HIDE DEF seen
<1>4. row \in Request
  BY <1>2, OrganizationAssumption DEF Request
<1>5. Shape(row)
  BY <1>3 DEF Shape
<1>6. SparesOwner(row) /\ \A i \in InviteId : ~Accepts(row, i)
  BY DEF SparesOwner, Accepts
<1> HIDE DEF row
<1> QED
  BY <1>1, <1>4, <1>5, <1>6, CallMoves

\* An acceptance begins: it has read nothing yet.
LEMMA AcceptBegins ==
    ASSUME OrgInv, StartAccept PROVE OrgInv'
<1>1. PICK c \in Calls, i \in InviteId, u \in Users :
         /\ call' = [call EXCEPT ![c] = [NoCall EXCEPT !.op = "accept", !.at = "read", !.invite = i, !.actor = u]]
         /\ Unwritten
  BY DEF StartAccept
<1> DEFINE row == [NoCall EXCEPT !.op = "accept", !.at = "read", !.invite = i, !.actor = u]
<1>2. i \in 0..NumInvites
  BY OrganizationAssumption DEF InviteId
<1>3. row \in Request /\ row.op = "accept" /\ row.at = "read" /\ row.invite = i
  BY <1>2, OrganizationAssumption DEF NoCall, Request, Roles
<1>4. Shape(row) /\ SparesOwner(row) /\ \A j \in InviteId : ~Accepts(row, j)
  BY <1>3 DEF Shape, SparesOwner, Accepts
<1> HIDE DEF row
<1> QED
  BY <1>1, <1>3, <1>4, CallMoves DEF row

\* Only a member who is not the owner is removed at once.
LEMMA RemoveReads ==
    ASSUME OrgInv, NEW c \in Calls, ReadRemove(c) PROVE OrgInv'
<1>1. call[c].op = "remove" /\ Unwritten
  BY DEF ReadRemove
<1>2. CASE call' = [call EXCEPT ![c].at = IF role[call[c].target] = "OWNER" THEN "count" ELSE "write",
                                ![c].seen = role[call[c].target]]
  <2>1. PICK seen \in Roles : seen = role[call[c].target]
    BY <1>1 DEF OrgInv, OrgTypeOK, Shape
  <2>2. PICK to \in {"count", "write"} : to = IF seen = "OWNER" THEN "count" ELSE "write"
    OBVIOUS
  <2> DEFINE row == [call[c] EXCEPT !.at = to, !.seen = seen]
  <2>3. call[c] \in Request /\ call \in [Calls -> Request]
    BY DEF OrgInv, OrgTypeOK
  <2>4. call' = [call EXCEPT ![c] = row]
    BY <1>2, <2>1, <2>2, <2>3
  <2>5. /\ row \in Request /\ row.at = to /\ row.seen = seen
        /\ row.op = "remove" /\ row.actor = call[c].actor /\ row.target = call[c].target
    BY <1>1, <2>3 DEF Request
  <2> HIDE DEF row
  <2>6. Shape(row)
    BY <1>1, <2>2, <2>5 DEF Shape, OrgInv
  <2>7. SparesOwner(row) /\ \A i \in InviteId : ~Accepts(row, i)
    BY <2>2, <2>5 DEF SparesOwner, Accepts
  <2> QED
    BY <1>1, <2>4, <2>5, <2>6, <2>7, CallMoves
<1>3. CASE Ends(c)
  BY <1>1, <1>3, CallEnds
<1> QED
  BY <1>2, <1>3 DEF ReadRemove

\* The one owner is not removable.
LEMMA OwnersCounted ==
    ASSUME OrgInv, NEW c \in Calls, CountOwners(c) PROVE OrgInv'
<1>1. call[c].at = "count" /\ Unwritten
  BY DEF CountOwners
<1>2. call[c].op = "remove"
  BY <1>1 DEF OrgInv, Shape
<1>3. CASE Removable(Cardinality(Owners)) /\ Goes(c, "count", "write")
  <2> DEFINE row == [call[c] EXCEPT !.at = "write"]
  <2>1. /\ call' = [call EXCEPT ![c] = row] /\ row \in Request /\ row.at = "write"
        /\ row.op = "remove" /\ row.actor = call[c].actor /\ row.target = call[c].target
    BY <1>2, <1>3, StepOfCall
  <2> HIDE DEF row
  <2>2. stale
    <3>1. SUFFICES ASSUME ~stale PROVE FALSE
      OBVIOUS
    <3>2. PICK u \in Users : Owners = {u}
      BY <3>1 DEF OrgInv, OneIn, Owners
    <3>3. Cardinality(Owners) = 1
      BY <3>2, FS_Singleton
    <3> QED
      BY <1>3, <3>3 DEF Removable
  <2>3. Shape(row) /\ \A i \in InviteId : ~Accepts(row, i)
    BY <1>2, <2>1 DEF Shape, OrgInv, Accepts
  <2> QED
    BY <1>1, <2>1, <2>2, <2>3, CallMoves
<1>4. CASE Ends(c)
  BY <1>1, <1>4, CallEnds
<1> QED
  BY <1>3, <1>4 DEF CountOwners

\* A call that only goes on to its write.
LEMMA TransferReads ==
    ASSUME OrgInv, NEW c \in Calls, ReadTransfer(c) PROVE OrgInv'
<1>1. call[c].op = "transfer" /\ Unwritten
  BY DEF ReadTransfer
<1>2. CASE Goes(c, "read", "write")
  <2> DEFINE row == [call[c] EXCEPT !.at = "write"]
  <2>1. /\ call' = [call EXCEPT ![c] = row] /\ row \in Request /\ row.at = "write" /\ row.seen = call[c].seen
        /\ row.op = "transfer" /\ row.actor = call[c].actor /\ row.target = call[c].target
    BY <1>1, <1>2, StepOfCall
  <2> HIDE DEF row
  <2>2. Shape(row) /\ SparesOwner(row) /\ \A i \in InviteId : ~Accepts(row, i)
    BY <1>1, <2>1 DEF Shape, OrgInv, SparesOwner, Accepts
  <2> QED
    BY <1>1, <2>1, <2>2, CallMoves
<1>3. CASE Ends(c)
  BY <1>1, <1>3, CallEnds
<1> QED
  BY <1>2, <1>3 DEF ReadTransfer

LEMMA InviteReads ==
    ASSUME OrgInv, NEW c \in Calls, ReadInvite(c) PROVE OrgInv'
<1>1. call[c].op = "invite" /\ Unwritten
  BY DEF ReadInvite
<1>2. CASE Goes(c, "read", "revoke")
  <2> DEFINE row == [call[c] EXCEPT !.at = "revoke"]
  <2>1. /\ call' = [call EXCEPT ![c] = row] /\ row \in Request /\ row.at = "revoke"
        /\ row.op = "invite" /\ row.actor = call[c].actor /\ row.target = call[c].target
    BY <1>1, <1>2, StepOfCall
  <2> HIDE DEF row
  <2>2. Shape(row) /\ SparesOwner(row) /\ \A i \in InviteId : ~Accepts(row, i)
    BY <1>1, <2>1 DEF Shape, OrgInv, SparesOwner, Accepts
  <2> QED
    BY <1>1, <2>1, <2>2, CallMoves
<1>3. CASE Ends(c)
  BY <1>1, <1>3, CallEnds
<1> QED
  BY <1>2, <1>3 DEF ReadInvite

\* An acceptance goes on with an open invitation, which nobody has used.
LEMMA AcceptReads ==
    ASSUME OrgInv, NEW c \in Calls, ReadAccept(c) PROVE OrgInv'
<1>1. call[c].op = "accept" /\ Unwritten
  BY DEF ReadAccept
<1>2. CASE Acceptable(call[c].invite) /\ Goes(c, "read", "write")
  <2> DEFINE row == [call[c] EXCEPT !.at = "write"]
  <2>1. /\ call' = [call EXCEPT ![c] = row] /\ row \in Request /\ row.at = "write"
        /\ row.op = "accept" /\ row.invite = call[c].invite
    BY <1>1, <1>2, StepOfCall
  <2> HIDE DEF row
  <2>2. Shape(row) /\ SparesOwner(row)
    BY <1>1, <2>1 DEF Shape, OrgInv, SparesOwner
  <2>3. \A i \in InviteId : Accepts(row, i) => Usable(invite[i]) \/ i \in overtaken
    BY <1>2, <2>1 DEF Accepts, Acceptable, Usable, OrgInv, Settled
  <2> QED
    BY <1>1, <2>1, <2>2, <2>3, CallMoves
<1>3. CASE Ends(c)
  BY <1>1, <1>3, CallEnds
<1> QED
  BY <1>2, <1>3 DEF ReadAccept

-----------------------------------------------------------------------------
\* Whom a removal deletes was not the owner when it was read, so it is not
\* now, or the removal came too late.
LEMMA MembershipDeleted ==
    ASSUME OrgInv, NEW c \in Calls, DeleteMembership(c) PROVE OrgInv'
<1> DEFINE target == call[c].target
<1>1. /\ role \in [Users -> Roles] /\ invite \in [InviteId -> Invitation]
      /\ stale \in BOOLEAN /\ overtaken \subseteq InviteId /\ Ends(c)
  BY DEF OrgInv, OrgTypeOK, DeleteMembership
<1>2. CASE role' = [role EXCEPT ![target] = "NONE"] /\ WritesOnRoleOf(c, target) /\ UNCHANGED <<invite, overtaken>>
  <2>1. /\ invite' = invite /\ overtaken' = overtaken /\ call' = [call EXCEPT ![c] = NoCall]
        /\ stale' = (stale \/ role[target] # call[c].seen)
    BY <1>1, <1>2 DEF WritesOnRoleOf, Ends
  <2>2. role' \in [Users -> Roles]
    BY <1>1, <1>2 DEF Roles
  <2>3. stale' \in BOOLEAN /\ (stale => stale')
    BY <1>1, <2>1
  <2>4. ASSUME ~stale' PROVE OneIn(role')
    <3>1. ~stale /\ role[target] = call[c].seen
      BY <2>1, <2>4
    <3>2. OneIn(role) /\ role[target] # "OWNER"
      BY <3>1 DEF OrgInv, SparesOwner, DeleteMembership
    <3>3. \A v \in Users : role'[v] = "OWNER" <=> role[v] = "OWNER"
      BY <1>1, <1>2, <3>2
    <3>4. {v \in Users : role'[v] = "OWNER"} = {v \in Users : role[v] = "OWNER"}
      BY <3>3
    <3> QED
      BY <3>2, <3>4 DEF OneIn
  <2>5. /\ \A i \in InviteId \ overtaken' : Settled(invite'[i])
        /\ \A i \in InviteId \ overtaken', d \in Calls \ {c} : Accepts(call[d], i) => Usable(invite'[i])
    BY <2>1 DEF OrgInv
  <2>6. invite' \in [InviteId -> Invitation] /\ overtaken' \subseteq InviteId /\ overtaken \subseteq overtaken'
    BY <1>1, <2>1
  <2>7. call' = [call EXCEPT ![c] = NoCall]
    BY <2>1
  <2> QED
    BY <2>2, <2>3, <2>4, <2>5, <2>6, <2>7, IdleCall, CallWrites
<1>3. CASE Unwritten
  BY <1>1, <1>3, CallEnds
<1> QED
  BY <1>2, <1>3 DEF DeleteMembership

\* The owner's role passes on.
LEMMA OwnershipTransferred ==
    ASSUME OrgInv, NEW c \in Calls, TransferOwnership(c) PROVE OrgInv'
<1> DEFINE from == call[c].actor
           to == call[c].target
<1>1. /\ role \in [Users -> Roles] /\ invite \in [InviteId -> Invitation] /\ Ends(c)
      /\ stale \in BOOLEAN /\ overtaken \subseteq InviteId
  BY DEF OrgInv, OrgTypeOK, TransferOwnership
<1>2. CASE role' = Transferred(from, to) /\ WritesOnRoleOf(c, from) /\ UNCHANGED <<invite, overtaken>>
  <2>1. from \in Users /\ to \in Users /\ call[c].seen = "OWNER"
    BY DEF OrgInv, Shape, TransferOwnership
  <2>2. role' \in [Users -> Roles]
        /\ \A v \in Users : role'[v] = IF v = to THEN "OWNER" ELSE IF v = from THEN "ADMIN" ELSE role[v]
    BY <1>1, <1>2, <2>1 DEF Transferred, Roles
  <2>3. stale' = (stale \/ role[from] # "OWNER")
    BY <1>2, <2>1 DEF WritesOnRoleOf
  <2>4. stale' \in BOOLEAN /\ (stale => stale')
    BY <1>1, <2>3
  <2>5. ASSUME ~stale' PROVE OneIn(role')
    <3>1. ~stale /\ role[from] = "OWNER"
      BY <2>3, <2>5
    <3>2. OneIn(role)
      BY <3>1 DEF OrgInv
    <3>3. \A v \in Users : role[v] = "OWNER" => v = from
      BY <2>1, <3>1, <3>2 DEF OneIn
    <3>4. {v \in Users : role'[v] = "OWNER"} = {to}
      BY <2>1, <2>2, <3>3
    <3> QED
      BY <2>1, <3>4 DEF OneIn
  <2>6. /\ \A i \in InviteId \ overtaken' : Settled(invite'[i])
        /\ \A i \in InviteId \ overtaken', d \in Calls \ {c} : Accepts(call[d], i) => Usable(invite'[i])
    BY <1>2 DEF OrgInv
  <2>7. invite' \in [InviteId -> Invitation] /\ overtaken' \subseteq InviteId /\ overtaken \subseteq overtaken'
    BY <1>1, <1>2
  <2>8. call' = [call EXCEPT ![c] = NoCall]
    BY <1>1 DEF Ends
  <2> QED
    BY <2>2, <2>4, <2>5, <2>6, <2>7, <2>8, IdleCall, CallWrites
<1>3. CASE Unwritten
  BY <1>1, <1>3, CallEnds
<1> QED
  BY <1>2, <1>3 DEF TransferOwnership

\* A superseded invitation was not used, unless it is overtaken.
LEMMA PendingRevoked ==
    ASSUME OrgInv, NEW c \in Calls, RevokePending(c) PROVE OrgInv'
<1> DEFINE row == [call[c] EXCEPT !.at = "write"]
           pending == Pending(call[c].target)
<1>1. /\ role \in [Users -> Roles] /\ invite \in [InviteId -> Invitation] /\ role' = role /\ stale' = stale
      /\ stale \in BOOLEAN /\ overtaken \subseteq InviteId
  BY DEF OrgInv, OrgTypeOK, RevokePending
<1>2. call[c].at = "revoke" /\ Goes(c, "revoke", "write")
  BY DEF RevokePending, Goes
<1>3. call[c].op = "invite"
  BY <1>2 DEF OrgInv, Shape
<1>4. /\ call' = [call EXCEPT ![c] = row] /\ row \in Request /\ row.at = "write"
      /\ row.op = "invite" /\ row.actor = call[c].actor /\ row.target = call[c].target
  BY <1>2, <1>3, StepOfCall
<1> HIDE DEF row
<1>5. Shape(row) /\ SparesOwner(row) /\ row.op # "accept"
  BY <1>3, <1>4 DEF Shape, OrgInv, SparesOwner
<1>6. \A i \in InviteId : i \in pending => invite[i].state \in {"open", "lapsed"}
  BY DEF Pending
<1>7. /\ overtaken' = overtaken \cup {i \in pending : \E d \in Calls : Accepts(call[d], i)}
      /\ pending \subseteq InviteId
  BY DEF RevokePending, Accepting, Accepts, Pending
<1>8. invite' = [i \in InviteId |-> IF i \in pending THEN [invite[i] EXCEPT !.state = "revoked"] ELSE invite[i]]
  BY DEF RevokePending
<1> HIDE DEF pending
<1>9. \A i \in InviteId : /\ invite'[i] \in Invitation
                          /\ i \notin pending => invite'[i] = invite[i]
                          /\ i \in pending => invite'[i].state = "revoked" /\ invite'[i].uses = invite[i].uses
  BY <1>1, <1>8 DEF Invitation
<1>10. invite' \in [InviteId -> Invitation]
  BY <1>8, <1>9
<1>11. overtaken' \subseteq InviteId /\ overtaken \subseteq overtaken'
  BY <1>1, <1>7
<1>12. ASSUME NEW i \in InviteId, i \notin overtaken'
       PROVE  /\ Settled(invite'[i])
              /\ \A d \in Calls \ {c} : Accepts(call[d], i) => Usable(invite'[i])
  <2>1. Settled(invite[i]) /\ \A d \in Calls : Accepts(call[d], i) => Usable(invite[i])
    BY <1>11, <1>12 DEF OrgInv
  <2>2. CASE i \notin pending
    BY <1>9, <2>1, <2>2
  <2>3. CASE i \in pending
    <3>1. invite[i].uses = 0
      BY <1>6, <2>1, <2>3 DEF Settled
    <3>2. \A d \in Calls : ~Accepts(call[d], i)
      BY <1>7, <1>12, <2>3
    <3> QED
      BY <1>9, <2>3, <3>1, <3>2 DEF Settled
  <2> QED
    BY <2>2, <2>3
<1>13. ~stale' => OneIn(role')
  BY <1>1 DEF OrgInv
<1>14. stale' \in BOOLEAN /\ (stale => stale') /\ role' \in [Users -> Roles]
  BY <1>1
<1> QED
  BY <1>4, <1>5, <1>10, <1>11, <1>12, <1>13, <1>14, CallWrites

\* A new invitation is unused.
LEMMA InviteCreated ==
    ASSUME OrgInv, NEW c \in Calls, CreateInvite(c) PROVE OrgInv'
<1>1. /\ role \in [Users -> Roles] /\ invite \in [InviteId -> Invitation] /\ role' = role /\ Ends(c)
      /\ stale' = stale /\ stale \in BOOLEAN /\ overtaken \subseteq InviteId /\ overtaken' = overtaken
  BY DEF OrgInv, OrgTypeOK, CreateInvite
<1> DEFINE new == [user |-> call[c].target, role |-> call[c].role, state |-> "open", uses |-> 0]
           at == CHOOSE i \in Unsent : \A j \in Unsent : i <= j
<1>2. new \in Invitation /\ new.state = "open" /\ new.uses = 0
  BY DEF OrgInv, OrgTypeOK, Request, Invitation
<1>3. invite' = invite \/ invite' = [invite EXCEPT ![at] = new]
  BY DEF CreateInvite
<1> HIDE DEF new, at
<1>4. invite' \in [InviteId -> Invitation]
  BY <1>1, <1>2, <1>3
<1>5. \A i \in InviteId : invite'[i] = invite[i] \/ invite'[i] = new
  BY <1>1, <1>3
<1>6. \A i \in InviteId \ overtaken' : Settled(invite'[i])
  BY <1>1, <1>2, <1>5 DEF OrgInv, Settled
<1>7. \A i \in InviteId \ overtaken', d \in Calls \ {c} : Accepts(call[d], i) => Usable(invite'[i])
  BY <1>1, <1>2, <1>5 DEF OrgInv, Usable
<1>8. ~stale' => OneIn(role')
  BY <1>1 DEF OrgInv
<1>9. stale' \in BOOLEAN /\ (stale => stale') /\ role' \in [Users -> Roles]
      /\ overtaken' \subseteq InviteId /\ overtaken \subseteq overtaken'
  BY <1>1
<1>10. call' = [call EXCEPT ![c] = NoCall]
  BY <1>1 DEF Ends
<1> QED
  BY <1>4, <1>6, <1>7, <1>8, <1>9, <1>10, IdleCall, CallWrites

\* The one who joins does not become an owner, and the owner does not join;
\* whoever was about to join by the same invitation finds it overtaken.
LEMMA InviteAccepted ==
    ASSUME OrgInv, NEW c \in Calls, AcceptInvite(c) PROVE OrgInv'
<1> DEFINE i == call[c].invite
           u == call[c].actor
<1>1. /\ role \in [Users -> Roles] /\ invite \in [InviteId -> Invitation] /\ Ends(c) /\ i \in InviteId
      /\ stale \in BOOLEAN /\ overtaken \subseteq InviteId /\ Accepts(call[c], i)
  BY DEF OrgInv, OrgTypeOK, AcceptInvite, Shape, Accepts
<1>2. CASE Unwritten
  BY <1>1, <1>2, CallEnds
<1>3. CASE /\ role[u] = "NONE"
           /\ role' = [role EXCEPT ![u] = invite[i].role]
           /\ invite' = [invite EXCEPT ![i].state = IF @ = "revoked" THEN @ ELSE "accepted", ![i].uses = @ + 1]
           /\ overtaken' = IF \E d \in Calls \ {c} : Accepting(d, i) THEN overtaken \cup {i} ELSE overtaken
           /\ UNCHANGED stale
  <2>1. invite[i] \in Invitation
    BY <1>1
  <2>2. invite[i].role \in {"NONE", "MEMBER", "ADMIN"}
    BY <2>1 DEF Invitation
  <2>3. role' \in [Users -> Roles] /\ \A v \in Users : role'[v] = IF v = u THEN invite[i].role ELSE role[v]
    BY <1>1, <1>3, <2>2 DEF Roles
  <2>4. /\ invite' \in [InviteId -> Invitation]
        /\ \A j \in InviteId \ {i} : invite'[j] = invite[j]
        /\ invite'[i].uses = invite[i].uses + 1
        /\ invite'[i].state = IF invite[i].state = "revoked" THEN "revoked" ELSE "accepted"
    BY <1>1, <1>3, <2>1 DEF Invitation
  <2>5. ASSUME ~stale' PROVE OneIn(role')
    <3>1. OneIn(role)
      BY <1>3, <2>5 DEF OrgInv
    <3>2. \A v \in Users : role'[v] = "OWNER" <=> role[v] = "OWNER"
      BY <1>3, <2>2, <2>3
    <3>3. {v \in Users : role'[v] = "OWNER"} = {v \in Users : role[v] = "OWNER"}
      BY <3>2
    <3> QED
      BY <3>1, <3>3 DEF OneIn
  <2>6. overtaken' \subseteq InviteId /\ overtaken \subseteq overtaken' /\ overtaken' \subseteq overtaken \cup {i}
        /\ (i \notin overtaken' => \A d \in Calls \ {c} : ~Accepts(call[d], i))
    BY <1>1, <1>3 DEF Accepting, Accepts
  <2>7. ASSUME NEW j \in InviteId, j \notin overtaken'
        PROVE  /\ Settled(invite'[j])
               /\ \A d \in Calls \ {c} : Accepts(call[d], j) => Usable(invite'[j])
    <3>1. Settled(invite[j]) /\ \A d \in Calls : Accepts(call[d], j) => Usable(invite[j])
      BY <2>6, <2>7 DEF OrgInv
    <3>2. CASE j # i
      BY <2>4, <3>1, <3>2
    <3>3. CASE j = i
      <4>1. Usable(invite[i])
        BY <1>1, <3>1, <3>3
      <4>2. Settled(invite'[i])
        BY <2>4, <4>1 DEF Usable, Settled
      <4> QED
        BY <2>6, <2>7, <3>3, <4>2
    <3> QED
      BY <3>2, <3>3
  <2>8. stale' \in BOOLEAN /\ (stale => stale')
    BY <1>1, <1>3
  <2>9. call' = [call EXCEPT ![c] = NoCall]
    BY <1>1 DEF Ends
  <2> QED
    BY <2>3, <2>4, <2>5, <2>6, <2>7, <2>8, <2>9, IdleCall, CallWrites
<1> QED
  BY <1>2, <1>3 DEF AcceptInvite

\* A lapsed invitation that was read open is still accepted.
LEMMA Lapses ==
    ASSUME OrgInv, NEW i \in InviteId, InviteLapses(i) PROVE OrgInv'
<1>1. role' = role /\ call' = call /\ stale' = stale /\ overtaken' = overtaken /\ invite[i].state = "open"
  BY DEF InviteLapses
<1>2. invite \in [InviteId -> Invitation]
  BY DEF OrgInv, OrgTypeOK
<1>3. /\ invite' \in [InviteId -> Invitation]
      /\ \A j \in InviteId : /\ invite'[j].state = IF j = i THEN "lapsed" ELSE invite[j].state
                             /\ invite'[j].uses = invite[j].uses
  BY <1>2 DEF InviteLapses, Invitation
<1>4. OrgTypeOK'
  BY <1>1, <1>3 DEF OrgInv, OrgTypeOK
<1>5. \A j \in InviteId \ overtaken : Settled(invite'[j])
  BY <1>1, <1>3 DEF OrgInv, Settled
<1>6. \A j \in InviteId \ overtaken, c \in Calls : Accepts(call[c], j) => Usable(invite'[j])
  BY <1>1, <1>3 DEF OrgInv, Usable
<1>7. /\ \A c \in Calls : Shape(call[c])
      /\ ~stale => OneIn(role) /\ \A c \in Calls : SparesOwner(call[c])
  BY DEF OrgInv
<1> QED
  BY <1>1, <1>4, <1>5, <1>6, <1>7 DEF OrgInv

-----------------------------------------------------------------------------
LEMMA MembersStep ==
    ASSUME OrgInv, [OrgNext]_orgVars PROVE OrgInv'
<1>1. CASE StartRemove
  BY <1>1, Begins DEF StartRemove
<1>2. CASE StartTransfer
  BY <1>2, Begins DEF StartTransfer
<1>3. CASE StartInvite
  BY <1>3, Begins DEF StartInvite
<1>4. CASE StartAccept
  BY <1>4, AcceptBegins
<1>5. CASE \E c \in Calls : ReadRemove(c) \/ CountOwners(c) \/ DeleteMembership(c)
  BY <1>5, RemoveReads, OwnersCounted, MembershipDeleted
<1>6. CASE \E c \in Calls : ReadTransfer(c) \/ TransferOwnership(c)
  BY <1>6, TransferReads, OwnershipTransferred
<1>7. CASE \E c \in Calls : ReadInvite(c) \/ RevokePending(c) \/ CreateInvite(c)
  BY <1>7, InviteReads, PendingRevoked, InviteCreated
<1>8. CASE \E c \in Calls : ReadAccept(c) \/ AcceptInvite(c)
  BY <1>8, AcceptReads, InviteAccepted
<1>9. CASE \E i \in InviteId : InviteLapses(i)
  BY <1>9, Lapses
<1>10. CASE UNCHANGED orgVars
  BY <1>10 DEF orgVars, OrgInv, OrgTypeOK
<1> QED
  BY <1>1, <1>2, <1>3, <1>4, <1>5, <1>6, <1>7, <1>8, <1>9, <1>10 DEF OrgNext

LEMMA OrgInvariant == OrgSpec => []OrgInv
<1>1. OrgInit => OrgInv
  BY FirstMembers
<1>2. OrgInv /\ [OrgNext]_orgVars => OrgInv'
  BY MembersStep
<1> QED
  BY <1>1, <1>2, PTL DEF OrgSpec

\* However many members there are and however many calls are in flight, the
\* organization has its one owner until a call writes on a role that is another
\* by then (membership.service.ts counts the owners before it deletes, with no
\* lock).
THEOREM OneOwnerAlways == OrgSpec => []OneOwner
<1>1. OrgInv => OneOwner
  BY OrgInvImplies
<1> QED
  BY <1>1, OrgInvariant, PTL

\* An invitation lets one user in, and none once a newer one superseded it,
\* unless it was settled while an acceptance that had read it open was to write
\* (invite.service.ts accepts what it read before the transaction).
THEOREM AcceptedWhileOpenAlways == OrgSpec => []AcceptedWhileOpen
<1>1. OrgInv => AcceptedWhileOpen
  BY OrgInvImplies
<1> QED
  BY <1>1, OrgInvariant, PTL

-----------------------------------------------------------------------------
(* Credentials.  Guesses are limited, links work, and nobody is let in     *)
(* without terms, up to what Credentials.tla says of each.                 *)
(*                                                                         *)
(* The invariant adds that links are issued in order and what each request *)
(* is about, and counts: those about to consume a link, and those that may *)
(* still compare a password before a lock shuts them out.                  *)

ALink  == [kind : Kinds \cup {"none"}, state : {"none", "unused", "expired", "spent"}, uses : Nat]
AVisit == [at : {"away", "authenticate", "count", "lock", "clear", "register", "consent", "invalidate", "create", "consume"},
           kind : Kinds \cup {"none"}, password : Nat, count : Nat, link : 0..NumLinks]

CredTypeOK ==
    /\ account \in [exists : BOOLEAN, verified : BOOLEAN, terms : BOOLEAN, password : Nat]
    /\ link \in [LinkId -> ALink] /\ visit \in [Visitors -> AVisit]
    /\ lockout \in [attempts : Nat, until : Nat] /\ guessed \in [passwords : Nat, since : Nat]
    /\ minute \in Nat /\ stranded \in BOOLEAN /\ deaths \in Nat

\* Terms.
AtConsent == \E u \in Visitors : Is(u, "consent")
TermsInv ==
    /\ account.exists => account.terms \/ stranded \/ AtConsent
    /\ \A v \in Visitors : Is(v, "clear") => account.exists

\* Links.
Replacing(kind) == \E v \in Visitors : Is(v, "create") /\ visit[v].kind = kind
NewestWorks ==
    \A l \in LinkId : /\ link[l].kind # "none" /\ link[l].state = "spent" /\ link[l].uses = 0
                      /\ \A m \in LinkId : link[m].kind = link[l].kind => m <= l
                      => deaths > 0 \/ Replacing(link[l].kind)
Consumers(l) == {v \in Visitors : Is(v, "consume") /\ visit[v].link = l}
LinksInv ==
    /\ NewestWorks
    /\ \A l, m \in LinkId : link[l].kind # "none" /\ link[m].kind = "none" => l < m
    /\ \A v \in Visitors : visit[v].at \in {"consent", "invalidate", "create"} => visit[v].kind \in Kinds
    /\ \A v \in Visitors : Is(v, "consume") => visit[v].link \in LinkId /\ link[visit[v].link].kind # "none"
    /\ \A l \in LinkId : /\ link[l].uses + Cardinality(Consumers(l)) <= Cardinality(Visitors)
                         /\ link[l].state = "unused" => link[l].uses = 0 /\ link[l].kind # "none"

\* Guesses.
Counting == {v \in Visitors : Is(v, "count")}
MayGuess == {v \in Visitors : Is(v, "authenticate") \/ (lockout.until <= minute /\ visit[v].at \notin {"count", "lock"})}
Allowed  == MaxFailures - 1 + Cardinality(Visitors) * (minute - guessed.since + 1) + deaths
GuessInv ==
    /\ guessed.since <= minute
    /\ lockout.attempts < MaxFailures => guessed.passwords <= lockout.attempts + Cardinality(Counting) + deaths
    /\ lockout.attempts >= MaxFailures => guessed.passwords + Cardinality(MayGuess) <= Allowed

CredInv == CredTypeOK /\ TermsInv /\ LinksInv /\ GuessInv

LEMMA CredNumbers ==
    /\ MaxFailures \in Nat \ {0} /\ MaxLockout \in Nat \ {0} /\ LinkId \subseteq Nat /\ NoLink \notin LinkId
    /\ LinkId \subseteq 0..NumLinks /\ NoLink \in 0..NumLinks /\ "none" \notin Kinds
    /\ IsFiniteSet(Visitors) /\ Cardinality(Visitors) \in Nat
<1>1. IsFiniteSet(Visitors) /\ Cardinality(Visitors) \in Nat
  BY CredentialsAssumption, FS_CardinalityType
<1> QED
  BY <1>1, CredentialsAssumption DEF LinkId, NoLink, Kinds

LEMMA VisitorsAreFew == ASSUME NEW S, S \subseteq Visitors PROVE IsFiniteSet(S) /\ Cardinality(S) \in Nat /\ Cardinality(S) <= Cardinality(Visitors)
<1>1. IsFiniteSet(S) /\ Cardinality(S) <= Cardinality(Visitors)
  BY CredNumbers, FS_Subset
<1> QED
  BY <1>1, FS_CardinalityType

LEMMA FewerVisitors == ASSUME NEW S, NEW T, S \subseteq T, T \subseteq Visitors PROVE Cardinality(S) <= Cardinality(T)
<1>1. IsFiniteSet(T)
  BY VisitorsAreFew
<1> QED
  BY <1>1, FS_Subset

LEMMA OneMoreVisitor == ASSUME NEW S, NEW T, NEW v, S \subseteq T \cup {v}, T \subseteq Visitors PROVE Cardinality(S) <= Cardinality(T) + 1
<1>1. IsFiniteSet(T) /\ Cardinality(T) \in Nat
  BY VisitorsAreFew
<1>2. IsFiniteSet(T \cup {v}) /\ Cardinality(T \cup {v}) = IF v \in T THEN Cardinality(T) ELSE Cardinality(T) + 1
  BY <1>1, FS_AddElement
<1>3. IsFiniteSet(S) /\ Cardinality(S) <= Cardinality(T \cup {v})
  BY <1>2, FS_Subset
<1>4. Cardinality(S) \in Nat
  BY <1>3, FS_CardinalityType
<1> QED
  BY <1>1, <1>2, <1>3, <1>4

LEMMA OneVisitorLess ==
    ASSUME NEW S, NEW T, NEW v \in T, S \subseteq T \ {v}, T \subseteq Visitors
    PROVE  Cardinality(S) <= Cardinality(T) - 1
<1>1. IsFiniteSet(T)
  BY VisitorsAreFew
<1>2. IsFiniteSet(T \ {v}) /\ Cardinality(T \ {v}) = Cardinality(T) - 1
  BY <1>1, FS_RemoveElement
<1> QED
  BY <1>2, FS_Subset

\* One request goes to its next step.
LEMMA OneVisit ==
    ASSUME CredTypeOK, NEW v \in Visitors, NEW x \in AVisit, visit' = [visit EXCEPT ![v] = x]
    PROVE  visit' \in [Visitors -> AVisit] /\ \A u \in Visitors : visit'[u] = IF u = v THEN x ELSE visit[u]
  BY DEF CredTypeOK

VisitStep(v, x) == visit' = [visit EXCEPT ![v] = x] /\ x \in AVisit

LEMMA Visits ==
    ASSUME CredTypeOK, NEW v \in Visitors
    PROVE  /\ visit[v] \in AVisit /\ NoVisit \in AVisit /\ NoVisit.at = "away"
           /\ Leaves(v) => VisitStep(v, NoVisit)
           /\ \A to \in {"count", "clear", "invalidate", "create"} :
                 Steps(v, to) => VisitStep(v, [visit[v] EXCEPT !.at = to])
<1>1. NoVisit \in AVisit /\ NoVisit.at = "away"
  BY CredNumbers DEF NoVisit, AVisit, Kinds
<1>2. visit[v] \in AVisit /\ visit \in [Visitors -> AVisit]
  BY DEF CredTypeOK
<1>3. ASSUME NEW to \in {"count", "clear", "invalidate", "create"}, Steps(v, to)
      PROVE  VisitStep(v, [visit[v] EXCEPT !.at = to])
  <2>1. visit' = [visit EXCEPT ![v] = [visit[v] EXCEPT !.at = to]]
    BY <1>2, <1>3 DEF Steps
  <2>2. [visit[v] EXCEPT !.at = to] \in AVisit
    BY <1>2, <1>3 DEF AVisit
  <2> QED
    BY <2>1, <2>2 DEF VisitStep
<1> QED
  BY <1>1, <1>2, <1>3 DEF Leaves, VisitStep

-----------------------------------------------------------------------------
(* Terms.                                                                  *)

\* A request that is at no consent, or is at one now, moves.
LEMMA TermsKept ==
    ASSUME CredInv, NEW v \in Visitors, NEW x, VisitStep(v, x), account' = account, stranded => stranded',
           Is(v, "consent") => stranded', x.at = "clear" => account.exists
    PROVE  TermsInv'
<1>1. \A u \in Visitors : visit'[u] = IF u = v THEN x ELSE visit[u]
  BY OneVisit DEF VisitStep, CredInv
<1>2. account.exists => account.terms \/ stranded' \/ AtConsent'
  <2> SUFFICES ASSUME account.exists, ~account.terms, ~stranded' PROVE AtConsent'
    OBVIOUS
  <2>1. PICK u \in Visitors : Is(u, "consent")
    BY DEF CredInv, TermsInv, AtConsent
  <2> QED
    BY <1>1, <2>1 DEF AtConsent, Is
<1>3. \A u \in Visitors : Is(u, "clear")' => account.exists
  BY <1>1 DEF Is, CredInv, TermsInv
<1> QED
  BY <1>2, <1>3 DEF TermsInv

-----------------------------------------------------------------------------
(* Links.                                                                  *)

\* A request moves that neither replaces a link, unless it died, nor begins to
\* consume one; no link changes but by getting old.
LEMMA LinksKept ==
    ASSUME CredInv, NEW v \in Visitors, NEW x, VisitStep(v, x), link' = link, deaths' \in Nat, deaths' >= deaths,
           Is(v, "create") => deaths' > 0, x.at # "consume",
           x.at \in {"consent", "invalidate", "create"} => x.kind \in Kinds
    PROVE  LinksInv'
<1>1. \A u \in Visitors : visit'[u] = IF u = v THEN x ELSE visit[u]
  BY OneVisit DEF VisitStep, CredInv
<1>2. deaths \in Nat /\ deaths' \in Nat /\ deaths' >= deaths
  BY DEF CredInv, CredTypeOK
<1>3. \A kind : deaths > 0 \/ Replacing(kind) => deaths' > 0 \/ Replacing(kind)'
  <2> SUFFICES ASSUME NEW kind, Replacing(kind), ~(deaths' > 0) PROVE Replacing(kind)'
    BY <1>2
  <2>1. PICK u \in Visitors : Is(u, "create") /\ visit[u].kind = kind
    BY DEF Replacing
  <2> QED
    BY <1>1, <2>1 DEF Replacing, Is
<1>4. NewestWorks'
  BY <1>3 DEF NewestWorks, CredInv, LinksInv
<1>5. \A l \in LinkId : Consumers(l)' \subseteq Consumers(l) /\ Consumers(l) \subseteq Visitors
  BY <1>1 DEF Consumers, Is
<1>6. \A l \in LinkId : Cardinality(Consumers(l)') <= Cardinality(Consumers(l)) /\ Cardinality(Consumers(l)') \in Nat
                        /\ Cardinality(Consumers(l)) \in Nat
  BY <1>5, FewerVisitors, VisitorsAreFew
<1>7. \A l \in LinkId : link[l].uses + Cardinality(Consumers(l)') <= Cardinality(Visitors)
  <2> SUFFICES ASSUME NEW l \in LinkId PROVE link[l].uses + Cardinality(Consumers(l)') <= Cardinality(Visitors)
    OBVIOUS
  <2>1. link[l].uses \in Nat /\ link[l].uses + Cardinality(Consumers(l)) <= Cardinality(Visitors)
    BY DEF CredInv, CredTypeOK, LinksInv, ALink
  <2> QED
    BY <1>6, <2>1, CredNumbers
<1>8. \A u \in Visitors : visit'[u].at \in {"consent", "invalidate", "create"} => visit'[u].kind \in Kinds
  BY <1>1 DEF CredInv, LinksInv
<1>9. \A u \in Visitors : Is(u, "consume")' => visit'[u].link \in LinkId /\ link[visit'[u].link].kind # "none"
  BY <1>1 DEF CredInv, LinksInv, Is
<1> QED
  BY <1>4, <1>7, <1>8, <1>9 DEF LinksInv, CredInv

-----------------------------------------------------------------------------
(* Guesses.                                                                *)

LEMMA Amounts ==
    ASSUME CredInv
    PROVE  /\ Counting \subseteq Visitors /\ Cardinality(Counting) \in Nat /\ Cardinality(Counting) <= Cardinality(Visitors)
           /\ MayGuess \subseteq Visitors /\ Cardinality(MayGuess) \in Nat /\ Cardinality(MayGuess) <= Cardinality(Visitors)
           /\ guessed.passwords \in Nat /\ guessed.since \in Nat /\ minute \in Nat /\ guessed.since <= minute /\ deaths \in Nat
           /\ lockout.attempts \in Nat /\ lockout.until \in Nat
           /\ MaxFailures \in Nat /\ MaxFailures > 0 /\ Cardinality(Visitors) \in Nat
<1>1. Counting \subseteq Visitors /\ MayGuess \subseteq Visitors
  BY DEF Counting, MayGuess
<1>2. guessed.passwords \in Nat /\ guessed.since \in Nat /\ minute \in Nat /\ guessed.since <= minute /\ deaths \in Nat
      /\ lockout.attempts \in Nat /\ lockout.until \in Nat
  BY DEF CredInv, CredTypeOK, GuessInv
<1> QED
  BY <1>1, <1>2, VisitorsAreFew, CredNumbers

\* A request that compares no password and counts no failure moves, or dies.
LEMMA GuessKept ==
    ASSUME CredInv, NEW v \in Visitors, NEW x, VisitStep(v, x), UNCHANGED <<lockout, minute, guessed>>,
           \/ deaths' = deaths + 1
           \/ /\ deaths' = deaths /\ visit[v].at \notin {"count", "lock"}
              /\ x.at = "authenticate" => visit[v].at = "authenticate" \/ lockout.until <= minute
    PROVE  GuessInv'
<1>1. \A u \in Visitors : visit'[u] = IF u = v THEN x ELSE visit[u]
  BY OneVisit DEF VisitStep, CredInv
<1>2. lockout' = lockout /\ minute' = minute /\ guessed' = guessed
  OBVIOUS
<1> DEFINE C == Cardinality(Counting)
           U == Cardinality(MayGuess)
           C2 == Cardinality(Counting')
           U2 == Cardinality(MayGuess')
<1>3. Counting' \subseteq Visitors /\ MayGuess' \subseteq Visitors
  BY DEF Counting, MayGuess
<1>4. C \in Nat /\ U \in Nat /\ C2 \in Nat /\ U2 \in Nat
  BY <1>3, Amounts, VisitorsAreFew
<1>5. C <= C2 + deaths' - deaths /\ U2 <= U + deaths' - deaths
  <2>1. CASE deaths' = deaths + 1
    <3>1. Counting \subseteq Counting' \cup {v} /\ MayGuess' \subseteq MayGuess \cup {v}
      BY <1>1, <1>2 DEF Counting, MayGuess, Is
    <3>2. C <= C2 + 1
      BY <1>3, <3>1, OneMoreVisitor
    <3>3. U2 <= U + 1
      BY <3>1, Amounts, OneMoreVisitor
    <3> QED
      BY <1>4, <2>1, <3>2, <3>3, Amounts
  <2>2. CASE deaths' # deaths + 1
    <3>1. Counting \subseteq Counting'
      BY <1>1, <2>2 DEF Counting, Is
    <3>2. MayGuess' \subseteq MayGuess
      BY <1>1, <1>2, <2>2 DEF MayGuess, Is
    <3>3. C <= C2
      BY <1>3, <3>1, FewerVisitors
    <3>4. U2 <= U
      BY <3>2, Amounts, FewerVisitors
    <3> QED
      BY <1>4, <2>2, <3>3, <3>4, Amounts
  <2> QED
    BY <2>1, <2>2
<1> HIDE DEF C, U, C2, U2
<1>6. lockout.attempts < MaxFailures => guessed.passwords <= lockout.attempts + C2 + deaths'
  <2>1. lockout.attempts < MaxFailures => guessed.passwords <= lockout.attempts + C + deaths
    BY DEF CredInv, GuessInv, C
  <2> QED
    BY <1>4, <1>5, <2>1, Amounts
<1>7. lockout.attempts >= MaxFailures => guessed.passwords + U2 <= Allowed'
  <2> DEFINE most == MaxFailures - 1 + Cardinality(Visitors) * (minute - guessed.since + 1)
  <2>1. Allowed = most + deaths /\ Allowed' = most + deaths' /\ most \in Int
    BY <1>2, Amounts DEF Allowed
  <2>2. lockout.attempts >= MaxFailures => guessed.passwords + U <= Allowed
    BY DEF CredInv, GuessInv, U
  <2> HIDE DEF most
  <2> QED
    BY <1>4, <1>5, <2>1, <2>2, Amounts
<1> QED
  BY <1>2, <1>6, <1>7 DEF GuessInv, CredInv, C2, U2

\* What the guesses up to the first lock leave of the first minute's.
LEMMA FirstMinute ==
    ASSUME CredInv
    PROVE  MaxFailures - 1 + Cardinality(Visitors) + deaths <= Allowed /\ Allowed \in Int
<1> DEFINE n == Cardinality(Visitors)
           k == minute - guessed.since
<1>1. n \in Nat /\ k \in Nat
  BY Amounts
<1>2. Allowed = MaxFailures - 1 + n * (k + 1) + deaths
  BY DEF Allowed
<1> HIDE DEF n, k
<1>3. n * (k + 1) = n * k + n /\ n * k \in Nat
  BY <1>1
<1> QED
  BY <1>1, <1>2, <1>3, Amounts DEF n

LEMMA GuessCompared ==
    ASSUME CredInv, NEW v \in Visitors, NEW x, VisitStep(v, x), visit[v].at = "authenticate", x.at = "count",
           UNCHANGED <<lockout, minute, stranded, deaths>>, guessed' = [guessed EXCEPT !.passwords = @ + 1]
    PROVE  GuessInv'
<1>1. \A u \in Visitors : visit'[u] = IF u = v THEN x ELSE visit[u]
  BY OneVisit DEF VisitStep, CredInv
<1>2. lockout' = lockout /\ minute' = minute /\ deaths' = deaths
      /\ guessed'.passwords = guessed.passwords + 1 /\ guessed'.since = guessed.since
  BY DEF CredInv, CredTypeOK
<1>3. v \in MayGuess /\ MayGuess' \subseteq MayGuess \ {v} /\ v \in Counting' /\ Counting \subseteq Counting' \ {v}
      /\ Counting' \subseteq Visitors
  BY <1>1, <1>2 DEF MayGuess, Counting, Is
<1>4. Cardinality(MayGuess') <= Cardinality(MayGuess) - 1
  BY <1>3, Amounts, OneVisitorLess
<1>5. Cardinality(Counting) <= Cardinality(Counting') - 1
  BY <1>3, OneVisitorLess
<1>6. Cardinality(Counting') \in Nat /\ Cardinality(MayGuess') \in Nat
  BY <1>3, Amounts, VisitorsAreFew
<1>7. Allowed' = Allowed /\ Allowed \in Int
  BY <1>2, FirstMinute DEF Allowed
<1>8. lockout.attempts < MaxFailures => guessed.passwords + 1 <= lockout.attempts + Cardinality(Counting') + deaths
  BY <1>5, <1>6, Amounts DEF CredInv, GuessInv
<1>9. lockout.attempts >= MaxFailures => guessed.passwords + 1 + Cardinality(MayGuess') <= Allowed
  BY <1>4, <1>6, <1>7, Amounts DEF CredInv, GuessInv
<1> QED
  BY <1>2, <1>7, <1>8, <1>9 DEF GuessInv, CredInv

LEMMA GuessCounted ==
    ASSUME CredInv, NEW v \in Visitors, NEW x, VisitStep(v, x), visit[v].at = "count",
           lockout' = [lockout EXCEPT !.attempts = lockout.attempts + 1],
           lockout.attempts + 1 >= MaxFailures => x.at = "lock", UNCHANGED <<minute, guessed, stranded, deaths>>
    PROVE  GuessInv'
<1>1. \A u \in Visitors : visit'[u] = IF u = v THEN x ELSE visit[u]
  BY OneVisit DEF VisitStep, CredInv
<1>2. minute' = minute /\ guessed' = guessed /\ deaths' = deaths
      /\ lockout'.attempts = lockout.attempts + 1 /\ lockout'.until = lockout.until
  BY DEF CredInv, CredTypeOK
<1>3. Allowed' = Allowed /\ Allowed \in Int
  BY <1>2, FirstMinute DEF Allowed
<1>4. Counting' \subseteq Visitors /\ Counting \subseteq Counting' \cup {v}
  BY <1>1 DEF Counting, Is
<1>5. Cardinality(Counting) <= Cardinality(Counting') + 1 /\ Cardinality(Counting') \in Nat
  BY <1>4, OneMoreVisitor, VisitorsAreFew
<1>6. CASE lockout.attempts + 1 < MaxFailures
  <2>1. guessed.passwords <= lockout.attempts + 1 + Cardinality(Counting') + deaths
    BY <1>5, <1>6, Amounts DEF CredInv, GuessInv
  <2> QED
    BY <1>2, <1>6, <2>1, Amounts DEF GuessInv, CredInv
<1>7. CASE lockout.attempts + 1 >= MaxFailures
  <2>1. MayGuess' \subseteq Visitors \ Counting /\ MayGuess' \subseteq MayGuess
    BY <1>1, <1>2, <1>7 DEF MayGuess, Counting, Is
  <2>2. Cardinality(MayGuess') \in Nat /\ Cardinality(MayGuess') <= Cardinality(MayGuess)
    BY <2>1, Amounts, VisitorsAreFew, FewerVisitors
  <2>3. guessed.passwords + Cardinality(MayGuess') <= Allowed
    <3>1. CASE lockout.attempts >= MaxFailures
      BY <1>3, <2>2, <3>1, Amounts DEF CredInv, GuessInv
    <3>2. CASE lockout.attempts < MaxFailures
      <4>1. Cardinality(Visitors \ Counting) = Cardinality(Visitors) - Cardinality(Visitors \cap Counting)
        BY CredNumbers, FS_Difference
      <4>2. Visitors \cap Counting = Counting
        BY Amounts
      <4>3. Cardinality(MayGuess') <= Cardinality(Visitors \ Counting)
        <5>1. Visitors \ Counting \subseteq Visitors
          OBVIOUS
        <5> QED
          BY <2>1, <5>1, FewerVisitors
      <4>4. Cardinality(MayGuess') <= Cardinality(Visitors) - Cardinality(Counting)
        BY <4>1, <4>2, <4>3
      <4>5. guessed.passwords <= MaxFailures - 1 + Cardinality(Counting) + deaths
        BY <1>7, <3>2, Amounts DEF CredInv, GuessInv
      <4> QED
        BY <1>3, <2>2, <4>4, <4>5, Amounts, FirstMinute
    <3> QED
      BY <3>1, <3>2, Amounts
  <2> QED
    BY <1>2, <1>3, <1>7, <2>3, Amounts DEF GuessInv, CredInv
<1> QED
  BY <1>6, <1>7, Amounts

\* Whoever has set a lock shuts out all but those who passed it before.
LEMMA GuessLocked ==
    ASSUME CredInv, NEW v \in Visitors, NEW x, VisitStep(v, x), visit[v].at = "lock", x.at = "away",
           NEW m \in Nat, m > minute, lockout' = [lockout EXCEPT !.until = m], UNCHANGED <<minute, guessed, stranded, deaths>>
    PROVE  GuessInv'
<1>1. \A u \in Visitors : visit'[u] = IF u = v THEN x ELSE visit[u]
  BY OneVisit DEF VisitStep, CredInv
<1>2. minute' = minute /\ guessed' = guessed /\ deaths' = deaths
      /\ lockout'.attempts = lockout.attempts /\ lockout'.until = m /\ ~(m <= minute)
  BY Amounts DEF CredInv, CredTypeOK
<1>3. Allowed' = Allowed /\ Allowed \in Int
  BY <1>2, FirstMinute DEF Allowed
<1>4. Counting' = Counting /\ MayGuess' \subseteq MayGuess
  BY <1>1, <1>2 DEF Counting, MayGuess, Is
<1>5. Cardinality(MayGuess') <= Cardinality(MayGuess) /\ Cardinality(MayGuess') \in Nat
  BY <1>4, Amounts, FewerVisitors, VisitorsAreFew
<1>6. lockout.attempts >= MaxFailures => guessed.passwords + Cardinality(MayGuess') <= Allowed
  BY <1>3, <1>5, Amounts DEF CredInv, GuessInv
<1> QED
  BY <1>2, <1>3, <1>4, <1>6 DEF GuessInv, CredInv

LEMMA GuessCleared ==
    ASSUME CredInv, NEW v \in Visitors, NEW x, VisitStep(v, x), lockout' = NoLockout,
           guessed' = [passwords |-> 0, since |-> minute], UNCHANGED <<minute, stranded, deaths>>
    PROVE  GuessInv'
<1>1. Counting' \subseteq Visitors
  BY DEF Counting
<1>2. Cardinality(Counting') \in Nat
  BY <1>1, VisitorsAreFew
<1> QED
  BY <1>2, Amounts DEF GuessInv, NoLockout

LEMMA GuessNextMinute == ASSUME CredInv, MinutePasses PROVE GuessInv'
<1>1. minute' = minute + 1 /\ UNCHANGED <<visit, guessed, deaths, lockout>>
  BY DEF MinutePasses
<1>2. Counting' = Counting /\ MayGuess' \subseteq Visitors
  BY <1>1 DEF Counting, MayGuess, Is
<1>3. Cardinality(MayGuess') <= Cardinality(Visitors) /\ Cardinality(MayGuess') \in Nat
  BY <1>2, VisitorsAreFew
<1>4. Allowed' = Allowed + Cardinality(Visitors) /\ Allowed \in Int
  <2> DEFINE n == Cardinality(Visitors)
             k == minute - guessed.since
  <2>1. n \in Nat /\ k \in Nat
    BY Amounts
  <2>2. Allowed = MaxFailures - 1 + n * (k + 1) + deaths
    BY DEF Allowed
  <2>3. Allowed' = MaxFailures - 1 + n * (k + 1 + 1) + deaths
    <3>1. minute' - guessed'.since + 1 = k + 1 + 1
      BY <1>1, Amounts
    <3> QED
      BY <1>1, <3>1 DEF Allowed
  <2> HIDE DEF n, k
  <2>4. n * (k + 1 + 1) = n * (k + 1) + n /\ n * (k + 1) \in Nat
    BY <2>1
  <2> QED
    BY <2>1, <2>2, <2>3, <2>4, Amounts DEF n
<1>5. lockout.attempts >= MaxFailures => guessed.passwords + Cardinality(MayGuess') <= Allowed'
  BY <1>3, <1>4, Amounts DEF CredInv, GuessInv
<1>6. guessed'.since <= minute' /\ guessed' = guessed /\ lockout' = lockout /\ deaths' = deaths
  BY <1>1, Amounts
<1> QED
  BY <1>2, <1>5, <1>6 DEF GuessInv, CredInv


-----------------------------------------------------------------------------
(* The operations.                                                         *)

\* A request moves, and nothing else changes but the guesses and the deaths.
LEMMA CredTypeKept ==
    ASSUME CredInv, NEW v \in Visitors, NEW x, VisitStep(v, x),
           account' \in [exists : BOOLEAN, verified : BOOLEAN, terms : BOOLEAN, password : Nat],
           link' \in [LinkId -> ALink], lockout' \in [attempts : Nat, until : Nat],
           guessed' \in [passwords : Nat, since : Nat], minute' = minute, stranded' \in BOOLEAN, deaths' \in Nat
    PROVE  CredTypeOK'
<1>1. visit' \in [Visitors -> AVisit]
  BY OneVisit DEF VisitStep, CredInv
<1> QED
  BY <1>1 DEF CredTypeOK, CredInv

LEMMA QuietKept ==
    ASSUME CredInv, NEW v \in Visitors, NEW x, VisitStep(v, x), UNCHANGED <<account, link, lockout, minute, guessed, stranded, deaths>>,
           visit[v].at \notin {"count", "lock", "consent", "create"}, x.at # "consume",
           x.at = "clear" => account.exists,
           x.at = "authenticate" => visit[v].at = "authenticate" \/ lockout.until <= minute,
           x.at \in {"consent", "invalidate", "create"} => x.kind \in Kinds
    PROVE  CredInv'
<1>1. account' = account /\ link' = link /\ deaths' = deaths /\ stranded' = stranded /\ minute' = minute /\ deaths \in Nat
  BY DEF CredInv, CredTypeOK
<1>2. ~Is(v, "consent") /\ ~Is(v, "create") /\ deaths' \in Nat /\ deaths' >= deaths
  BY <1>1 DEF Is
<1>3. CredTypeOK'
  BY <1>1, CredTypeKept DEF CredInv, CredTypeOK
<1>4. TermsInv'
  BY <1>1, <1>2, TermsKept
<1>5. LinksInv'
  BY <1>1, <1>2, LinksKept
<1>6. GuessInv'
  BY <1>1, GuessKept
<1> QED
  BY <1>3, <1>4, <1>5, <1>6 DEF CredInv

LEMMA Entries ==
    ASSUME CredInv
    PROVE  /\ \A kind \in Kinds : AsksFor(kind) \in AVisit /\ AsksFor(kind).at = "invalidate" /\ AsksFor(kind).kind = kind
           /\ \A at \in {"authenticate", "register"}, p \in Nat : [NoVisit EXCEPT !.at = at, !.password = p] \in AVisit
           /\ [NoVisit EXCEPT !.at = "register"] \in AVisit
           /\ \A l \in LinkId : [NoVisit EXCEPT !.at = "consume", !.link = l] \in AVisit
  BY CredNumbers DEF NoVisit, AVisit, AsksFor

LEMMA StartLoginKept == ASSUME CredInv, NEW v \in Visitors, StartLogin(v) PROVE CredInv'
<1>1. PICK p \in {0, account.password} : Enters(v, [NoVisit EXCEPT !.at = "authenticate", !.password = p])
  BY DEF StartLogin
<1> DEFINE x == [NoVisit EXCEPT !.at = "authenticate", !.password = p]
<1>2. p \in Nat
  BY DEF CredInv, CredTypeOK
<1>3. VisitStep(v, x) /\ visit[v].at = "away"
  BY <1>1, <1>2, Entries DEF Enters, VisitStep, Is
<1>4. x.at = "authenticate"
  BY DEF NoVisit
<1>5. lockout.until <= minute /\ UNCHANGED <<account, link, lockout, minute, guessed, stranded, deaths>>
  BY DEF StartLogin
<1> HIDE DEF x
<1> QED
  BY <1>3, <1>4, <1>5, QuietKept

LEMMA AuthenticateKept == ASSUME CredInv, NEW v \in Visitors, Authenticate(v) PROVE CredInv'
<1>1. visit[v].at = "authenticate" /\ UNCHANGED <<account, link, lockout, minute, stranded, deaths>>
  BY DEF Authenticate, Is
<1>2. CASE account.exists /\ visit[v].password = account.password
  <2>1. PICK to \in {"clear", "count"} : Steps(v, to)
    BY <1>2 DEF Authenticate
  <2> DEFINE x == [visit[v] EXCEPT !.at = to]
  <2>2. VisitStep(v, x)
    BY <2>1, Visits DEF CredInv
  <2>3. x.at = to
    BY Visits DEF AVisit, CredInv
  <2>4. guessed' = guessed
    BY <1>2 DEF Authenticate
  <2> HIDE DEF x
  <2> QED
    BY <1>1, <1>2, <2>2, <2>3, <2>4, QuietKept
<1>3. CASE ~(account.exists /\ visit[v].password = account.password)
  <2> DEFINE x == [visit[v] EXCEPT !.at = "count"]
  <2>1. Steps(v, "count") /\ guessed' = [guessed EXCEPT !.passwords = @ + 1]
    BY <1>3 DEF Authenticate
  <2>2. VisitStep(v, x)
    BY <2>1, Visits DEF CredInv
  <2>3. x.at = "count"
    BY Visits DEF AVisit, CredInv
  <2> HIDE DEF x
  <2>4. guessed' \in [passwords : Nat, since : Nat]
    BY <2>1 DEF CredInv, CredTypeOK
  <2>5. CredTypeOK'
    BY <1>1, <2>2, <2>4, CredTypeKept DEF CredInv, CredTypeOK
  <2>6. deaths' \in Nat /\ deaths' >= deaths /\ ~Is(v, "consent") /\ ~Is(v, "create")
    BY <1>1 DEF CredInv, CredTypeOK, Is
  <2>7. TermsInv'
    BY <1>1, <2>2, <2>3, <2>6, TermsKept
  <2>8. LinksInv'
    BY <1>1, <2>2, <2>3, <2>6, LinksKept
  <2>9. GuessInv'
    BY <1>1, <2>1, <2>2, <2>3, GuessCompared
  <2> QED
    BY <2>5, <2>7, <2>8, <2>9 DEF CredInv
<1> QED
  BY <1>2, <1>3

\* A request leaves its step for one that is none of the links' or the terms'.
LEMMA CountFailureKept == ASSUME CredInv, NEW v \in Visitors, CountFailure(v) PROVE CredInv'
<1> DEFINE n == lockout.attempts + 1
           x == IF n >= MaxFailures THEN [visit[v] EXCEPT !.at = "lock", !.count = n] ELSE NoVisit
<1>1. visit[v].at = "count" /\ UNCHANGED <<account, link, minute, guessed, stranded, deaths>> /\ lockout' = [lockout EXCEPT !.attempts = n]
  BY DEF CountFailure, Is
<1>2. n \in Nat /\ lockout' \in [attempts : Nat, until : Nat]
  BY <1>1 DEF CredInv, CredTypeOK
<1>3. visit[v] \in AVisit /\ NoVisit \in AVisit /\ NoVisit.at = "away" /\ visit \in [Visitors -> AVisit]
  BY Visits DEF CredInv, CredTypeOK
<1>4. VisitStep(v, x) /\ (n >= MaxFailures => x.at = "lock") /\ x.at \in {"lock", "away"}
  <2>1. CASE n >= MaxFailures
    <3>1. visit' = [visit EXCEPT ![v] = x]
      BY <1>3, <2>1 DEF CountFailure
    <3>2. x \in AVisit /\ x.at = "lock"
      BY <1>2, <1>3, <2>1 DEF AVisit
    <3> QED
      BY <3>1, <3>2 DEF VisitStep
  <2>2. CASE ~(n >= MaxFailures)
    <3>1. visit' = [visit EXCEPT ![v] = x]
      BY <2>2 DEF CountFailure, Leaves
    <3> QED
      BY <1>3, <2>2, <3>1 DEF VisitStep
  <2> QED
    BY <2>1, <2>2
<1>5. lockout' = [lockout EXCEPT !.attempts = lockout.attempts + 1] /\ (lockout.attempts + 1 >= MaxFailures => x.at = "lock")
  BY <1>1, <1>4
<1> HIDE DEF n, x
<1>6. deaths' \in Nat /\ deaths' >= deaths /\ ~Is(v, "consent") /\ ~Is(v, "create")
  BY <1>1 DEF CredInv, CredTypeOK, Is
<1>7. CredTypeOK'
  BY <1>1, <1>2, <1>4, CredTypeKept DEF CredInv, CredTypeOK
<1>8. TermsInv'
  BY <1>1, <1>4, <1>6, TermsKept
<1>9. LinksInv'
  BY <1>1, <1>4, <1>6, LinksKept
<1>10. GuessInv'
  BY <1>1, <1>4, <1>5, GuessCounted
<1> QED
  BY <1>7, <1>8, <1>9, <1>10 DEF CredInv

\* The lock lasts a minute at least.
LEMMA BackoffLasts == ASSUME CredInv, NEW n PROVE Backoff(n) \in Nat /\ Backoff(n) > 0
  BY CredNumbers DEF Backoff

LEMMA SetLockedUntilKept == ASSUME CredInv, NEW v \in Visitors, SetLockedUntil(v) PROVE CredInv'
<1> DEFINE m == minute + Backoff(visit[v].count)
<1>1. visit[v].at = "lock" /\ Leaves(v) /\ UNCHANGED <<account, link, minute, guessed, stranded, deaths>> /\ lockout' = [lockout EXCEPT !.until = m]
  BY DEF SetLockedUntil, Is
<1>2. m \in Nat /\ m > minute
  BY BackoffLasts, Amounts
<1> HIDE DEF m
<1>3. VisitStep(v, NoVisit) /\ NoVisit.at = "away"
  BY <1>1, Visits DEF CredInv
<1>4. deaths' \in Nat /\ deaths' >= deaths /\ ~Is(v, "consent") /\ ~Is(v, "create")
  BY <1>1 DEF CredInv, CredTypeOK, Is
<1>5. lockout' \in [attempts : Nat, until : Nat]
  BY <1>1, <1>2 DEF CredInv, CredTypeOK
<1>6. CredTypeOK'
  BY <1>1, <1>3, <1>5, CredTypeKept DEF CredInv, CredTypeOK
<1>7. TermsInv'
  BY <1>1, <1>3, <1>4, TermsKept
<1>8. LinksInv'
  BY <1>1, <1>3, <1>4, LinksKept
<1>9. GuessInv'
  BY <1>1, <1>2, <1>3, GuessLocked
<1> QED
  BY <1>6, <1>7, <1>8, <1>9 DEF CredInv

LEMMA ClearFailuresKept == ASSUME CredInv, NEW v \in Visitors, ClearFailures(v) PROVE CredInv'
<1>1. visit[v].at = "clear" /\ Leaves(v) /\ UNCHANGED <<account, link, minute, stranded, deaths>> /\ lockout' = NoLockout
      /\ guessed' = [passwords |-> 0, since |-> minute]
  BY DEF ClearFailures, Is
<1>2. VisitStep(v, NoVisit) /\ NoVisit.at = "away"
  BY <1>1, Visits DEF CredInv
<1>3. deaths' \in Nat /\ deaths' >= deaths /\ ~Is(v, "consent") /\ ~Is(v, "create")
  BY <1>1 DEF CredInv, CredTypeOK, Is
<1>4. lockout' \in [attempts : Nat, until : Nat] /\ guessed' \in [passwords : Nat, since : Nat]
  BY <1>1 DEF CredInv, CredTypeOK, NoLockout
<1>5. CredTypeOK'
  BY <1>1, <1>2, <1>4, CredTypeKept DEF CredInv, CredTypeOK
<1>6. TermsInv'
  BY <1>1, <1>2, <1>3, TermsKept
<1>7. LinksInv'
  BY <1>1, <1>2, <1>3, LinksKept
<1>8. GuessInv'
  BY <1>1, <1>2, GuessCleared
<1> QED
  BY <1>5, <1>6, <1>7, <1>8 DEF CredInv

LEMMA SignupKept == ASSUME CredInv, NEW v \in Visitors, Signup(v) PROVE CredInv'
<1>1. PICK x \in {AsksFor("reset"), [NoVisit EXCEPT !.at = "register"]} : Enters(v, x)
  BY DEF Signup
<1>2. x \in AVisit /\ x.at \in {"invalidate", "register"} /\ (x.at = "invalidate" => x.kind \in Kinds)
  BY Entries DEF NoVisit, Kinds
<1>3. VisitStep(v, x) /\ visit[v].at = "away"
  BY <1>1, <1>2 DEF Enters, VisitStep, Is
<1>4. UNCHANGED <<account, link, lockout, minute, guessed, stranded, deaths>>
  BY DEF Signup
<1> QED
  BY <1>2, <1>3, <1>4, QuietKept

LEMMA RequestLinkKept == ASSUME CredInv, NEW v \in Visitors, RequestLink(v) PROVE CredInv'
<1>1. PICK kind \in Kinds : Enters(v, AsksFor(kind))
  BY DEF RequestLink
<1>2. VisitStep(v, AsksFor(kind)) /\ visit[v].at = "away"
  BY <1>1, Entries DEF Enters, VisitStep, Is
<1>3. UNCHANGED <<account, link, lockout, minute, guessed, stranded, deaths>>
  BY DEF RequestLink
<1>4. AsksFor(kind).at = "invalidate" /\ AsksFor(kind).kind \in Kinds
  BY Entries
<1> QED
  BY <1>2, <1>3, <1>4, QuietKept

LEMMA RequestDiesKept == ASSUME CredInv, NEW v \in Visitors, RequestDies(v) PROVE CredInv'
<1>1. /\ Leaves(v) /\ UNCHANGED <<account, link, lockout, minute, guessed>> /\ deaths' = deaths + 1
      /\ stranded' = (stranded \/ Is(v, "consent"))
  BY DEF RequestDies
<1>2. VisitStep(v, NoVisit) /\ NoVisit.at = "away"
  BY <1>1, Visits DEF CredInv
<1>3. deaths' \in Nat /\ deaths' >= deaths /\ deaths' > 0
  BY <1>1 DEF CredInv, CredTypeOK
<1>4. CredTypeOK'
  BY <1>1, <1>2, <1>3, CredTypeKept DEF CredInv, CredTypeOK
<1>5. TermsInv'
  BY <1>1, <1>2, <1>3, TermsKept
<1>6. LinksInv'
  BY <1>1, <1>2, <1>3, LinksKept
<1>7. GuessInv'
  BY <1>1, <1>2, GuessKept
<1> QED
  BY <1>4, <1>5, <1>6, <1>7 DEF CredInv

\* Whoever registers goes on to accept the terms.
LEMMA RegisterKept == ASSUME CredInv, NEW v \in Visitors, Register(v) PROVE CredInv'
<1>1. visit[v].at = "register" /\ UNCHANGED <<link, lockout, minute, guessed, stranded, deaths>>
  BY DEF Register, Is
<1>2. CASE account.exists
  <2>1. VisitStep(v, NoVisit) /\ NoVisit.at = "away" /\ account' = account
    BY <1>2, Visits DEF Register, CredInv
  <2> QED
    BY <1>1, <2>1, QuietKept
<1>3. CASE ~account.exists
  <2> DEFINE x == [visit[v] EXCEPT !.at = "consent", !.kind = "verification"]
  <2>1. visit[v] \in AVisit /\ visit \in [Visitors -> AVisit]
    BY DEF CredInv, CredTypeOK
  <2>2. x \in AVisit /\ x.at = "consent" /\ x.kind = "verification" /\ x.kind \in Kinds
    BY <2>1 DEF AVisit, Kinds
  <2>3. visit' = [visit EXCEPT ![v] = x]
    BY <1>3, <2>1 DEF Register, AfterRegistration
  <2>4. VisitStep(v, x)
    BY <2>2, <2>3 DEF VisitStep
  <2> HIDE DEF x
  <2>5. account' = [account EXCEPT !.exists = TRUE, !.password = 1]
    BY <1>3 DEF Register
  <2>6. account' \in [exists : BOOLEAN, verified : BOOLEAN, terms : BOOLEAN, password : Nat]
    BY <2>5 DEF CredInv, CredTypeOK
  <2>7. CredTypeOK'
    BY <1>1, <2>4, <2>6, CredTypeKept DEF CredInv, CredTypeOK
  <2>8. deaths' \in Nat /\ deaths' >= deaths /\ ~Is(v, "create")
    BY <1>1 DEF CredInv, CredTypeOK, Is
  <2>9. \A u \in Visitors : visit'[u] = IF u = v THEN x ELSE visit[u]
    BY <2>4, OneVisit DEF VisitStep, CredInv
  <2>10. TermsInv'
    <3>1. AtConsent'
      BY <2>2, <2>9 DEF AtConsent, Is
    <3>2. \A u \in Visitors : ~Is(u, "clear")'
      BY <1>3, <2>2, <2>9 DEF Is, CredInv, TermsInv
    <3> QED
      BY <3>1, <3>2 DEF TermsInv
  <2>11. LinksInv'
    BY <1>1, <2>2, <2>4, <2>8, LinksKept
  <2>12. GuessInv'
    BY <1>1, <2>2, <2>4, GuessKept
  <2> QED
    BY <2>7, <2>10, <2>11, <2>12 DEF CredInv
<1> QED
  BY <1>2, <1>3

LEMMA ConsentKept == ASSUME CredInv, NEW v \in Visitors, Consent(v) PROVE CredInv'
<1> DEFINE x == [visit[v] EXCEPT !.at = "invalidate"]
<1>1. visit[v].at = "consent" /\ UNCHANGED <<link, lockout, minute, guessed, stranded, deaths>> /\ Steps(v, "invalidate")
      /\ account' = [account EXCEPT !.terms = TRUE]
  BY DEF Consent, Is
<1>2. VisitStep(v, x) /\ x.at = "invalidate" /\ x.kind \in Kinds
  <2>1. VisitStep(v, x)
    BY <1>1, Visits DEF CredInv
  <2>2. visit[v] \in AVisit
    BY Visits DEF CredInv
  <2>3. visit[v].kind \in Kinds
    BY <1>1 DEF CredInv, LinksInv
  <2> QED
    BY <2>1, <2>2, <2>3 DEF AVisit
<1> HIDE DEF x
<1>3. account'.terms = TRUE /\ account'.exists = account.exists
      /\ account' \in [exists : BOOLEAN, verified : BOOLEAN, terms : BOOLEAN, password : Nat]
  BY <1>1 DEF CredInv, CredTypeOK
<1>4. CredTypeOK'
  BY <1>1, <1>2, <1>3, CredTypeKept DEF CredInv, CredTypeOK
<1>5. deaths' \in Nat /\ deaths' >= deaths /\ ~Is(v, "create")
  BY <1>1 DEF CredInv, CredTypeOK, Is
<1>6. TermsInv'
  <2>1. \A u \in Visitors : visit'[u] = IF u = v THEN x ELSE visit[u]
    BY <1>2, OneVisit DEF VisitStep, CredInv
  <2> QED
    BY <1>2, <1>3, <2>1 DEF TermsInv, CredInv, Is
<1>7. LinksInv'
  BY <1>1, <1>2, <1>5, LinksKept
<1>8. GuessInv'
  BY <1>1, <1>2, GuessKept
<1> QED
  BY <1>4, <1>6, <1>7, <1>8 DEF CredInv

\* The links that a request has yet to consume, when another request moves on.
LEMMA ConsumersKept ==
    ASSUME CredInv, NEW v \in Visitors, NEW x, VisitStep(v, x), x.at # "consume", NEW l \in LinkId
    PROVE  /\ Cardinality(Consumers(l)) \in Nat /\ Cardinality(Consumers(l)') \in Nat
           /\ Cardinality(Consumers(l)') <= Cardinality(Consumers(l))
           /\ v \in Consumers(l) => Cardinality(Consumers(l)') <= Cardinality(Consumers(l)) - 1
<1>1. \A u \in Visitors : visit'[u] = IF u = v THEN x ELSE visit[u]
  BY OneVisit DEF VisitStep, CredInv
<1>2. Consumers(l)' \subseteq Consumers(l) \ {v} /\ Consumers(l) \subseteq Visitors /\ Consumers(l)' \subseteq Visitors
  BY <1>1 DEF Consumers, Is
<1>3. Cardinality(Consumers(l)) \in Nat /\ Cardinality(Consumers(l)') \in Nat
  BY <1>2, VisitorsAreFew
<1>4. Cardinality(Consumers(l)') <= Cardinality(Consumers(l))
  <2>1. Consumers(l)' \subseteq Consumers(l)
    BY <1>2
  <2> QED
    BY <1>2, <2>1, FewerVisitors
<1>5. v \in Consumers(l) => Cardinality(Consumers(l)') <= Cardinality(Consumers(l)) - 1
  BY <1>2, OneVisitorLess
<1> QED
  BY <1>3, <1>4, <1>5

\* Spending the unused links of a kind leaves its newest one spent until
\* the same request has created the next.
LEMMA InvalidateKept == ASSUME CredInv, NEW v \in Visitors, Invalidate(v) PROVE CredInv'
<1> DEFINE x == [visit[v] EXCEPT !.at = "create"]
           k == visit[v].kind
<1>1. visit[v].at = "invalidate" /\ UNCHANGED <<account, lockout, minute, guessed, stranded, deaths>> /\ Steps(v, "create")
  BY DEF Invalidate, Is
<1>2. link' = [l \in LinkId |-> IF link[l].kind = k /\ link[l].state \in {"unused", "expired"}
                                THEN [link[l] EXCEPT !.state = "spent"] ELSE link[l]]
  BY DEF Invalidate
<1>3. VisitStep(v, x)
  BY <1>1, Visits DEF CredInv
<1>4. x.at = "create" /\ x.kind = k /\ k \in Kinds
  <2>1. visit[v] \in AVisit
    BY Visits DEF CredInv
  <2>2. k \in Kinds
    BY <1>1 DEF CredInv, LinksInv
  <2> QED
    BY <2>1, <2>2 DEF AVisit
<1> HIDE DEF x, k
<1>5. link \in [LinkId -> ALink]
  BY DEF CredInv, CredTypeOK
<1>6. \A l \in LinkId : /\ link'[l] \in ALink /\ link'[l].kind = link[l].kind /\ link'[l].uses = link[l].uses
                        /\ link'[l].state = link[l].state \/ (link'[l].state = "spent" /\ link[l].kind = k)
  BY <1>2, <1>5 DEF ALink
<1>7. CredTypeOK'
  <2>1. link' \in [LinkId -> ALink]
    BY <1>2, <1>6
  <2> QED
    BY <1>1, <1>3, <2>1, CredTypeKept DEF CredInv, CredTypeOK
<1>8. deaths' = deaths /\ deaths \in Nat /\ ~Is(v, "consent")
  BY <1>1 DEF CredInv, CredTypeOK, Is
<1>9. TermsInv'
  BY <1>1, <1>3, <1>4, <1>8, TermsKept
<1>10. GuessInv'
  BY <1>1, <1>3, <1>4, GuessKept
<1>11. \A u \in Visitors : visit'[u] = IF u = v THEN x ELSE visit[u]
  BY <1>3, OneVisit DEF VisitStep, CredInv
<1>12. NewestWorks'
  <2>1. \E u \in Visitors : Is(u, "create")' /\ visit'[u].kind = k
    BY <1>4, <1>11 DEF Is
  <2>2. \A kind : Replacing(kind) => \E u \in Visitors : Is(u, "create")' /\ visit'[u].kind = kind
    BY <1>1, <1>11 DEF Replacing, Is
  <2>3. ASSUME NEW l \in LinkId, link'[l].kind # "none", link'[l].state = "spent", link'[l].uses = 0,
               \A m \in LinkId : link'[m].kind = link'[l].kind => m <= l
        PROVE  deaths' > 0 \/ \E u \in Visitors : Is(u, "create")' /\ visit'[u].kind = link'[l].kind
    <3>1. CASE link[l].kind = k
      BY <1>6, <2>1, <3>1
    <3>2. CASE link[l].kind # k
      <4>1. link[l].kind # "none" /\ link[l].state = "spent" /\ link[l].uses = 0
            /\ \A m \in LinkId : link[m].kind = link[l].kind => m <= l
        BY <1>6, <2>3, <3>2
      <4>2. deaths > 0 \/ Replacing(link[l].kind)
        BY <4>1 DEF CredInv, LinksInv, NewestWorks
      <4> QED
        BY <1>6, <1>8, <2>2, <4>2
    <3> QED
      BY <3>1, <3>2
  <2> QED
    BY <2>3 DEF NewestWorks, Replacing
<1>13. \A l \in LinkId : link'[l].uses + Cardinality(Consumers(l)') <= Cardinality(Visitors)
  <2> SUFFICES ASSUME NEW l \in LinkId PROVE link'[l].uses + Cardinality(Consumers(l)') <= Cardinality(Visitors)
    OBVIOUS
  <2>1. link'[l].uses \in Nat /\ link'[l].uses + Cardinality(Consumers(l)) <= Cardinality(Visitors)
    BY <1>5, <1>6 DEF CredInv, LinksInv, ALink
  <2>2. Cardinality(Consumers(l)) \in Nat /\ Cardinality(Consumers(l)') \in Nat /\ Cardinality(Consumers(l)') <= Cardinality(Consumers(l))
    BY <1>3, <1>4, ConsumersKept
  <2> QED
    BY <2>1, <2>2, CredNumbers
<1>14. \A l \in LinkId : link'[l].state = "unused" => link'[l].uses = 0 /\ link'[l].kind # "none"
  BY <1>6 DEF CredInv, LinksInv
<1>15. \A l, m \in LinkId : link'[l].kind # "none" /\ link'[m].kind = "none" => l < m
  BY <1>6 DEF CredInv, LinksInv
<1>16. \A u \in Visitors : visit'[u].at \in {"consent", "invalidate", "create"} => visit'[u].kind \in Kinds
  BY <1>4, <1>11 DEF CredInv, LinksInv
<1>17. \A u \in Visitors : Is(u, "consume")' => visit'[u].link \in LinkId /\ link'[visit'[u].link].kind # "none"
  BY <1>4, <1>6, <1>11 DEF CredInv, LinksInv, Is
<1>18. LinksInv'
  BY <1>12, <1>13, <1>14, <1>15, <1>16, <1>17 DEF LinksInv
<1> QED
  BY <1>7, <1>9, <1>10, <1>18 DEF CredInv

\* A new link is the newest: those issued before it all have smaller numbers.
LEMMA CreateLinkKept == ASSUME CredInv, NEW v \in Visitors, CreateLink(v) PROVE CredInv'
<1> DEFINE k == visit[v].kind
           new == [kind |-> k, state |-> "unused", uses |-> 0]
<1>1. visit[v].at = "create" /\ UNCHANGED <<account, lockout, minute, guessed, stranded, deaths>> /\ Leaves(v)
  BY DEF CreateLink, Is
<1>2. PICK l0 \in Unissued : (\A m \in Unissued : l0 <= m) /\ link' = [link EXCEPT ![l0] = new]
  BY DEF CreateLink
<1>3. VisitStep(v, NoVisit) /\ NoVisit.at = "away"
  BY <1>1, Visits DEF CredInv
<1>4. k \in Kinds /\ k # "none"
  BY <1>1, CredNumbers DEF CredInv, LinksInv
<1>5. new \in ALink /\ new.kind = k /\ new.state = "unused" /\ new.uses = 0
  BY <1>4 DEF ALink
<1> HIDE DEF k, new
<1>6. link \in [LinkId -> ALink] /\ l0 \in LinkId /\ link[l0].kind = "none"
  BY <1>2 DEF CredInv, CredTypeOK, Unissued, Links
<1>7. link' \in [LinkId -> ALink] /\ \A l \in LinkId : link'[l] = IF l = l0 THEN new ELSE link[l]
  BY <1>2, <1>5, <1>6
<1>8. CredTypeOK'
  BY <1>1, <1>3, <1>7, CredTypeKept DEF CredInv, CredTypeOK
<1>9. deaths' = deaths /\ deaths \in Nat /\ ~Is(v, "consent")
  BY <1>1 DEF CredInv, CredTypeOK, Is
<1>10. TermsInv'
  BY <1>1, <1>3, <1>9, TermsKept
<1>11. GuessInv'
  BY <1>1, <1>3, GuessKept
<1>12. \A u \in Visitors : visit'[u] = IF u = v THEN NoVisit ELSE visit[u]
  BY <1>3, OneVisit DEF VisitStep, CredInv
<1>13. \A l, m \in LinkId : link'[l].kind # "none" /\ link'[m].kind = "none" => l < m
  <2> SUFFICES ASSUME NEW l \in LinkId, NEW m \in LinkId, link'[l].kind # "none", link'[m].kind = "none" PROVE l < m
    OBVIOUS
  <2>1. m # l0 /\ link[m].kind = "none"
    BY <1>4, <1>5, <1>7
  <2>2. CASE l = l0
    <3>1. l0 <= m
      BY <1>2, <2>1 DEF Unissued, Links
    <3> QED
      BY <2>1, <2>2, <3>1, CredNumbers
  <2>3. CASE l # l0
    BY <1>7, <2>1, <2>3 DEF CredInv, LinksInv
  <2> QED
    BY <2>2, <2>3
<1>14. NewestWorks'
  <2>1. ASSUME NEW l \in LinkId, link'[l].kind # "none", link'[l].state = "spent", link'[l].uses = 0,
               \A m \in LinkId : link'[m].kind = link'[l].kind => m <= l
        PROVE  deaths' > 0 \/ \E u \in Visitors : Is(u, "create")' /\ visit'[u].kind = link'[l].kind
    <3>1. l # l0
      BY <1>5, <1>7, <2>1
    <3>2. link'[l] = link[l]
      BY <1>7, <3>1
    <3>3. l < l0
      BY <1>6, <2>1, <3>2 DEF CredInv, LinksInv
    <3>4. link[l].kind # k
      <4> SUFFICES ASSUME link[l].kind = k PROVE FALSE
        OBVIOUS
      <4>1. l0 <= l
        BY <1>5, <1>6, <1>7, <2>1, <3>2
      <4> QED
        BY <1>6, <3>3, <4>1, CredNumbers
    <3>5. \A m \in LinkId : link[m].kind = link[l].kind => m <= l
      <4> SUFFICES ASSUME NEW m \in LinkId, link[m].kind = link[l].kind PROVE m <= l
        OBVIOUS
      <4>1. m # l0
        BY <1>6, <2>1, <3>2
      <4> QED
        BY <1>7, <2>1, <3>2, <4>1
    <3>6. deaths > 0 \/ Replacing(link[l].kind)
      BY <2>1, <3>2, <3>5 DEF CredInv, LinksInv, NewestWorks
    <3>7. CASE Replacing(link[l].kind)
      <4>1. PICK u \in Visitors : Is(u, "create") /\ visit[u].kind = link[l].kind
        BY <3>7 DEF Replacing
      <4>2. u # v
        BY <3>4, <4>1 DEF k
      <4> QED
        BY <1>12, <3>2, <4>1, <4>2 DEF Is
    <3> QED
      BY <1>9, <3>6, <3>7
  <2> QED
    BY <2>1 DEF NewestWorks, Replacing
<1>15. \A l \in LinkId : link'[l].uses + Cardinality(Consumers(l)') <= Cardinality(Visitors)
  <2> SUFFICES ASSUME NEW l \in LinkId PROVE link'[l].uses + Cardinality(Consumers(l)') <= Cardinality(Visitors)
    OBVIOUS
  <2>1. link[l].uses \in Nat /\ link[l].uses + Cardinality(Consumers(l)) <= Cardinality(Visitors)
    BY <1>6 DEF CredInv, LinksInv, ALink
  <2>2. link'[l].uses \in Nat /\ link'[l].uses <= link[l].uses
    BY <1>5, <1>7, <2>1
  <2>3. Cardinality(Consumers(l)) \in Nat /\ Cardinality(Consumers(l)') \in Nat /\ Cardinality(Consumers(l)') <= Cardinality(Consumers(l))
    BY <1>3, ConsumersKept
  <2> QED
    BY <2>1, <2>2, <2>3, CredNumbers
<1>16. \A l \in LinkId : link'[l].state = "unused" => link'[l].uses = 0 /\ link'[l].kind # "none"
  BY <1>4, <1>5, <1>7 DEF CredInv, LinksInv
<1>17. \A u \in Visitors : visit'[u].at \in {"consent", "invalidate", "create"} => visit'[u].kind \in Kinds
  BY <1>3, <1>12 DEF CredInv, LinksInv
<1>18. \A u \in Visitors : Is(u, "consume")' => visit'[u].link \in LinkId /\ link'[visit'[u].link].kind # "none"
  BY <1>3, <1>6, <1>7, <1>12 DEF CredInv, LinksInv, Is
<1>19. LinksInv'
  BY <1>13, <1>14, <1>15, <1>16, <1>17, <1>18 DEF LinksInv
<1> QED
  BY <1>8, <1>10, <1>11, <1>19 DEF CredInv

\* A link that is found has not been used, so there is room for one more.
LEMMA FindLinkKept == ASSUME CredInv, NEW v \in Visitors, FindLink(v) PROVE CredInv'
<1>1. UNCHANGED <<account, link, lockout, minute, guessed, stranded, deaths>>
  BY DEF FindLink
<1>2. PICK l0 \in LinkId : Valid(l0) /\ Enters(v, [NoVisit EXCEPT !.at = "consume", !.link = l0])
  BY DEF FindLink
<1> DEFINE x == [NoVisit EXCEPT !.at = "consume", !.link = l0]
<1>3. VisitStep(v, x) /\ visit[v].at = "away"
  BY <1>2, Entries DEF Enters, VisitStep, Is
<1>4. x.at = "consume" /\ x.link = l0
  BY DEF NoVisit
<1> HIDE DEF x
<1>5. deaths' = deaths /\ deaths \in Nat /\ ~Is(v, "consent")
  BY <1>1, <1>3 DEF CredInv, CredTypeOK, Is
<1>6. CredTypeOK'
  BY <1>1, <1>3, CredTypeKept DEF CredInv, CredTypeOK
<1>7. TermsInv'
  BY <1>1, <1>3, <1>4, <1>5, TermsKept
<1>8. GuessInv'
  BY <1>1, <1>3, <1>4, GuessKept
<1>9. \A u \in Visitors : visit'[u] = IF u = v THEN x ELSE visit[u]
  BY <1>3, OneVisit DEF VisitStep, CredInv
<1>10. NewestWorks'
  <2>1. \A kind : Replacing(kind) => \E u \in Visitors : Is(u, "create")' /\ visit'[u].kind = kind
    BY <1>3, <1>9 DEF Replacing, Is
  <2> QED
    BY <1>1, <2>1 DEF CredInv, LinksInv, NewestWorks, Replacing
<1>11. \A l \in LinkId : link[l].uses + Cardinality(Consumers(l)') <= Cardinality(Visitors)
  <2> SUFFICES ASSUME NEW l \in LinkId PROVE link[l].uses + Cardinality(Consumers(l)') <= Cardinality(Visitors)
    OBVIOUS
  <2>1. link[l].uses \in Nat /\ link[l].uses + Cardinality(Consumers(l)) <= Cardinality(Visitors)
    BY DEF CredInv, CredTypeOK, LinksInv, ALink
  <2>2. Consumers(l) \subseteq Visitors /\ Consumers(l)' \subseteq Visitors
    BY DEF Consumers
  <2>3. Cardinality(Consumers(l)') \in Nat /\ Cardinality(Consumers(l)') <= Cardinality(Visitors) /\ Cardinality(Consumers(l)) \in Nat
    BY <2>2, VisitorsAreFew
  <2>4. CASE l = l0
    <3>1. link[l].uses = 0
      BY <1>2, <2>4 DEF Valid, CredInv, LinksInv
    <3> QED
      BY <2>3, <3>1, CredNumbers
  <2>5. CASE l # l0
    <3>1. Consumers(l)' \subseteq Consumers(l)
      BY <1>4, <1>9, <2>5 DEF Consumers, Is
    <3>2. Cardinality(Consumers(l)') <= Cardinality(Consumers(l))
      BY <2>2, <3>1, FewerVisitors
    <3> QED
      BY <2>1, <2>3, <3>2, CredNumbers
  <2> QED
    BY <2>4, <2>5
<1>12. \A u \in Visitors : visit'[u].at \in {"consent", "invalidate", "create"} => visit'[u].kind \in Kinds
  BY <1>4, <1>9 DEF CredInv, LinksInv
<1>13. \A u \in Visitors : Is(u, "consume")' => visit'[u].link \in LinkId /\ link[visit'[u].link].kind # "none"
  BY <1>2, <1>4, <1>9 DEF CredInv, LinksInv, Is, Valid
<1>14. LinksInv'
  BY <1>1, <1>10, <1>11, <1>12, <1>13 DEF LinksInv, CredInv
<1> QED
  BY <1>6, <1>7, <1>8, <1>14 DEF CredInv

\* The use that a request was counted for is one that it has made.
LEMMA ConsumeLinkKept == ASSUME CredInv, NEW v \in Visitors, ConsumeLink(v) PROVE CredInv'
<1> DEFINE l0 == visit[v].link
<1>1. visit[v].at = "consume" /\ UNCHANGED <<lockout, minute, guessed, stranded, deaths>> /\ Leaves(v)
  BY DEF ConsumeLink, Is
<1>2. link' = [link EXCEPT ![l0].state = "spent", ![l0].uses = @ + 1]
  BY DEF ConsumeLink
<1>3. account' = IF link[l0].kind = "reset" THEN [account EXCEPT !.password = @ + 1] ELSE [account EXCEPT !.verified = TRUE]
  BY DEF ConsumeLink
<1>4. l0 \in LinkId /\ link[l0].kind # "none" /\ v \in Consumers(l0)
  BY <1>1 DEF CredInv, LinksInv, Is, Consumers
<1> HIDE DEF l0
<1>5. VisitStep(v, NoVisit) /\ NoVisit.at = "away"
  BY <1>1, Visits DEF CredInv
<1>6. link \in [LinkId -> ALink]
  BY DEF CredInv, CredTypeOK
<1>7. /\ link' \in [LinkId -> ALink]
      /\ \A l \in LinkId : /\ link'[l].kind = link[l].kind
                           /\ link'[l].state = IF l = l0 THEN "spent" ELSE link[l].state
                           /\ link'[l].uses = IF l = l0 THEN link[l].uses + 1 ELSE link[l].uses
  <2>1. link' = [link EXCEPT ![l0] = [link[l0] EXCEPT !.state = "spent", !.uses = @ + 1]]
    BY <1>2, <1>4, <1>6
  <2>2. link[l0] \in ALink
    BY <1>4, <1>6
  <2> DEFINE row == [link[l0] EXCEPT !.state = "spent", !.uses = @ + 1]
  <2>3. row \in ALink /\ row.kind = link[l0].kind /\ row.state = "spent" /\ row.uses = link[l0].uses + 1
    <3>1. ASSUME NEW r \in ALink
          PROVE  LET s == [r EXCEPT !.state = "spent", !.uses = @ + 1]
                 IN  s \in ALink /\ s.kind = r.kind /\ s.state = "spent" /\ s.uses = r.uses + 1
      <4> DEFINE s == [r EXCEPT !.state = "spent", !.uses = @ + 1]
      <4> DEFINE t == [r EXCEPT !.state = "spent"]
      <4>1. t \in ALink /\ t.kind = r.kind /\ t.state = "spent" /\ t.uses = r.uses
        BY DEF ALink
      <4>2. s = [t EXCEPT !.uses = r.uses + 1]
        OBVIOUS
      <4> HIDE DEF t
      <4>3. r.uses + 1 \in Nat
        BY DEF ALink
      <4> QED
        BY <4>1, <4>2, <4>3 DEF ALink
    <3> QED
      BY <2>2, <3>1
  <2> HIDE DEF row
  <2>4. link' = [link EXCEPT ![l0] = row]
    BY <2>1 DEF row
  <2> QED
    BY <1>4, <1>6, <2>3, <2>4
<1>8. account' \in [exists : BOOLEAN, verified : BOOLEAN, terms : BOOLEAN, password : Nat]
      /\ account'.exists = account.exists /\ account'.terms = account.terms
  <2>1. account \in [exists : BOOLEAN, verified : BOOLEAN, terms : BOOLEAN, password : Nat]
    BY DEF CredInv, CredTypeOK
  <2>2. CASE link[l0].kind = "reset"
    BY <1>3, <2>1, <2>2
  <2>3. CASE link[l0].kind # "reset"
    BY <1>3, <2>1, <2>3
  <2> QED
    BY <2>2, <2>3
<1>9. CredTypeOK'
  BY <1>1, <1>5, <1>7, <1>8, CredTypeKept DEF CredInv, CredTypeOK
<1>10. \A u \in Visitors : visit'[u] = IF u = v THEN NoVisit ELSE visit[u]
  BY <1>5, OneVisit DEF VisitStep, CredInv
<1>11. deaths' = deaths /\ deaths \in Nat /\ stranded' = stranded
  BY <1>1 DEF CredInv, CredTypeOK
<1>12. TermsInv'
  <2>1. AtConsent => AtConsent'
    BY <1>1, <1>10 DEF AtConsent, Is
  <2>2. \A u \in Visitors : Is(u, "clear")' => Is(u, "clear")
    BY <1>5, <1>10 DEF Is
  <2>3. (account.exists => account.terms \/ stranded \/ AtConsent) /\ \A u \in Visitors : Is(u, "clear") => account.exists
    BY DEF CredInv, TermsInv
  <2>4. account'.exists => account'.terms \/ stranded' \/ AtConsent'
    BY <1>8, <1>11, <2>1, <2>3
  <2>5. \A u \in Visitors : Is(u, "clear")' => account'.exists
    BY <1>8, <2>2, <2>3
  <2> QED
    BY <2>4, <2>5 DEF TermsInv
<1>13. GuessInv'
  BY <1>1, <1>5, GuessKept
<1>14. NewestWorks'
  <2>1. \A kind : Replacing(kind) => \E u \in Visitors : Is(u, "create")' /\ visit'[u].kind = kind
    BY <1>1, <1>10 DEF Replacing, Is
  <2>2. ASSUME NEW l \in LinkId, link'[l].kind # "none", link'[l].state = "spent", link'[l].uses = 0,
               \A m \in LinkId : link'[m].kind = link'[l].kind => m <= l
        PROVE  deaths' > 0 \/ \E u \in Visitors : Is(u, "create")' /\ visit'[u].kind = link'[l].kind
    <3>1. l # l0
      <4>1. link[l].uses \in Nat
        BY <1>6 DEF ALink
      <4> QED
        BY <1>7, <2>2, <4>1
    <3>2. link[l].kind # "none" /\ link[l].state = "spent" /\ link[l].uses = 0
          /\ \A m \in LinkId : link[m].kind = link[l].kind => m <= l
      BY <1>7, <2>2, <3>1
    <3>3. deaths > 0 \/ Replacing(link[l].kind)
      BY <3>2 DEF CredInv, LinksInv, NewestWorks
    <3> QED
      BY <1>7, <1>11, <2>1, <3>3
  <2> QED
    BY <2>2 DEF NewestWorks, Replacing
<1>15. \A l \in LinkId : link'[l].uses + Cardinality(Consumers(l)') <= Cardinality(Visitors)
  <2> SUFFICES ASSUME NEW l \in LinkId PROVE link'[l].uses + Cardinality(Consumers(l)') <= Cardinality(Visitors)
    OBVIOUS
  <2>1. link[l].uses \in Nat /\ link[l].uses + Cardinality(Consumers(l)) <= Cardinality(Visitors)
    BY <1>6 DEF CredInv, LinksInv, ALink
  <2>2. /\ Cardinality(Consumers(l)) \in Nat /\ Cardinality(Consumers(l)') \in Nat
        /\ Cardinality(Consumers(l)') <= Cardinality(Consumers(l))
        /\ v \in Consumers(l) => Cardinality(Consumers(l)') <= Cardinality(Consumers(l)) - 1
    BY <1>5, ConsumersKept
  <2>3. CASE l = l0
    BY <1>4, <1>7, <2>1, <2>2, <2>3, CredNumbers
  <2>4. CASE l # l0
    BY <1>7, <2>1, <2>2, <2>4, CredNumbers
  <2> QED
    BY <2>3, <2>4
<1>16. \A l \in LinkId : link'[l].state = "unused" => link'[l].uses = 0 /\ link'[l].kind # "none"
  BY <1>7 DEF CredInv, LinksInv
<1>17. \A l, m \in LinkId : link'[l].kind # "none" /\ link'[m].kind = "none" => l < m
  BY <1>7 DEF CredInv, LinksInv
<1>18. \A u \in Visitors : visit'[u].at \in {"consent", "invalidate", "create"} => visit'[u].kind \in Kinds
  BY <1>5, <1>10 DEF CredInv, LinksInv
<1>19. \A u \in Visitors : Is(u, "consume")' => visit'[u].link \in LinkId /\ link'[visit'[u].link].kind # "none"
  BY <1>5, <1>7, <1>10 DEF CredInv, LinksInv, Is
<1>20. LinksInv'
  BY <1>14, <1>15, <1>16, <1>17, <1>18, <1>19 DEF LinksInv
<1> QED
  BY <1>9, <1>12, <1>13, <1>20 DEF CredInv

\* What depends on no link is as it was while only links change.
LEMMA LinkExpiresKept == ASSUME CredInv, LinkExpires PROVE CredInv'
<1>1. UNCHANGED <<account, lockout, visit, minute, guessed, stranded, deaths>>
  BY DEF LinkExpires
<1>2. PICK l0 \in LinkId : Valid(l0) /\ link' = [link EXCEPT ![l0].state = "expired"]
  BY DEF LinkExpires
<1>3. link \in [LinkId -> ALink]
  BY DEF CredInv, CredTypeOK
<1>4. /\ link' \in [LinkId -> ALink]
      /\ \A l \in LinkId : /\ link'[l].kind = link[l].kind /\ link'[l].uses = link[l].uses
                           /\ link'[l].state = IF l = l0 THEN "expired" ELSE link[l].state
  BY <1>2, <1>3 DEF ALink
<1>5. CredTypeOK'
  BY <1>1, <1>4 DEF CredInv, CredTypeOK
<1>6. \A l : Consumers(l)' = Consumers(l)
  BY <1>1 DEF Consumers, Is
<1>7. \A kind : Replacing(kind) => \E u \in Visitors : Is(u, "create")' /\ visit'[u].kind = kind
  BY <1>1 DEF Replacing, Is
<1>8. NewestWorks'
  <2>1. ASSUME NEW l \in LinkId, link'[l].kind # "none", link'[l].state = "spent", link'[l].uses = 0,
               \A m \in LinkId : link'[m].kind = link'[l].kind => m <= l
        PROVE  deaths' > 0 \/ \E u \in Visitors : Is(u, "create")' /\ visit'[u].kind = link'[l].kind
    <3>1. link[l].kind # "none" /\ link[l].state = "spent" /\ link[l].uses = 0
          /\ \A m \in LinkId : link[m].kind = link[l].kind => m <= l
      BY <1>4, <2>1
    <3>2. deaths > 0 \/ Replacing(link[l].kind)
      BY <3>1 DEF CredInv, LinksInv, NewestWorks
    <3> QED
      BY <1>1, <1>4, <1>7, <3>2
  <2> QED
    BY <2>1 DEF NewestWorks, Replacing
<1>9. LinksInv'
  BY <1>1, <1>4, <1>6, <1>8 DEF CredInv, LinksInv, Is
<1>10. TermsInv' /\ GuessInv'
  <2>1. AtConsent' = AtConsent /\ Counting' = Counting /\ MayGuess' = MayGuess /\ Allowed' = Allowed
    BY <1>1 DEF AtConsent, Counting, MayGuess, Allowed, Is
  <2> QED
    BY <1>1, <2>1 DEF CredInv, TermsInv, GuessInv, Is
<1> QED
  BY <1>5, <1>9, <1>10 DEF CredInv

LEMMA MinutePassesKept == ASSUME CredInv, MinutePasses PROVE CredInv'
<1>1. UNCHANGED <<account, link, lockout, visit, guessed, stranded, deaths>> /\ minute' = minute + 1
  BY DEF MinutePasses
<1>2. CredTypeOK'
  BY <1>1 DEF CredInv, CredTypeOK
<1>3. TermsInv' /\ LinksInv'
  BY <1>1 DEF CredInv, TermsInv, AtConsent, LinksInv, NewestWorks, Replacing, Consumers, Is
<1> QED
  BY <1>2, <1>3, GuessNextMinute DEF CredInv

LEMMA CredStuttered == ASSUME CredInv, UNCHANGED credentialVars PROVE CredInv'
<1>1. UNCHANGED <<account, link, lockout, visit, minute, guessed, stranded, deaths>>
  BY DEF credentialVars
<1>2. CredTypeOK'
  BY <1>1 DEF CredInv, CredTypeOK
<1>3. TermsInv' /\ LinksInv'
  BY <1>1 DEF CredInv, TermsInv, AtConsent, LinksInv, NewestWorks, Replacing, Consumers, Is
<1>4. GuessInv'
  BY <1>1 DEF CredInv, GuessInv, Counting, MayGuess, Allowed, Is
<1> QED
  BY <1>2, <1>3, <1>4 DEF CredInv

LEMMA CredBegun == CredentialsInit => CredInv
<1> SUFFICES ASSUME CredentialsInit PROVE CredInv
  OBVIOUS
<1>1. \A v \in Visitors : visit[v] = NoVisit /\ visit[v].at = "away"
  BY DEF CredentialsInit, NoVisit
<1>2. \A l \in LinkId : link[l] \in ALink /\ link[l].kind = "none" /\ link[l].state = "none" /\ link[l].uses = 0
  BY DEF CredentialsInit, ALink
<1>3. CredTypeOK
  <2>1. NoVisit \in AVisit
    BY CredNumbers DEF NoVisit, AVisit
  <2>2. link \in [LinkId -> ALink] /\ visit \in [Visitors -> AVisit]
    BY <1>2, <2>1 DEF CredentialsInit
  <2> QED
    BY <2>2 DEF CredentialsInit, CredTypeOK, NoLockout
<1>4. TermsInv
  BY <1>1 DEF CredentialsInit, TermsInv, Is
<1>5. Counting = {} /\ \A l \in LinkId : Consumers(l) = {}
  BY <1>1 DEF Counting, Consumers, Is
<1>6. Cardinality({}) = 0
  BY FS_EmptySet
<1>7. LinksInv
  <2>1. \A l \in LinkId : link[l].uses + Cardinality(Consumers(l)) <= Cardinality(Visitors)
    <3> SUFFICES ASSUME NEW l \in LinkId PROVE link[l].uses + Cardinality(Consumers(l)) <= Cardinality(Visitors)
      OBVIOUS
    <3>1. Consumers(l) = {} /\ link[l].uses = 0
      BY <1>2, <1>5
    <3>2. Cardinality(Consumers(l)) = 0
      BY <1>6, <3>1
    <3> QED
      BY <3>1, <3>2, CredNumbers
  <2> QED
    BY <1>1, <1>2, <2>1 DEF LinksInv, NewestWorks, Is
<1>8. GuessInv
  BY <1>5, <1>6, CredNumbers DEF CredentialsInit, GuessInv, NoLockout
<1> QED
  BY <1>3, <1>4, <1>7, <1>8 DEF CredInv

LEMMA CredStep == CredInv /\ [CredentialsNext]_credentialVars => CredInv'
<1> SUFFICES ASSUME CredInv, [CredentialsNext]_credentialVars PROVE CredInv'
  OBVIOUS
<1>1. ASSUME NEW v \in Visitors,
             \/ StartLogin(v) \/ Authenticate(v) \/ CountFailure(v) \/ SetLockedUntil(v) \/ ClearFailures(v)
      PROVE  CredInv'
  BY <1>1, StartLoginKept, AuthenticateKept, CountFailureKept, SetLockedUntilKept, ClearFailuresKept
<1>2. ASSUME NEW v \in Visitors, Signup(v) \/ Register(v) \/ Consent(v) \/ RequestDies(v) PROVE CredInv'
  BY <1>2, SignupKept, RegisterKept, ConsentKept, RequestDiesKept
<1>3. ASSUME NEW v \in Visitors,
             RequestLink(v) \/ Invalidate(v) \/ CreateLink(v) \/ FindLink(v) \/ ConsumeLink(v)
      PROVE  CredInv'
  BY <1>3, RequestLinkKept, InvalidateKept, CreateLinkKept, FindLinkKept, ConsumeLinkKept
<1>4. ASSUME LinkExpires \/ MinutePasses \/ UNCHANGED credentialVars PROVE CredInv'
  BY <1>4, LinkExpiresKept, MinutePassesKept, CredStuttered
<1> QED
  BY <1>1, <1>2, <1>3, <1>4 DEF CredentialsNext

LEMMA CredAlways == CredentialsSpec => []CredInv
  BY CredBegun, CredStep, PTL DEF CredentialsSpec

\* Guessing a password is limited (LoginLockoutService): between two
\* successful logins MAX_ATTEMPTS - 1 guesses and, for every minute begun, no
\* more than there are requests in flight, although the count and the lock are
\* two commands and a login checks only the lock.
THEOREM GuessesAlwaysLimited == CredentialsSpec => []GuessesLimited
<1>1. CredInv => GuessesLimited
  <2> SUFFICES ASSUME CredInv PROVE GuessesLimited
    OBVIOUS
  <2>1. CASE lockout.attempts < MaxFailures
    <3>1. guessed.passwords <= MaxFailures - 1 + Cardinality(Visitors) + deaths
      BY <2>1, Amounts DEF CredInv, GuessInv
    <3>2. MaxFailures - 1 + Cardinality(Visitors) + deaths <= Allowed /\ Allowed \in Int
      BY FirstMinute
    <3>3. guessed.passwords <= Allowed
      BY <3>1, <3>2, Amounts
    <3> QED
      BY <3>3 DEF Allowed, GuessesLimited
  <2>2. CASE lockout.attempts >= MaxFailures
    <3>1. guessed.passwords <= Allowed
      BY <2>2, Amounts, FirstMinute DEF CredInv, GuessInv
    <3> QED
      BY <3>1 DEF Allowed, GuessesLimited
  <2> QED
    BY <2>1, <2>2, Amounts
<1> QED
  BY <1>1, CredAlways, PTL

\* A verification or reset link (AuthRepository) is consumed by no more
\* requests than were in flight together, and the newest of its kind works
\* until it is used or has expired, unless a request that was to replace it is
\* under way or died between its two statements.
THEOREM LinksAlwaysWork == CredentialsSpec => []LinksWork
<1>1. CredInv => LinksWork
  <2> SUFFICES ASSUME CredInv PROVE LinksWork
    OBVIOUS
  <2>1. \A l \in LinkId : link[l].uses <= Cardinality(Visitors)
    <3> SUFFICES ASSUME NEW l \in LinkId PROVE link[l].uses <= Cardinality(Visitors)
      OBVIOUS
    <3>1. Consumers(l) \subseteq Visitors
      BY DEF Consumers
    <3>2. Cardinality(Consumers(l)) \in Nat
      BY <3>1, VisitorsAreFew
    <3>3. link[l].uses \in Nat /\ link[l].uses + Cardinality(Consumers(l)) <= Cardinality(Visitors)
      BY DEF CredInv, CredTypeOK, LinksInv, ALink
    <3> QED
      BY <3>2, <3>3, CredNumbers
  <2>2. ASSUME NEW l \in LinkId \ Unissued, link[l].state = "spent", link[l].uses = 0, \A m \in Links(link[l].kind) : m <= l
        PROVE  deaths > 0 \/ \E v \in Visitors : Is(v, "create") /\ visit[v].kind = link[l].kind
    <3>1. link[l].kind # "none" /\ \A m \in LinkId : link[m].kind = link[l].kind => m <= l
      BY <2>2 DEF Unissued, Links
    <3> QED
      BY <2>2, <3>1 DEF CredInv, LinksInv, NewestWorks, Replacing
  <2> QED
    BY <2>1, <2>2 DEF LinksWork
<1> QED
  BY <1>1, CredAlways, PTL

\* Nobody is let in to an account whose terms nobody accepted (AuthService's
\* signup writes the account and the acceptance in two statements), unless
\* that signup is still between the two or died there.
THEOREM LetInAlwaysWithTerms == CredentialsSpec => []LetInWithTerms
<1>1. CredInv => LetInWithTerms
  BY DEF CredInv, TermsInv, AtConsent, LetInWithTerms
<1> QED
  BY <1>1, CredAlways, PTL
-----------------------------------------------------------------------------
(* Rate limits.  No window lets more than the limit through, but for the   *)
(* requests out of turn and those without an answer.                       *)
(*                                                                         *)
(* The property says nothing of the log; the invariant adds that the log   *)
(* has every orderly request that a later date can still count.            *)

Arrival   == [id : Nat, date : Nat]
Orderly   == passed \ (outOfTurn \cup unmetered)
Within(t) == {r \in passed : t - Window < r.date /\ r.date <= t} \ (outOfTurn \cup unmetered)

RateInv ==
    /\ highRisk \in BOOLEAN /\ time \in Nat /\ requested \in Nat /\ newest \in Nat
    /\ onTheWay \subseteq Arrival /\ entries \subseteq Arrival /\ passed \subseteq Arrival
    /\ IsFiniteSet(passed) /\ IsFiniteSet(entries)
    /\ highRisk => unmetered = {}
    /\ \A r \in Orderly : r.date <= newest /\ (r.date > newest - Window => r \in entries)
    /\ \A t \in 0..MaxTime : Cardinality(Within(t)) <= Limit

LEMMA RateNumbers == Limit \in Nat /\ Window \in Nat \ {0} /\ MaxTime \in Nat
  BY RateLimitAssumption

\* Whatever the script prunes is too old to count for the latest date it saw.
LEMMA ScriptKeeps ==
    ASSUME RateInv, NEW r \in onTheWay, Run(r)
    PROVE  /\ entries' \subseteq Arrival /\ IsFiniteSet(entries') /\ newest' \in Nat /\ newest' >= newest /\ newest' >= r.date
           /\ \A e \in entries : e.date > newest' - Window => e \in entries'
<1>1. r \in Arrival /\ r.date \in Nat /\ newest \in Nat /\ entries \subseteq Arrival /\ Window \in Nat
  BY RateNumbers DEF RateInv, Arrival
<1>2. newest' = IF r.date > newest THEN r.date ELSE newest
  BY DEF Run
<1>3. newest' \in Nat /\ newest' >= newest /\ newest' >= r.date
  BY <1>1, <1>2
<1>4. entries' = Pruned(r.date) \/ entries' = Pruned(r.date) \cup {r}
  BY DEF Run
<1>5. Pruned(r.date) \subseteq entries /\ IsFiniteSet(Pruned(r.date))
  <2>1. Pruned(r.date) \subseteq entries /\ IsFiniteSet(entries)
    BY DEF Pruned, RateInv
  <2> QED
    BY <2>1, FS_Subset
<1>6. IsFiniteSet(Pruned(r.date) \cup {r})
  BY <1>5, FS_AddElement
<1>7. ASSUME NEW e \in entries, e.date > newest' - Window PROVE e \in entries'
  <2>1. e.date \in Nat
    BY <1>1 DEF Arrival
  <2>2. e.date > r.date - Window
    BY <1>1, <1>3, <1>7, <2>1
  <2> QED
    BY <1>4, <2>2 DEF Pruned
<1> QED
  BY <1>1, <1>3, <1>4, <1>5, <1>6, <1>7

\* Nobody orderly is let through.
LEMMA NoneMoreOrderly ==
    ASSUME RateInv, Orderly' \subseteq Orderly, newest' \in Nat, newest' >= newest,
           \A e \in entries : e.date > newest' - Window => e \in entries',
           highRisk' \in BOOLEAN, time' \in Nat, requested' \in Nat, onTheWay' \subseteq Arrival, entries' \subseteq Arrival,
           passed' \subseteq Arrival, IsFiniteSet(passed'), IsFiniteSet(entries'), highRisk' => unmetered' = {}
    PROVE  RateInv'
<1>1. \A r \in Orderly' : r.date <= newest' /\ (r.date > newest' - Window => r \in entries')
  <2> SUFFICES ASSUME NEW r \in Orderly' PROVE r.date <= newest' /\ (r.date > newest' - Window => r \in entries')
    OBVIOUS
  <2>1. r \in Orderly /\ r.date \in Nat
    BY DEF RateInv, Orderly, Arrival
  <2>2. r.date <= newest /\ (r.date > newest - Window => r \in entries) /\ newest \in Nat /\ Window \in Nat
    BY <2>1, RateNumbers DEF RateInv
  <2>3. r.date > newest' - Window => r.date > newest - Window
    BY <2>1, <2>2
  <2> QED
    BY <2>1, <2>2, <2>3
<1>2. ASSUME NEW t \in 0..MaxTime PROVE Cardinality(Within(t)') <= Limit
  <2>1. Within(t)' \subseteq Within(t)
    BY DEF Within, Orderly
  <2>2. Within(t) \subseteq passed /\ IsFiniteSet(passed)
    BY DEF Within, RateInv
  <2>3. IsFiniteSet(Within(t))
    BY <2>2, FS_Subset
  <2>4. IsFiniteSet(Within(t)') /\ Cardinality(Within(t)') <= Cardinality(Within(t))
    BY <2>1, <2>3, FS_Subset
  <2>5. Cardinality(Within(t)) \in Nat /\ Cardinality(Within(t)') \in Nat
    BY <2>3, <2>4, FS_CardinalityType
  <2>6. Cardinality(Within(t)) <= Limit
    BY DEF RateInv
  <2> QED
    BY <2>4, <2>5, <2>6, RateNumbers
<1> QED
  BY <1>1, <1>2 DEF RateInv

LEMMA CheckKeeps == ASSUME RateInv, NEW r \in onTheWay, Check(r) PROVE RateInv'
<1>1. /\ Run(r) /\ onTheWay' = onTheWay \ {r} /\ UNCHANGED <<highRisk, time, requested, unmetered>>
  BY DEF Check
<1>2. /\ entries' \subseteq Arrival /\ IsFiniteSet(entries') /\ newest' \in Nat /\ newest' >= newest /\ newest' >= r.date
      /\ \A e \in entries : e.date > newest' - Window => e \in entries'
  BY <1>1, ScriptKeeps
<1>3. highRisk' \in BOOLEAN /\ time' \in Nat /\ requested' \in Nat /\ onTheWay' \subseteq Arrival /\ (highRisk' => unmetered' = {})
  BY <1>1 DEF RateInv
<1>4. CASE ~HasRoom(Pruned(r.date))
  <2>1. passed' = passed /\ outOfTurn' = outOfTurn /\ unmetered' = unmetered
    BY <1>1, <1>4 DEF Check
  <2>2. Orderly' = Orderly /\ passed' \subseteq Arrival /\ IsFiniteSet(passed')
    BY <2>1 DEF Orderly, RateInv
  <2> QED
    BY <1>2, <1>3, <2>2, NoneMoreOrderly
<1>5. CASE HasRoom(Pruned(r.date))
  <2>1. /\ passed' = passed \cup {r} /\ unmetered' = unmetered
        /\ outOfTurn' = IF r.date < newest THEN outOfTurn \cup {r} ELSE outOfTurn
    BY <1>1, <1>5 DEF Check, LetThrough
  <2>2. r \in Arrival /\ r.date \in Nat /\ newest \in Nat /\ IsFiniteSet(passed) /\ passed \subseteq Arrival
    BY DEF RateInv, Arrival
  <2>3. passed' \subseteq Arrival /\ IsFiniteSet(passed')
    BY <2>1, <2>2, FS_AddElement
  <2>4. CASE r.date < newest
    <3>1. Orderly' \subseteq Orderly
      BY <2>1, <2>4 DEF Orderly
    <3> QED
      BY <1>2, <1>3, <2>3, <3>1, NoneMoreOrderly
  <2>5. CASE ~(r.date < newest)
    <3>1. Orderly' \subseteq Orderly \cup {r} /\ newest' = r.date /\ entries' = Pruned(r.date) \cup {r}
      BY <1>1, <1>5, <2>1, <2>2, <2>5 DEF Orderly, Run
    <3>2. \A e \in Orderly' : e.date <= newest' /\ (e.date > newest' - Window => e \in entries')
      <4> SUFFICES ASSUME NEW e \in Orderly' PROVE e.date <= newest' /\ (e.date > newest' - Window => e \in entries')
        OBVIOUS
      <4>1. CASE e = r
        BY <1>2, <2>2, <3>1, <4>1
      <4>2. CASE e # r
        <5>1. e \in Orderly /\ e.date \in Nat
          BY <3>1, <4>2 DEF Orderly, RateInv, Arrival
        <5>2. e.date <= newest /\ (e.date > newest - Window => e \in entries) /\ Window \in Nat
          BY <5>1, RateNumbers DEF RateInv
        <5>3. e.date > newest' - Window => e.date > newest - Window
          BY <1>2, <2>2, <5>1, <5>2
        <5> QED
          BY <1>2, <2>2, <5>1, <5>2, <5>3
      <4> QED
        BY <4>1, <4>2
    <3>3. Cardinality(entries') <= Limit
      <4>1. Pruned(r.date) \subseteq entries /\ IsFiniteSet(entries)
        BY DEF Pruned, RateInv
      <4>2. IsFiniteSet(Pruned(r.date))
        BY <4>1, FS_Subset
      <4>3. /\ IsFiniteSet(Pruned(r.date) \cup {r})
            /\ Cardinality(Pruned(r.date) \cup {r}) =
                 IF r \in Pruned(r.date) THEN Cardinality(Pruned(r.date)) ELSE Cardinality(Pruned(r.date)) + 1
        BY <4>2, FS_AddElement
      <4>4. Cardinality(Pruned(r.date)) \in Nat
        BY <4>2, FS_CardinalityType
      <4>5. Cardinality(Pruned(r.date)) < Limit
        BY <1>5 DEF HasRoom
      <4> QED
        BY <3>1, <4>3, <4>4, <4>5, RateNumbers
    <3>4. ASSUME NEW t \in 0..MaxTime PROVE Cardinality(Within(t)') <= Limit
      <4>1. t \in Nat /\ Window \in Nat /\ Limit \in Nat
        BY RateNumbers
      <4>2. CASE t - Window < r.date /\ r.date <= t
        <5>1. ASSUME NEW e \in Within(t)' PROVE e \in entries'
          <6>1. e \in Orderly' /\ t - Window < e.date /\ e.date \in Nat
            BY <2>3 DEF Within, Orderly, Arrival
          <6>2. e.date > newest' - Window
            BY <2>2, <3>1, <4>1, <4>2, <6>1
          <6> QED
            BY <3>2, <6>1, <6>2
        <5>2. IsFiniteSet(Within(t)') /\ Cardinality(Within(t)') <= Cardinality(entries')
          <6>1. Within(t)' \subseteq entries'
            BY <5>1
          <6> QED
            BY <1>2, <6>1, FS_Subset
        <5>3. Cardinality(Within(t)') \in Nat /\ Cardinality(entries') \in Nat
          BY <1>2, <5>2, FS_CardinalityType
        <5> QED
          BY <3>3, <4>1, <5>2, <5>3
      <4>3. CASE ~(t - Window < r.date /\ r.date <= t)
        <5>1. Within(t)' \subseteq Within(t)
          BY <2>1, <2>5, <4>3 DEF Within
        <5>2. Within(t) \subseteq passed /\ IsFiniteSet(passed)
          BY DEF Within, RateInv
        <5>3. IsFiniteSet(Within(t))
          BY <5>2, FS_Subset
        <5>4. IsFiniteSet(Within(t)') /\ Cardinality(Within(t)') <= Cardinality(Within(t))
          BY <5>1, <5>3, FS_Subset
        <5>5. Cardinality(Within(t)) \in Nat /\ Cardinality(Within(t)') \in Nat /\ Cardinality(Within(t)) <= Limit
          BY <5>3, <5>4, FS_CardinalityType DEF RateInv
        <5> QED
          BY <4>1, <5>4, <5>5
      <4> QED
        BY <4>2, <4>3
    <3> QED
      BY <1>2, <1>3, <2>3, <3>2, <3>4 DEF RateInv
  <2> QED
    BY <2>4, <2>5
<1> QED
  BY <1>4, <1>5

LEMMA UnansweredKeeps == ASSUME RateInv, NEW r \in onTheWay, Unanswered(r) PROVE RateInv'
<1>1. /\ onTheWay' = onTheWay \ {r} /\ UNCHANGED <<highRisk, time, requested>> /\ (Run(r) \/ UNCHANGED <<entries, newest>>)
  BY DEF Unanswered
<1>2. /\ entries' \subseteq Arrival /\ IsFiniteSet(entries') /\ newest' \in Nat /\ newest' >= newest
      /\ \A e \in entries : e.date > newest' - Window => e \in entries'
  <2>1. CASE Run(r)
    BY <2>1, ScriptKeeps
  <2>2. CASE UNCHANGED <<entries, newest>>
    BY <2>2 DEF RateInv
  <2> QED
    BY <1>1, <2>1, <2>2
<1>3. /\ Orderly' \subseteq Orderly /\ passed' \in {passed, passed \cup {r}} /\ (highRisk' => unmetered' = {})
  BY <1>1 DEF Unanswered, FailsClosed, LetThrough, Orderly, RateInv
<1>4. passed' \subseteq Arrival /\ IsFiniteSet(passed')
  <2>1. IsFiniteSet(passed) /\ passed \subseteq Arrival /\ r \in Arrival
    BY DEF RateInv
  <2>2. IsFiniteSet(passed \cup {r})
    BY <2>1, FS_AddElement
  <2> QED
    BY <1>3, <2>1, <2>2
<1>5. highRisk' \in BOOLEAN /\ time' \in Nat /\ requested' \in Nat /\ onTheWay' \subseteq Arrival
  BY <1>1 DEF RateInv
<1> QED
  BY <1>2, <1>3, <1>4, <1>5, NoneMoreOrderly

LEMMA ClockOrAskKeeps == ASSUME RateInv, Ask \/ TimePasses \/ UNCHANGED rateVars PROVE RateInv'
<1>1. UNCHANGED <<highRisk, entries, passed, outOfTurn, unmetered, newest>>
  BY DEF Ask, TimePasses, rateVars
<1>2. time' \in Nat /\ requested' \in Nat /\ onTheWay' \subseteq Arrival
  BY DEF Ask, TimePasses, rateVars, RateInv, Arrival
<1>3. Orderly' = Orderly /\ newest' >= newest
  BY <1>1 DEF Orderly, RateInv
<1> QED
  BY <1>1, <1>2, <1>3, NoneMoreOrderly DEF RateInv

\* Redis runs CHECK_SCRIPT as one step, but requests are dated before they are
\* sent: no window lets more than the limit through, but for those the script
\* saw out of turn and, where the profile fails open, those without an answer
\* (RateLimitService.check).
THEOREM WindowAlwaysRespected == RateSpec => []WindowRespected
<1>1. RateInit => RateInv
  <2> SUFFICES ASSUME RateInit PROVE RateInv
    OBVIOUS
  <2>1. IsFiniteSet({}) /\ Cardinality({}) = 0
    BY FS_EmptySet
  <2>2. \A t \in 0..MaxTime : Within(t) = {}
    BY DEF RateInit, Within
  <2> QED
    BY <2>1, <2>2, RateNumbers DEF RateInit, RateInv, Orderly
<1>2. RateInv /\ [RateNext]_rateVars => RateInv'
  BY CheckKeeps, UnansweredKeeps, ClockOrAskKeeps DEF RateNext
<1>3. RateInv => WindowRespected
  BY DEF RateInv, WindowRespected, Within
<1> QED
  BY <1>1, <1>2, <1>3, PTL DEF RateSpec

=============================================================================
