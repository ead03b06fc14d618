------------------------- MODULE SigningPage_proofs -------------------------
(***************************************************************************)
(* With any number of tabs, limits, lost answers and deadlines: what a tab *)
(* of the signing page shows is so.                                        *)
(*                                                                         *)
(* Each tab is honest by itself: it waits for the answer its phase is      *)
(* about, an answer that says yes was true when it was given, and what it  *)
(* then said stays true.  A tab can hold a proof the session has lost only *)
(* after a disturbance: as long as there is none, the recipient looks at   *)
(* the one tab she has used.                                               *)
(***************************************************************************)
EXTENDS SigningPage, TLAPS

Still == {"offer_view", "otp_entry", "otp_error", "otp_verified", "acceptance", "completed", "declined",
          "invalid_link", "offer_expired", "already_terminal"}

\* The phases a tab reaches by itself, without the recipient.
Untouched == {"loading", "offer_view", "invalid_link", "offer_expired", "already_terminal"}

\* A tab waits for the answer its phase is about, or for none.
Calls(p) ==
    \/ p.at = "loading" /\ p.call \in {"context", "offer"}
    \/ p.at = "otp_requesting" /\ p.call = "otp"
    \/ p.at = "otp_verifying" /\ p.call \in {"verify right", "verify wrong"}
    \/ p.at = "accepting" /\ p.call \in {"accept", "decline"}
    \/ p.at \in Still /\ p.call = "none" /\ p.answer = "none"

\* It believes its code was verified.
Verified(p) == p.at \in {"otp_verified", "acceptance"} \/ (p.at = "otp_verifying" /\ p.answer = "ok")

\* What a tab shows, or is about to show, of an offer in status o.
Decisions(p, o) ==
    /\ p.at \in {"completed", "already_terminal"} => o = "ACCEPTED"
    /\ p.at = "declined" => o = "DECLINED"
    /\ p.answer = "OFFER_ALREADY_ACCEPTED" => o = "ACCEPTED"
    /\ p.call = "accept" /\ p.answer = "ok" => o = "ACCEPTED"
    /\ p.call = "decline" /\ p.answer = "ok" => o = "DECLINED"

\* A proof is of a session that still has it, and it was not lost in silence.
Proof(p, o, s, d) ==
    /\ p.otp = "proof" \/ p.prev = "proof" => s = "OTP_VERIFIED" \/ o # "SENT"
    /\ Verified(p) => p.otp = "proof" \/ (p.otp = "old" /\ d > 0)

IsPage(p) ==
    p = [at |-> p.at, otp |-> p.otp, prev |-> p.prev, blocked |-> p.blocked, call |-> p.call, answer |-> p.answer]

Honest(p, o, s, d) == IsPage(p) /\ Calls(p) /\ Decisions(p, o) /\ Proof(p, o, s, d)

PageInv ==
    /\ offer \in {"SENT", "ACCEPTED", "DECLINED", "CLOSED"} /\ link \in BOOLEAN
    /\ page = [t \in Tabs |-> page[t]] /\ focus \in Tabs /\ disturbances \in Nat
    /\ \A t \in Tabs : Honest(page[t], offer, session, disturbances)
    /\ disturbances = 0 => \A t \in Tabs \ {focus} : page[t].at \in Untouched

-----------------------------------------------------------------------------
(* One tab changes; what the others know still holds.                      *)

\* What a decision was stays, and a proof lasts while the offer is open.
Lasts ==
    /\ offer' \in {"SENT", "ACCEPTED", "DECLINED", "CLOSED"} /\ link' \in BOOLEAN
    /\ offer # "SENT" => offer' = offer
    /\ session = "OTP_VERIFIED" => session' = "OTP_VERIFIED" \/ offer' # "SENT"
    /\ disturbances' \in Nat /\ disturbances <= disturbances'

LEMMA HonestStill ==
    ASSUME PageInv, Lasts, NEW p, Honest(p, offer, session, disturbances)
    PROVE  Honest(p, offer', session', disturbances')
<1>1. IsPage(p) /\ Calls(p)
  BY DEF Honest
<1>2. Decisions(p, offer')
  BY DEF Honest, Decisions, Lasts
<1>3. Proof(p, offer', session', disturbances')
  BY DEF Honest, Proof, Lasts, PageInv
<1> QED
  BY <1>1, <1>2, <1>3 DEF Honest

LEMMA OneTab ==
    ASSUME PageInv, Lasts, NEW t \in Tabs, NEW p, page' = [page EXCEPT ![t] = p],
           Honest(p, offer', session', disturbances'), focus' \in Tabs,
           disturbances' = 0 => focus' = focus /\ (t = focus \/ p.at \in Untouched)
    PROVE  PageInv'
<1>1. page' = [u \in Tabs |-> page'[u]] /\ \A u \in Tabs : page'[u] = IF u = t THEN p ELSE page[u]
  BY DEF PageInv
<1>2. ASSUME NEW u \in Tabs PROVE Honest(page'[u], offer', session', disturbances')
  <2>1. Honest(page[u], offer, session, disturbances)
    BY DEF PageInv
  <2>2. Honest(page[u], offer', session', disturbances')
    BY <2>1, HonestStill
  <2> QED
    BY <1>1, <2>2
<1>3. disturbances' = 0 => \A u \in Tabs \ {focus'} : page'[u].at \in Untouched
  <2>1. disturbances' = 0 => disturbances = 0
    BY DEF Lasts, PageInv
  <2> QED
    BY <1>1, <2>1 DEF PageInv
<1> QED
  BY <1>1, <1>2, <1>3 DEF PageInv, Lasts

\* The tabs stay as they are.
LEMMA NoTab ==
    ASSUME PageInv, Lasts, page' = page, focus' \in Tabs, disturbances' = 0 => focus' = focus PROVE PageInv'
<1>1. \A u \in Tabs : Honest(page[u], offer', session', disturbances')
  BY HonestStill DEF PageInv
<1> QED
  BY <1>1 DEF PageInv, Lasts

LEMMA Quiet == ASSUME PageInv, UNCHANGED <<offer, link, session, disturbances>> PROVE Lasts
  BY DEF Lasts, PageInv

\* One more disturbance, and nothing else.
LEMMA Noise == ASSUME PageInv, UNCHANGED <<offer, link, session>>, Disturbed
               PROVE  Lasts /\ disturbances' # 0 /\ disturbances' \in Nat /\ disturbances < disturbances'
  BY DEF Lasts, PageInv, Disturbed

\* A phase tells what a tab waits for.
LEMMA Phases ==
    ASSUME PageInv, NEW t \in Tabs
    PROVE  /\ IsPage(page[t]) /\ Calls(page[t]) /\ Honest(page[t], offer, session, disturbances)
           /\ page[t].at \in Still => page[t].call = "none" /\ page[t].answer = "none"
           /\ disturbances = 0 /\ page[t].at \notin Untouched => t = focus
<1>1. IsPage(page[t]) /\ Calls(page[t]) /\ Honest(page[t], offer, session, disturbances)
  BY DEF PageInv, Honest
<1> QED
  BY <1>1 DEF Calls, Still, PageInv

-----------------------------------------------------------------------------
(* The recipient.                                                          *)

LEMMA ActsKeep ==
    ASSUME PageInv, NEW t \in Tabs, NEW from, NEW to, NEW call, Acts(t, from, to, call), from \subseteq Still,
           \/ to = "otp_requesting" /\ call = "otp"
           \/ to = "otp_verifying" /\ call \in {"verify right", "verify wrong"}
           \/ to = "accepting" /\ call \in {"accept", "decline"},
           disturbances' = disturbances \/ Disturbed
    PROVE  PageInv'
<1>1. focus = t /\ page[t].at \in from /\ UNCHANGED <<offer, link, session, focus>>
  BY DEF Acts, Server
<1>2. PICK p : p = [page[t] EXCEPT !.at = to, !.call = call, !.prev = page[t].otp]
  OBVIOUS
<1>3. page' = [page EXCEPT ![t] = p]
  BY <1>2 DEF Acts
<1>4. IsPage(page[t]) /\ Honest(page[t], offer, session, disturbances) /\ page[t].answer = "none"
  BY <1>1, Phases
<1>5. IsPage(p) /\ p.at = to /\ p.call = call /\ p.otp = page[t].otp /\ p.prev = page[t].otp /\ p.answer = "none"
  BY <1>2, <1>4 DEF IsPage
<1>6. Lasts
  BY <1>1, Quiet, Noise
<1>7. Calls(p) /\ Decisions(p, offer) /\ Proof(p, offer, session, disturbances')
  BY <1>4, <1>5 DEF Calls, Decisions, Proof, Verified, Honest
<1>8. Honest(p, offer', session', disturbances')
  BY <1>1, <1>5, <1>7 DEF Honest
<1>9. focus' \in Tabs /\ (disturbances' = 0 => focus' = focus /\ (t = focus \/ p.at \in Untouched))
  BY <1>1
<1> QED
  BY <1>3, <1>6, <1>8, <1>9, OneTab

LEMMA LoadingHonest ==
    ASSUME NEW o, NEW s, NEW d PROVE Honest(Loading, o, s, d) /\ Loading.at = "loading"
  BY DEF Honest, Loading, IsPage, Calls, Decisions, Proof, Verified

LEMMA RecipientKeeps ==
    ASSUME PageInv, NEW t \in Tabs, Recipient(t) PROVE PageInv'
<1>1. ASSUME NEW from \in {{"offer_view"}, {"otp_entry", "otp_error"}, {"acceptance"}}, NEW to, NEW call,
             Acts(t, from, to, call), disturbances' = disturbances \/ Disturbed,
             \/ to = "otp_requesting" /\ call = "otp"
             \/ to = "otp_verifying" /\ call \in {"verify right", "verify wrong"}
             \/ to = "accepting" /\ call \in {"accept", "decline"}
      PROVE  PageInv'
  <2>1. from \subseteq Still
    BY <1>1 DEF Still
  <2> QED
    BY <1>1, <2>1, ActsKeep
<1>2. CASE Continue(t)
  <2>1. Acts(t, {"offer_view"}, "otp_requesting", "otp") /\ disturbances' = disturbances
    BY <1>2 DEF Continue
  <2> QED
    BY <1>1, <2>1
<1>3. CASE Resend(t)
  <2>1. Acts(t, {"otp_entry", "otp_error"}, "otp_requesting", "otp") /\ disturbances' = disturbances
    BY <1>3 DEF Resend
  <2> QED
    BY <1>1, <2>1
<1>4. CASE SubmitMailed(t)
  <2>1. Acts(t, {"otp_entry", "otp_error"}, "otp_verifying", "verify right") /\ disturbances' = disturbances
    BY <1>4 DEF SubmitMailed
  <2> QED
    BY <1>1, <2>1
<1>5. CASE SubmitWrong(t)
  <2>1. Acts(t, {"otp_entry", "otp_error"}, "otp_verifying", "verify wrong") /\ Disturbed
    BY <1>5 DEF SubmitWrong
  <2> QED
    BY <1>1, <2>1
<1>6. CASE HandleAccept(t)
  <2>1. Acts(t, {"acceptance"}, "accepting", "accept") /\ disturbances' = disturbances
    BY <1>6 DEF HandleAccept
  <2> QED
    BY <1>1, <2>1
<1>7. CASE HandleDecline(t)
  <2>1. Acts(t, {"acceptance"}, "accepting", "decline") /\ disturbances' = disturbances
    BY <1>7 DEF HandleDecline
  <2> QED
    BY <1>1, <2>1
<1>8. CASE Reload(t)
  <2>1. /\ focus = t /\ UNCHANGED <<offer, link, session, focus>> /\ page' = [page EXCEPT ![t] = Loading]
        /\ disturbances' = disturbances \/ Disturbed
    BY <1>8 DEF Reload, Server
  <2>2. Lasts
    BY <2>1, Quiet, Noise
  <2> QED
    BY <2>1, <2>2, LoadingHonest, OneTab
<1>9. CASE ChangeTab(t)
  <2>1. focus' = t /\ Disturbed /\ UNCHANGED <<offer, link, session>> /\ page' = page
    BY <1>9 DEF ChangeTab, Server
  <2> QED
    BY <2>1, Noise, NoTab
<1> QED
  BY <1>2, <1>3, <1>4, <1>5, <1>6, <1>7, <1>8, <1>9 DEF Recipient

\* The screen with the tick gives way to the statement.
LEMMA AdvanceKeeps ==
    ASSUME PageInv, NEW t \in Tabs, AdvanceToStatement(t) PROVE PageInv'
<1>1. page[t].at = "otp_verified" /\ UNCHANGED <<offer, link, session, focus, disturbances>>
  BY DEF AdvanceToStatement, Server
<1>2. PICK p : p = [page[t] EXCEPT !.at = "acceptance"]
  OBVIOUS
<1>3. page' = [page EXCEPT ![t] = p]
  BY <1>2 DEF AdvanceToStatement
<1>4. /\ IsPage(page[t]) /\ Honest(page[t], offer, session, disturbances)
      /\ page[t].call = "none" /\ page[t].answer = "none"
      /\ disturbances = 0 => t = focus
  BY <1>1, Phases DEF Still, Untouched
<1>5. /\ IsPage(p) /\ p.at = "acceptance" /\ p.call = "none" /\ p.answer = "none"
      /\ p.otp = page[t].otp /\ p.prev = page[t].prev
  BY <1>2, <1>4 DEF IsPage
<1>6. Honest(p, offer, session, disturbances)
  BY <1>1, <1>4, <1>5 DEF Honest, Calls, Decisions, Proof, Verified, Still
<1> QED
  BY <1>1, <1>3, <1>4, <1>6, Quiet, OneTab DEF PageInv

-----------------------------------------------------------------------------
(* The signing API.                                                        *)

\* An answer reaches a tab.
LEMMA Answered ==
    ASSUME PageInv, NEW t \in Tabs, NEW a
    PROVE  LET p == [page[t] EXCEPT !.answer = a]
           IN  /\ IsPage(p) /\ p.at = page[t].at /\ p.otp = page[t].otp /\ p.prev = page[t].prev
               /\ p.call = page[t].call /\ p.answer = a
               /\ page[t].call # "none" => Calls(p)
<1>1. IsPage(page[t]) /\ Calls(page[t])
  BY Phases
<1>2. PICK p : p = [page[t] EXCEPT !.answer = a]
  OBVIOUS
<1>3. /\ IsPage(p) /\ p.at = page[t].at /\ p.otp = page[t].otp /\ p.prev = page[t].prev
      /\ p.call = page[t].call /\ p.answer = a
  BY <1>1, <1>2 DEF IsPage
<1>4. page[t].call # "none" => Calls(p)
  BY <1>1, <1>3 DEF Calls
<1> QED
  BY <1>2, <1>3, <1>4

\* A refusal promises nothing.
LEMMA RefusalKeeps ==
    ASSUME PageInv, Lasts, NEW t \in Tabs, NEW a, a \notin {"ok", "OFFER_ALREADY_ACCEPTED"}, Answers(t, a),
           page[t].call # "none", focus' = focus
    PROVE  PageInv'
<1>1. PICK p : p = [page[t] EXCEPT !.answer = a]
  OBVIOUS
<1>2. page' = [page EXCEPT ![t] = p]
  BY <1>1 DEF Answers
<1>3. /\ IsPage(p) /\ p.at = page[t].at /\ p.otp = page[t].otp /\ p.prev = page[t].prev
      /\ p.call = page[t].call /\ p.answer = a /\ Calls(p)
  BY <1>1, Answered
<1>4. Honest(page[t], offer, session, disturbances) /\ (disturbances = 0 /\ page[t].at \notin Untouched => t = focus)
  BY Phases
<1>5. Honest(p, offer, session, disturbances)
  BY <1>3, <1>4 DEF Honest, Decisions, Proof, Verified
<1>6. Honest(p, offer', session', disturbances')
  BY <1>5, HonestStill
<1>7. focus' \in Tabs /\ (disturbances' = 0 => disturbances = 0)
  BY DEF PageInv, Lasts
<1> QED
  BY <1>2, <1>3, <1>4, <1>6, <1>7, OneTab

LEMMA FindTokenKeeps == ASSUME PageInv, NEW t \in Tabs, FindToken(t) PROVE PageInv'
<1>1. page[t].call = "context" /\ page[t].answer = "none" /\ UNCHANGED <<offer, link, session, focus, disturbances>>
  BY DEF FindToken, Waiting, Server
<1>2. Lasts
  BY <1>1, Quiet
<1>3. CASE Answers(t, "TOKEN_INVALID")
  BY <1>1, <1>2, <1>3, RefusalKeeps
<1>4. CASE page' = [page EXCEPT ![t].call = "offer"]
  <2>1. PICK p : p = [page[t] EXCEPT !.call = "offer"]
    OBVIOUS
  <2>2. page' = [page EXCEPT ![t] = p]
    BY <1>4, <2>1
  <2>3. IsPage(page[t]) /\ Calls(page[t]) /\ Honest(page[t], offer, session, disturbances)
    BY Phases
  <2>4. /\ IsPage(p) /\ p.at = page[t].at /\ p.otp = page[t].otp /\ p.prev = page[t].prev
        /\ p.call = "offer" /\ p.answer = "none"
    BY <1>1, <2>1, <2>3 DEF IsPage
  <2>5. page[t].at = "loading"
    BY <1>1, <2>3 DEF Calls
  <2>6. Honest(p, offer, session, disturbances)
    BY <2>3, <2>4, <2>5 DEF Honest, Calls, Decisions, Proof, Verified
  <2> QED
    BY <1>1, <1>2, <2>2, <2>4, <2>5, <2>6, OneTab DEF PageInv, Untouched
<1> QED
  BY <1>3, <1>4 DEF FindToken

LEMMA FindOfferKeeps == ASSUME PageInv, NEW t \in Tabs, FindOffer(t) PROVE PageInv'
<1>1. /\ page[t].call = "offer" /\ UNCHANGED <<offer, link, session, focus, disturbances>>
  BY DEF FindOffer, Waiting, Server
<1>2. PICK a \in Found : Answers(t, a)
  BY DEF FindOffer
<1>3. a \in {"ok", "OFFER_ALREADY_ACCEPTED", "TOKEN_INVALID", "OFFER_EXPIRED"}
      /\ (a = "OFFER_ALREADY_ACCEPTED" => offer = "ACCEPTED")
  <2>1. CASE offer = "ACCEPTED"
    BY <2>1, <1>2 DEF Found
  <2>2. CASE offer \in {"DECLINED", "CLOSED"}
    BY <2>2, <1>2 DEF Found
  <2>3. CASE offer = "SENT"
    BY <2>3, <1>2 DEF Found, PageInv
  <2> QED
    BY <2>1, <2>2, <2>3 DEF PageInv
<1>4. Lasts
  BY <1>1, Quiet
<1>5. PICK p : p = [page[t] EXCEPT !.answer = a]
  OBVIOUS
<1>6. page' = [page EXCEPT ![t] = p]
  BY <1>2, <1>5 DEF Answers
<1>7. /\ IsPage(p) /\ p.at = page[t].at /\ p.otp = page[t].otp /\ p.prev = page[t].prev
      /\ p.call = page[t].call /\ p.answer = a /\ Calls(p)
  BY <1>1, <1>5, Answered
<1>8. Calls(page[t]) /\ Honest(page[t], offer, session, disturbances)
  BY Phases
<1>9. page[t].at = "loading"
  BY <1>1, <1>8 DEF Calls
<1>10. Honest(p, offer, session, disturbances)
  BY <1>1, <1>3, <1>7, <1>8, <1>9 DEF Honest, Decisions, Proof, Verified
<1> QED
  BY <1>1, <1>4, <1>6, <1>7, <1>9, <1>10, OneTab DEF PageInv, Untouched

\* The tabs whose idea of their challenge is out of date.
LEMMA OldPages ==
    ASSUME PageInv, NEW which, NEW old, old = Outdated(which)
    PROVE  /\ old = [t \in Tabs |-> old[t]]
           /\ \A t \in Tabs :
                /\ IsPage(old[t]) /\ Calls(old[t]) /\ old[t].at = page[t].at /\ old[t].call = page[t].call
                /\ old[t].answer = page[t].answer
                /\ old[t].otp = (IF page[t].otp \in which THEN "old" ELSE page[t].otp)
                /\ old[t].prev = (IF page[t].prev \in which THEN "old" ELSE page[t].prev)
<1>1. ASSUME NEW t \in Tabs
      PROVE  /\ IsPage(old[t]) /\ Calls(old[t]) /\ old[t].at = page[t].at /\ old[t].call = page[t].call
             /\ old[t].answer = page[t].answer
             /\ old[t].otp = (IF page[t].otp \in which THEN "old" ELSE page[t].otp)
             /\ old[t].prev = (IF page[t].prev \in which THEN "old" ELSE page[t].prev)
  <2>1. IsPage(page[t]) /\ Calls(page[t])
    BY Phases
  <2>2. PICK a, b : /\ a = IF page[t].otp \in which THEN "old" ELSE page[t].otp
                    /\ b = IF page[t].prev \in which THEN "old" ELSE page[t].prev
    OBVIOUS
  <2>3. old[t] = [page[t] EXCEPT !.otp = a, !.prev = b]
    BY <2>2 DEF Outdated
  <2>4. PICK p : p = old[t]
    OBVIOUS
  <2>5. /\ IsPage(p) /\ p.at = page[t].at /\ p.call = page[t].call /\ p.answer = page[t].answer
        /\ p.otp = a /\ p.prev = b
    BY <2>1, <2>3, <2>4 DEF IsPage
  <2>6. Calls(p)
    BY <2>1, <2>5 DEF Calls
  <2> QED
    BY <2>2, <2>4, <2>5, <2>6
<1> QED
  BY <1>1 DEF Outdated

\* A new code: every other tab that knew the newest challenge knows an old one.
LEMMA RequestOtpKeeps == ASSUME PageInv, NEW t \in Tabs, RequestOtp(t) PROVE PageInv'
<1>1. page[t].call = "otp" /\ UNCHANGED <<offer, link, failures, focus>>
  BY DEF RequestOtp, Waiting
<1>2. ASSUME disturbances' = disturbances \/ Disturbed, session' = session \/ (session = "NONE" /\ session' = "AWAITING_OTP")
      PROVE  Lasts /\ (disturbances' = 0 => disturbances = 0)
    BY <1>1, <1>2 DEF Lasts, PageInv, Disturbed
<1>3. CASE /\ Answers(t, "refused") /\ UNCHANGED disturbances
           /\ session' = session \/ (session = "NONE" /\ session' = "AWAITING_OTP")
  BY <1>1, <1>2, <1>3, RefusalKeeps
<1>4. ASSUME NEW mailed \in BOOLEAN, disturbances' = disturbances \/ Disturbed,
             session' = session \/ (session = "NONE" /\ session' = "AWAITING_OTP"),
             page' = [Outdated({"newest"}) EXCEPT ![t].otp = "newest",
                                                  ![t].answer = IF mailed THEN "ok" ELSE "refused"]
      PROVE  PageInv'
  <2>1. Lasts /\ (disturbances' = 0 => disturbances = 0)
    BY <1>2, <1>4
  <2>2. PICK old : old = Outdated({"newest"})
    OBVIOUS
  <2>3. old = [u \in Tabs |-> old[u]]
    BY <2>2, OldPages
  <2>4. PICK a : a = IF mailed THEN "ok" ELSE "refused"
    OBVIOUS
  <2>5. PICK p : p = [old[t] EXCEPT !.otp = "newest", !.answer = a]
    OBVIOUS
  <2>6. page' = [old EXCEPT ![t] = p]
    BY <1>4, <2>2, <2>4, <2>5
  <2>7. page' = [u \in Tabs |-> page'[u]] /\ \A u \in Tabs : page'[u] = IF u = t THEN p ELSE old[u]
    BY <2>3, <2>6
  <2>8. ASSUME NEW u \in Tabs
        PROVE  /\ IsPage(old[u]) /\ Calls(old[u]) /\ old[u].at = page[u].at /\ old[u].call = page[u].call
               /\ Honest(old[u], offer, session, disturbances)
    <3>1. /\ IsPage(old[u]) /\ Calls(old[u]) /\ old[u].at = page[u].at /\ old[u].call = page[u].call
          /\ old[u].answer = page[u].answer
          /\ old[u].otp = (IF page[u].otp \in {"newest"} THEN "old" ELSE page[u].otp)
          /\ old[u].prev = (IF page[u].prev \in {"newest"} THEN "old" ELSE page[u].prev)
      BY <2>2, OldPages
    <3>2. Honest(page[u], offer, session, disturbances)
      BY Phases
    <3> QED
      BY <3>1, <3>2 DEF Honest, Decisions, Proof, Verified
  <2>9. /\ IsPage(p) /\ p.at = old[t].at /\ p.call = "otp" /\ p.otp = "newest" /\ p.prev = old[t].prev
        /\ p.answer \in {"ok", "refused"}
    <3>1. PICK was : was = old[t]
      OBVIOUS
    <3>2. IsPage(was) /\ was.call = "otp" /\ p = [was EXCEPT !.otp = "newest", !.answer = a]
      BY <1>1, <2>5, <2>8, <3>1
    <3> QED
      BY <2>4, <3>1, <3>2 DEF IsPage
  <2>10. p.at = "otp_requesting"
    BY <1>1, <2>8, <2>9 DEF Calls
  <2>11. Honest(p, offer, session, disturbances)
    BY <2>8, <2>9, <2>10 DEF Honest, Calls, Decisions, Proof, Verified
  <2>12. \A u \in Tabs : Honest(page'[u], offer', session', disturbances')
    BY <2>1, <2>7, <2>8, <2>11, HonestStill
  <2>13. disturbances' = 0 => \A u \in Tabs \ {focus'} : page'[u].at \in Untouched
    BY <1>1, <2>1, <2>7, <2>8, <2>9 DEF PageInv
  <2> QED
    BY <1>1, <2>1, <2>7, <2>12, <2>13 DEF PageInv, Lasts
<1> QED
  BY <1>3, <1>4 DEF RequestOtp

LEMMA VerifyOtpKeeps == ASSUME PageInv, NEW t \in Tabs, VerifyOtp(t) PROVE PageInv'
<1>1. /\ page[t].call \in {"verify right", "verify wrong"} /\ UNCHANGED <<offer, link, focus, disturbances>>
  BY DEF VerifyOtp
<1>2. ASSUME NEW a \in {"refused", "blocked"}, Answers(t, a), UNCHANGED session PROVE PageInv'
  <2>1. Lasts
    BY <1>1, <1>2, Quiet
  <2> QED
    BY <1>1, <1>2, <2>1, RefusalKeeps
<1>3. CASE ~link /\ Answers(t, "refused") /\ UNCHANGED session
  BY <1>2, <1>3
<1>4. CASE Answers(t, Refusal(t)) /\ UNCHANGED session
  <2>1. PICK a : a = Refusal(t)
    OBVIOUS
  <2>2. a \in {"refused", "blocked"}
    BY <2>1 DEF Refusal
  <2> QED
    BY <1>2, <1>4, <2>1, <2>2
<1>5. CASE session' = "OTP_VERIFIED" /\ page' = [page EXCEPT ![t].otp = "proof", ![t].answer = "ok"]
  <2>1. PICK p : p = [page[t] EXCEPT !.otp = "proof", !.answer = "ok"]
    OBVIOUS
  <2>2. page' = [page EXCEPT ![t] = p]
    BY <1>5, <2>1
  <2>3. /\ IsPage(page[t]) /\ Calls(page[t]) /\ Honest(page[t], offer, session, disturbances)
        /\ disturbances = 0 /\ page[t].at \notin Untouched => t = focus
    BY Phases
  <2>4. /\ IsPage(p) /\ p.at = page[t].at /\ p.call = page[t].call /\ p.prev = page[t].prev
        /\ p.otp = "proof" /\ p.answer = "ok"
    BY <2>1, <2>3 DEF IsPage
  <2>5. page[t].at = "otp_verifying"
    BY <1>1, <2>3 DEF Calls
  <2>6. Lasts
    <3>1. offer \in {"SENT", "ACCEPTED", "DECLINED", "CLOSED"} /\ link \in BOOLEAN /\ disturbances \in Nat
      BY DEF PageInv
    <3>2. offer' = offer /\ link' = link /\ disturbances' = disturbances /\ session' = "OTP_VERIFIED"
      BY <1>1, <1>5
    <3> QED
      BY <3>1, <3>2 DEF Lasts
  <2>7. Honest(p, offer, session', disturbances)
    BY <1>1, <1>5, <2>3, <2>4, <2>5 DEF Honest, Calls, Decisions, Proof, Verified
  <2>8. disturbances = 0 => t = focus
    BY <2>3, <2>5 DEF Untouched
  <2>9. focus' \in Tabs
    BY <1>1 DEF PageInv
  <2> QED
    BY <1>1, <2>2, <2>6, <2>7, <2>8, <2>9, OneTab
<1>6. CASE Answers(t, IF code.attempts + 1 >= MaxAttempts THEN "blocked" ELSE "refused") /\ UNCHANGED session
  <2>1. PICK a : a = IF code.attempts + 1 >= MaxAttempts THEN "blocked" ELSE "refused"
    OBVIOUS
  <2> QED
    BY <1>2, <1>6, <2>1
<1> QED
  BY <1>3, <1>4, <1>5, <1>6 DEF VerifyOtp

\* The server's yes to a decision: the offer has it, for good.
LEMMA DecisionKeeps ==
    ASSUME PageInv, NEW t \in Tabs, NEW call \in {"accept", "decline"}, page[t].call = call, Answers(t, "ok"),
           offer = "SENT", offer' = IF call = "accept" THEN "ACCEPTED" ELSE "DECLINED", link' \in BOOLEAN,
           UNCHANGED <<focus, disturbances>>
    PROVE  PageInv'
<1>1. PICK p : p = [page[t] EXCEPT !.answer = "ok"]
  OBVIOUS
<1>2. page' = [page EXCEPT ![t] = p]
  BY <1>1 DEF Answers
<1>3. /\ IsPage(p) /\ p.at = page[t].at /\ p.otp = page[t].otp /\ p.prev = page[t].prev
      /\ p.call = page[t].call /\ p.answer = "ok" /\ Calls(p)
  BY <1>1, Answered
<1>4. /\ Calls(page[t]) /\ Honest(page[t], offer, session, disturbances)
      /\ disturbances = 0 /\ page[t].at \notin Untouched => t = focus
  BY Phases
<1>5. page[t].at = "accepting"
  BY <1>4 DEF Calls
<1>6. Lasts
  BY DEF Lasts, PageInv
<1>7. Honest(p, offer', session', disturbances)
  BY <1>3, <1>4, <1>5 DEF Honest, Decisions, Proof, Verified
<1>8. focus' \in Tabs /\ (disturbances = 0 => t = focus)
  BY <1>4, <1>5 DEF PageInv, Untouched
<1> QED
  BY <1>2, <1>6, <1>7, <1>8, OneTab

LEMMA DecidingKeeps == ASSUME PageInv, NEW t \in Tabs, Accept(t) \/ Decline(t) PROVE PageInv'
<1>1. UNCHANGED <<focus, disturbances>> /\ page[t].call # "none"
  BY DEF Accept, Decline, Waiting
<1>2. CASE UNCHANGED <<offer, link, session>> /\ Answers(t, "refused")
  BY <1>1, <1>2, Quiet, RefusalKeeps
<1>3. CASE Accept(t) /\ MayDecide(t)
  <2>1. /\ page[t].call = "accept" /\ offer = "SENT" /\ offer' = "ACCEPTED" /\ link' = FALSE
        /\ Answers(t, "ok")
    BY <1>3 DEF Accept, MayDecide, Waiting
  <2> QED
    BY <1>1, <2>1, DecisionKeeps
<1>4. CASE Decline(t) /\ MayDecide(t)
  <2>1. /\ page[t].call = "decline" /\ offer = "SENT" /\ offer' = "DECLINED" /\ link' = link
        /\ Answers(t, "ok")
    BY <1>4 DEF Decline, MayDecide, Waiting
  <2>2. link' \in BOOLEAN
    BY <2>1 DEF PageInv
  <2> QED
    BY <1>1, <2>1, <2>2, DecisionKeeps
<1> QED
  BY <1>2, <1>3, <1>4 DEF Accept, Decline

LEMMA ApiKeeps == ASSUME PageInv, NEW t \in Tabs, Api(t) PROVE PageInv'
  BY FindTokenKeeps, FindOfferKeeps, RequestOtpKeeps, VerifyOtpKeeps, DecidingKeeps DEF Api

-----------------------------------------------------------------------------
(* The reducer.                                                            *)

\* It waits for nothing any more.
LEMMA Goes ==
    ASSUME PageInv, NEW t \in Tabs, NEW name
    PROVE  LET p == To(t, name)
           IN  IsPage(p) /\ p.at = name /\ p.otp = page[t].otp /\ p.prev = "none" /\ p.call = "none" /\ p.answer = "none"
<1>1. IsPage(page[t])
  BY Phases
<1>2. PICK p : p = To(t, name)
  OBVIOUS
<1>3. IsPage(p) /\ p.at = name /\ p.otp = page[t].otp /\ p.prev = "none" /\ p.call = "none" /\ p.answer = "none"
  BY <1>1, <1>2 DEF To, IsPage
<1> QED
  BY <1>2, <1>3

\* What a tab shows after an answer follows from what the answer said.
LEMMA ReducedHonest ==
    ASSUME PageInv, NEW t \in Tabs, page[t].answer # "none", NEW p, p = Reduced(t)
    PROVE  /\ Honest(p, offer, session, disturbances)
           /\ page[t].at \in Untouched => p.at \in Untouched
<1>1. Honest(page[t], offer, session, disturbances) /\ Calls(page[t])
  BY Phases
<1>2. ASSUME NEW name \in Still, NEW q, IsPage(q), q.at = name, q.call = "none", q.answer = "none", q.prev = "none",
             q.otp \in {"none", page[t].otp, page[t].prev},
             name \in {"completed", "already_terminal"} => offer = "ACCEPTED",
             name = "declined" => offer = "DECLINED",
             name \in {"otp_verified", "acceptance"} => Verified(page[t]) /\ q.otp = page[t].otp
      PROVE  Honest(q, offer, session, disturbances)
  <2>1. Calls(q)
    BY <1>2 DEF Calls
  <2>2. Decisions(q, offer)
    BY <1>2 DEF Decisions
  <2>3. Proof(q, offer, session, disturbances)
    BY <1>1, <1>2 DEF Proof, Verified, Honest
  <2> QED
    BY <1>2, <2>1, <2>2, <2>3 DEF Honest
<1>3. CASE page[t].at = "loading"
  <2>0. page[t].call \notin {"accept", "decline"}
    BY <1>1, <1>3 DEF Calls, Still
  <2>1. PICK name \in {"offer_view", "offer_expired", "already_terminal", "invalid_link"} :
           p = To(t, name) /\ (name = "already_terminal" => page[t].answer = "OFFER_ALREADY_ACCEPTED")
    <3>1. CASE page[t].answer = "ok"
      BY <1>3, <2>0, <3>1 DEF Reduced, ContextLoaded
    <3>2. CASE page[t].answer # "ok"
      <4>1. p = LoadFailed(t)
        BY <1>3, <2>0, <3>2 DEF Reduced
      <4>2. CASE page[t].answer = "OFFER_EXPIRED"
        BY <4>1, <4>2 DEF LoadFailed
      <4>3. CASE page[t].answer = "OFFER_ALREADY_ACCEPTED"
        BY <4>1, <4>3 DEF LoadFailed
      <4>4. CASE page[t].answer \notin {"OFFER_EXPIRED", "OFFER_ALREADY_ACCEPTED"}
        BY <4>1, <4>4 DEF LoadFailed
      <4> QED
        BY <4>2, <4>3, <4>4
    <3> QED
      BY <3>1, <3>2
  <2>2. IsPage(p) /\ p.at = name /\ p.otp = page[t].otp /\ p.prev = "none" /\ p.call = "none" /\ p.answer = "none"
    BY <2>1, Goes
  <2>3. name = "already_terminal" => offer = "ACCEPTED"
    BY <1>1, <2>1 DEF Honest, Decisions
  <2> QED
    BY <1>2, <2>2, <2>3 DEF Still, Untouched
<1>4. CASE page[t].at = "otp_requesting"
  <2>0. page[t].call \notin {"accept", "decline"}
    BY <1>1, <1>4 DEF Calls, Still
  <2>1. CASE page[t].answer = "ok"
    <3>1. p = To(t, "otp_entry")
      BY <1>4, <2>0, <2>1 DEF Reduced, OtpSent
    <3>2. IsPage(p) /\ p.at = "otp_entry" /\ p.otp = page[t].otp /\ p.prev = "none" /\ p.call = "none" /\ p.answer = "none"
      BY <3>1, Goes
    <3> QED
      BY <1>2, <1>4, <3>2 DEF Still, Untouched
  <2>2. CASE page[t].answer # "ok"
    <3>1. PICK name \in {"offer_view", "otp_entry"} : p = [To(t, name) EXCEPT !.otp = page[t].prev]
      BY <1>4, <2>0, <2>2 DEF Reduced, OtpSendFailed
    <3>2. PICK q : q = To(t, name)
      OBVIOUS
    <3>3. IsPage(q) /\ q.at = name /\ q.prev = "none" /\ q.call = "none" /\ q.answer = "none"
      BY <3>2, Goes
    <3>4. p = [q EXCEPT !.otp = page[t].prev]
      BY <3>1, <3>2
    <3>5. IsPage(p) /\ p.at = name /\ p.otp = page[t].prev /\ p.prev = "none" /\ p.call = "none" /\ p.answer = "none"
      BY <3>3, <3>4 DEF IsPage
    <3> QED
      BY <1>2, <1>4, <3>5 DEF Still, Untouched
  <2> QED
    BY <2>1, <2>2
<1>5. CASE page[t].at = "otp_verifying"
  <2>0. page[t].call \notin {"accept", "decline"}
    BY <1>1, <1>5 DEF Calls, Still
  <2>1. CASE page[t].answer = "ok"
    <3>1. p = To(t, "otp_verified")
      BY <1>5, <2>0, <2>1 DEF Reduced, OtpVerified
    <3>2. IsPage(p) /\ p.at = "otp_verified" /\ p.otp = page[t].otp /\ p.prev = "none" /\ p.call = "none" /\ p.answer = "none"
      BY <3>1, Goes
    <3>3. Verified(page[t])
      BY <1>5, <2>1 DEF Verified
    <3> QED
      BY <1>2, <1>5, <3>2, <3>3 DEF Still, Untouched
  <2>2. CASE page[t].answer # "ok"
    <3>1. PICK b : p = [To(t, "otp_error") EXCEPT !.blocked = b]
      BY <1>5, <2>0, <2>2 DEF Reduced, OtpFailed
    <3>2. PICK q : q = To(t, "otp_error")
      OBVIOUS
    <3>3. /\ IsPage(q) /\ q.at = "otp_error" /\ q.otp = page[t].otp /\ q.prev = "none" /\ q.call = "none"
          /\ q.answer = "none"
      BY <3>2, Goes
    <3>4. p = [q EXCEPT !.blocked = b]
      BY <3>1, <3>2
    <3>5. /\ IsPage(p) /\ p.at = "otp_error" /\ p.otp = page[t].otp /\ p.prev = "none" /\ p.call = "none"
          /\ p.answer = "none"
      BY <3>3, <3>4 DEF IsPage
    <3> QED
      BY <1>2, <1>5, <3>5 DEF Still, Untouched
  <2> QED
    BY <2>1, <2>2
<1>6. CASE page[t].at = "accepting"
  <2>1. page[t].call \in {"accept", "decline"}
    BY <1>1, <1>6 DEF Calls, Still
  <2>2. CASE page[t].answer = "ok"
    <3>1. PICK name \in {"completed", "declined"} :
             /\ p = To(t, name)
             /\ page[t].call = IF name = "completed" THEN "accept" ELSE "decline"
      BY <1>6, <2>1, <2>2 DEF Reduced, Accepted, Declined
    <3>2. IsPage(p) /\ p.at = name /\ p.otp = page[t].otp /\ p.prev = "none" /\ p.call = "none" /\ p.answer = "none"
      BY <3>1, Goes
    <3>3. offer = IF name = "completed" THEN "ACCEPTED" ELSE "DECLINED"
      BY <1>1, <2>2, <3>1 DEF Honest, Decisions
    <3> QED
      BY <1>2, <1>6, <3>1, <3>2, <3>3 DEF Still, Untouched
  <2>3. CASE page[t].answer # "ok"
    <3>1. p = [To(t, "offer_view") EXCEPT !.otp = "none"]
      BY <1>6, <2>1, <2>3 DEF Reduced, AcceptFailed, DeclineFailed
    <3>2. PICK q : q = To(t, "offer_view")
      OBVIOUS
    <3>3. IsPage(q) /\ q.at = "offer_view" /\ q.prev = "none" /\ q.call = "none" /\ q.answer = "none"
      BY <3>2, Goes
    <3>4. p = [q EXCEPT !.otp = "none"]
      BY <3>1, <3>2
    <3>5. IsPage(p) /\ p.at = "offer_view" /\ p.otp = "none" /\ p.prev = "none" /\ p.call = "none" /\ p.answer = "none"
      BY <3>3, <3>4 DEF IsPage
    <3> QED
      BY <1>2, <1>6, <3>5 DEF Still, Untouched
  <2> QED
    BY <2>2, <2>3
<1> QED
  BY <1>1, <1>3, <1>4, <1>5, <1>6 DEF Calls

LEMMA ReceiveKeeps == ASSUME PageInv, NEW t \in Tabs, Receive(t) PROVE PageInv'
<1>1. page[t].answer # "none" /\ UNCHANGED <<offer, link, session, focus, disturbances>>
  BY DEF Receive, Server
<1>2. PICK p : p = Reduced(t)
  OBVIOUS
<1>3. page' = [page EXCEPT ![t] = p]
  BY <1>2 DEF Receive
<1>4. Honest(p, offer, session, disturbances) /\ (page[t].at \in Untouched => p.at \in Untouched)
  BY <1>1, <1>2, ReducedHonest
<1>5. disturbances = 0 => t = focus \/ p.at \in Untouched
  BY <1>4, Phases
<1> QED
  BY <1>1, <1>3, <1>4, <1>5, Quiet, OneTab DEF PageInv

LEMMA LostKeeps == ASSUME PageInv, NEW t \in Tabs, Lost(t) PROVE PageInv'
<1>1. /\ page[t].call # "none" /\ Disturbed /\ Answers(t, "lost")
      /\ UNCHANGED <<offer, link, session, focus>>
  BY DEF Lost, Server
<1> QED
  BY <1>1, Noise, RefusalKeeps

-----------------------------------------------------------------------------
(* Elsewhere, and time.                                                    *)

LEMMA ElsewhereKeeps == ASSUME PageInv, LinkEnds \/ CodeExpires \/ WindowPasses PROVE PageInv'
<1>1. CASE LinkEnds
  <2>1. /\ link' = FALSE /\ UNCHANGED <<session, page, focus, disturbances>>
        /\ offer' = offer \/ (offer = "SENT" /\ offer' = "CLOSED")
    BY <1>1 DEF LinkEnds
  <2>2. offer \in {"SENT", "ACCEPTED", "DECLINED", "CLOSED"} /\ disturbances \in Nat
    BY DEF PageInv
  <2>3. Lasts
    <3>1. link' \in BOOLEAN
      BY <2>1
    <3>2. /\ offer' \in {"SENT", "ACCEPTED", "DECLINED", "CLOSED"} /\ (offer # "SENT" => offer' = offer)
          /\ disturbances' \in Nat /\ disturbances <= disturbances' /\ session' = session
      BY <2>1, <2>2
    <3> QED
      BY <3>1, <3>2 DEF Lasts
  <2> QED
    BY <2>1, <2>3, NoTab DEF PageInv
<1>2. CASE CodeExpires
  <2>1. Disturbed /\ UNCHANGED <<offer, link, session, page, focus>>
    BY <1>2 DEF CodeExpires
  <2> QED
    BY <2>1, Noise, NoTab DEF PageInv
<1>3. CASE WindowPasses
  <2>1. UNCHANGED <<offer, link, session, page, focus, disturbances>>
    BY <1>3 DEF WindowPasses
  <2> QED
    BY <2>1, Quiet, NoTab DEF PageInv
<1> QED
  BY <1>1, <1>2, <1>3

\* A session that ends takes its proof with it.  If the recipient still looked
\* at it, that is a disturbance; if she looks at another tab, changing it was.
LEMMA SessionExpiresKeeps == ASSUME PageInv, SessionExpires PROVE PageInv'
<1>1. /\ UNCHANGED <<offer, link, focus>> /\ page' = Outdated({"newest", "proof"})
      /\ (ProofMislaid /\ disturbances' = disturbances) \/ Disturbed
  BY DEF SessionExpires
<1>2. offer \in {"SENT", "ACCEPTED", "DECLINED", "CLOSED"} /\ link \in BOOLEAN /\ focus \in Tabs
      /\ disturbances \in Nat /\ disturbances' \in Nat /\ disturbances <= disturbances'
  BY <1>1 DEF PageInv, Disturbed
<1>3. /\ page' = [t \in Tabs |-> page'[t]]
      /\ \A t \in Tabs :
           /\ IsPage(page'[t]) /\ Calls(page'[t]) /\ page'[t].at = page[t].at /\ page'[t].call = page[t].call
           /\ page'[t].answer = page[t].answer
           /\ page'[t].otp = (IF page[t].otp \in {"newest", "proof"} THEN "old" ELSE page[t].otp)
           /\ page'[t].prev = (IF page[t].prev \in {"newest", "proof"} THEN "old" ELSE page[t].prev)
  BY <1>1, OldPages
<1>4. ASSUME NEW t \in Tabs, Verified(page[t]) PROVE disturbances' > 0
  <2>1. CASE Disturbed
    BY <1>2, <2>1 DEF Disturbed
  <2>2. CASE ProofMislaid /\ disturbances' = disturbances
    <3>1. t # focus /\ page[t].at \notin Untouched
      BY <1>4, <2>2 DEF ProofMislaid, Verified, Untouched
    <3>2. disturbances # 0
      BY <3>1, Phases
    <3> QED
      BY <1>2, <2>2, <3>2
  <2> QED
    BY <1>1, <2>1, <2>2
<1>5. ASSUME NEW t \in Tabs PROVE Honest(page'[t], offer, session', disturbances')
  <2>1. Honest(page[t], offer, session, disturbances)
    BY Phases
  <2>2. Decisions(page'[t], offer)
    BY <1>3, <2>1 DEF Honest, Decisions
  <2>3. page'[t].otp # "proof" /\ page'[t].prev # "proof"
    BY <1>3
  <2>4. Verified(page'[t]) => page'[t].otp = "old" /\ disturbances' > 0
    BY <1>3, <1>4, <2>1 DEF Honest, Proof, Verified
  <2> QED
    BY <1>3, <2>2, <2>3, <2>4 DEF Honest, Proof
<1>6. disturbances' = 0 => disturbances = 0
  BY <1>2
<1> QED
  BY <1>1, <1>2, <1>3, <1>5, <1>6 DEF PageInv

-----------------------------------------------------------------------------
LEMMA PageKeeps == ASSUME PageInv, [Next]_vars PROVE PageInv'
<1>1. CASE UNCHANGED vars
  BY <1>1, Quiet, NoTab DEF vars, PageInv
<1> QED
  BY <1>1, RecipientKeeps, ApiKeeps, ReceiveKeeps, LostKeeps, AdvanceKeeps, ElsewhereKeeps, SessionExpiresKeeps DEF Next

LEMMA PageFirst == Init => PageInv
<1> SUFFICES ASSUME Init PROVE PageInv
  OBVIOUS
<1>1. \A t \in Tabs : page[t] = Loading
  BY DEF Init
<1>2. \A t \in Tabs : Honest(page[t], offer, session, disturbances) /\ page[t].at \in Untouched
  BY <1>1, LoadingHonest DEF Untouched
<1> QED
  BY <1>2 DEF Init, PageInv

\* What a tab shows is so, in every tab, whatever answers were lost and
\* whatever the other tabs did (SigningClient's reducer, which shows success
\* only on an answer that says so, and an answer says so only when the offer
\* is decided for good).
THEOREM ShownIsAlwaysTrue == Spec => []ShownIsTrue
<1>1. PageInv => ShownIsTrue
  <2> SUFFICES ASSUME PageInv, NEW t \in Tabs
               PROVE  /\ page[t].at \in {"completed", "already_terminal"} => offer = "ACCEPTED"
                      /\ page[t].at = "declined" => offer = "DECLINED"
                      /\ page[t].at \in {"otp_verified", "acceptance"} =>
                            \/ page[t].otp = "proof" /\ (session = "OTP_VERIFIED" \/ offer # "SENT")
                            \/ page[t].otp = "old" /\ disturbances > 0
    BY DEF ShownIsTrue
  <2>1. Honest(page[t], offer, session, disturbances)
    BY Phases
  <2> QED
    BY <2>1 DEF Honest, Decisions, Proof, Verified
<1> QED
  BY <1>1, PageFirst, PageKeeps, PTL DEF Spec
=============================================================================
