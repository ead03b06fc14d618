---------------------------- MODULE SigningClaims ----------------------------
(***************************************************************************)
(* What comments of the code and of the schema say of the signing rows and *)
(* the code keeps while no two requests overlap.  With overlap none of     *)
(* these holds: README, "What the models show of the code".                *)
(***************************************************************************)
EXTENDS SigningSystem

\* "ACCEPTED / DECLINED / EXPIRED / REVOKED -> anything (terminal)" is an
\* invalid transition (offer.state-machine.ts), and "terminal-status offers
\* are ignored by the WHERE clause" (expire-offers.handler.ts).
OfferTerminalIsFinal ==
    offer.status \in {"ACCEPTED", "DECLINED", "EXPIRED", "REVOKED"} => offer'.status = offer.status

\* "the status does not regress" (offer-recipient.state-machine.ts).
Progress == [PENDING |-> 0, VIEWED |-> 1, OTP_VERIFIED |-> 2,
             ACCEPTED |-> 3, DECLINED |-> 3, EXPIRED |-> 3]
RecipientDoesNotRegress == Progress[recipient'.status] >= Progress[recipient.status]

\* "all transitions out of PENDING are terminal. A challenge cannot be
\* re-activated" (signing-otp.state-machine.ts).
OtpTerminalIsFinal ==
    \A c \in Challenge : challenge[c].status \in {"VERIFIED", "EXPIRED", "LOCKED", "INVALIDATED"}
         => challenge'[c].status = challenge[c].status

\* "Any terminal -> anything (terminal)" is an invalid transition
\* (signing-session.state-machine.ts).
SessionTerminalIsFinal ==
    \A s \in Session : session[s].status \in {"ACCEPTED", "DECLINED", "EXPIRED"}
         => session'[s].status = session[s].status

\* "once revoked, the token cannot be resent" (send-offer.service.ts), and an
\* acceptance leaves the link "permanently unusable" (acceptance.service.ts).
DeadTokenStaysDead == recipient.token = "dead" => recipient'.token = "dead"

\* No row of a signing is taken back: each of the five comments above, over
\* whole sequences of requests, crashes, deadlines and sweeps.
NothingRegresses ==
    [][/\ OfferTerminalIsFinal
       /\ RecipientDoesNotRegress
       /\ OtpTerminalIsFinal
       /\ SessionTerminalIsFinal
       /\ DeadTokenStaysDead]_vars

\* "Only one challenge should be active per session at a time" (schema.prisma).
OneActiveChallenge ==
    \A c, d \in Challenge :
        /\ EffectiveOtpStatus(c) = "PENDING"
        /\ EffectiveOtpStatus(d) = "PENDING"
        /\ challenge[c].session = challenge[d].session
        => c = d

\* "the challenge attempt count is incremented" on every failure
\* (signing-otp.service.ts), so it equals the failures on the event chain.
Failures(c) ==
    UNION {{<<s, i>> : i \in {k \in Occurrences(s, "OTP_ATTEMPT_FAILED") \cup Occurrences(s, "OTP_MAX_ATTEMPTS") :
                               chain[s][k].challenge = c}} : s \in Session}
AttemptsCounted == \A c \in Challenge : challenge[c].attempts = Cardinality(Failures(c))

\* Each comment's half of what the guards of a code rest on: one code at a
\* time, and every wrong answer to it counted.
ChallengesInOrder == OneActiveChallenge /\ AttemptsCounted

\* "Offer transitions in atomic transaction; ACCEPTED is terminal", of a
\* "concurrent acceptance race" (docs/architecture.md).
AcceptedIsTerminal == record # {} => offer.status = "ACCEPTED"
=============================================================================
