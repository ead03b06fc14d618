---------------------------- MODULE Organization ----------------------------
(***************************************************************************)
(* The members and invitations of ONE organization: OrgController's guard, *)
(* MembershipService and InviteService.  Every operation reads first and   *)
(* writes later; only unique indexes and two transactions hold the rows    *)
(* together.  No route revokes an invitation: a newer one supersedes it.   *)
(***************************************************************************)
EXTENDS Integers, FiniteSets

CONSTANTS
    Users, Nobody,
    Calls,          \* requests in flight
    NumInvites      \* bound: invitations

ASSUME OrganizationAssumption == NumInvites \in Nat /\ Nobody \notin Users

InviteId == 1..NumInvites
NoInvite == [user |-> Nobody, role |-> "NONE", state |-> "none", uses |-> 0]
NoCall   == [op |-> "none", at |-> "idle", actor |-> Nobody, target |-> Nobody, role |-> "NONE", invite |-> 0,
             seen |-> "NONE"]

VARIABLES
    role,       \* Membership: each user's role, or NONE
    invite,     \* Invite rows, and how many joined by each
    call,       \* requests in flight, with the role that their write relies on, as it was read
    stale,      \* whether a call wrote when that role was another by then
    overtaken   \* invitations settled while an acceptance that had read them open was to write

orgVars == <<role, invite, call, stale, overtaken>>

-----------------------------------------------------------------------------
(* Plausible bugs, each a form of a definition below (README.md, Mutants). *)

AtLeastOne(count)    == count >= 1                              \* Removable: off by one
UnlessAccepted(i)    == invite[i].state \in {"open", "revoked"} \* Acceptable: not the second column

-----------------------------------------------------------------------------
Rank == [NONE |-> 0, VIEWER |-> 1, MEMBER |-> 2, ADMIN |-> 3, OWNER |-> 4]

RoleAtLeast(r, required) == Rank[r] >= Rank[required]

Owners == {u \in Users : role[u] = "OWNER"}

Midway(c)  == call[c].at # "idle"
Unwritten  == UNCHANGED <<role, invite, stale, overtaken>>
WritesOnRoleOf(c, u) == stale' = (stale \/ role[u] # call[c].seen)
Goes(c, from, to) == call[c].at = from /\ call' = [call EXCEPT ![c].at = to]
Ends(c)    == call' = [call EXCEPT ![c] = NoCall]

\* JwtAuthGuard and OrgRoleGuard: the role is read for each request.
Begin(c, op, actor, required, target, asked) ==
    /\ ~Midway(c)
    /\ RoleAtLeast(role[actor], required)
    /\ call' = [call EXCEPT ![c] = [op |-> op, at |-> "read", actor |-> actor, target |-> target,
                                    role |-> asked, invite |-> 0, seen |-> role[actor]]]
    /\ Unwritten

-----------------------------------------------------------------------------
(* MembershipService.                                                      *)

StartRemove == \E c \in Calls, actor, target \in Users :
    Begin(c, "remove", actor, "ADMIN", target, "NONE")

MayRemove(actor, target) ==
    /\ role[actor] # "NONE" /\ role[target] # "NONE"
    /\ role[actor] = "ADMIN" => role[target] = "MEMBER"

ReadRemove(c) ==
    /\ call[c].op = "remove"
    /\ LET target == call[c].target
       IN  /\ call[c].at = "read"
           /\ IF MayRemove(call[c].actor, target)
              THEN call' = [call EXCEPT ![c].at = IF role[target] = "OWNER" THEN "count" ELSE "write",
                                        ![c].seen = role[target]]
              ELSE Ends(c)
    /\ Unwritten

Removable(count) == count > 1

CountOwners(c) ==
    /\ call[c].at = "count"
    /\ IF Removable(Cardinality(Owners)) THEN Goes(c, "count", "write") ELSE Ends(c)
    /\ Unwritten

\* A row that is gone makes the statement throw.
DeleteMembership(c) ==
    /\ call[c].op = "remove" /\ call[c].at = "write"
    /\ LET target == call[c].target
       IN  IF role[target] # "NONE"
           THEN /\ role' = [role EXCEPT ![target] = "NONE"] /\ WritesOnRoleOf(c, target)
                /\ UNCHANGED <<invite, overtaken>>
           ELSE Unwritten
    /\ Ends(c)

StartTransfer == \E c \in Calls, from, to \in Users :
    Begin(c, "transfer", from, "OWNER", to, "NONE")

ReadTransfer(c) ==
    /\ call[c].op = "transfer"
    /\ IF role[call[c].target] # "NONE" THEN Goes(c, "read", "write")
       ELSE call[c].at = "read" /\ Ends(c)
    /\ Unwritten

Transferred(from, to) == [role EXCEPT ![from] = "ADMIN", ![to] = "OWNER"]

\* One transaction: both rows are there, or nothing happens.
TransferOwnership(c) ==
    /\ call[c].op = "transfer" /\ call[c].at = "write"
    /\ LET from == call[c].actor  to == call[c].target
       IN  IF role[from] # "NONE" /\ role[to] # "NONE"
           THEN role' = Transferred(from, to) /\ WritesOnRoleOf(c, from) /\ UNCHANGED <<invite, overtaken>>
           ELSE Unwritten
    /\ Ends(c)

-----------------------------------------------------------------------------
(* InviteService.                                                          *)

Unsent     == {i \in InviteId : invite[i].state = "none"}
Accepting(c, i) == call[c].op = "accept" /\ call[c].at = "write" /\ call[c].invite = i
Pending(u) == {i \in InviteId : invite[i].user = u /\ invite[i].state \in {"open", "lapsed"}}

StartInvite == \E c \in Calls, actor, target \in Users, r \in {"ADMIN", "MEMBER"} :
    Unsent # {} /\ Begin(c, "invite", actor, "ADMIN", target, r)

ReadInvite(c) ==
    /\ call[c].op = "invite"
    /\ LET by == role[call[c].actor]
       IN  IF /\ by # "NONE" /\ (by = "ADMIN" => call[c].role = "MEMBER")
              /\ role[call[c].target] = "NONE"
           THEN Goes(c, "read", "revoke") ELSE call[c].at = "read" /\ Ends(c)
    /\ Unwritten

RevokePending(c) ==
    /\ Goes(c, "revoke", "write")
    /\ invite' = [i \in InviteId |->
                    IF i \in Pending(call[c].target) THEN [invite[i] EXCEPT !.state = "revoked"] ELSE invite[i]]
    /\ overtaken' = overtaken \cup {i \in Pending(call[c].target) : \E d \in Calls : Accepting(d, i)}
    /\ UNCHANGED <<role, stale>>

\* The partial unique index: one that is neither accepted nor revoked.  A
\* lapsed one counts.
CreateInvite(c) ==
    /\ call[c].op = "invite" /\ call[c].at = "write" /\ Unsent # {}
    /\ invite' = IF Pending(call[c].target) # {} THEN invite
                 ELSE [invite EXCEPT ![CHOOSE i \in Unsent : \A j \in Unsent : i <= j] =
                         [user |-> call[c].target, role |-> call[c].role, state |-> "open", uses |-> 0]]
    /\ Ends(c)
    /\ UNCHANGED <<role, stale, overtaken>>

\* Whoever is signed in and holds the link.
StartAccept == \E c \in Calls, i \in InviteId, u \in Users :
    /\ invite[i].state # "none"
    /\ ~Midway(c)
    /\ call' = [call EXCEPT ![c] = [NoCall EXCEPT !.op = "accept", !.at = "read", !.invite = i, !.actor = u]]
    /\ Unwritten

Acceptable(i) == invite[i].state = "open"

ReadAccept(c) ==
    /\ call[c].op = "accept"
    /\ IF Acceptable(call[c].invite) /\ role[call[c].actor] = "NONE"
       THEN Goes(c, "read", "write") ELSE call[c].at = "read" /\ Ends(c)
    /\ Unwritten

\* One transaction; it fails if the membership exists by now, and looks at
\* the invitation no more.
AcceptInvite(c) ==
    /\ call[c].op = "accept" /\ call[c].at = "write"
    /\ LET i == call[c].invite  u == call[c].actor
       IN  IF role[u] = "NONE"
           THEN /\ role' = [role EXCEPT ![u] = invite[i].role]
                /\ invite' = [invite EXCEPT ![i].state = IF @ = "revoked" THEN @ ELSE "accepted",
                                            ![i].uses = @ + 1]
                /\ overtaken' = IF \E d \in Calls \ {c} : Accepting(d, i) THEN overtaken \cup {i} ELSE overtaken
                /\ UNCHANGED stale
           ELSE Unwritten
    /\ Ends(c)

InviteLapses(i) ==
    /\ invite[i].state = "open"
    /\ invite' = [invite EXCEPT ![i].state = "lapsed"]
    /\ UNCHANGED <<role, call, stale, overtaken>>

-----------------------------------------------------------------------------
OrgInit ==
    /\ \E founder \in Users : role = [u \in Users |-> IF u = founder THEN "OWNER" ELSE "NONE"]
    /\ invite = [i \in InviteId |-> NoInvite]
    /\ call = [c \in Calls |-> NoCall]
    /\ stale = FALSE /\ overtaken = {}

OrgNext ==
    \/ StartRemove \/ StartTransfer \/ StartInvite \/ StartAccept
    \/ \E c \in Calls :
          \/ ReadRemove(c) \/ CountOwners(c) \/ DeleteMembership(c)
          \/ ReadTransfer(c) \/ TransferOwnership(c)
          \/ ReadInvite(c) \/ RevokePending(c) \/ CreateInvite(c)
          \/ ReadAccept(c) \/ AcceptInvite(c)
    \/ \E i \in InviteId : InviteLapses(i)

OrgSpec == OrgInit /\ [][OrgNext]_orgVars

-----------------------------------------------------------------------------
Roles == {"NONE", "MEMBER", "ADMIN", "OWNER"}

Invitation ==
    [user : Users \cup {Nobody}, role : {"NONE", "MEMBER", "ADMIN"},
     state : {"none", "open", "lapsed", "revoked", "accepted"}, uses : Nat]

Request ==
    [op : {"none", "remove", "transfer", "invite", "accept"},
     at : {"idle", "read", "count", "revoke", "write"},
     actor : Users \cup {Nobody}, target : Users \cup {Nobody},
     role : {"NONE", "MEMBER", "ADMIN"}, invite : 0..NumInvites, seen : Roles]

OrgTypeOK ==
    /\ role \in [Users -> Roles]
    /\ invite \in [InviteId -> Invitation]
    /\ call \in [Calls -> Request]
    /\ stale \in BOOLEAN /\ overtaken \subseteq InviteId

\* The organization has exactly one owner, until a call writes on a role that
\* is no longer as it was read: a removal of one made owner meanwhile, or the
\* second transfer by one owner.
OneOwner == stale \/ Cardinality(Owners) = 1

\* An invitation lets one user in, and none once a newer one superseded it,
\* unless that came between the reading and the writing of an acceptance.
AcceptedWhileOpen ==
    \A i \in InviteId :
        invite[i].uses > (IF invite[i].state = "revoked" THEN 0 ELSE 1) => i \in overtaken
=============================================================================
