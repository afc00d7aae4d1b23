------------------------------ MODULE Membership ------------------------------
(***************************************************************************)
(* The members of one organization and the invites to it                   *)
(* (api/organizations.py, services/organizations.py): invite, revoke,      *)
(* accept, change a role, remove.  A request reads the caller's membership *)
(* and the rows it works on without a lock, and writes and commits later   *)
(* by primary key: an UPDATE of a row that has gone raises, a DELETE of    *)
(* one does not.                                                           *)
(*                                                                         *)
(* The boards a member may see, his membership of other organizations and  *)
(* the organization's own deletion are left out.                           *)
(***************************************************************************)
EXTENDS Integers, FiniteSets

CONSTANTS
    Users,
    Founder,   \* the user for whom the organization was made
    Invites,
    Calls,     \* requests that may overlap
    MaxCalls   \* bound: requests altogether

ASSUME MembershipAssumption == Founder \in Users /\ MaxCalls \in Nat

VARIABLES
    members,    \* organization_members: role of each user, and which row of his it is
    invites,    \* organization_invites
    calls,      \* what each request is doing and has read
    asked,      \* requests so far
    demoted,    \* history: the role of an owner was changed to a lower one
    overtaken   \* history: a COMMIT wrote a member, or removed an owner, on old reads

membershipVars == <<members, invites, calls, asked, demoted, overtaken>>

Ranks == [member |-> 0, admin |-> 1, owner |-> 2]
Ranked == DOMAIN Ranks
IsMember(u) == members[u].role # "none"
IsAdmin(u) == members[u].role \in {"admin", "owner"}
Owners == {u \in Users : members[u].role = "owner"}

NoCall == [op |-> "none", phase |-> "none"]
InCall(q, op, phase) == calls[q].op = op /\ calls[q].phase = phase
Becomes(q, c) == calls' = [calls EXCEPT ![q] = c]
Joins(q, phase) == Becomes(q, [op |-> calls[q].op, phase |-> phase,
                              user |-> calls[q].user, invite |-> calls[q].invite])
Answer(q) == Becomes(q, NoCall)
Arrives(q) == calls[q] = NoCall /\ asked < MaxCalls /\ asked' = asked + 1

\* A statement finds the row that was asked for unless the user has left since.
SameRow(c) == IsMember(c.user) /\ members[c.user].row = c.seen.row
Overtakes(c) == members[c.user] # c.seen
Given(u, role) == [members EXCEPT ![u].role = role]

-----------------------------------------------------------------------------
(***************************************************************************)
(* remove_org_member.                                                      *)
(***************************************************************************)
AskRemove(q, by, u) ==
    /\ Arrives(q)
    /\ IsAdmin(by) /\ by # u /\ IsMember(u)
    /\ Becomes(q, [op |-> "remove", phase |-> "admitted",
                   user |-> u, seen |-> members[u], as |-> members[by].role])
    /\ UNCHANGED <<members, invites, demoted, overtaken>>

\* Mutant: nothing counts the owners.
MayRemoveUncounted(as, u) == members[u].role = "owner" => as = "owner"

MayRemove(as, u) ==
    members[u].role = "owner" => as = "owner" /\ Cardinality(Owners) > 1

LoadRemove(q) ==
    LET c == calls[q] IN
    /\ InCall(q, "remove", "admitted")
    /\ IF SameRow(c) /\ MayRemove(c.as, c.user)
         THEN Becomes(q, [op |-> "remove", phase |-> "loaded",
                          user |-> c.user, seen |-> members[c.user], owners |-> Owners])
         ELSE Answer(q)
    /\ UNCHANGED <<asked, members, invites, demoted, overtaken>>

CommitRemove(q) ==
    LET c == calls[q] IN
    /\ InCall(q, "remove", "loaded")
    /\ members' = IF SameRow(c) THEN Given(c.user, "none") ELSE members
    /\ overtaken' = (overtaken \/ Overtakes(c) \/ (c.user \in Owners /\ Owners # c.owners))
    /\ Answer(q)
    /\ UNCHANGED <<asked, invites, demoted>>

-----------------------------------------------------------------------------
(***************************************************************************)
(* update_org_member.  An administrator may change any role, his own and   *)
(* an owner's too.                                                         *)
(***************************************************************************)
AskRole(q, by, u, role) ==
    /\ Arrives(q)
    /\ IsAdmin(by) /\ IsMember(u)
    /\ Becomes(q, [op |-> "role", phase |-> "admitted",
                   user |-> u, seen |-> members[u], role |-> role, own |-> by = u])
    /\ UNCHANGED <<members, invites, demoted, overtaken>>

\* The session keeps the caller's own row as it was read first.
LoadRole(q) ==
    LET c == calls[q] IN
    /\ InCall(q, "role", "admitted")
    /\ IF SameRow(c)
         THEN Becomes(q, [op |-> "role", phase |-> "loaded", user |-> c.user, role |-> c.role,
                          seen |-> IF c.own THEN c.seen ELSE members[c.user]])
         ELSE Answer(q)
    /\ UNCHANGED <<asked, members, invites, demoted, overtaken>>

\* The column is written if it differs from what was read.
CommitRole(q) ==
    LET c == calls[q] IN
    /\ InCall(q, "role", "loaded")
    /\ SameRow(c)
    /\ IF c.role = c.seen.role
         THEN UNCHANGED <<members, demoted, overtaken>>
         ELSE /\ members' = Given(c.user, c.role)
              /\ demoted' = (demoted \/ c.seen.role = "owner")
              /\ overtaken' = (overtaken \/ Overtakes(c))
    /\ Answer(q)
    /\ UNCHANGED <<invites, asked>>

-----------------------------------------------------------------------------
(***************************************************************************)
(* create_org_invite and revoke_org_invite.  An invite is addressed to a   *)
(* user who was not a member when the request looked; any invite may be    *)
(* revoked, an accepted one too.                                           *)
(***************************************************************************)
AskInvite(q, by, i, u, role) ==
    /\ Arrives(q)
    /\ IsAdmin(by) /\ ~ IsMember(u)
    /\ invites[i].status = "unused"
    /\ Becomes(q, [op |-> "invite", phase |-> "loaded", invite |-> i,
                   row |-> [status |-> "pending", user |-> u, role |-> role]])
    /\ UNCHANGED <<members, invites, demoted, overtaken>>

CommitInvite(q) ==
    LET c == calls[q] IN
    /\ InCall(q, "invite", "loaded")
    /\ invites[c.invite].status = "unused"
    /\ invites' = [invites EXCEPT ![c.invite] = c.row]
    /\ Answer(q)
    /\ UNCHANGED <<asked, members, demoted, overtaken>>

AskRevoke(q, by, i) ==
    /\ Arrives(q)
    /\ IsAdmin(by)
    /\ invites[i].status \in {"pending", "accepted"}
    /\ Becomes(q, [op |-> "revoke", phase |-> "loaded", invite |-> i])
    /\ UNCHANGED <<members, invites, demoted, overtaken>>

CommitRevoke(q) ==
    /\ InCall(q, "revoke", "loaded")
    /\ invites' = [invites EXCEPT ![calls[q].invite].status = "revoked"]
    /\ Answer(q)
    /\ UNCHANGED <<asked, members, demoted, overtaken>>

-----------------------------------------------------------------------------
(***************************************************************************)
(* accept_org_invite, by the link, and ensure_member_for_user, which       *)
(* accepts an invite for a user who comes without a membership.  The       *)
(* latter locks the user's row, which the foreign key of a new member      *)
(* needs too: of two requests that add the same user one waits, or both    *)
(* wait for each other and the database ends one of them (CallFails).      *)
(***************************************************************************)
Addressed(i, u) == invites[i].status = "pending" /\ invites[i].user = u
Adding(u) == \E q \in Calls : calls[q].phase = "inserted" /\ calls[q].user = u
HoldsUser(u) == \E q \in Calls : calls[q].op = "enter" /\ calls[q].user = u

AskAccept(q, u, i) ==
    /\ Arrives(q)
    /\ Addressed(i, u)
    /\ Becomes(q, [op |-> "accept", phase |-> "admitted", user |-> u, invite |-> i])
    /\ UNCHANGED <<members, invites, demoted, overtaken>>

LoadAccept(q) ==
    LET c == calls[q] IN
    /\ InCall(q, "accept", "admitted")
    /\ IF IsMember(c.user)
         THEN Becomes(q, [op |-> "accept", phase |-> "loaded",
                          user |-> c.user, invite |-> c.invite, seen |-> members[c.user]])
         ELSE Joins(q, "joining")
    /\ UNCHANGED <<asked, members, invites, demoted, overtaken>>

AskEnter(q, u, i) ==
    /\ Arrives(q)
    /\ ~ IsMember(u) /\ ~ Adding(u) /\ ~ HoldsUser(u)
    /\ Addressed(i, u)
    /\ Becomes(q, [op |-> "enter", phase |-> "joining", user |-> u, invite |-> i])
    /\ UNCHANGED <<members, invites, demoted, overtaken>>

\* The INSERT of the member; it raises if the user has become one.
InsertMember(q) ==
    LET c == calls[q] IN
    /\ c.phase = "joining"
    /\ ~ Adding(c.user)
    /\ c.op = "accept" => ~ HoldsUser(c.user)
    /\ IF IsMember(c.user) THEN Answer(q) ELSE Joins(q, "inserted")
    /\ UNCHANGED <<asked, members, invites, demoted, overtaken>>

\* Mutant: an invite that has gone is no error.
StillThereAlways(i) == TRUE
StillThere(i) == invites[i].status # "revoked"

Accepted(i) == [invites EXCEPT ![i].status = IF @ = "revoked" THEN @ ELSE "accepted"]

\* The UPDATE of the invite and the COMMIT.
CommitJoin(q) ==
    LET c == calls[q] IN
    /\ c.phase = "inserted"
    /\ IF StillThere(c.invite)
         THEN /\ members' = [members EXCEPT ![c.user] = [role |-> invites[c.invite].role,
                                                         row |-> @.row + 1]]
              /\ invites' = Accepted(c.invite)
         ELSE UNCHANGED <<members, invites>>
    /\ Answer(q)
    /\ UNCHANGED <<asked, demoted, overtaken>>

\* apply_invite_to_member: the higher of the role that was read and the invite's.
\* Without a new role the member's row need not be written.
CommitAccept(q) ==
    LET c == calls[q]
        role == invites[c.invite].role
        raises == Ranks[role] > Ranks[c.seen.role]
    IN /\ InCall(q, "accept", "loaded")
       /\ IF StillThere(c.invite) /\ (raises => SameRow(c))
            THEN /\ members' = IF raises THEN Given(c.user, role) ELSE members
                 /\ invites' = Accepted(c.invite)
                 /\ overtaken' = (overtaken \/ (raises /\ Overtakes(c)))
            ELSE UNCHANGED <<members, invites, overtaken>>
       /\ Answer(q)
       /\ UNCHANGED <<asked, demoted>>

\* The request fails or is aborted before its COMMIT.
CallFails(q) ==
    /\ calls[q] # NoCall
    /\ Answer(q)
    /\ UNCHANGED <<asked, members, invites, demoted, overtaken>>

-----------------------------------------------------------------------------
MembershipInit ==
    /\ members = [u \in Users |-> [role |-> IF u = Founder THEN "owner" ELSE "none", row |-> 0]]
    /\ invites = [i \in Invites |-> [status |-> "unused", user |-> Founder, role |-> "member"]]
    /\ calls = [q \in Calls |-> NoCall]
    /\ asked = 0 /\ demoted = FALSE /\ overtaken = FALSE

AskAny(q) ==
    \/ \E by, u \in Users :
         \/ AskRemove(q, by, u)
         \/ \E role \in Ranked : AskRole(q, by, u, role)
         \/ \E i \in Invites, role \in Ranked : AskInvite(q, by, i, u, role)
    \/ \E by \in Users, i \in Invites : AskRevoke(q, by, i)
    \/ \E u \in Users, i \in Invites : AskAccept(q, u, i) \/ AskEnter(q, u, i)

MembershipNext ==
    \E q \in Calls :
        \/ AskAny(q)
        \/ LoadRemove(q) \/ LoadRole(q) \/ LoadAccept(q)
        \/ CommitRemove(q) \/ CommitRole(q) \/ CommitInvite(q) \/ CommitRevoke(q)
        \/ InsertMember(q) \/ CommitJoin(q) \/ CommitAccept(q)
        \/ CallFails(q)

MembershipSpec == MembershipInit /\ [][MembershipNext]_membershipVars

-----------------------------------------------------------------------------
MembershipTypeOK ==
    /\ members \in [Users -> [role : Ranked \cup {"none"}, row : Nat]]
    /\ invites \in [Invites -> [status : {"unused", "pending", "accepted", "revoked"},
                                user : Users, role : Ranked]]
    /\ \A q, p \in Calls :
         calls[q].phase = "inserted" =>
           /\ ~ IsMember(calls[q].user)
           /\ p # q /\ calls[p].phase = "inserted" => calls[p].user # calls[q].user

\* "Organization must have at least one owner" (api/organizations.py:669): the
\* count and the rule that only owners remove owners keep one, also when the
\* caller has lost his own role since he was let in.  Excepted are an owner whose
\* role was changed, which nothing forbids, and a COMMIT on rows or owners that
\* another had changed since it read them: two owners who remove each other, a
\* role that is written over a newer one.
SomeoneOwns == demoted \/ overtaken \/ Owners # {}

\* Nobody joins but through an invite to himself that has not been revoked, by
\* whichever of the two ways in; one that was used lets in again only him whom it
\* had let in before (he accepted twice at once and was removed in between).
JoinsByInvite ==
    [][\A u \in Users : ~ IsMember(u) /\ IsMember(u)' =>
         \E i \in Invites :
           /\ invites[i].user = u
           /\ \/ invites[i].status = "pending"
              \/ invites[i].status = "accepted" /\ members[u].row > 0]_membershipVars

=============================================================================
