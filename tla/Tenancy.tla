------------------------------- MODULE Tenancy -------------------------------
(***************************************************************************)
(* The team of one workspace (modules/tenants/service.py and the routes of *)
(* api/routes/workspaces.py): its owner, its memberships, its invitations  *)
(* and the permissions of the roles.                                       *)
(*                                                                         *)
(* Several requests run at once, each in one transaction: it reads the     *)
(* workspace with all its members, checks permission and conditions, and   *)
(* writes when it commits.  The ORM writes a column only when its new      *)
(* value differs from the one that was read, and with no condition on the  *)
(* value that is there by then.                                            *)
(***************************************************************************)
EXTENDS Naturals, FiniteSets

CONSTANTS
  Users,        (* accounts of people                                          *)
  Superusers,   (* platform administrators                                     *)
  Elsewhere,    (* users who may do everything in another workspace            *)
  Requests,     (* database sessions                                           *)
  Addresses,    (* normalized e-mail addresses that can be invited             *)
  Offered,      (* roles that the invitations of an instance name              *)
  Nobody        (* not a user                                                  *)

ASSUME TenancyAssumption ==
  /\ Superusers \subseteq Users
  /\ Elsewhere \subseteq Users
  /\ Nobody \notin Users

VARIABLES
  owner,        (* owner_id of the workspace; Nobody until it is created       *)
  member,       (* rows of workspace_memberships, by user                      *)
  invitation,   (* rows of workspace_invitations, by address                   *)
  job,          (* what each request is about to write, and what it has read   *)
  overtaken,    (* history: requests whose reads precede another one's commit  *)
  torn          (* history: an overtaken request has committed                 *)

rows == <<owner, member, invitation>>
vars == <<rows, job, overtaken, torn>>

-----------------------------------------------------------------------------
(* Rows and roles. *)

\* VIEWER stands for the five roles that may not manage members.
Roles == {"OWNER", "ADMIN", "VIEWER"}

ASSUME OfferedAssumption == Offered \subseteq Roles

ManageMembers == {"member:invite", "member:remove", "member:role:update"}
Permissions == ManageMembers \cup {"workspace:transfer"}

Grants == [OWNER |-> Permissions, ADMIN |-> ManageMembers, VIEWER |-> {}]

Member == [status : {"NONE", "ACTIVE", "REMOVED"}, role : Roles]
NotMember == [status |-> "NONE", role |-> "VIEWER"]

\* expires_at and accepted_at; nothing sets revoked_at
Invitation == [life : {"none", "open", "expired", "accepted"}, role : Roles]
NotInvited == [life |-> "none", role |-> "VIEWER"]

Writes == {"transfer", "role", "remove", "invite", "accept"}
Job == [does : Writes \cup {"nothing"}, by : Users \cup {Nobody},
        on : Users \cup Addresses \cup {Nobody}, role : Roles,
        via : Addresses \cup {Nobody}, saw : Member]
NoJob == [does |-> "nothing", by |-> Nobody, on |-> Nobody, role |-> "VIEWER",
          via |-> Nobody, saw |-> NotMember]

TypeOK ==
  /\ owner \in Users \cup {Nobody}
  /\ member \in [Users -> Member]
  /\ invitation \in [Addresses -> Invitation]
  /\ job \in [Requests -> Job]
  /\ overtaken \in SUBSET Requests
  /\ torn \in BOOLEAN

Init ==
  /\ owner = Nobody
  /\ member = [u \in Users |-> NotMember]
  /\ invitation = [a \in Addresses |-> NotInvited]
  /\ job = [p \in Requests |-> NoJob]
  /\ overtaken = {}
  /\ torn = FALSE

-----------------------------------------------------------------------------
(* Permissions. *)

IsActive(u) == member[u].status = "ACTIVE"

\* require(permission), over build_context: custom_role_id is never set.
May(u, permission) ==
  \/ u \in Superusers
  \/ IsActive(u) /\ permission \in Grants[member[u].role]

\* The routes take this workspace from the path, and require checks the one
\* that the header X-Workspace-Id names.
Passes(u, permission) == May(u, permission) \/ u \in Elsewhere

\* The permission that the route of each request requires.
Required == [transfer |-> "workspace:transfer", role |-> "member:role:update",
             remove |-> "member:remove", invite |-> "member:invite"]

-----------------------------------------------------------------------------
(* Transactions. *)

InFlight == {q \in Requests : job[q].does # "nothing"}

\* p has read what it needs and will write.
Asks(p, does, u, v, r, a, saw) ==
  /\ owner # Nobody
  /\ job[p].does = "nothing"
  /\ job' = [job EXCEPT ![p] = [does |-> does, by |-> u, on |-> v, role |-> r,
                                via |-> a, saw |-> saw]]
  /\ UNCHANGED <<rows, overtaken, torn>>

\* p has written, and what the others in flight have read is stale.
Commits(p) ==
  /\ job' = [job EXCEPT ![p] = NoJob]
  /\ overtaken' = InFlight \ {p}
  /\ torn' = (torn \/ p \in overtaken)

\* A unique constraint refuses what p inserts.
RollsBack(p) ==
  /\ job' = [job EXCEPT ![p] = NoJob]
  /\ overtaken' = overtaken \ {p}
  /\ UNCHANGED <<rows, torn>>

\* The columns of a membership that an update changes.
Written(row, saw, new) ==
  [status |-> IF new.status = saw.status THEN row.status ELSE new.status,
   role |-> IF new.role = saw.role THEN row.role ELSE new.role]

-----------------------------------------------------------------------------
(* The workspace and its owner. *)

CreateWorkspace(u) ==
  /\ owner = Nobody
  /\ owner' = u
  /\ member' = [member EXCEPT ![u] = [status |-> "ACTIVE", role |-> "OWNER"]]
  /\ UNCHANGED <<invitation, job, overtaken, torn>>

\* Mutant of AskTransfer: the new owner need not be a member.
AskTransferToAnyone(p, u, v) ==
  /\ Passes(u, "workspace:transfer")
  /\ owner = u /\ v # u
  /\ Asks(p, "transfer", u, v, member[u].role, Nobody, member[v])

\* Mutant of AskTransfer: the permission is enough, and the new owner has to
\* differ from the present one.
AskTransferByPermission(p, u, v) ==
  /\ Passes(u, "workspace:transfer")
  /\ owner # v
  /\ IsActive(v)
  /\ Asks(p, "transfer", u, v, member[u].role, Nobody, member[v])

AskTransfer(p, u, v) ==
  /\ Passes(u, "workspace:transfer")
  /\ owner = u /\ v # u
  /\ IsActive(v)
  /\ Asks(p, "transfer", u, v, member[u].role, Nobody, member[v])

\* The former owner drops to ADMIN; job[p].role is the role it was read with.
TransferOwnership(p) ==
  LET j == job[p] IN
  /\ j.does = "transfer"
  /\ owner' = j.on
  /\ member' = [u \in Users |->
       IF u = j.on
       THEN Written(member[u], j.saw, [status |-> j.saw.status, role |-> "OWNER"])
       ELSE IF u = j.by
       THEN [status |-> member[u].status,
             role |-> IF j.role = "ADMIN" THEN member[u].role ELSE "ADMIN"]
       ELSE member[u]]
  /\ Commits(p)
  /\ UNCHANGED invitation

-----------------------------------------------------------------------------
(* Members. *)

AskRole(p, u, v, r) ==
  /\ Passes(u, "member:role:update")
  /\ member[v].status # "NONE"
  /\ owner = v => r = "OWNER"
  /\ Asks(p, "role", u, v, r, Nobody, member[v])

UpdateMemberRole(p) ==
  LET j == job[p] IN
  /\ j.does = "role"
  /\ member' = [member EXCEPT ![j.on] =
       Written(@, j.saw, [status |-> j.saw.status, role |-> j.role])]
  /\ Commits(p)
  /\ UNCHANGED <<owner, invitation>>

\* Mutant of AskRemove: the owner can be removed.
AskRemoveAnyone(p, u, v) ==
  /\ Passes(u, "member:remove")
  /\ member[v].status # "NONE"
  /\ Asks(p, "remove", u, v, "VIEWER", Nobody, member[v])

AskRemove(p, u, v) ==
  /\ Passes(u, "member:remove")
  /\ owner # v
  /\ member[v].status # "NONE"
  /\ Asks(p, "remove", u, v, "VIEWER", Nobody, member[v])

\* Mutant of RemoveMember: it writes a status that is not one.
RemoveMemberMisnamed(p) ==
  LET j == job[p] IN
  /\ j.does = "remove"
  /\ member' = [member EXCEPT ![j.on] =
       Written(@, j.saw, [status |-> "DELETED", role |-> j.saw.role])]
  /\ Commits(p)
  /\ UNCHANGED <<owner, invitation>>

RemoveMember(p) ==
  LET j == job[p] IN
  /\ j.does = "remove"
  /\ member' = [member EXCEPT ![j.on] =
       Written(@, j.saw, [status |-> "REMOVED", role |-> j.saw.role])]
  /\ Commits(p)
  /\ UNCHANGED <<owner, invitation>>

-----------------------------------------------------------------------------
(* Invitations. *)

\* Only a pending invitation is refused before the insert ...
AskInvite(p, u, a, r) ==
  /\ Passes(u, "member:invite")
  /\ invitation[a].life # "open"
  /\ Asks(p, "invite", u, Nobody, r, a, NotMember)

InviteMember(p) ==
  LET j == job[p] IN
  /\ j.does = "invite"
  /\ invitation[j.via].life = "none"
  /\ invitation' = [invitation EXCEPT ![j.via] = [life |-> "open", role |-> j.role]]
  /\ Commits(p)
  /\ UNCHANGED <<owner, member>>

\* ... and the unique constraint refuses an address that was ever invited.
AddressTaken(p) ==
  /\ job[p].does = "invite"
  /\ invitation[job[p].via].life # "none"
  /\ RollsBack(p)

InvitationExpires(a) ==
  /\ invitation[a].life = "open"
  /\ invitation' = [invitation EXCEPT ![a] = [life |-> "expired", role |-> @.role]]
  /\ UNCHANGED <<owner, member, job, overtaken, torn>>

\* Whoever presents the token of a pending invitation is let in.
AskAccept(p, u, a) ==
  /\ invitation[a].life = "open"
  /\ Asks(p, "accept", u, u, invitation[a].role, a, member[u])

\* Mutant of AcceptInvitation: a former member keeps the former role.
AcceptInvitationReactivating(p) ==
  LET j == job[p] IN
  /\ j.does = "accept"
  /\ j.saw.status = "NONE" => member[j.on].status = "NONE"
  /\ invitation' = [invitation EXCEPT ![j.via] =
                      [life |-> "accepted", role |-> @.role]]
  /\ member' = [member EXCEPT ![j.on] =
       CASE j.saw.status = "NONE" -> [status |-> "ACTIVE", role |-> j.role]
         [] j.saw.status = "ACTIVE" -> @
         [] j.saw.status = "REMOVED" ->
              Written(@, j.saw, [status |-> "ACTIVE", role |-> j.saw.role])]
  /\ Commits(p)
  /\ UNCHANGED owner

AcceptInvitation(p) ==
  LET j == job[p] IN
  /\ j.does = "accept"
  /\ j.saw.status = "NONE" => member[j.on].status = "NONE"
  /\ invitation' = [invitation EXCEPT ![j.via] =
                      [life |-> "accepted", role |-> @.role]]
  /\ member' = [member EXCEPT ![j.on] =
       CASE j.saw.status = "NONE" -> [status |-> "ACTIVE", role |-> j.role]
         [] j.saw.status = "ACTIVE" -> @
         [] j.saw.status = "REMOVED" ->
              Written(@, j.saw, [status |-> "ACTIVE", role |-> j.role])]
  /\ Commits(p)
  /\ UNCHANGED owner

\* The same user accepts twice at once: both insert the membership.
JoinedMeanwhile(p) ==
  /\ job[p].does = "accept"
  /\ job[p].saw.status = "NONE" /\ member[job[p].on].status # "NONE"
  /\ RollsBack(p)

-----------------------------------------------------------------------------

Asked(p) ==
  \E u \in Users :
    \/ \E v \in Users :
         \/ AskTransfer(p, u, v)
         \/ \E r \in Roles : AskRole(p, u, v, r)
         \/ AskRemove(p, u, v)
    \/ \E a \in Addresses :
         \/ \E r \in Offered : AskInvite(p, u, a, r)
         \/ AskAccept(p, u, a)

Answered(p) ==
  \/ TransferOwnership(p) \/ UpdateMemberRole(p) \/ RemoveMember(p)
  \/ InviteMember(p) \/ AddressTaken(p)
  \/ AcceptInvitation(p) \/ JoinedMeanwhile(p)

Next ==
  \/ \E u \in Users : CreateWorkspace(u)
  \/ \E a \in Addresses : InvitationExpires(a)
  \/ \E p \in Requests : Asked(p) \/ Answered(p)

Spec == Init /\ [][Next]_vars

-----------------------------------------------------------------------------
(* Properties. *)

\* "The workspace owner cannot be removed. Transfer ownership first." and
\* "Transfer ownership before changing the owner's role.": unless a request
\* commits after another one that it did not see, the owner is an active
\* member with the role OWNER, whoever transfers, promotes and removes.
OwnerHoldsWorkspace ==
  owner # Nobody /\ ~torn =>
    member[owner] = [status |-> "ACTIVE", role |-> "OWNER"]

\* Even when requests overtake each other, the workspace has an owner who was a
\* member once: the one who may be made active again by an invitation.
OwnerIsKnown == owner # Nobody => member[owner].status # "NONE"

\* "Single-use" (docs/database-schema.md): unless a request is overtaken, every
\* user who comes into the workspace uses up an invitation that was open, or
\* ran out while it was being accepted, and gets the role it names.
JoinsByInvitation ==
  [][\A u \in Users :
       owner # Nobody /\ ~IsActive(u) /\ IsActive(u)' /\ ~torn' =>
         \E a \in Addresses :
           /\ invitation[a].life \in {"open", "expired"}
           /\ invitation'[a].life = "accepted"
           /\ member'[u].role = invitation[a].role]_vars

\* "Only the workspace owner can transfer ownership.": the ownership changes by a
\* transfer only, to the one it names, and on the word of who is the owner when
\* it commits, unless that transfer itself is overtaken.  No permission stands in
\* for this, of this workspace or of another one, and no other request in
\* between, stale or not, breaks it.
OwnershipIsGiven ==
  [][owner # Nobody /\ owner' # owner =>
       \E p \in Requests :
         /\ job[p].does = "transfer" /\ job[p].on = owner' /\ job'[p] # job[p]
         /\ p \notin overtaken => job[p].by = owner]_vars

=============================================================================
