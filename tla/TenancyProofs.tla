---------------------------- MODULE TenancyProofs ----------------------------
(***************************************************************************)
(* Proofs about Tenancy, for any number of users, requests and addresses:  *)
(* the types, that the owner holds the workspace and alone gives it away,  *)
(* and that people come in by invitation.                                  *)
(*                                                                         *)
(* The argument: until a transaction commits after another one that it did *)
(* not see, whatever a request in flight has read is still so, and with it *)
(* the condition it has checked.                                           *)
(***************************************************************************)
EXTENDS Tenancy, TLAPS

\* A request in flight is about something that exists, and stays: a workspace,
\* and a row of a member.
Addressed ==
  /\ owner = Nobody => InFlight = {}
  /\ \A p \in Requests :
       /\ job[p].does # "nothing" => job[p].by \in Users
       /\ job[p].does \in {"transfer", "role", "remove"} =>
            job[p].on \in Users /\ member[job[p].on].status # "NONE"
       /\ job[p].does = "accept" => job[p].on \in Users
       /\ job[p].does \in {"accept", "invite"} => job[p].via \in Addresses

\* What p has read and checked holds still.
Holds(p) ==
  LET j == job[p] IN
  /\ j.does \in {"transfer", "role", "remove", "accept"} => j.saw = member[j.on]
  /\ j.does \in DOMAIN Required => Passes(j.by, Required[j.does])
  /\ j.does = "transfer" => /\ owner = j.by /\ j.on # j.by
                            /\ IsActive(j.on)
                            /\ j.role = member[j.by].role
  /\ j.does = "role" /\ owner = j.on => j.role = "OWNER"
  /\ j.does = "remove" => owner # j.on
  /\ j.does = "accept" => /\ invitation[j.via].life \in {"open", "expired"}
                          /\ j.role = invitation[j.via].role

Current == \A p \in Requests \ overtaken : Holds(p)

\* The inductive invariant.
IInv ==
  /\ TypeOK
  /\ Addressed
  /\ Current
  /\ OwnerIsKnown
  /\ OwnerHoldsWorkspace

-----------------------------------------------------------------------------
(* The types. *)

LEMMA JobTypes ==
  /\ NoJob \in Job
  /\ \A p : RollsBack(p) \/ Commits(p) => job' = [job EXCEPT ![p] = NoJob]
<1>1. NoJob \in Job
  BY DEF NoJob, Job, Roles, Member, NotMember
<1> QED
  BY <1>1 DEF RollsBack, Commits

\* A request reads: only its own job changes.
LEMMA AskTypes ==
  ASSUME TypeOK, NEW p \in Requests, Asked(p)
  PROVE  /\ TypeOK' /\ UNCHANGED <<rows, overtaken, torn>> /\ owner # Nobody
         /\ \A q \in Requests \ {p} : job'[q] = job[q]
         /\ job[p].does = "nothing"
<1>1. ASSUME NEW does \in Writes, NEW u \in Users,
             NEW v \in Users \cup Addresses \cup {Nobody}, NEW r \in Roles,
             NEW a \in Addresses \cup {Nobody}, NEW saw \in Member,
             Asks(p, does, u, v, r, a, saw)
      PROVE  /\ TypeOK' /\ UNCHANGED <<rows, overtaken, torn>> /\ owner # Nobody
             /\ \A q \in Requests \ {p} : job'[q] = job[q]
             /\ job[p].does = "nothing"
  <2>1. [does |-> does, by |-> u, on |-> v, role |-> r, via |-> a, saw |-> saw] \in Job
    BY <1>1 DEF Job
  <2> QED
    BY <1>1, <2>1 DEF Asks, TypeOK, rows
<1>2. NotMember \in Member /\ \A u \in Users : member[u] \in Member /\ member[u].role \in Roles
  BY DEF NotMember, Member, Roles, TypeOK
<1>3. \A a \in Addresses : invitation[a].role \in Roles
  BY DEF TypeOK, Invitation
<1>4. "VIEWER" \in Roles /\ {"transfer", "role", "remove", "invite", "accept"} = Writes
  BY DEF Roles, Writes
<1>5. PICK u \in Users :
        \/ \E v \in Users :
             \/ AskTransfer(p, u, v)
             \/ \E r \in Roles : AskRole(p, u, v, r)
             \/ AskRemove(p, u, v)
        \/ \E a \in Addresses :
             \/ \E r \in Offered : AskInvite(p, u, a, r)
             \/ AskAccept(p, u, a)
  BY DEF Asked
<1>6. \E does \in Writes, v \in Users \cup Addresses \cup {Nobody}, r \in Roles,
         a \in Addresses \cup {Nobody}, saw \in Member :
        Asks(p, does, u, v, r, a, saw)
  <2>1. ASSUME NEW v \in Users, AskTransfer(p, u, v)
        PROVE  Asks(p, "transfer", u, v, member[u].role, Nobody, member[v])
    BY <2>1 DEF AskTransfer
  <2>2. ASSUME NEW v \in Users, NEW r \in Roles, AskRole(p, u, v, r)
        PROVE  Asks(p, "role", u, v, r, Nobody, member[v])
    BY <2>2 DEF AskRole
  <2>3. ASSUME NEW v \in Users, AskRemove(p, u, v)
        PROVE  Asks(p, "remove", u, v, "VIEWER", Nobody, member[v])
    BY <2>3 DEF AskRemove
  <2>4. ASSUME NEW a \in Addresses, NEW r \in Offered, AskInvite(p, u, a, r)
        PROVE  Asks(p, "invite", u, Nobody, r, a, NotMember)
    BY <2>4 DEF AskInvite
  <2>5. ASSUME NEW a \in Addresses, AskAccept(p, u, a)
        PROVE  Asks(p, "accept", u, u, invitation[a].role, a, member[u])
    BY <2>5 DEF AskAccept
  <2>6. \A r \in Offered : r \in Roles
    BY OfferedAssumption
  <2> QED
    BY <1>2, <1>3, <1>4, <1>5, <2>1, <2>2, <2>3, <2>4, <2>5, <2>6, Zenon
<1> QED
  BY <1>1, <1>6, Zenon

LEMMA StepTypes ==
  ASSUME TypeOK, Addressed, [Next]_vars
  PROVE  TypeOK'
<1>1. ASSUME NEW u \in Users, CreateWorkspace(u)
      PROVE  TypeOK'
  BY <1>1 DEF CreateWorkspace, TypeOK, Member, Roles
<1>2. ASSUME NEW a \in Addresses, InvitationExpires(a)
      PROVE  TypeOK'
  BY <1>2 DEF InvitationExpires, TypeOK, Invitation
<1>3. ASSUME NEW p \in Requests, Asked(p)
      PROVE  TypeOK'
  BY <1>3, AskTypes
<1>4. ASSUME NEW p \in Requests, Commits(p) \/ RollsBack(p)
      PROVE  job' \in [Requests -> Job] /\ overtaken' \in SUBSET Requests
               /\ torn' \in BOOLEAN
  <2>1. job' \in [Requests -> Job]
    BY <1>4, JobTypes DEF TypeOK
  <2> QED
    BY <1>4, <2>1, Zenon DEF Commits, RollsBack, TypeOK, InFlight
<1>5. ASSUME NEW row \in Member, NEW saw \in Member, NEW new \in Member
      PROVE  Written(row, saw, new) \in Member
  BY <1>5 DEF Written, Member
<1>6. ASSUME NEW p \in Requests
      PROVE  /\ job[p].saw \in Member /\ job[p].role \in Roles
             /\ \A s \in {"ACTIVE", "REMOVED", job[p].saw.status},
                   r \in {"OWNER", job[p].role, job[p].saw.role} :
                  [status |-> s, role |-> r] \in Member
  BY <1>6 DEF TypeOK, Job, Member, Roles
<1>7. ASSUME NEW p \in Requests, TransferOwnership(p)
      PROVE  TypeOK'
  <2>1. job[p].on \in Users
    BY <1>7 DEF TransferOwnership, Addressed
  <2>2. \A u \in Users : member[u] \in Member /\ [status |-> member[u].status,
             role |-> IF job[p].role = "ADMIN" THEN member[u].role ELSE "ADMIN"] \in Member
    BY DEF TypeOK, Member, Roles
  <2>3. \A u \in Users : Written(member[u], job[p].saw,
             [status |-> job[p].saw.status, role |-> "OWNER"]) \in Member
    BY <1>5, <1>6, <2>2
  <2>4. member' \in [Users -> Member]
    BY <1>7, <2>2, <2>3 DEF TransferOwnership
  <2> QED
    BY <1>4, <1>7, <2>1, <2>4 DEF TransferOwnership, TypeOK
<1>8. ASSUME NEW p \in Requests, UpdateMemberRole(p) \/ RemoveMember(p)
      PROVE  TypeOK'
  <2>1. job[p].on \in Users /\ member[job[p].on] \in Member
    BY <1>8 DEF UpdateMemberRole, RemoveMember, Addressed, TypeOK
  <2>2. \A new \in Member : Written(member[job[p].on], job[p].saw, new) \in Member
    BY <1>5, <1>6, <2>1
  <2>3. member' \in [Users -> Member]
    BY <1>6, <1>8, <2>2 DEF UpdateMemberRole, RemoveMember, TypeOK
  <2> QED
    BY <1>4, <1>8, <2>3 DEF UpdateMemberRole, RemoveMember, TypeOK
<1>9. ASSUME NEW p \in Requests, InviteMember(p)
      PROVE  TypeOK'
  <2>1. invitation' \in [Addresses -> Invitation]
    BY <1>6, <1>9 DEF InviteMember, TypeOK, Invitation
  <2> QED
    BY <1>4, <1>9, <2>1 DEF InviteMember, TypeOK
<1>10. ASSUME NEW p \in Requests, AddressTaken(p) \/ JoinedMeanwhile(p)
       PROVE  TypeOK'
  BY <1>4, <1>10 DEF AddressTaken, JoinedMeanwhile, RollsBack, rows, TypeOK
<1>11. ASSUME NEW p \in Requests, AcceptInvitation(p)
       PROVE  TypeOK'
  <2>1. invitation' \in [Addresses -> Invitation]
    BY <1>11 DEF AcceptInvitation, TypeOK, Invitation
  <2>2. job[p].on \in Users /\ member[job[p].on] \in Member
    BY <1>11 DEF AcceptInvitation, Addressed, TypeOK
  <2>3. /\ [status |-> "ACTIVE", role |-> job[p].role] \in Member
        /\ Written(member[job[p].on], job[p].saw,
                   [status |-> "ACTIVE", role |-> job[p].role]) \in Member
        /\ job[p].saw.status \in {"NONE", "ACTIVE", "REMOVED"}
    BY <1>5, <1>6, <2>2 DEF Member
  <2>4. member' \in [Users -> Member]
    BY <1>11, <2>2, <2>3 DEF AcceptInvitation, TypeOK
  <2> QED
    BY <1>4, <1>11, <2>1, <2>4 DEF AcceptInvitation, TypeOK
<1>12. CASE UNCHANGED vars
  BY <1>12 DEF vars, rows, TypeOK
<1> QED
  BY <1>1, <1>2, <1>3, <1>7, <1>8, <1>9, <1>10, <1>11, <1>12
  DEF Next, Answered

-----------------------------------------------------------------------------
(* Whom the requests are about. *)

\* The five steps that write, and the two that a constraint refuses.
Writes5(p) ==
  \/ TransferOwnership(p) \/ UpdateMemberRole(p) \/ RemoveMember(p)
  \/ InviteMember(p) \/ AcceptInvitation(p)

LEMMA StepKinds ==
  ASSUME [Next]_vars
  PROVE  \/ \E u \in Users : CreateWorkspace(u)
         \/ \E a \in Addresses : InvitationExpires(a)
         \/ \E p \in Requests : Asked(p)
         \/ \E p \in Requests : Writes5(p) /\ Commits(p)
         \/ \E p \in Requests : RollsBack(p)
         \/ UNCHANGED vars
BY Zenon DEF Next, Answered, Writes5, AddressTaken, JoinedMeanwhile,
   TransferOwnership, UpdateMemberRole, RemoveMember, InviteMember, AcceptInvitation

\* The row of a member stays.
LEMMA StatusStays ==
  ASSUME TypeOK, Addressed, [Next]_vars, NEW u \in Users, member[u].status # "NONE"
  PROVE  member'[u].status # "NONE"
<1>1. CASE UNCHANGED member
  BY <1>1
<1>2. ASSUME NEW v \in Users, CreateWorkspace(v)
      PROVE  member'[u].status # "NONE"
  BY <1>2 DEF CreateWorkspace, TypeOK
<1>3. ASSUME NEW p \in Requests, TransferOwnership(p)
      PROVE  member'[u].status # "NONE"
  BY <1>3 DEF TransferOwnership, Written
<1>4. ASSUME NEW p \in Requests, UpdateMemberRole(p) \/ RemoveMember(p)
      PROVE  member'[u].status # "NONE"
  BY <1>4 DEF UpdateMemberRole, RemoveMember, Written, TypeOK
<1>5. ASSUME NEW p \in Requests, AcceptInvitation(p)
      PROVE  member'[u].status # "NONE"
  <2>1. job[p].saw.status \in {"NONE", "ACTIVE", "REMOVED"}
    BY <1>5 DEF TypeOK, Job, Member
  <2> QED
    BY <1>5, <2>1 DEF AcceptInvitation, Written, TypeOK
<1>6. ASSUME NEW p \in Requests, Asked(p) \/ RollsBack(p) \/ InviteMember(p)
      PROVE  UNCHANGED member
  BY <1>6, AskTypes DEF RollsBack, InviteMember, rows
<1> QED
  BY <1>1, <1>2, <1>3, <1>4, <1>5, <1>6, StepKinds
  DEF Writes5, InvitationExpires, vars, rows

LEMMA StepKnown ==
  ASSUME TypeOK, Addressed, OwnerIsKnown, [Next]_vars
  PROVE  OwnerIsKnown'
<1>1. CASE UNCHANGED owner
  BY <1>1, StatusStays DEF OwnerIsKnown, TypeOK
<1>2. ASSUME NEW u \in Users, CreateWorkspace(u)
      PROVE  OwnerIsKnown'
  BY <1>2 DEF CreateWorkspace, OwnerIsKnown, TypeOK
<1>3. ASSUME NEW p \in Requests, TransferOwnership(p)
      PROVE  OwnerIsKnown'
  <2>1. job[p].on \in Users /\ member[job[p].on].status # "NONE"
    BY <1>3 DEF TransferOwnership, Addressed
  <2>2. owner' = job[p].on
    BY <1>3 DEF TransferOwnership
  <2> QED
    BY <2>1, <2>2, StatusStays DEF OwnerIsKnown
<1>4. ASSUME NEW p \in Requests, Asked(p) \/ RollsBack(p)
      PROVE  UNCHANGED owner
  BY <1>4, AskTypes DEF RollsBack, rows
<1> QED
  BY <1>1, <1>2, <1>3, <1>4, StepKinds
  DEF Writes5, UpdateMemberRole, RemoveMember, InviteMember, AcceptInvitation,
      InvitationExpires, vars, rows

\* What a request that begins has in its job.
LEMMA AskedAbout ==
  ASSUME TypeOK, NEW p \in Requests, Asked(p)
  PROVE  /\ job'[p].by \in Users
         /\ job'[p].does \in {"transfer", "role", "remove"} =>
              job'[p].on \in Users /\ member[job'[p].on].status # "NONE"
         /\ job'[p].does = "accept" => job'[p].on \in Users
         /\ job'[p].does \in {"accept", "invite"} => job'[p].via \in Addresses
         /\ Holds(p)'
<1> DEFINE Goal ==
      /\ job'[p].by \in Users
      /\ job'[p].does \in {"transfer", "role", "remove"} =>
           job'[p].on \in Users /\ member[job'[p].on].status # "NONE"
      /\ job'[p].does = "accept" => job'[p].on \in Users
      /\ job'[p].does \in {"accept", "invite"} => job'[p].via \in Addresses
      /\ Holds(p)'
<1>0. UNCHANGED <<owner, member, invitation>>
  BY AskTypes DEF rows
<1>1. ASSUME NEW u \in Users, NEW v \in Users, AskTransfer(p, u, v)
      PROVE  Goal
  <2>1. job'[p] = [does |-> "transfer", by |-> u, on |-> v, role |-> member[u].role,
                   via |-> Nobody, saw |-> member[v]]
    BY <1>1 DEF AskTransfer, Asks, TypeOK
  <2>2. owner = u /\ v # u /\ IsActive(v) /\ Passes(u, "workspace:transfer")
    BY <1>1 DEF AskTransfer
  <2> QED
    BY <1>0, <2>1, <2>2 DEF Holds, IsActive, May, Passes, Required
<1>2. ASSUME NEW u \in Users, NEW v \in Users, NEW r \in Roles, AskRole(p, u, v, r)
      PROVE  Goal
  <2>1. job'[p] = [does |-> "role", by |-> u, on |-> v, role |-> r,
                   via |-> Nobody, saw |-> member[v]]
    BY <1>2 DEF AskRole, Asks, TypeOK
  <2>2. /\ member[v].status # "NONE" /\ (owner = v => r = "OWNER")
        /\ Passes(u, "member:role:update")
    BY <1>2 DEF AskRole
  <2> QED
    BY <1>0, <2>1, <2>2 DEF Holds, IsActive, May, Passes, Required
<1>3. ASSUME NEW u \in Users, NEW v \in Users, AskRemove(p, u, v)
      PROVE  Goal
  <2>1. job'[p] = [does |-> "remove", by |-> u, on |-> v, role |-> "VIEWER",
                   via |-> Nobody, saw |-> member[v]]
    BY <1>3 DEF AskRemove, Asks, TypeOK
  <2>2. member[v].status # "NONE" /\ owner # v /\ Passes(u, "member:remove")
    BY <1>3 DEF AskRemove
  <2> QED
    BY <1>0, <2>1, <2>2 DEF Holds, IsActive, May, Passes, Required
<1>4. ASSUME NEW u \in Users, NEW a \in Addresses, NEW r \in Offered,
             AskInvite(p, u, a, r)
      PROVE  Goal
  <2>1. job'[p] = [does |-> "invite", by |-> u, on |-> Nobody, role |-> r,
                   via |-> a, saw |-> NotMember]
    BY <1>4 DEF AskInvite, Asks, TypeOK
  <2>2. Passes(u, "member:invite")
    BY <1>4 DEF AskInvite
  <2> QED
    BY <1>0, <2>1, <2>2 DEF Holds, IsActive, May, Passes, Required
<1>5. ASSUME NEW u \in Users, NEW a \in Addresses, AskAccept(p, u, a)
      PROVE  Goal
  <2>1. job'[p] = [does |-> "accept", by |-> u, on |-> u, role |-> invitation[a].role,
                   via |-> a, saw |-> member[u]]
    BY <1>5 DEF AskAccept, Asks, TypeOK
  <2>2. invitation[a].life = "open"
    BY <1>5 DEF AskAccept
  <2> QED
    BY <1>0, <2>1, <2>2 DEF Holds, IsActive, May, Passes, Required
<1> HIDE DEF Goal
<1>6. Goal
  BY <1>1, <1>2, <1>3, <1>4, <1>5, Zenon DEF Asked
<1> QED
  BY <1>6 DEF Goal

LEMMA StepAddressed ==
  ASSUME TypeOK, Addressed, [Next]_vars
  PROVE  Addressed'
<1> DEFINE Fine(q) ==
      /\ job'[q].does # "nothing" => job'[q].by \in Users
      /\ job'[q].does \in {"transfer", "role", "remove"} =>
           job'[q].on \in Users /\ member'[job'[q].on].status # "NONE"
      /\ job'[q].does = "accept" => job'[q].on \in Users
      /\ job'[q].does \in {"accept", "invite"} => job'[q].via \in Addresses
<1>1. ASSUME NEW q \in Requests, job'[q] = job[q]
      PROVE  Fine(q)
  BY <1>1, StatusStays DEF Addressed
<1>2. ASSUME NEW p \in Requests, Commits(p) \/ RollsBack(p)
      PROVE  \A q \in Requests : (q = p => job'[q].does = "nothing")
                              /\ (q # p => job'[q] = job[q])
  BY <1>2 DEF Commits, RollsBack, TypeOK, NoJob
<1>3. \A q \in Requests : Fine(q)
  <2>1. ASSUME NEW p \in Requests, Commits(p) \/ RollsBack(p)
        PROVE  \A q \in Requests : Fine(q)
    BY <1>1, <1>2, <2>1
  <2>2. ASSUME NEW p \in Requests, Asked(p)
        PROVE  \A q \in Requests : Fine(q)
    <3>1. Fine(p)
      BY <2>2, AskTypes, AskedAbout DEF rows
    <3> QED
      BY <1>1, <2>2, <3>1, AskTypes
  <2>3. ASSUME UNCHANGED job
        PROVE  \A q \in Requests : Fine(q)
    BY <1>1, <2>3
  <2> HIDE DEF Fine
  <2> QED
    BY <2>1, <2>2, <2>3, StepKinds, Zenon
    DEF CreateWorkspace, InvitationExpires, vars
<1>4. owner' = Nobody => InFlight' = {}
  <2>1. ASSUME NEW u \in Users, CreateWorkspace(u)
        PROVE  owner' # Nobody
    BY <2>1, TenancyAssumption DEF CreateWorkspace
  <2>2. ASSUME NEW p \in Requests, Asked(p)
        PROVE  owner' # Nobody
    BY <2>2, AskTypes DEF rows
  <2>3. ASSUME NEW p \in Requests, Commits(p) \/ RollsBack(p)
        PROVE  InFlight' \subseteq InFlight
    BY <1>2, <2>3 DEF InFlight
  <2>4. ASSUME NEW p \in Requests, Writes5(p)
        PROVE  owner' # Nobody
    <3>1. p \in InFlight
      BY <2>4 DEF Writes5, TransferOwnership, UpdateMemberRole, RemoveMember,
                  InviteMember, AcceptInvitation, InFlight
    <3>2. job[p].does = "transfer" => job[p].on # Nobody
      BY TenancyAssumption DEF Addressed
    <3> QED
      BY <2>4, <3>1, <3>2 DEF Addressed, Writes5, TransferOwnership,
         UpdateMemberRole, RemoveMember, InviteMember, AcceptInvitation
  <2>5. ASSUME UNCHANGED <<owner, job>>
        PROVE  owner' = Nobody => InFlight' = {}
    BY <2>5 DEF Addressed, InFlight
  <2>6. ASSUME NEW p \in Requests, RollsBack(p)
        PROVE  owner' = Nobody => InFlight' = {}
    BY <2>3, <2>6 DEF Addressed, RollsBack, rows
  <2> QED
    BY <2>1, <2>2, <2>4, <2>5, <2>6, StepKinds, Zenon
    DEF InvitationExpires, vars, rows
<1> QED
  BY <1>3, <1>4 DEF Addressed

-----------------------------------------------------------------------------
(* What has been read stays so until somebody commits. *)

LEMMA StepCurrent ==
  ASSUME TypeOK, Addressed, Current, [Next]_vars
  PROVE  Current'
<1>1. ASSUME NEW p \in Requests, Commits(p)
      PROVE  \A q \in Requests \ overtaken' : job'[q].does = "nothing"
  BY <1>1 DEF Commits, InFlight, TypeOK, NoJob
<1>2. ASSUME NEW q \in Requests, job'[q].does = "nothing"
      PROVE  Holds(q)'
  BY <1>2 DEF Holds, Required
<1>3. ASSUME NEW q \in Requests, Holds(q), job'[q] = job[q],
             UNCHANGED <<owner, member, invitation>>
      PROVE  Holds(q)'
  BY <1>3 DEF Holds, Passes, May, IsActive
<1>4. ASSUME NEW u \in Users, CreateWorkspace(u)
      PROVE  Current'
  <2>1. \A q \in Requests : job[q].does = "nothing"
    BY <1>4 DEF CreateWorkspace, Addressed, InFlight
  <2> QED
    BY <1>2, <1>4, <2>1 DEF CreateWorkspace, Current
<1>5. ASSUME NEW a \in Addresses, InvitationExpires(a)
      PROVE  Current'
  <2>1. /\ UNCHANGED <<owner, member, job, overtaken>>
        /\ \A x \in Addresses : invitation'[x].role = invitation[x].role
        /\ \A x \in Addresses :
             invitation[x].life \in {"open", "expired"} =>
               invitation'[x].life \in {"open", "expired"}
    BY <1>5 DEF InvitationExpires, TypeOK
  <2>2. ASSUME NEW q \in Requests, Holds(q)
        PROVE  Holds(q)'
    BY <2>1, <2>2 DEF Holds, Addressed, Passes, May, IsActive
  <2> QED
    BY <2>1, <2>2 DEF Current
<1>6. ASSUME NEW p \in Requests, Asked(p)
      PROVE  Current'
  <2>1. Holds(p)'
    BY <1>6, AskedAbout
  <2>2. ASSUME NEW q \in Requests, Holds(q), q # p
        PROVE  Holds(q)'
    BY <1>3, <1>6, <2>2, AskTypes DEF rows
  <2> QED
    BY <1>6, <2>1, <2>2, AskTypes DEF Current
<1>7. ASSUME NEW p \in Requests, Commits(p)
      PROVE  Current'
  BY <1>1, <1>2, <1>7 DEF Current
<1>8. ASSUME NEW p \in Requests, RollsBack(p)
      PROVE  Current'
  <2>1. /\ job'[p].does = "nothing" /\ \A q \in Requests \ {p} : job'[q] = job[q]
        /\ UNCHANGED <<owner, member, invitation>> /\ overtaken' = overtaken \ {p}
    BY <1>8 DEF RollsBack, rows, TypeOK, NoJob
  <2> QED
    BY <1>2, <1>3, <2>1 DEF Current
<1>9. CASE UNCHANGED vars
  BY <1>3, <1>9 DEF vars, rows, Current
<1> QED
  BY <1>4, <1>5, <1>6, <1>7, <1>8, <1>9, StepKinds, Zenon

\* What each write does to the row of one user.
LEMMA TransferWrites ==
  ASSUME TypeOK, NEW p \in Requests, TransferOwnership(p), Holds(p), Addressed
  PROVE  /\ owner' = job[p].on /\ owner = job[p].by /\ UNCHANGED invitation
         /\ member'[job[p].on] = [status |-> "ACTIVE", role |-> "OWNER"]
         /\ \A u \in Users : member'[u].status = member[u].status
<1>1. /\ job[p].does = "transfer" /\ job[p].on \in Users
      /\ job[p].saw = member[job[p].on] /\ IsActive(job[p].on)
      /\ owner = job[p].by
  BY DEF TransferOwnership, Addressed, Holds
<1>2. member'[job[p].on] = Written(member[job[p].on], job[p].saw,
                             [status |-> job[p].saw.status, role |-> "OWNER"])
  BY <1>1 DEF TransferOwnership
<1>3. \A u \in Users : member'[u].status = member[u].status
  BY DEF TransferOwnership, Written
<1> QED
  BY <1>1, <1>2, <1>3 DEF TransferOwnership, Written, IsActive

LEMMA StepHoldsWorkspace ==
  ASSUME TypeOK, Addressed, Current, OwnerIsKnown, OwnerHoldsWorkspace, [Next]_vars
  PROVE  OwnerHoldsWorkspace'
<1> SUFFICES ASSUME owner' # Nobody, ~torn'
             PROVE  member'[owner'] = [status |-> "ACTIVE", role |-> "OWNER"]
  BY DEF OwnerHoldsWorkspace
<1> DEFINE Goal == member'[owner'] = [status |-> "ACTIVE", role |-> "OWNER"]
<1>1. CASE UNCHANGED <<owner, member, torn>>
  BY <1>1 DEF OwnerHoldsWorkspace
<1>2. ASSUME NEW u \in Users, CreateWorkspace(u)
      PROVE  Goal
  BY <1>2 DEF CreateWorkspace, TypeOK
<1>3. ASSUME NEW p \in Requests, Commits(p)
      PROVE  ~torn /\ Holds(p)
  BY <1>3 DEF Commits, Current
<1>4. ASSUME NEW p \in Requests, TransferOwnership(p)
      PROVE  Goal
  BY <1>3, <1>4, TransferWrites DEF TransferOwnership
<1>5. ASSUME NEW p \in Requests, Commits(p), owner' = owner
      PROVE  owner \in Users /\ member[owner] = [status |-> "ACTIVE", role |-> "OWNER"]
  BY <1>3, <1>5 DEF OwnerHoldsWorkspace, TypeOK
<1>6. ASSUME NEW p \in Requests, UpdateMemberRole(p)
      PROVE  Goal
  <2>1. /\ Commits(p) /\ owner' = owner /\ job[p].does = "role"
        /\ member' = [member EXCEPT ![job[p].on] =
             Written(@, job[p].saw, [status |-> job[p].saw.status, role |-> job[p].role])]
    BY <1>6 DEF UpdateMemberRole
  <2>2. job[p].on = owner => job[p].role = "OWNER" /\ job[p].saw = member[owner]
    BY <1>3, <2>1 DEF Holds
  <2>3. CASE job[p].on = owner
    <3>1. member'[owner] = Written(member[owner], member[owner],
            [status |-> member[owner].status, role |-> "OWNER"])
      BY <1>5, <2>1, <2>2, <2>3 DEF TypeOK
    <3> QED
      BY <1>5, <2>1, <3>1 DEF Written
  <2>4. CASE job[p].on # owner
    BY <1>5, <2>1, <2>4 DEF TypeOK
  <2> QED
    BY <2>3, <2>4
<1>7. ASSUME NEW p \in Requests, RemoveMember(p)
      PROVE  Goal
  <2>1. owner # job[p].on /\ Commits(p) /\ owner' = owner
    BY <1>3, <1>7 DEF RemoveMember, Holds
  <2> QED
    BY <1>5, <1>7, <2>1 DEF RemoveMember, TypeOK
<1>8. ASSUME NEW p \in Requests, AcceptInvitation(p)
      PROVE  Goal
  <2>1. /\ Commits(p) /\ owner' = owner /\ job[p].saw = member[job[p].on]
    BY <1>3, <1>8 DEF AcceptInvitation, Holds
  <2>2. job[p].on = owner => job[p].saw.status = "ACTIVE"
    BY <1>5, <2>1
  <2>3. CASE job[p].on = owner
    BY <1>5, <1>8, <2>1, <2>2, <2>3 DEF AcceptInvitation, TypeOK
  <2>4. CASE job[p].on # owner
    BY <1>5, <1>8, <2>1, <2>4 DEF AcceptInvitation, TypeOK
  <2> QED
    BY <2>3, <2>4
<1>9. ASSUME NEW p \in Requests, InviteMember(p)
      PROVE  Goal
  BY <1>5, <1>9 DEF InviteMember
<1>10. ASSUME NEW p \in Requests, Asked(p) \/ RollsBack(p)
       PROVE  UNCHANGED <<owner, member, torn>>
  BY <1>10, AskTypes DEF RollsBack, rows
<1> QED
  BY <1>1, <1>2, <1>4, <1>6, <1>7, <1>8, <1>9, <1>10, StepKinds
  DEF Writes5, InvitationExpires, vars, rows

-----------------------------------------------------------------------------
(* The theorems. *)

LEMMA Initially == Init => IInv
<1> SUFFICES ASSUME Init PROVE IInv
  OBVIOUS
<1>1. NoJob \in Job /\ NotMember \in Member /\ NotInvited \in Invitation
  BY JobTypes DEF NotMember, Member, NotInvited, Invitation, Roles
<1>2. TypeOK
  BY <1>1 DEF Init, TypeOK
<1>3. Addressed /\ Current
  BY DEF Init, Addressed, Current, Holds, InFlight, NoJob, Required
<1> QED
  BY <1>2, <1>3 DEF Init, IInv, OwnerIsKnown, OwnerHoldsWorkspace

LEMMA Inductive == IInv /\ [Next]_vars => IInv'
BY StepTypes, StepAddressed, StepCurrent, StepKnown, StepHoldsWorkspace DEF IInv

LEMMA Invariance == Spec => []IInv
BY Initially, Inductive, PTL DEF Spec

\* Rows and the reads of requests keep their types, whatever was interleaved.
THEOREM TenancyTypes == Spec => []TypeOK
<1>1. IInv => TypeOK
  BY DEF IInv
<1> QED
  BY <1>1, Invariance, PTL

\* Whatever overtakes what, the owner of a workspace has a membership row.
THEOREM TenancyOwnerIsKnown == Spec => []OwnerIsKnown
<1>1. IInv => OwnerIsKnown
  BY DEF IInv
<1> QED
  BY <1>1, Invariance, PTL

\* Until a request commits over another one that it did not see, the owner is
\* an active member with the role OWNER.
THEOREM TenancyOwnerHoldsWorkspace == Spec => []OwnerHoldsWorkspace
<1>1. IInv => OwnerHoldsWorkspace
  BY DEF IInv
<1> QED
  BY <1>1, Invariance, PTL

LEMMA StepJoins ==
  ASSUME IInv, [Next]_vars, NEW u \in Users,
         owner # Nobody, ~IsActive(u), IsActive(u)', ~torn'
  PROVE  \E a \in Addresses :
           /\ invitation[a].life \in {"open", "expired"}
           /\ invitation'[a].life = "accepted"
           /\ member'[u].role = invitation[a].role
<1> USE DEF IInv
<1>1. member'[u].status # member[u].status /\ member'[u].status = "ACTIVE"
  BY DEF IsActive
<1>2. ASSUME NEW p \in Requests, Commits(p)
      PROVE  Holds(p)
  BY <1>2 DEF Commits, Current
<1>3. ASSUME NEW p \in Requests, Asked(p) \/ RollsBack(p)
      PROVE  FALSE
  BY <1>1, <1>3, AskTypes DEF RollsBack, rows
<1>4. ASSUME NEW p \in Requests, TransferOwnership(p)
      PROVE  FALSE
  BY <1>1, <1>2, <1>4, TransferWrites DEF TransferOwnership
<1>5. ASSUME NEW p \in Requests, UpdateMemberRole(p) \/ InviteMember(p)
      PROVE  FALSE
  BY <1>1, <1>5 DEF UpdateMemberRole, InviteMember, Written, TypeOK
<1>6. ASSUME NEW p \in Requests, RemoveMember(p)
      PROVE  FALSE
  BY <1>1, <1>6 DEF RemoveMember, Written, TypeOK
<1>7. PICK p \in Requests : AcceptInvitation(p)
  BY <1>1, <1>3, <1>4, <1>5, <1>6, StepKinds
  DEF Writes5, CreateWorkspace, InvitationExpires, vars, rows
<1>8. /\ job[p].does = "accept" /\ job[p].via \in Addresses
      /\ job[p].saw = member[job[p].on] /\ job[p].on \in Users
      /\ invitation[job[p].via].life \in {"open", "expired"}
      /\ job[p].role = invitation[job[p].via].role
  BY <1>2, <1>7 DEF AcceptInvitation, Holds, Addressed
<1>9. invitation'[job[p].via].life = "accepted"
  BY <1>7, <1>8 DEF AcceptInvitation, TypeOK
<1>10. job[p].on = u
  BY <1>1, <1>7 DEF AcceptInvitation, TypeOK
<1>11. member[u].status \in {"NONE", "REMOVED"}
  BY <1>1 DEF TypeOK, Member
<1>12. member'[u].role = job[p].role
  <2>1. CASE member[u].status = "NONE"
    BY <1>7, <1>8, <1>10, <2>1 DEF AcceptInvitation, TypeOK
  <2>2. CASE member[u].status = "REMOVED"
    <3>1. member'[u] = Written(member[u], member[u],
                               [status |-> "ACTIVE", role |-> job[p].role])
      BY <1>7, <1>8, <1>10, <2>2 DEF AcceptInvitation, TypeOK
    <3> QED
      BY <3>1 DEF Written
  <2> QED
    BY <1>11, <2>1, <2>2
<1> QED
  BY <1>8, <1>9, <1>12

\* Unless a request is overtaken, whoever comes in uses up an invitation, and
\* gets the role that it names.
THEOREM TenancyJoinsByInvitation == Spec => JoinsByInvitation
<1>1. IInv /\ [Next]_vars =>
        [\A u \in Users :
           owner # Nobody /\ ~IsActive(u) /\ IsActive(u)' /\ ~torn' =>
             \E a \in Addresses :
               /\ invitation[a].life \in {"open", "expired"}
               /\ invitation'[a].life = "accepted"
               /\ member'[u].role = invitation[a].role]_vars
  BY StepJoins
<1> QED
  BY <1>1, Invariance, PTL DEF Spec, JoinsByInvitation

LEMMA StepGiven ==
  ASSUME IInv, [Next]_vars, owner # Nobody, owner' # owner
  PROVE  \E p \in Requests :
           /\ job[p].does = "transfer" /\ job[p].on = owner' /\ job'[p] # job[p]
           /\ p \notin overtaken => job[p].by = owner
<1> USE DEF IInv
<1>1. ASSUME NEW p \in Requests, Asked(p) \/ RollsBack(p)
      PROVE  FALSE
  BY <1>1, AskTypes DEF RollsBack, rows
<1>2. PICK p \in Requests : TransferOwnership(p)
  BY <1>1, StepKinds
  DEF Writes5, UpdateMemberRole, RemoveMember, InviteMember, AcceptInvitation,
      CreateWorkspace, InvitationExpires, vars, rows
<1>3. job[p].does = "transfer" /\ job[p].on = owner' /\ Commits(p)
  BY <1>2 DEF TransferOwnership
<1>4. job'[p] # job[p]
  BY <1>3 DEF Commits, NoJob, TypeOK
<1>5. p \notin overtaken => job[p].by = owner
  BY <1>3 DEF Current, Holds
<1> QED
  BY <1>3, <1>4, <1>5

\* The ownership changes by a transfer only, and on the word of who is the owner
\* when it commits, unless that transfer is itself overtaken, whatever other
\* requests are in flight and wherever permissions come from.
THEOREM TenancyOwnershipIsGiven == Spec => OwnershipIsGiven
<1>1. IInv /\ [Next]_vars =>
        [owner # Nobody /\ owner' # owner =>
           \E p \in Requests :
             /\ job[p].does = "transfer" /\ job[p].on = owner' /\ job'[p] # job[p]
             /\ p \notin overtaken => job[p].by = owner]_vars
  BY StepGiven
<1> QED
  BY <1>1, Invariance, PTL DEF Spec, OwnershipIsGiven

=============================================================================
