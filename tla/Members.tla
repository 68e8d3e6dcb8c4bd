------------------------------- MODULE Members -------------------------------
(***************************************************************************)
(* Organizations and their members: the handlers of /organizations and     *)
(* /organizations/{id}/members that write, one SQL statement per step.     *)
(*                                                                         *)
(* Nothing is locked between a SELECT and the write that relies on it.  A  *)
(* handler writes in one statement, or in one flush with its commit, and   *)
(* that is its last step: a crash before it is a request that stays where  *)
(* it is.  An organization is named by its slug, which is unique and never *)
(* changes; a member's row by the request that inserts it.                 *)
(***************************************************************************)
EXTENDS Permissions, Naturals, Sequences, FiniteSets

CONSTANTS
  Users,          \* registered users
  Organizations,  \* the slugs that organizations are created with
  Requests,       \* requests to these handlers
  Seats,          \* rows of members at the start
  Seated,         \* seat -> [organization, user, role]
  Founded,        \* organization -> who created it before the start, or None
  Offered,        \* bound: the calls that clients of an instance make
  None

Rows == Requests \cup Seats

Call == [op : {"create_organization", "add_member", "update_member_role", "remove_member"},
         user : Users,                     \* who asks
         organization : Organizations,     \* in the path or the body
         subject : Users \cup Rows \cup {None},  \* the user to add, the row to change
         role : Role \cup {None}]

ASSUME MembersAssumption ==
  /\ Requests \cap Seats = {}
  /\ None \notin Users \cup Rows \cup Role
  /\ Offered \subseteq Call
  /\ \A c \in Offered :
       /\ c.op = "add_member" => c.subject \in Users
       /\ c.op \in {"update_member_role", "remove_member"} => c.subject \in Rows
       /\ c.op \in {"add_member", "update_member_role"} => c.role \in Role

\* At the start: organizations with their owner, who invited the others.
ASSUME SeatedAssumption ==
  /\ Founded \in [Organizations -> Users \cup {None}]
  /\ Seated \in [Seats -> [organization : Organizations, user : Users, role : Role]]
  /\ \A s \in Seats : Founded[Seated[s].organization] # None
  /\ \A s, t \in Seats : (/\ Seated[s].organization = Seated[t].organization
                          /\ Seated[s].user = Seated[t].user) => s = t
  /\ \A s \in Seats : Seated[s].role = "OWNER" <=> Seated[s].user = Founded[Seated[s].organization]
  /\ \A o \in Organizations : Founded[o] # None =>
       \E s \in Seats : Seated[s].organization = o /\ Seated[s].role = "OWNER"

VARIABLES
  created_by,  \* organizations: slug -> the user who created it, or None
  members,     \* organization_members: row -> [organization, user, role, ...], or None
  audit,       \* audit_logs: the MEMBER_ROLE_CHANGED entries in the order of their commits
  call,        \* request -> what it asks for
  pc,          \* request -> where its handler stands
  seen         \* request -> its user's membership and role, and the target's role, as read

memberVars == <<created_by, members, audit, call, pc, seen>>

-----------------------------------------------------------------------------
(* The tables. *)

\* given, by: history: the role that the row was inserted with, and whoever
\* wrote the role it has.
Member == [organization : Organizations, user : Users, role : Role, given : Role, by : Users]
NewMember(organization, user, role, by) ==
  [organization |-> organization, user |-> user, role |-> role, given |-> role, by |-> by]

ASSUME NoMemberAssumption == None \notin Member

RoleChange == [member : Rows, previous_role : Role, new_role : Role, actor : Users]

Seen == [self : Rows \cup {None}, actor : Role \cup {None}, target : Role \cup {None}]
NothingSeen == [self |-> None, actor |-> None, target |-> None]

NoCall == [op |-> "none", user |-> None, organization |-> None, subject |-> None, role |-> None]

Present == {m \in Rows : members[m] # None}
Of(organization) == {m \in Present : members[m].organization = organization}
Membership(organization, user) == {m \in Of(organization) : members[m].user = user}

Goto(q, label) == pc' = [pc EXCEPT ![q] = label]
Final == {"done", "refused", "failed"}

MembersInit ==
  /\ created_by = Founded
  /\ members = [m \in Rows |->
       IF m \in Seats
       THEN NewMember(Seated[m].organization, Seated[m].user, Seated[m].role,
                      Founded[Seated[m].organization])
       ELSE None]
  /\ audit = <<>>
  /\ call = [q \in Requests |-> NoCall]
  /\ pc = [q \in Requests |-> "idle"]
  /\ seen = [q \in Requests |-> NothingSeen]

Send(q) ==
  /\ pc[q] = "idle"
  /\ \E c \in Offered : call' = [call EXCEPT ![q] = c]
  /\ Goto(q, "sent")
  /\ UNCHANGED <<created_by, members, audit, seen>>

-----------------------------------------------------------------------------
(* The handlers. *)

\* The unique slug lets one creation through; its user becomes the owner.
create_organization(q) ==
  LET c == call[q] IN
  /\ pc[q] = "sent" /\ c.op = "create_organization"
  /\ IF created_by[c.organization] = None
     THEN /\ created_by' = [created_by EXCEPT ![c.organization] = c.user]
          /\ members' = [members EXCEPT ![q] = NewMember(c.organization, c.user, "OWNER", c.user)]
          /\ Goto(q, "done")
     ELSE Goto(q, "refused") /\ UNCHANGED <<created_by, members>>
  /\ UNCHANGED <<audit, call, seen>>

\* The user's membership is selected, and checked for member:manage and, in
\* add_member, for the role to be given; a stranger is refused.
require_permission(q) ==
  LET c == call[q] IN
  /\ pc[q] = "sent" /\ c.op # "create_organization"
  /\ \/ \E m \in Membership(c.organization, c.user) :
          LET role == members[m].role IN
          /\ seen' = [seen EXCEPT ![q] = [self |-> m, actor |-> role, target |-> None]]
          /\ Goto(q, IF /\ "member:manage" \in ROLE_PERMISSIONS[role]
                        /\ c.op = "add_member" => can_manage_role(role, c.role)
                     THEN "permitted" ELSE "refused")
     \/ /\ Membership(c.organization, c.user) = {}
        /\ Goto(q, "refused")
        /\ UNCHANGED seen
  /\ UNCHANGED <<created_by, members, audit, call>>

select_existing(q) ==
  LET c == call[q] IN
  /\ pc[q] = "permitted" /\ c.op = "add_member"
  /\ Goto(q, IF Membership(c.organization, c.subject) = {} THEN "adding" ELSE "refused")
  /\ UNCHANGED <<created_by, members, audit, call, seen>>

\* A fault: no unique constraint on organization and user.
AddMemberTwice(q) ==
  LET c == call[q] IN
  /\ pc[q] = "adding"
  /\ members' = [members EXCEPT ![q] = NewMember(c.organization, c.subject, c.role, c.user)]
  /\ Goto(q, "done")
  /\ UNCHANGED <<created_by, audit, call, seen>>

\* The INSERT, which the unique constraint on organization and user refuses if
\* somebody else added the user meanwhile.
add_member(q) ==
  LET c == call[q] IN
  /\ pc[q] = "adding"
  /\ IF Membership(c.organization, c.subject) = {}
     THEN /\ members' = [members EXCEPT ![q] =
               NewMember(c.organization, c.subject, c.role, c.user)]
          /\ Goto(q, "done")
     ELSE Goto(q, "refused") /\ UNCHANGED members
  /\ UNCHANGED <<created_by, audit, call, seen>>

\* The row to change or remove, within the organization, and the checks on it.
\* The user's own row is loaded already and keeps the role that was read first.
get_target_member(q) ==
  LET c == call[q]
      role == IF c.subject = seen[q].self THEN seen[q].actor ELSE members[c.subject].role IN
  /\ pc[q] = "permitted" /\ c.op # "add_member"
  /\ IF c.subject \in Of(c.organization)
     THEN /\ seen' = [seen EXCEPT ![q].target = role]
          /\ Goto(q, IF /\ can_manage_role(seen[q].actor, role)
                        /\ IF c.op = "remove_member"
                           THEN members[c.subject].user # c.user
                           ELSE can_manage_role(seen[q].actor, c.role)
                     THEN "writing" ELSE "refused")
     ELSE Goto(q, "refused") /\ UNCHANGED seen
  /\ UNCHANGED <<created_by, members, audit, call>>

\* A fault: the entry is written only if the row still has the role that was read.
AuditUnlessStale(q) ==
  LET c == call[q] IN
  /\ pc[q] = "writing" /\ c.op = "update_member_role"
  /\ IF c.subject \in Present
     THEN /\ members' = [members EXCEPT ![c.subject].role = c.role, ![c.subject].by = c.user]
          /\ audit' = IF members[c.subject].role # seen[q].target THEN audit
                      ELSE Append(audit, [member |-> c.subject, previous_role |-> seen[q].target,
                                          new_role |-> c.role, actor |-> c.user])
          /\ Goto(q, "done")
     ELSE Goto(q, "failed") /\ UNCHANGED <<members, audit>>
  /\ UNCHANGED <<created_by, call, seen>>

\* The audit entry, and the UPDATE if the role differs from the one that was read:
\* an UPDATE that finds no row fails, and the entry is rolled back.
update_member_role(q) ==
  LET c == call[q]
      changes == c.role # seen[q].target IN
  /\ pc[q] = "writing" /\ c.op = "update_member_role"
  /\ IF changes /\ c.subject \notin Present
     THEN Goto(q, "failed") /\ UNCHANGED <<members, audit>>
     ELSE /\ members' = IF changes
                        THEN [members EXCEPT ![c.subject].role = c.role, ![c.subject].by = c.user]
                        ELSE members
          /\ audit' = Append(audit, [member |-> c.subject, previous_role |-> seen[q].target,
                                     new_role |-> c.role, actor |-> c.user])
          /\ Goto(q, "done")
  /\ UNCHANGED <<created_by, call, seen>>

\* The DELETE, which is content with a row that is gone.
remove_member(q) ==
  /\ pc[q] = "writing" /\ call[q].op = "remove_member"
  /\ members' = [members EXCEPT ![call[q].subject] = None]
  /\ Goto(q, "done")
  /\ UNCHANGED <<created_by, audit, call, seen>>

Handle(q) ==
  \/ create_organization(q) \/ require_permission(q)
  \/ select_existing(q) \/ add_member(q)
  \/ get_target_member(q) \/ update_member_role(q) \/ remove_member(q)

MembersNext == \E q \in Requests : Send(q) \/ Handle(q)

MembersSpec == MembersInit /\ [][MembersNext]_memberVars

-----------------------------------------------------------------------------
(* Properties. *)

\* Every variable keeps its type (modules/organizations/models.py).
MembersTypeOK ==
  /\ created_by \in [Organizations -> Users \cup {None}]
  /\ members \in [Rows -> Member \cup {None}]
  /\ audit \in Seq(RoleChange)
  /\ call \in [Requests -> Offered \cup {NoCall}]
  /\ pc \in [Requests -> {"idle", "sent", "permitted", "adding", "writing"} \cup Final]
  /\ seen \in [Requests -> Seen]

\* An organization has one owner, for ever: whoever created it.  No two changes,
\* however they interleave, make another, change his role or remove him, and
\* nobody is a member twice (members.py, modules/organizations/permissions.py:65).
OneOwner ==
  \A o \in Organizations :
    /\ created_by[o] # None =>
         \E m \in Membership(o, created_by[o]) : members[m].role = "OWNER"
    /\ \A m \in Of(o) : members[m].role = "OWNER" => members[m].user = created_by[o]
    /\ \A m, n \in Of(o) : members[m].user = members[n].user => m = n

\* Whoever is an admin was made one by the owner: an admin makes no admins, not
\* even of a row that changes between his read and his write (members.py:137-146).
AdminsComeFromOwner ==
  \A m \in Present : members[m].role = "ADMIN" =>
    members[m].by = created_by[members[m].organization]

\* The role of a member is the one it was added with or, once it was changed, the
\* one that the last entry of a change names, although entries record what was
\* read before.  Entries with equal roles change nothing (members.py:148-164).
AuditAccountsForRoles ==
  \A m \in Present :
    LET Changes == {i \in DOMAIN audit :
                      audit[i].member = m /\ audit[i].previous_role # audit[i].new_role} IN
    /\ Changes = {} => members[m].role = members[m].given
    /\ \A i \in Changes : (\A j \in Changes : j <= i) =>
         members[m].role = audit[i].new_role /\ members[m].by = audit[i].actor
=============================================================================
