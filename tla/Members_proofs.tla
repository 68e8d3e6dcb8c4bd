--------------------------- MODULE Members_proofs ---------------------------
(***************************************************************************)
(* Proofs about Members: the inductive invariant of its handlers.          *)
(*                                                                         *)
(* The properties are not inductive alone: a write relies on two roles     *)
(* that were read earlier and may be stale.  What is still true of them:   *)
(* whoever read that he is the owner is the owner, and a target that was   *)
(* read as no owner will never be one (Permitted, Writing).                *)
(***************************************************************************)
EXTENDS Members, SequenceTheorems, TLAPS

Founding == \A m \in Present : created_by[members[m].organization] # None

\* The row of a request that is not done is not there and was not changed.
Fresh ==
  \A q \in Requests : pc[q] # "done" =>
    q \notin Present /\ \A i \in DOMAIN audit : audit[i].member # q

Known(m) == m \in Rows /\ (m \in Requests => pc[m] = "done")

\* What is known of the user of a request that got its permission.
Permitted(q) ==
  LET c == call[q]
      s == seen[q] IN
  /\ pc[q] # "idle" => c \in Offered
  /\ pc[q] \in {"permitted", "adding", "writing"} =>
    /\ c.op # "create_organization"
    /\ created_by[c.organization] # None
    /\ Known(s.self) /\ s.actor \in Role
    /\ s.actor = "OWNER" => c.user = created_by[c.organization]
    /\ s.self \in Present => (members[s.self].role = "OWNER" <=> s.actor = "OWNER")
    /\ c.op = "add_member" => can_manage_role(s.actor, c.role)
    /\ pc[q] = "adding" => c.op = "add_member"

\* What is known of the row that a request is about to write.
Writing(q) ==
  LET c == call[q]
      s == seen[q] IN
  pc[q] = "writing" =>
    /\ c.op \in {"update_member_role", "remove_member"}
    /\ Known(c.subject) /\ s.target \in Role
    /\ c.op = "update_member_role" => can_manage_role(s.actor, c.role)
    /\ c.subject \in Present =>
         members[c.subject].organization = c.organization /\ members[c.subject].role # "OWNER"

MInv ==
  /\ MembersTypeOK
  /\ Founding
  /\ Fresh
  /\ \A q \in Requests : Permitted(q) /\ Writing(q)
  /\ OneOwner
  /\ AdminsComeFromOwner
  /\ AuditAccountsForRoles

-----------------------------------------------------------------------------
(* What every step leaves alone. *)

\* Organizations keep their founder; a row that is there was there before, of the
\* same organization and user, an owner's as before, or it is a new one; what is
\* done stays done.
Evolves ==
  /\ \A o \in Organizations : created_by[o] # None => created_by'[o] = created_by[o]
  /\ \A m \in Present' :
       \/ /\ m \in Present
          /\ members'[m].organization = members[m].organization
          /\ members'[m].user = members[m].user
          /\ members'[m].role = "OWNER" <=> members[m].role = "OWNER"
       \/ m \in Requests /\ pc[m] # "done"
  /\ \A q \in Requests : pc[q] = "done" => pc'[q] = "done"

\* What is known of a request stays true while others act.
LEMMA OthersStay ==
  ASSUME MInv, Evolves, NEW p \in Requests,
         call'[p] = call[p], pc'[p] = pc[p], seen'[p] = seen[p]
  PROVE  Permitted(p)' /\ Writing(p)'
<1>1. Permitted(p) /\ Writing(p)
  BY DEF MInv
<1>2. \A m : Known(m) => Known(m)'
  BY DEF Evolves, Known
<1>3. \A m : Known(m) /\ m \in Present' =>
        /\ m \in Present
        /\ members'[m].organization = members[m].organization
        /\ members'[m].role = "OWNER" <=> members[m].role = "OWNER"
  BY DEF Evolves, Known
<1>4. Permitted(p)'
  <2>1. SUFFICES ASSUME pc[p] \in {"permitted", "adding", "writing"} PROVE Permitted(p)'
    BY <1>1 DEF Permitted
  <2>2. created_by'[call[p].organization] = created_by[call[p].organization]
    BY <1>1, <2>1, MembersAssumption DEF Permitted, Evolves, Call
  <2>3. seen[p].self \in Present' =>
          (members'[seen[p].self].role = "OWNER" <=> seen[p].actor = "OWNER")
    BY <1>1, <1>3, <2>1 DEF Permitted
  <2> QED
    BY <1>1, <1>2, <2>1, <2>2, <2>3 DEF Permitted
<1>5. Writing(p)'
  BY <1>1, <1>2, <1>3 DEF Writing
<1> QED
  BY <1>4, <1>5

\* A step that only reads keeps all that is said of the tables.
LEMMA ReadersKeep ==
  ASSUME MInv, UNCHANGED <<created_by, members, audit>>,
         \A p \in Requests : pc[p] = "done" => pc'[p] = "done"
  PROVE  /\ Evolves
         /\ Founding' /\ Fresh'
         /\ OneOwner' /\ AdminsComeFromOwner' /\ AuditAccountsForRoles'
<1>1. Evolves
  BY DEF Evolves, Present
<1>2. Founding' /\ Fresh'
  BY DEF MInv, Founding, Fresh, Present
<1>3. OneOwner' /\ AdminsComeFromOwner'
  BY DEF MInv, OneOwner, AdminsComeFromOwner, Membership, Of, Present
<1>4. AuditAccountsForRoles'
  BY DEF MInv, AuditAccountsForRoles, Present
<1> QED
  BY <1>1, <1>2, <1>3, <1>4

-----------------------------------------------------------------------------
(* Every step keeps the invariant. *)

LEMMA InitHolds == MembersInit => MInv
<1> SUFFICES ASSUME MembersInit PROVE MInv
  OBVIOUS
<1> USE MembersAssumption, SeatedAssumption
<1>1. \A m \in Rows : m \in Seats =>
        members[m] = NewMember(Seated[m].organization, Seated[m].user, Seated[m].role,
                               Founded[Seated[m].organization])
  BY DEF MembersInit
<1>2. \A m \in Rows : m \notin Seats => members[m] = None
  BY DEF MembersInit
<1>3. ASSUME NEW m \in Seats
      PROVE  /\ m \in Rows /\ members[m] \in Member
             /\ members[m].organization = Seated[m].organization
             /\ members[m].user = Seated[m].user /\ members[m].role = Seated[m].role
             /\ members[m].given = Seated[m].role
             /\ members[m].by = Founded[Seated[m].organization]
  <2>1. /\ Seated[m].organization \in Organizations /\ Seated[m].user \in Users
        /\ Seated[m].role \in Role /\ Founded[Seated[m].organization] \in Users
    OBVIOUS
  <2>2. m \in Rows
    BY DEF Rows
  <2>3. members[m] = [organization |-> Seated[m].organization, user |-> Seated[m].user,
                      role |-> Seated[m].role, given |-> Seated[m].role,
                      by |-> Founded[Seated[m].organization]]
    BY <1>1, <2>2 DEF NewMember
  <2> HIDE MembersAssumption, SeatedAssumption
  <2> QED
    BY <2>1, <2>2, <2>3 DEF Member
<1>4. Present = Seats
  BY <1>2, <1>3, NoMemberAssumption DEF Present, Rows
<1>5. MembersTypeOK
  <2>1. members \in [Rows -> Member \cup {None}]
    BY <1>2, <1>3 DEF MembersInit
  <2> QED
    BY <2>1 DEF MembersInit, MembersTypeOK, Seen, NothingSeen
<1>6. Founding /\ Fresh
  <2>1. created_by = Founded /\ audit = <<>>
    BY DEF MembersInit
  <2> QED
    BY <1>3, <1>4, <2>1 DEF Founding, Fresh
<1>7. \A q \in Requests : Permitted(q) /\ Writing(q)
  BY DEF MembersInit, Permitted, Writing
<1>8. OneOwner
  <2>1. SUFFICES ASSUME NEW o \in Organizations
                 PROVE  /\ created_by[o] # None =>
                             \E m \in Membership(o, created_by[o]) : members[m].role = "OWNER"
                        /\ \A m \in Of(o) : members[m].role = "OWNER" => members[m].user = created_by[o]
                        /\ \A m, n \in Of(o) : members[m].user = members[n].user => m = n
    BY DEF OneOwner
  <2>2. \A m : m \in Of(o) <=> m \in Seats /\ Seated[m].organization = o
    BY <1>3, <1>4 DEF Of
  <2>3. created_by[o] = Founded[o]
    BY DEF MembersInit
  <2>4. ASSUME created_by[o] # None
        PROVE  \E m \in Membership(o, created_by[o]) : members[m].role = "OWNER"
    BY <1>3, <2>2, <2>3, <2>4 DEF Membership
  <2> QED
    BY <1>3, <2>2, <2>3, <2>4
<1>9. AdminsComeFromOwner
  <2>1. created_by = Founded
    BY DEF MembersInit
  <2> QED
    BY <1>3, <1>4, <2>1 DEF AdminsComeFromOwner
<1>10. AuditAccountsForRoles
  <2>1. audit = <<>>
    BY DEF MembersInit
  <2> QED
    BY <1>3, <1>4, <2>1 DEF AuditAccountsForRoles
<1> QED
  BY <1>5, <1>6, <1>7, <1>8, <1>9, <1>10 DEF MInv

LEMMA SendKeeps ==
  ASSUME MInv, NEW q \in Requests, Send(q)
  PROVE  MInv'
<1>1. UNCHANGED <<created_by, members, audit>> /\ \A p \in Requests : pc[p] = "done" => pc'[p] = "done"
  BY DEF Send, Goto, MInv, MembersTypeOK
<1>2. MembersTypeOK'
  BY DEF Send, Goto, MInv, MembersTypeOK
<1>3. Permitted(q)' /\ Writing(q)'
  BY DEF Send, Goto, MInv, MembersTypeOK, Permitted, Writing
<1>4. \A p \in Requests \ {q} : call'[p] = call[p] /\ pc'[p] = pc[p] /\ seen'[p] = seen[p]
  BY DEF Send, Goto, MInv, MembersTypeOK
<1> QED
  BY <1>1, <1>2, <1>3, <1>4, ReadersKeep, OthersStay DEF MInv

LEMMA PermissionKeeps ==
  ASSUME MInv, NEW q \in Requests, require_permission(q)
  PROVE  MInv'
<1>1. UNCHANGED <<created_by, members, audit>> /\ \A p \in Requests : pc[p] = "done" => pc'[p] = "done"
  BY DEF require_permission, Goto, MInv, MembersTypeOK
<1>2. call[q] \in Offered /\ call[q].organization \in Organizations
  BY MembersAssumption DEF require_permission, MInv, Permitted, Call
<1>3. ASSUME NEW m \in Membership(call[q].organization, call[q].user),
             seen' = [seen EXCEPT ![q] = [self |-> m, actor |-> members[m].role, target |-> None]],
             pc'[q] = "permitted" => (call[q].op = "add_member" => can_manage_role(members[m].role, call[q].role)),
             pc' = [pc EXCEPT ![q] = "permitted"] \/ pc' = [pc EXCEPT ![q] = "refused"]
      PROVE  MembersTypeOK' /\ Permitted(q)' /\ Writing(q)'
  <2>1. /\ m \in Present /\ members[m] \in Member
        /\ members[m].organization = call[q].organization /\ members[m].user = call[q].user
    BY DEF Membership, Of, Present, MInv, MembersTypeOK
  <2>2. Known(m) /\ created_by[call[q].organization] # None
    BY <2>1 DEF MInv, Founding, Fresh, Known, Present
  <2>3. members[m].role = "OWNER" => call[q].user = created_by[call[q].organization]
    BY <1>2, <2>1 DEF MInv, OneOwner, Of
  <2>4. MembersTypeOK'
    BY <2>1, <1>3 DEF require_permission, MInv, MembersTypeOK, Seen, Member, Rows, Present, Final
  <2>5. seen'[q] = [self |-> m, actor |-> members[m].role, target |-> None] /\ pc'[q] \in {"permitted", "refused"}
    BY <1>3 DEF MInv, MembersTypeOK
  <2>6. Known(m)'
    BY <1>1, <2>2 DEF Known
  <2> QED
    BY <1>1, <1>2, <1>3, <2>1, <2>2, <2>3, <2>4, <2>5, <2>6
    DEF require_permission, Permitted, Writing, Present, Member
<1>4. MembersTypeOK' /\ Permitted(q)' /\ Writing(q)'
  <2>1. CASE \E m \in Membership(call[q].organization, call[q].user) :
               LET role == members[m].role IN
               /\ seen' = [seen EXCEPT ![q] = [self |-> m, actor |-> role, target |-> None]]
               /\ Goto(q, IF /\ "member:manage" \in ROLE_PERMISSIONS[role]
                             /\ call[q].op = "add_member" => can_manage_role(role, call[q].role)
                          THEN "permitted" ELSE "refused")
    BY <2>1, <1>3 DEF Goto, MInv, MembersTypeOK
  <2>2. CASE Goto(q, "refused") /\ UNCHANGED seen
    BY <2>2, <1>1, <1>2 DEF require_permission, Goto, MInv, MembersTypeOK, Permitted, Writing, Final
  <2> QED
    BY <2>1, <2>2 DEF require_permission
<1>5. \A p \in Requests \ {q} : call'[p] = call[p] /\ pc'[p] = pc[p] /\ seen'[p] = seen[p]
  BY DEF require_permission, Goto, MInv, MembersTypeOK
<1> QED
  BY <1>1, <1>4, <1>5, ReadersKeep, OthersStay DEF MInv

LEMMA ExistingKeeps ==
  ASSUME MInv, NEW q \in Requests, select_existing(q)
  PROVE  MInv'
<1>1. UNCHANGED <<created_by, members, audit>> /\ \A p \in Requests : pc[p] = "done" => pc'[p] = "done"
  BY DEF select_existing, Goto, MInv, MembersTypeOK
<1>2. MembersTypeOK'
  BY DEF select_existing, Goto, MInv, MembersTypeOK, Final
<1>3. Permitted(q)' /\ Writing(q)'
  <2>1. pc'[q] \in {"adding", "refused"} /\ UNCHANGED <<call, seen>> /\ pc[q] = "permitted"
        /\ call[q].op = "add_member"
    BY DEF select_existing, Goto, MInv, MembersTypeOK
  <2>2. Permitted(q)
    BY DEF MInv
  <2> QED
    BY <1>1, <2>1, <2>2 DEF Permitted, Writing, Known, Present
<1>4. \A p \in Requests \ {q} : call'[p] = call[p] /\ pc'[p] = pc[p] /\ seen'[p] = seen[p]
  BY DEF select_existing, Goto, MInv, MembersTypeOK
<1> QED
  BY <1>1, <1>2, <1>3, <1>4, ReadersKeep, OthersStay DEF MInv

LEMMA TargetKeeps ==
  ASSUME MInv, NEW q \in Requests, get_target_member(q)
  PROVE  MInv'
<1> DEFINE c == call[q]
           role == IF c.subject = seen[q].self THEN seen[q].actor ELSE members[c.subject].role
<1>1. UNCHANGED <<created_by, members, audit>> /\ \A p \in Requests : pc[p] = "done" => pc'[p] = "done"
  BY DEF get_target_member, Goto, MInv, MembersTypeOK
<1>2. Permitted(q) /\ pc[q] = "permitted" /\ c.op # "add_member"
  BY DEF get_target_member, MInv
<1>3. /\ c \in Offered /\ c.op \in {"update_member_role", "remove_member"}
      /\ c.subject \in Rows /\ (c.op = "update_member_role" => c.role \in Role)
  BY <1>2, MembersAssumption DEF Permitted, Call
<1>4. ASSUME c.subject \in Of(c.organization)
      PROVE  MembersTypeOK' /\ Permitted(q)' /\ Writing(q)'
  <2>1. /\ c.subject \in Present /\ members[c.subject] \in Member
        /\ members[c.subject].organization = c.organization /\ role \in Role
    BY <1>2, <1>4 DEF Of, Present, MInv, MembersTypeOK, Permitted, Member
  <2>2. Known(c.subject)
    BY <2>1 DEF MInv, Fresh, Known, Present
  <2>3. /\ seen' = [seen EXCEPT ![q].target = role] /\ UNCHANGED call
        /\ pc' = [pc EXCEPT ![q] = "writing"] \/ pc' = [pc EXCEPT ![q] = "refused"]
        /\ pc'[q] = "writing" => /\ can_manage_role(seen[q].actor, role)
                                 /\ c.op = "update_member_role" => can_manage_role(seen[q].actor, c.role)
    BY <1>3, <1>4 DEF get_target_member, Goto, MInv, MembersTypeOK
  <2>4. seen'[q] = [self |-> seen[q].self, actor |-> seen[q].actor, target |-> role]
        /\ pc'[q] \in {"writing", "refused"}
    BY <2>3 DEF MInv, MembersTypeOK, Seen
  <2>5. MembersTypeOK'
    <3>1. seen'[q] \in Seen
      BY <1>2, <2>1, <2>4 DEF MInv, MembersTypeOK, Seen
    <3> QED
      BY <1>1, <2>3, <3>1 DEF MInv, MembersTypeOK, Final
  <2>6. can_manage_role(seen[q].actor, role) => members[c.subject].role # "OWNER"
    BY <1>2, <2>1 DEF Permitted, can_manage_role
  <2>7. Permitted(q)'
    BY <1>1, <1>2, <1>3, <2>3, <2>4 DEF Permitted, Known, Present
  <2>8. Writing(q)'
    BY <1>1, <1>2, <1>3, <2>1, <2>2, <2>3, <2>4, <2>6 DEF Writing, Known, Present
  <2> QED
    BY <2>5, <2>7, <2>8
<1>5. ASSUME c.subject \notin Of(c.organization)
      PROVE  MembersTypeOK' /\ Permitted(q)' /\ Writing(q)'
  <2>1. pc' = [pc EXCEPT ![q] = "refused"] /\ UNCHANGED <<call, seen>>
    BY <1>5 DEF get_target_member, Goto
  <2>2. MembersTypeOK'
    BY <1>1, <2>1 DEF MInv, MembersTypeOK, Final
  <2> QED
    BY <1>1, <1>2, <2>1, <2>2 DEF MInv, MembersTypeOK, Permitted, Writing
<1>6. \A p \in Requests \ {q} : call'[p] = call[p] /\ pc'[p] = pc[p] /\ seen'[p] = seen[p]
  BY DEF get_target_member, Goto, MInv, MembersTypeOK
<1>7. MembersTypeOK' /\ Permitted(q)' /\ Writing(q)'
  BY <1>4, <1>5
<1> QED
  BY <1>1, <1>6, <1>7, ReadersKeep, OthersStay DEF MInv

\* A new row, of an organization of which its user is no member yet.
LEMMA InsertKeeps ==
  ASSUME MInv, NEW q \in Requests, NEW o \in Organizations, NEW u \in Users, NEW r \in Role,
         NEW by \in Users,
         pc[q] \notin {"done", "idle"}, pc' = [pc EXCEPT ![q] = "done"],
         members' = [members EXCEPT ![q] = NewMember(o, u, r, by)],
         Membership(o, u) = {}, created_by'[o] # None,
         created_by' \in [Organizations -> Users \cup {None}],
         \A p \in Organizations : created_by[p] # None => created_by'[p] = created_by[p],
         \A p \in Organizations : created_by[p] = None /\ created_by'[p] # None =>
           p = o /\ u = created_by'[o] /\ r = "OWNER",
         r = "OWNER" => u = created_by'[o],
         r = "ADMIN" => by = created_by'[o],
         UNCHANGED <<audit, call, seen>>
  PROVE  MInv'
<1>1. NewMember(o, u, r, by) \in Member /\ NewMember(o, u, r, by) # None
  BY NoMemberAssumption DEF NewMember, Member
<1>2. /\ q \in Rows /\ q \notin Present /\ \A i \in DOMAIN audit : audit[i].member # q
      /\ members \in [Rows -> Member \cup {None}]
  BY DEF MInv, Fresh, Rows, MembersTypeOK
<1>3. /\ Present' = Present \cup {q} /\ \A m \in Present : members'[m] = members[m]
      /\ members'[q] = NewMember(o, u, r, by)
  BY <1>1, <1>2 DEF Present
<1>4. /\ members'[q].organization = o /\ members'[q].user = u /\ members'[q].role = r
      /\ members'[q].given = r /\ members'[q].by = by
  BY <1>3 DEF NewMember
<1>5. MembersTypeOK'
  BY <1>1, <1>2 DEF MInv, MembersTypeOK, Final
<1>6. \A p \in Requests : pc'[p] # "done" => p # q /\ pc[p] # "done"
  BY DEF MInv, MembersTypeOK
<1>7. Founding'
  BY <1>3, <1>4 DEF MInv, Founding, MembersTypeOK, Member, Present
<1>8. Fresh'
  BY <1>3, <1>6 DEF MInv, Fresh
<1>9. Evolves
  BY <1>2, <1>3, <1>6 DEF Evolves
<1>10. \A p \in Requests : Permitted(p)' /\ Writing(p)'
  <2>1. \A p \in Requests \ {q} : call'[p] = call[p] /\ pc'[p] = pc[p] /\ seen'[p] = seen[p]
    BY DEF MInv, MembersTypeOK
  <2>2. Permitted(q)' /\ Writing(q)'
    BY DEF Permitted, Writing, MInv, MembersTypeOK
  <2> QED
    BY <1>9, <2>1, <2>2, OthersStay
<1>11. OneOwner'
  <2>1. SUFFICES ASSUME NEW p \in Organizations
                 PROVE  /\ created_by'[p] # None =>
                             \E m \in Membership(p, created_by[p])' : members'[m].role = "OWNER"
                        /\ \A m \in Of(p)' : members'[m].role = "OWNER" => members'[m].user = created_by'[p]
                        /\ \A m, n \in Of(p)' : members'[m].user = members'[n].user => m = n
    BY DEF OneOwner
  <2>2. /\ created_by[p] # None => \E m \in Membership(p, created_by[p]) : members[m].role = "OWNER"
        /\ \A m \in Of(p) : members[m].role = "OWNER" => members[m].user = created_by[p]
        /\ \A m, n \in Of(p) : members[m].user = members[n].user => m = n
    BY DEF MInv, OneOwner
  <2>3. /\ \A m \in Of(p)' : (m = q /\ p = o) \/ (m \in Of(p) /\ members'[m] = members[m])
        /\ \A m \in Of(p) : m \in Of(p)' /\ members'[m] = members[m]
        /\ p = o => q \in Of(p)'
    BY <1>3, <1>4 DEF Of
  <2>4. \A m \in Of(o) : members[m].user # u
    BY DEF Membership
  <2>5. \A m \in Of(p) : created_by[p] # None
    BY DEF MInv, Founding, Of
  <2>6. \A m \in Of(p)' : members'[m].role = "OWNER" => members'[m].user = created_by'[p]
    BY <1>4, <2>2, <2>3, <2>5
  <2>7. \A m, n \in Of(p)' : members'[m].user = members'[n].user => m = n
    BY <1>4, <2>2, <2>3, <2>4
  <2>8. ASSUME created_by'[p] # None
        PROVE  \E m \in Membership(p, created_by[p])' : members'[m].role = "OWNER"
    <3>1. CASE created_by[p] # None
      BY <2>2, <2>3, <3>1 DEF Membership
    <3>2. CASE created_by[p] = None
      BY <1>4, <2>3, <2>8, <3>2 DEF Membership
    <3> QED
      BY <3>1, <3>2
  <2> QED
    BY <2>6, <2>7, <2>8
<1>12. AdminsComeFromOwner'
  BY <1>3, <1>4 DEF MInv, AdminsComeFromOwner, Founding, MembersTypeOK, Member, Present
<1>13. AuditAccountsForRoles'
  BY <1>2, <1>3, <1>4 DEF MInv, AuditAccountsForRoles
<1> QED
  BY <1>5, <1>7, <1>8, <1>10, <1>11, <1>12, <1>13 DEF MInv

\* A request that ends without writing.
LEMMA RefusalKeeps ==
  ASSUME MInv, NEW q \in Requests, NEW label \in {"refused", "failed"}, pc[q] \notin {"idle", "done"},
         Goto(q, label), UNCHANGED <<created_by, members, audit, call, seen>>
  PROVE  MInv'
<1>1. \A p \in Requests : pc[p] = "done" => pc'[p] = "done"
  BY DEF Goto, MInv, MembersTypeOK
<1>2. MembersTypeOK'
  BY DEF Goto, MInv, MembersTypeOK, Final
<1>3. Permitted(q)' /\ Writing(q)'
  BY DEF Goto, MInv, MembersTypeOK, Permitted, Writing
<1>4. \A p \in Requests \ {q} : call'[p] = call[p] /\ pc'[p] = pc[p] /\ seen'[p] = seen[p]
  BY DEF Goto, MInv, MembersTypeOK
<1> QED
  BY <1>1, <1>2, <1>3, <1>4, ReadersKeep, OthersStay DEF MInv

LEMMA CreationKeeps ==
  ASSUME MInv, NEW q \in Requests, create_organization(q)
  PROVE  MInv'
<1> DEFINE o == call[q].organization
           u == call[q].user
<1>1. pc[q] = "sent" /\ o \in Organizations /\ u \in Users
  BY MembersAssumption DEF create_organization, MInv, Permitted, Call
<1>2. CASE created_by[o] = None
  <2>1. Membership(o, u) = {}
    BY <1>2 DEF MInv, Founding, Membership, Of
  <2>2. /\ created_by' = [created_by EXCEPT ![o] = u] /\ UNCHANGED <<audit, call, seen>>
        /\ members' = [members EXCEPT ![q] = NewMember(o, u, "OWNER", u)]
        /\ pc' = [pc EXCEPT ![q] = "done"]
    BY <1>2 DEF create_organization, Goto
  <2>3. /\ created_by' \in [Organizations -> Users \cup {None}]
        /\ created_by'[o] = u /\ u # None
        /\ \A p \in Organizations : p # o => created_by'[p] = created_by[p]
    BY <1>1, <2>2, MembersAssumption DEF MInv, MembersTypeOK
  <2>4. "OWNER" \in Role
    BY DEF Role
  <2> QED
    BY <1>1, <1>2, <2>1, <2>2, <2>3, <2>4, InsertKeeps
<1>3. CASE created_by[o] # None
  BY <1>1, <1>3, RefusalKeeps DEF create_organization
<1> QED
  BY <1>2, <1>3

LEMMA AddKeeps ==
  ASSUME MInv, NEW q \in Requests, add_member(q)
  PROVE  MInv'
<1> DEFINE c == call[q]
<1>1. /\ pc[q] = "adding" /\ c \in Offered /\ c.op = "add_member" /\ Permitted(q)
      /\ can_manage_role(seen[q].actor, c.role) /\ created_by[c.organization] # None
  BY DEF add_member, MInv, Permitted
<1>2. /\ c.organization \in Organizations /\ c.user \in Users /\ c.subject \in Users /\ c.role \in Role
  BY <1>1, MembersAssumption DEF Call
<1>3. CASE Membership(c.organization, c.subject) = {}
  <2>1. c.role # "OWNER" /\ (c.role = "ADMIN" => c.user = created_by[c.organization])
    BY <1>1 DEF Permitted, can_manage_role
  <2>2. /\ members' = [members EXCEPT ![q] = NewMember(c.organization, c.subject, c.role, c.user)]
        /\ pc' = [pc EXCEPT ![q] = "done"] /\ UNCHANGED <<created_by, audit, call, seen>>
    BY <1>3 DEF add_member, Goto
  <2>3. created_by \in [Organizations -> Users \cup {None}]
    BY DEF MInv, MembersTypeOK
  <2> QED
    BY <1>1, <1>2, <1>3, <2>1, <2>2, <2>3, InsertKeeps
<1>4. CASE Membership(c.organization, c.subject) # {}
  BY <1>1, <1>4, RefusalKeeps DEF add_member
<1> QED
  BY <1>3, <1>4

LEMMA UpdateKeeps ==
  ASSUME MInv, NEW q \in Requests, update_member_role(q)
  PROVE  MInv'
<1> DEFINE c == call[q]
           entry == [member |-> c.subject, previous_role |-> seen[q].target,
                     new_role |-> c.role, actor |-> c.user]
           changes == c.role # seen[q].target
<1>1. /\ pc[q] = "writing" /\ c \in Offered /\ c.op = "update_member_role"
      /\ Permitted(q) /\ Writing(q)
  BY DEF update_member_role, MInv, Permitted
<1>2. /\ Known(c.subject) /\ seen[q].target \in Role /\ can_manage_role(seen[q].actor, c.role)
      /\ c.subject \in Present =>
           members[c.subject].organization = c.organization /\ members[c.subject].role # "OWNER"
  BY <1>1 DEF Writing
<1>3. c.organization \in Organizations /\ c.user \in Users /\ c.role \in Role /\ c.subject \in Rows
  BY <1>1, <1>2, MembersAssumption DEF Call, Known
<1>4. c.role # "OWNER" /\ (c.role = "ADMIN" => c.user = created_by[c.organization])
  BY <1>1, <1>2 DEF Permitted, can_manage_role
<1>5. CASE changes /\ c.subject \notin Present
  BY <1>1, <1>5, RefusalKeeps DEF update_member_role
<1>6. ASSUME ~(changes /\ c.subject \notin Present) PROVE MInv'
  <2>1. /\ members' = IF changes
                      THEN [members EXCEPT ![c.subject].role = c.role, ![c.subject].by = c.user]
                      ELSE members
        /\ audit' = Append(audit, entry) /\ pc' = [pc EXCEPT ![q] = "done"]
        /\ UNCHANGED <<created_by, call, seen>>
    BY <1>6 DEF update_member_role, Goto
  <2>2. /\ members \in [Rows -> Member \cup {None}] /\ audit \in Seq(RoleChange)
        /\ entry \in RoleChange
    BY <1>2, <1>3 DEF MInv, MembersTypeOK, RoleChange
  <2>3. \A m \in Rows : m # c.subject => members'[m] = members[m]
    BY <2>1, <2>2
  <2>4. ASSUME c.subject \in Present
        PROVE  /\ members'[c.subject] \in Member /\ members'[c.subject] # None
               /\ members'[c.subject].organization = members[c.subject].organization
               /\ members'[c.subject].user = members[c.subject].user
               /\ members'[c.subject].given = members[c.subject].given
               /\ members'[c.subject].role = IF changes THEN c.role ELSE members[c.subject].role
               /\ members'[c.subject].by = IF changes THEN c.user ELSE members[c.subject].by
    <3>1. members[c.subject] \in Member
      BY <2>2, <2>4 DEF Present
    <3>2. CASE changes
      <4>1. members'[c.subject] = [members[c.subject] EXCEPT !.role = c.role, !.by = c.user]
        BY <1>3, <2>1, <2>2, <3>2
      <4>2. members'[c.subject] \in Member
        BY <1>3, <3>1, <4>1 DEF Member
      <4> QED
        BY <3>1, <3>2, <4>1, <4>2, NoMemberAssumption DEF Member
    <3>3. CASE ~changes
      BY <2>1, <3>1, <3>3, NoMemberAssumption
    <3> QED
      BY <3>2, <3>3
  <2>5. c.subject \notin Present => members'[c.subject] = None
    BY <1>3, <1>6, <2>1 DEF Present
  <2>6. Present' = Present
    BY <1>3, <2>3, <2>4, <2>5 DEF Present
  <2>7. ASSUME NEW m \in Present
        PROVE  /\ members[m] \in Member /\ members'[m] \in Member
               /\ members'[m].organization = members[m].organization
               /\ members'[m].user = members[m].user
               /\ members'[m].role = "OWNER" <=> members[m].role = "OWNER"
    BY <1>2, <1>4, <2>2, <2>3, <2>4 DEF Present
  <2>a. /\ UNCHANGED <<created_by, call, seen>> /\ pc' = [pc EXCEPT ![q] = "done"]
        /\ \A p \in Requests : pc[p] = "done" => pc'[p] = "done"
    BY <2>1 DEF MInv, MembersTypeOK
  <2>8. MembersTypeOK'
    <3>1. members' \in [Rows -> Member \cup {None}]
      <4>1. members' \in [Rows -> {members'[m] : m \in Rows}]
        BY <2>1, <2>2
      <4>2. ASSUME NEW m \in Rows PROVE members'[m] \in Member \cup {None}
        <5>1. CASE m \in Present
          BY <2>7, <5>1
        <5>2. CASE m \notin Present
          BY <2>6, <5>2 DEF Present
        <5> QED
          BY <5>1, <5>2
      <4> QED
        BY <4>1, <4>2
    <3>2. audit' \in Seq(RoleChange)
      BY <2>1, <2>2
    <3> QED
      BY <2>1, <3>1, <3>2 DEF MInv, MembersTypeOK, Final
  <2>9. Evolves
    BY <2>a, <2>6, <2>7 DEF Evolves
  <2>10. Founding'
    BY <2>a, <2>6, <2>7 DEF MInv, Founding
  <2>11. /\ DOMAIN audit' = 1..(Len(audit) + 1) /\ DOMAIN audit = 1..Len(audit) /\ Len(audit) \in Nat
         /\ \A i \in DOMAIN audit : audit'[i] = audit[i]
         /\ audit'[Len(audit) + 1] = entry
    BY <2>1, <2>2
  <2>12. Fresh'
    BY <1>2, <2>1, <2>6, <2>11 DEF MInv, Fresh, Known, MembersTypeOK
  <2>13. \A p \in Requests : Permitted(p)' /\ Writing(p)'
    <3>1. \A p \in Requests \ {q} : call'[p] = call[p] /\ pc'[p] = pc[p] /\ seen'[p] = seen[p]
      BY <2>1 DEF MInv, MembersTypeOK
    <3>2. Permitted(q)' /\ Writing(q)'
      BY <1>1, <2>1 DEF Permitted, Writing, MInv, MembersTypeOK
    <3> QED
      BY <2>9, <3>1, <3>2, OthersStay
  <2>14. OneOwner'
    <3>1. \A o \in Organizations : Of(o)' = Of(o) /\ Of(o) \subseteq Present
      BY <2>6, <2>7 DEF Of
    <3>2. \A o \in Organizations : Membership(o, created_by[o])' = Membership(o, created_by[o])
      BY <2>a, <2>7, <3>1 DEF Membership
    <3> QED
      BY <2>a, <2>7, <3>1, <3>2 DEF MInv, OneOwner, Membership
  <2>15. AdminsComeFromOwner'
    BY <1>2, <1>3, <1>4, <2>1, <2>3, <2>4, <2>6 DEF MInv, AdminsComeFromOwner, Present
  <2>16. AuditAccountsForRoles'
    <3>1. SUFFICES ASSUME NEW m \in Present'
          PROVE  LET Changes == {i \in DOMAIN audit' :
                       audit'[i].member = m /\ audit'[i].previous_role # audit'[i].new_role} IN
                 /\ Changes = {} => members'[m].role = members'[m].given
                 /\ \A i \in Changes : (\A j \in Changes : j <= i) =>
                      members'[m].role = audit'[i].new_role /\ members'[m].by = audit'[i].actor
      BY DEF AuditAccountsForRoles
    <3> DEFINE Old == {i \in DOMAIN audit :
                         audit[i].member = m /\ audit[i].previous_role # audit[i].new_role}
               New == {i \in DOMAIN audit' :
                         audit'[i].member = m /\ audit'[i].previous_role # audit'[i].new_role}
    <3>2. /\ m \in Present /\ (Old = {} => members[m].role = members[m].given)
          /\ \A i \in Old : (\A j \in Old : j <= i) =>
               members[m].role = audit[i].new_role /\ members[m].by = audit[i].actor
      BY <2>6 DEF MInv, AuditAccountsForRoles
    <3>3. CASE m = c.subject /\ changes
      <4>1. Len(audit) + 1 \in New
        BY <2>11, <3>3
      <4>2. \A i \in New : (\A j \in New : j <= i) => i = Len(audit) + 1
        BY <2>11, <4>1
      <4> QED
        BY <2>4, <2>11, <3>2, <3>3, <4>1, <4>2
    <3>4. CASE ~(m = c.subject /\ changes)
      <4>1. New = Old
        BY <2>11, <3>4
      <4>2. members'[m] = members[m]
        BY <2>1, <2>3, <3>2, <3>4 DEF Present
      <4> QED
        BY <2>11, <3>2, <4>1, <4>2
    <3> QED
      BY <3>3, <3>4
  <2> QED
    BY <2>8, <2>10, <2>12, <2>13, <2>14, <2>15, <2>16 DEF MInv
<1> QED
  BY <1>5, <1>6

LEMMA RemovalKeeps ==
  ASSUME MInv, NEW q \in Requests, remove_member(q)
  PROVE  MInv'
<1> DEFINE gone == call[q].subject
<1>1. /\ pc[q] = "writing" /\ Writing(q) /\ UNCHANGED <<created_by, audit, call, seen>>
      /\ members' = [members EXCEPT ![gone] = None] /\ pc' = [pc EXCEPT ![q] = "done"]
  BY DEF remove_member, Goto, MInv
<1>2. gone \in Rows /\ (gone \in Present => members[gone].role # "OWNER")
  BY <1>1 DEF Writing, Known
<1>3. members \in [Rows -> Member \cup {None}]
  BY DEF MInv, MembersTypeOK
<1>4. Present' = Present \ {gone} /\ \A m \in Present' : members'[m] = members[m]
  BY <1>1, <1>2, <1>3 DEF Present
<1>5. MembersTypeOK'
  BY <1>1, <1>3 DEF MInv, MembersTypeOK, Final
<1>6. Evolves
  BY <1>1, <1>4 DEF Evolves, MInv, MembersTypeOK
<1>7. Founding' /\ Fresh'
  BY <1>1, <1>4 DEF MInv, Founding, Fresh, MembersTypeOK
<1>8. \A p \in Requests : Permitted(p)' /\ Writing(p)'
  <2>1. \A p \in Requests \ {q} : call'[p] = call[p] /\ pc'[p] = pc[p] /\ seen'[p] = seen[p]
    BY <1>1 DEF MInv, MembersTypeOK
  <2>2. Permitted(q)' /\ Writing(q)'
    BY <1>1 DEF Permitted, Writing, MInv, MembersTypeOK
  <2> QED
    BY <1>6, <2>1, <2>2, OthersStay
<1>9. OneOwner'
  <2>1. \A o \in Organizations : \A m : m \in Of(o)' <=> m \in Of(o) /\ m # gone
    BY <1>4 DEF Of
  <2> QED
    BY <1>1, <1>2, <1>4, <2>1 DEF MInv, OneOwner, Membership, Of
<1>10. AdminsComeFromOwner' /\ AuditAccountsForRoles'
  BY <1>1, <1>4 DEF MInv, AdminsComeFromOwner, AuditAccountsForRoles
<1> QED
  BY <1>5, <1>7, <1>8, <1>9, <1>10 DEF MInv

\* The invariant of the handlers: roles that were read before a write may be stale,
\* but not in the respects the write relies on (members.py, organizations.py).
THEOREM MembersInvariance == MembersSpec => []MInv
<1>1. MInv /\ [MembersNext]_memberVars => MInv'
  <2>1. SUFFICES ASSUME MInv, [MembersNext]_memberVars PROVE MInv'
    OBVIOUS
  <2>2. CASE UNCHANGED memberVars
    BY <2>1, <2>2 DEF memberVars, MInv, MembersTypeOK, Founding, Fresh, Permitted, Writing, Known,
       OneOwner, AdminsComeFromOwner, AuditAccountsForRoles, Membership, Of, Present
  <2>3. ASSUME NEW q \in Requests, Send(q) \/ Handle(q) PROVE MInv'
    BY <2>1, <2>3, SendKeeps, CreationKeeps, PermissionKeeps, ExistingKeeps, AddKeeps,
       TargetKeeps, UpdateKeeps, RemovalKeeps DEF Handle
  <2> QED
    BY <2>1, <2>2, <2>3 DEF MembersNext
<1> QED
  BY <1>1, InitHolds, PTL DEF MembersSpec
=============================================================================
