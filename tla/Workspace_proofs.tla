-------------------------- MODULE Workspace_proofs --------------------------
(***************************************************************************)
(* Proofs about Workspace: it leaves the members to Members, and an        *)
(* inductive invariant of its own handlers.  A handler has read a row that *)
(* may since have been revoked, disabled or deleted; what it relies on is  *)
(* what no statement changes: the organization of a row, the service of a  *)
(* key, who owns an organization, and that a row once gone never returns.  *)
(***************************************************************************)
EXTENDS Workspace, Members_proofs

KeyOps == {"revoke_api_key", "rotate_api_key"}
ServiceOps == {"update_service", "delete_service", "create_service_api_key"}
OwnersOps == {"create_service_api_key", "revoke_api_key", "rotate_api_key"}

\* A row that is or was in a table: nothing is inserted under its name again.
Settled(r) == r \in Things /\ (r \in Jobs => stage[r] = "done")

Unborn ==
  \A j \in Jobs : stage[j] # "done" =>
    /\ services[j] = None /\ keys[j] = None /\ events[j] = None
    /\ \A e \in log : e.job # j /\ e.key # j /\ e.previous # j

ServicesFounded == \A s \in Things : Exists(services, s) => created_by[services[s].organization] # None

\* What is known of the row that a handler has read.
Located(j) ==
  LET c == job[j] IN
  /\ stage[j] # "idle" => c \in Ordered
  /\ stage[j] = "rotating" => c.op = "rotate_api_key"
  /\ stage[j] \in {"located", "allowed", "rotating"} => c.op # "ingest_event"
  /\ stage[j] \in {"located", "allowed", "rotating"} /\ c.op \in ServiceOps =>
       /\ row[j] \in Service /\ Settled(c.target) /\ created_by[row[j].organization] # None
       /\ Exists(services, c.target) => services[c.target].organization = row[j].organization
  /\ stage[j] \in {"located", "allowed", "rotating"} /\ c.op \in KeyOps =>
       /\ row[j] \in Key /\ Settled(c.target) /\ created_by[row[j].organization] # None
       /\ Exists(keys, c.target) =>
            /\ keys[c.target].organization = row[j].organization
            /\ keys[c.target].service = row[j].service
  /\ stage[j] = "located" => c.op # "create_service"
  /\ stage[j] = "allowed" /\ c.op = "create_service" => created_by[c.organization] # None
  /\ stage[j] \in {"allowed", "rotating"} /\ c.op \in OwnersOps =>
       c.user = created_by[row[j].organization]

\* What is known of the key that a delivery came with, and that its service was found.
Delivering(j) ==
  LET c == job[j] IN
  /\ stage[j] \in {"authenticating", "storing"} => c.op = "ingest_event"
  /\ stage[j] \in {"authenticating", "storing", "done"} /\ c.op = "ingest_event" =>
       /\ row[j] \in Key /\ Settled(c.target)
       /\ Exists(keys, c.target) => keys[c.target].service = row[j].service
       /\ c.target \in barred[j].keys => row[j].revoked
       /\ stage[j] # "authenticating" =>
            ~row[j].revoked /\ row[j].service \notin barred[j].services

\* What was dead when a job was sent is dead or gone; a service, unless it has been
\* enabled since.
StillBarred ==
  \A j \in Jobs :
    /\ \A k \in barred[j].keys : Settled(k) /\ (Exists(keys, k) => keys[k].revoked)
    /\ \A s \in barred[j].services :
         Settled(s) /\ (Exists(services, s) => services[s].status = "disabled")

WTypes ==
  /\ services \in [Things -> Service \cup {None}]
  /\ keys \in [Things -> Key \cup {None}]
  /\ events \in [Jobs -> Event \cup {None}]
  /\ log \subseteq Entry
  /\ expired \subseteq Things
  /\ job \in [Jobs -> Ordered \cup {NoJob}]
  /\ stage \in [Jobs -> {"idle", "sent", "located", "allowed", "rotating",
                         "authenticating", "storing"} \cup Final]
  /\ row \in [Jobs -> Service \cup Key \cup {None}]
  /\ barred \in [Jobs -> Barred]

WInv ==
  /\ WTypes
  /\ Unborn /\ ServicesFounded /\ StillBarred
  /\ \A j \in Jobs : Located(j) /\ Delivering(j)
  /\ KeysComeFromOwner /\ AuditAccountsForKeys /\ NothingOutlivesService

-----------------------------------------------------------------------------
(* What every step leaves alone. *)

FoundersStay == \A o \in Organizations : created_by[o] # None => created_by'[o] = created_by[o]

\* A row that is there is as it was in what handlers rely on, or it is new.
RowsStay ==
  /\ \A s \in Things : Exists(services', s) =>
       \/ Exists(services, s) /\ services'[s].organization = services[s].organization
       \/ s \in Jobs /\ stage[s] # "done"
  /\ \A k \in Things : Exists(keys', k) =>
       \/ /\ Exists(keys, k)
          /\ keys'[k].organization = keys[k].organization
          /\ keys'[k].service = keys[k].service
          /\ keys[k].revoked => keys'[k].revoked
       \/ k \in Jobs /\ stage[k] # "done"
  /\ \A j \in Jobs : stage[j] = "done" => stage'[j] = "done"

\* What is known of a job stays true while others act.
LEMMA OtherJobsStay ==
  ASSUME WInv, FoundersStay, RowsStay, NEW i \in Jobs,
         job'[i] = job[i], stage'[i] = stage[i], row'[i] = row[i],
         barred'[i].keys = barred[i].keys, barred'[i].services \subseteq barred[i].services
  PROVE  Located(i)' /\ Delivering(i)'
<1> DEFINE c == job[i]
<1>1. Located(i) /\ Delivering(i)
  BY DEF WInv
<1>2. \A r : Settled(r) => Settled(r)'
  BY DEF RowsStay, Settled
<1>3. \A s : Settled(s) /\ Exists(services', s) =>
        Exists(services, s) /\ services'[s].organization = services[s].organization
  BY DEF RowsStay, Settled
<1>4. \A k : Settled(k) /\ Exists(keys', k) =>
        /\ Exists(keys, k) /\ keys'[k].organization = keys[k].organization
        /\ keys'[k].service = keys[k].service
  BY DEF RowsStay, Settled
<1>5. /\ row[i] \in Service \cup Key => row[i].organization \in Organizations
      /\ stage[i] # "idle" /\ c.op = "create_service" => c.organization \in Organizations
  BY <1>1, WorkspaceAssumption DEF Located, Service, Key, JobCall
<1>6. Located(i)'
  <2>1. ASSUME row[i] \in Service \cup Key, created_by[row[i].organization] # None
        PROVE  created_by'[row[i].organization] = created_by[row[i].organization]
    BY <1>5, <2>1 DEF FoundersStay
  <2>2. ASSUME stage[i] \in {"located", "allowed", "rotating"}, c.op \in ServiceOps
        PROVE  /\ row[i] \in Service /\ Settled(c.target)' /\ created_by'[row[i].organization] # None
               /\ Exists(services', c.target) => services'[c.target].organization = row[i].organization
               /\ created_by'[row[i].organization] = created_by[row[i].organization]
    BY <1>1, <1>2, <1>3, <2>1, <2>2 DEF Located
  <2>3. ASSUME stage[i] \in {"located", "allowed", "rotating"}, c.op \in KeyOps
        PROVE  /\ row[i] \in Key /\ Settled(c.target)' /\ created_by'[row[i].organization] # None
               /\ Exists(keys', c.target) =>
                    /\ keys'[c.target].organization = row[i].organization
                    /\ keys'[c.target].service = row[i].service
               /\ created_by'[row[i].organization] = created_by[row[i].organization]
    BY <1>1, <1>2, <1>4, <2>1, <2>3 DEF Located
  <2>4. ASSUME stage[i] = "allowed", c.op = "create_service"
        PROVE  created_by'[c.organization] # None
    BY <1>1, <1>5, <2>4 DEF Located, FoundersStay
  <2>5. OwnersOps \subseteq ServiceOps \cup KeyOps
    BY DEF OwnersOps, ServiceOps, KeyOps
  <2> QED
    BY <1>1, <2>2, <2>3, <2>4, <2>5 DEF Located
<1>7. Delivering(i)'
  BY <1>1, <1>2, <1>4 DEF Delivering, Exists
<1> QED
  BY <1>6, <1>7

\* A step that only reads keeps all that is said of the tables.
LEMMA JobReadersKeep ==
  ASSUME WInv, UNCHANGED <<created_by, services, keys, events, log>>,
         \A j \in Jobs : stage[j] = "done" => stage'[j] = "done"
  PROVE  /\ FoundersStay /\ RowsStay /\ Unborn' /\ ServicesFounded'
         /\ KeysComeFromOwner' /\ AuditAccountsForKeys' /\ NothingOutlivesService'
         /\ barred' = barred => StillBarred'
<1>1. FoundersStay /\ RowsStay
  BY DEF FoundersStay, RowsStay, Exists
<1>2. Unborn' /\ ServicesFounded'
  BY DEF WInv, Unborn, ServicesFounded, Exists
<1>3. KeysComeFromOwner' /\ NothingOutlivesService'
  BY DEF WInv, KeysComeFromOwner, NothingOutlivesService, Exists
<1>4. AuditAccountsForKeys'
  <2>1. \A e \in log : e.job \in Jobs
    BY DEF WInv, WTypes, Entry
  <2> QED
    BY <2>1 DEF WInv, AuditAccountsForKeys, Exists
<1>5. barred' = barred => StillBarred'
  BY DEF WInv, StillBarred, Settled, Exists
<1> QED
  BY <1>1, <1>2, <1>3, <1>4, <1>5

\* So does a job that moves on without writing.
LEMMA JobMoves ==
  ASSUME WInv, NEW j \in Jobs, stage[j] # "done", NEW label, Become(j, label),
         label \in {"located", "allowed", "rotating", "authenticating", "storing", "done", "refused", "failed"},
         UNCHANGED <<memberVars, services, keys, events, log, expired, job, barred>>,
         row' \in [Jobs -> Service \cup Key \cup {None}],
         \A i \in Jobs : i # j => row'[i] = row[i],
         Located(j)' /\ Delivering(j)'
  PROVE  WInv'
<1>1. /\ UNCHANGED <<created_by, services, keys, events, log>>
      /\ \A i \in Jobs : stage[i] = "done" => stage'[i] = "done"
  BY DEF Become, memberVars, WInv, WTypes
<1>2. WTypes'
  BY DEF Become, WInv, WTypes, Final
<1>3. \A i \in Jobs : i # j => /\ job'[i] = job[i] /\ stage'[i] = stage[i] /\ row'[i] = row[i]
                               /\ barred'[i] = barred[i]
  BY DEF Become, WInv, WTypes
<1>4. \A i \in Jobs : Located(i)' /\ Delivering(i)'
  BY <1>1, <1>3, JobReadersKeep, OtherJobsStay
<1> QED
  BY <1>1, <1>2, <1>4, JobReadersKeep DEF WInv

\* A job that is refused or fails.
LEMMA JobRefused ==
  ASSUME WInv, NEW j \in Jobs, stage[j] # "done", NEW label \in {"refused", "failed"}, Become(j, label),
         UNCHANGED <<memberVars, services, keys, events, log, expired, job, barred, row>>,
         stage[j] # "idle"
  PROVE  WInv'
<1>1. stage'[j] = label /\ job'[j] = job[j] /\ row' \in [Jobs -> Service \cup Key \cup {None}]
  BY DEF Become, WInv, WTypes
<1>2. Located(j)' /\ Delivering(j)'
  BY <1>1 DEF Located, Delivering, WInv
<1> QED
  BY <1>1, <1>2, JobMoves
-----------------------------------------------------------------------------
(* The steps that read. *)

LEMMA WorkInit == Init => MInv /\ WInv
<1> SUFFICES ASSUME Init PROVE MInv /\ WInv
  OBVIOUS
<1> USE WorkspaceAssumption, DeployedAssumption
<1>1. MInv
  BY InitHolds DEF Init
<1>2. \A s \in Services0 : /\ s \in Things /\ Deployed[s] \in Service /\ Founded[Deployed[s].organization] # None
                           /\ Founded[Deployed[s].organization] \in Users
  BY SeatedAssumption DEF Things, Service
<1>3. \A k \in Keys0 : k \in Things /\ Issued[k] \in Services0
  BY DEF Things
<1>4. ASSUME NEW k \in Things
      PROVE  /\ k \in Keys0 => /\ keys[k] \in Key /\ keys[k].service = Issued[k] /\ ~keys[k].revoked
                               /\ keys[k].organization = Deployed[Issued[k]].organization
                               /\ keys[k].by = Founded[Deployed[Issued[k]].organization]
             /\ k \notin Keys0 => keys[k] = None
  <2>1. CASE k \in Keys0
    <3>1. keys[k] = [organization |-> Deployed[Issued[k]].organization, service |-> Issued[k],
                     revoked |-> FALSE, chain |-> k, by |-> Founded[Deployed[Issued[k]].organization]]
      BY <2>1 DEF Init, NewKey
    <3> QED
      BY <1>2, <1>3, <2>1, <3>1 DEF Key, Service
  <2>2. CASE k \notin Keys0
    BY <2>2 DEF Init
  <2> QED
    BY <2>1, <2>2
<1>5. \A s \in Things : IF s \in Services0 THEN services[s] = Deployed[s] ELSE services[s] = None
  BY DEF Init
<1>6. WTypes
  <2>1. services \in [Things -> Service \cup {None}]
    BY <1>2 DEF Init
  <2>2. keys \in [Things -> Key \cup {None}]
    <3>1. keys \in [Things -> {keys[k] : k \in Things}]
      BY DEF Init
    <3> QED
      BY <1>4, <3>1
  <2>3. barred \in [Jobs -> Barred]
    BY DEF Init, Barred, NothingBarred
  <2> QED
    BY <2>1, <2>2, <2>3 DEF Init, WTypes
<1>7. \A j \in Jobs : j \in Things /\ j \notin Keys0 \cup Services0
  BY DEF Things
<1>8. Unborn
  BY <1>4, <1>5, <1>7 DEF Init, Unborn
<1>9. ServicesFounded
  BY <1>2, <1>5 DEF Init, MembersInit, ServicesFounded, Exists
<1>10. StillBarred /\ \A j \in Jobs : Located(j) /\ Delivering(j)
  BY DEF Init, NothingBarred, StillBarred, Located, Delivering
<1>11. KeysComeFromOwner /\ NothingOutlivesService
  <2>1. created_by = Founded /\ events = [j \in Jobs |-> None]
    BY DEF Init, MembersInit
  <2>2. \A s \in Services0 : services[s] = Deployed[s] /\ services[s] # None
    BY <1>2, <1>5, NoThingAssumption
  <2>3. \A k \in Things : Exists(keys, k) => k \in Keys0
    BY <1>4 DEF Exists
  <2> QED
    BY <1>3, <1>4, <2>1, <2>2, <2>3 DEF KeysComeFromOwner, NothingOutlivesService, Exists
<1>12. AuditAccountsForKeys
  <2>1. log = {}
    BY DEF Init
  <2> QED
    BY <1>4, <2>1 DEF AuditAccountsForKeys, Exists
<1> QED
  BY <1>1, <1>6, <1>8, <1>9, <1>10, <1>11, <1>12 DEF WInv

LEMMA OrderKeeps ==
  ASSUME WInv, NEW j \in Jobs, Order(j), UNCHANGED memberVars
  PROVE  WInv'
<1>1. /\ stage[j] = "idle" /\ stage' = [stage EXCEPT ![j] = "sent"]
      /\ UNCHANGED <<created_by, services, keys, events, log, expired, row>>
  BY DEF Order, Become, memberVars
<1>2. \A i \in Jobs : stage[i] = "done" => stage'[i] = "done"
  BY <1>1 DEF WInv, WTypes
<1>3. job' \in [Jobs -> Ordered \cup {NoJob}] /\ job'[j] \in Ordered
  BY DEF Order, WInv, WTypes
<1>4. /\ barred' \in [Jobs -> Barred]
      /\ barred'[j].keys = {k \in Things : Exists(keys, k) /\ keys[k].revoked}
      /\ barred'[j].services = {s \in Things : Exists(services, s) /\ services[s].status = "disabled"}
  BY DEF Order, WInv, WTypes, Barred
<1>5. WTypes'
  BY <1>1, <1>3, <1>4 DEF WInv, WTypes
<1>6. \A i \in Jobs : i # j => /\ job'[i] = job[i] /\ stage'[i] = stage[i] /\ row'[i] = row[i]
                               /\ barred'[i] = barred[i]
  BY DEF Order, Become, WInv, WTypes
<1>7. Located(j)' /\ Delivering(j)'
  BY <1>1, <1>3 DEF Located, Delivering, WInv, WTypes
<1>8. \A i \in Jobs : Located(i)' /\ Delivering(i)'
  BY <1>1, <1>2, <1>6, <1>7, JobReadersKeep, OtherJobsStay
<1>9. StillBarred'
  <2>1. \A r : (Exists(keys, r) \/ Exists(services, r)) /\ r \in Things => Settled(r)'
    BY <1>2 DEF WInv, Unborn, Settled, Exists
  <2>2. \A r : Settled(r) => Settled(r)'
    BY <1>2 DEF Settled
  <2> QED
    BY <1>1, <1>4, <1>6, <2>1, <2>2 DEF WInv, StillBarred, Exists
<1> QED
  BY <1>1, <1>2, <1>5, <1>8, <1>9, JobReadersKeep DEF WInv

LEMMA ExpireKeeps ==
  ASSUME WInv, NEW k \in Things, Expire(k), UNCHANGED memberVars
  PROVE  WInv'
<1>1. UNCHANGED <<created_by, services, keys, events, log, job, stage, row, barred>>
  BY DEF Expire, memberVars
<1>2. keys[k] \in Key
  BY DEF Expire, Exists, WInv, WTypes
<1>3. WTypes'
  BY <1>1, <1>2 DEF Expire, WInv, WTypes, Key
<1>4. \A i \in Jobs : Located(i)' /\ Delivering(i)'
  BY <1>1, JobReadersKeep, OtherJobsStay
<1> QED
  BY <1>1, <1>3, <1>4, JobReadersKeep DEF WInv

LEMMA LocatingKeeps ==
  ASSUME WInv, NEW j \in Jobs, get_tenant_resource(j), UNCHANGED memberVars
  PROVE  WInv'
<1> DEFINE c == job[j]
           table == TableOf(c.op)
           found == Exists(table, c.target) /\ Membership(table[c.target].organization, c.user) # {}
<1>1. /\ stage[j] = "sent" /\ c.op \notin {"create_service", "ingest_event"}
      /\ UNCHANGED <<memberVars, services, keys, events, log, expired, job, barred>>
      /\ IF found THEN row' = Insert(row, j, table[c.target]) /\ Become(j, "located")
                  ELSE Become(j, "refused") /\ UNCHANGED row
  BY DEF get_tenant_resource
<1>2. c \in Ordered /\ c.op \in ServiceOps \cup KeyOps /\ c.target \in Things
  BY <1>1, WorkspaceAssumption DEF WInv, Located, JobCall, ServiceOps, KeyOps, NeededPermission
<1>3. CASE ~found
  BY <1>1, <1>3, JobRefused
<1>4. CASE found
  <2>1. /\ row'[j] = table[c.target] /\ \A i \in Jobs : i # j => row'[i] = row[i]
        /\ Become(j, "located") /\ stage'[j] = "located" /\ table[c.target] # None
    BY <1>1, <1>4 DEF Insert, Become, Exists, WInv, WTypes
  <2>2. Settled(c.target)'
    <3>1. c.target \in Jobs => stage[c.target] = "done"
      BY <2>1 DEF WInv, Unborn, TableOf
    <3> QED
      BY <1>1, <1>2, <2>1, <3>1 DEF Settled, Become, WInv, WTypes
  <2>3. ASSUME c.op \in ServiceOps
        PROVE  /\ table = services /\ row'[j] \in Service
               /\ created_by[row'[j].organization] # None
    <3>1. table = services
      BY <2>3 DEF TableOf, ServiceOps
    <3> QED
      BY <1>2, <2>1, <3>1 DEF WInv, WTypes, ServicesFounded, Exists
  <2>4. ASSUME c.op \in KeyOps
        PROVE  /\ table = keys /\ row'[j] \in Key
               /\ created_by[row'[j].organization] # None
    <3>1. table = keys
      BY <2>4 DEF TableOf, KeyOps
    <3>2. /\ row'[j] \in Key /\ Exists(keys, c.target) /\ row'[j].service \in Things
          /\ Exists(services, row'[j].service)
          /\ services[row'[j].service].organization = row'[j].organization
      BY <1>2, <2>1, <3>1 DEF WInv, WTypes, Key, NothingOutlivesService, KeysComeFromOwner, Exists
    <3> QED
      BY <3>1, <3>2 DEF WInv, ServicesFounded
  <2>5. row' \in [Jobs -> Service \cup Key \cup {None}]
    BY <1>1, <1>2, <1>4, <2>1, <2>3, <2>4 DEF Insert, WInv, WTypes
  <2>6. ServiceOps \cap KeyOps = {}
    BY DEF ServiceOps, KeyOps
  <2>7. Located(j)'
    BY <1>1, <1>2, <2>1, <2>2, <2>3, <2>4, <2>6 DEF Located, memberVars
  <2>8. Delivering(j)'
    BY <1>1, <2>1 DEF Delivering
  <2> QED
    BY <1>1, <2>1, <2>5, <2>7, <2>8, JobMoves
<1> QED
  BY <1>3, <1>4

LEMMA RoleKeeps ==
  ASSUME MInv, WInv, NEW j \in Jobs, check_role(j), UNCHANGED memberVars
  PROVE  WInv'
<1> DEFINE c == job[j]
           o == IF c.op = "create_service" THEN c.organization ELSE row[j].organization
           permitted == \E m \in Membership(o, c.user) :
                          NeededPermission[c.op] \in ROLE_PERMISSIONS[members[m].role]
<1>1. /\ stage[j] = IF c.op = "create_service" THEN "sent" ELSE "located"
      /\ c.op # "ingest_event"
      /\ UNCHANGED <<memberVars, services, keys, events, log, expired, job, row, barred>>
      /\ (Become(j, "allowed") /\ permitted) \/ Become(j, "refused")
  BY DEF check_role
<1>2. CASE Become(j, "refused")
  BY <1>1, <1>2, JobRefused
<1>3. CASE Become(j, "allowed") /\ permitted
  <2>1. stage'[j] = "allowed" /\ \A i \in Jobs : stage[i] = "done" => stage'[i] = "done"
    BY <1>1, <1>3 DEF Become, WInv, WTypes
  <2>2. PICK m \in Membership(o, c.user) : NeededPermission[c.op] \in ROLE_PERMISSIONS[members[m].role]
    BY <1>3
  <2>3. /\ m \in Present /\ members[m].organization = o /\ members[m].user = c.user
        /\ members[m] \in Member /\ members[m].role \in Role /\ o \in Organizations
    BY <2>2 DEF Membership, Of, Present, MInv, MembersTypeOK, Member
  <2>4. created_by[o] # None
    BY <2>3 DEF MInv, Founding
  <2>5. ASSUME c.op \in OwnersOps PROVE c.user = created_by[o]
    <3>1. NeededPermission[c.op] = "api_key:manage"
      BY <2>5 DEF OwnersOps, NeededPermission
    <3>2. members[m].role = "OWNER"
      BY <2>2, <2>3, <3>1 DEF Role, ROLE_PERMISSIONS, ADMIN_PERMISSIONS, OPERATOR_PERMISSIONS, READ_PERMISSIONS
    <3> QED
      BY <2>3, <3>2 DEF MInv, OneOwner, Of
  <2>6. \A r : Settled(r) => Settled(r)'
    BY <2>1 DEF Settled
  <2>7. Located(j)'
    BY <1>1, <2>1, <2>4, <2>5, <2>6 DEF Located, WInv, memberVars, OwnersOps, ServiceOps, KeyOps, Exists
  <2>8. Delivering(j)'
    BY <1>1, <2>1 DEF Delivering
  <2> QED
    BY <1>1, <1>3, <2>7, <2>8, JobMoves DEF WInv, WTypes
<1> QED
  BY <1>1, <1>2, <1>3

LEMMA ServiceReadKeeps ==
  ASSUME WInv, NEW j \in Jobs, select_service(j), UNCHANGED memberVars
  PROVE  WInv'
<1>1. /\ stage[j] = "allowed" /\ job[j].op = "rotate_api_key"
      /\ UNCHANGED <<memberVars, services, keys, events, log, expired, job, row, barred>>
      /\ \E label \in {"refused", "failed", "rotating"} : Become(j, label)
  BY DEF select_service
<1>2. CASE \E label \in {"refused", "failed"} : Become(j, label)
  BY <1>1, <1>2, JobRefused
<1>3. CASE Become(j, "rotating")
  <2>1. stage'[j] = "rotating" /\ \A i \in Jobs : stage[i] = "done" => stage'[i] = "done"
    BY <1>1, <1>3 DEF Become, WInv, WTypes
  <2>2. \A r : Settled(r) => Settled(r)'
    BY <2>1 DEF Settled
  <2>3. Located(j)'
    BY <1>1, <2>1, <2>2 DEF Located, WInv, memberVars, ServiceOps, KeyOps, Exists
  <2>4. Delivering(j)'
    BY <2>1 DEF Delivering
  <2> QED
    BY <1>1, <1>3, <2>3, <2>4, JobMoves DEF WInv, WTypes
<1> QED
  BY <1>1, <1>2, <1>3

LEMMA KeyReadKeeps ==
  ASSUME WInv, NEW j \in Jobs, select_key(j), UNCHANGED memberVars
  PROVE  WInv'
<1> DEFINE k == job[j].target
<1>1. /\ stage[j] = "sent" /\ job[j].op = "ingest_event"
      /\ UNCHANGED <<memberVars, services, keys, events, log, expired, job, barred>>
  BY DEF select_key
<1>2. job[j] \in Ordered /\ k \in Things
  BY <1>1, WorkspaceAssumption DEF WInv, Located, JobCall
<1>3. CASE ~Exists(keys, k)
  BY <1>1, <1>3, JobRefused DEF select_key
<1>4. CASE Exists(keys, k)
  <2>1. /\ row' = [row EXCEPT ![j] = keys[k]] /\ Become(j, "authenticating")
    BY <1>4 DEF select_key, Insert
  <2>2. /\ row'[j] = keys[k] /\ keys[k] \in Key /\ \A i \in Jobs : i # j => row'[i] = row[i]
        /\ row' \in [Jobs -> Service \cup Key \cup {None}]
        /\ stage'[j] = "authenticating" /\ \A i \in Jobs : stage[i] = "done" => stage'[i] = "done"
    BY <1>1, <1>2, <1>4, <2>1 DEF Become, Exists, WInv, WTypes
  <2>3. Settled(k)'
    <3>1. k \in Jobs => stage[k] = "done"
      BY <1>4 DEF Exists, WInv, Unborn
    <3> QED
      BY <1>1, <1>2, <2>2, <3>1 DEF Settled
  <2>4. k \in barred[j].keys => keys[k].revoked
    BY <1>4 DEF WInv, StillBarred
  <2>5. Delivering(j)'
    BY <1>1, <2>2, <2>3, <2>4 DEF Delivering, Exists
  <2>6. Located(j)'
    BY <1>1, <1>2, <2>2 DEF Located
  <2> QED
    BY <1>1, <2>1, <2>2, <2>5, <2>6, JobMoves
<1> QED
  BY <1>3, <1>4

LEMMA AuthenticationKeeps ==
  ASSUME WInv, NEW j \in Jobs, get_ingestion_api_key(j), UNCHANGED memberVars
  PROVE  WInv'
<1> DEFINE s == row[j].service
<1>1. /\ stage[j] = "authenticating" /\ job[j].op = "ingest_event" /\ Delivering(j) /\ Located(j)
      /\ UNCHANGED <<memberVars, services, keys, events, log, expired, job, row, barred>>
  BY DEF get_ingestion_api_key, WInv, Delivering
<1>2. CASE \E label \in {"refused", "failed"} : Become(j, label)
  BY <1>1, <1>2, JobRefused
<1>3. CASE /\ Become(j, "storing") /\ ~row[j].revoked
           /\ Exists(services, s) /\ services[s].status # "disabled"
  <2>1. stage'[j] = "storing" /\ \A i \in Jobs : stage[i] = "done" => stage'[i] = "done"
    BY <1>1, <1>3 DEF Become, WInv, WTypes
  <2>2. \A r : Settled(r) => Settled(r)'
    BY <2>1 DEF Settled
  <2>3. s \notin barred[j].services
    BY <1>3 DEF WInv, StillBarred
  <2>4. Delivering(j)'
    BY <1>1, <1>3, <2>1, <2>2, <2>3 DEF Delivering, Exists
  <2>5. Located(j)'
    BY <1>1, <2>1 DEF Located
  <2> QED
    BY <1>1, <1>3, <2>4, <2>5, JobMoves DEF WInv, WTypes
<1> QED
  BY <1>2, <1>3 DEF get_ingestion_api_key
-----------------------------------------------------------------------------
(* The steps that write. *)

\* What is left to show of a job that writes and is done.
LEMMA WritersKeep ==
  ASSUME WInv, NEW j \in Jobs, stage[j] # "done", stage[j] # "idle", Become(j, "done"),
         UNCHANGED <<memberVars, expired, job, row>>,
         RowsStay, ServicesFounded', StillBarred',
         services' \in [Things -> Service \cup {None}], keys' \in [Things -> Key \cup {None}],
         events' \in [Jobs -> Event \cup {None}], log' \subseteq Entry,
         barred' \in [Jobs -> Barred],
         \A i \in Jobs : /\ barred'[i].keys = barred[i].keys
                         /\ barred'[i].services \subseteq barred[i].services,
         \A i \in Jobs : i # j /\ stage[i] # "done" =>
           /\ services'[i] = None /\ keys'[i] = None /\ events'[i] = None
           /\ \A e \in log' : e.job # i /\ e.key # i /\ e.previous # i,
         KeysComeFromOwner', AuditAccountsForKeys', NothingOutlivesService',
         job[j].op = "ingest_event" => Delivering(j)'
  PROVE  WInv'
<1>1. /\ stage'[j] = "done" /\ stage' \in [Jobs -> {"idle", "sent", "located", "allowed", "rotating",
                               "authenticating", "storing"} \cup Final]
      /\ \A i \in Jobs : i # j => stage'[i] = stage[i]
  BY DEF Become, WInv, WTypes, Final
<1>2. WTypes'
  BY <1>1 DEF WInv, WTypes
<1>3. Unborn'
  BY <1>1 DEF Unborn
<1>4. FoundersStay
  BY DEF FoundersStay, memberVars
<1>5. \A i \in Jobs : i # j => Located(i)' /\ Delivering(i)'
  BY <1>1, <1>4, OtherJobsStay
<1>6. Located(j)' /\ Delivering(j)'
  BY <1>1 DEF Located, Delivering, WInv
<1> QED
  BY <1>2, <1>3, <1>5, <1>6 DEF WInv

LEMMA SettledStays ==
  ASSUME WInv, NEW j \in Jobs, stage[j] # "done", Become(j, "done")
  PROVE  /\ \A r : Settled(r) => Settled(r)' /\ r # j
         /\ \A i \in Jobs : stage[i] = "done" => stage'[i] = "done"
         /\ stage'[j] = "done"
BY DEF Settled, Become, WInv, WTypes

LEMMA ServiceCreationKeeps ==
  ASSUME WInv, NEW j \in Jobs, create_service(j), UNCHANGED memberVars
  PROVE  WInv'
<1> DEFINE c == job[j]
           new == [organization |-> c.organization, slug |-> c.slug, status |-> "operational"]
<1>1. /\ stage[j] = "allowed" /\ c.op = "create_service" /\ created_by[c.organization] # None
      /\ UNCHANGED <<memberVars, keys, events, log, expired, job, row, barred>>
  BY DEF create_service, WInv, Located
<1>2. c.organization \in Organizations /\ c.slug \in Slugs
  BY <1>1, WorkspaceAssumption DEF WInv, Located, JobCall
<1>3. CASE Taken(c.organization, c.slug)
  BY <1>1, <1>3, JobRefused DEF create_service
<1>4. CASE ~Taken(c.organization, c.slug)
  <2>1. services' = [services EXCEPT ![j] = new] /\ Become(j, "done")
    BY <1>4 DEF create_service, Insert
  <2>2. new \in Service /\ new # None /\ new.organization = c.organization /\ j \in Things
    BY <1>2, NoThingAssumption DEF Service, Status, Things
  <2>3. /\ services \in [Things -> Service \cup {None}] /\ services[j] = None
        /\ services' \in [Things -> Service \cup {None}] /\ services'[j] = new
        /\ \A s \in Things : s # j => services'[s] = services[s]
    BY <1>1, <2>1, <2>2 DEF WInv, WTypes, Unborn
  <2>4. RowsStay
    BY <1>1, <2>1, <2>3, SettledStays DEF RowsStay, Exists
  <2>5. ServicesFounded'
    BY <1>1, <2>2, <2>3 DEF WInv, ServicesFounded, Exists, memberVars
  <2>6. StillBarred'
    <3>1. \A r : Settled(r) => Settled(r)' /\ r # j /\ r \in Things
      BY <1>1, <2>1, SettledStays DEF Settled
    <3> QED
      BY <1>1, <2>3, <3>1 DEF WInv, StillBarred, Exists
  <2>7. KeysComeFromOwner'
    BY <1>1, <2>2, <2>3 DEF WInv, WTypes, KeysComeFromOwner, NothingOutlivesService, Exists, Key, memberVars
  <2>8. AuditAccountsForKeys'
    BY <1>1, <2>1, SettledStays DEF WInv, WTypes, Entry, AuditAccountsForKeys, Exists
  <2>9. NothingOutlivesService'
    BY <1>1, <2>2, <2>3 DEF WInv, WTypes, NothingOutlivesService, Exists, Key, Event
  <2>10. \A i \in Jobs : i # j /\ stage[i] # "done" => services'[i] = None
    BY <2>3 DEF WInv, Unborn, Things
  <2> QED
    BY <1>1, <2>1, <2>3, <2>4, <2>5, <2>6, <2>7, <2>8, <2>9, <2>10, WritersKeep DEF WInv, WTypes, Unborn
<1> QED
  BY <1>3, <1>4

LEMMA ServiceUpdateKeeps ==
  ASSUME WInv, NEW j \in Jobs, update_service(j), UNCHANGED memberVars
  PROVE  WInv'
<1> DEFINE c == job[j]
           old == services[c.target]
           new == [old EXCEPT !.slug = IF Writes(j, "slug") THEN c.slug ELSE @,
                              !.status = IF Writes(j, "status") THEN c.status ELSE @]
<1>1. /\ stage[j] = "allowed" /\ c.op = "update_service" /\ Located(j)
      /\ UNCHANGED <<memberVars, keys, events, log, expired, job, row>>
  BY DEF update_service, WInv
<1>2. /\ Settled(c.target) /\ c.target \in Things
      /\ c.slug \in Slugs \cup {None} /\ c.status \in Status \cup {None}
  BY <1>1, WorkspaceAssumption DEF Located, JobCall, ServiceOps, Settled
<1>3. CASE \E label \in {"refused", "failed"} : Become(j, label) /\ UNCHANGED <<services, barred>>
  BY <1>1, <1>3, JobRefused
<1>4. CASE /\ Exists(services, c.target)
           /\ services' = Insert(services, c.target, new)
           /\ barred' = IF new.status = "disabled" THEN barred
                        ELSE [i \in Jobs |-> [barred[i] EXCEPT !.services = @ \ {c.target}]]
           /\ Become(j, "done")
  <2>1. /\ services \in [Things -> Service \cup {None}] /\ old \in Service
    BY <1>2, <1>4 DEF WInv, WTypes, Exists
  <2>2. /\ Writes(j, "slug") => c.slug # None
        /\ Writes(j, "status") => c.status # None
    BY DEF Writes
  <2>3. new \in Service /\ new # None /\ new.organization = old.organization
    BY <1>2, <2>1, <2>2, NoThingAssumption DEF Service
  <2>4. /\ services' \in [Things -> Service \cup {None}] /\ services'[c.target] = new
        /\ \A s \in Things : s # c.target => services'[s] = services[s]
    BY <1>2, <1>4, <2>1, <2>3 DEF Insert
  <2>a. \A s \in Things : /\ Exists(services', s) <=> Exists(services, s)
                          /\ services'[s].organization = services[s].organization
    BY <1>4, <2>3, <2>4 DEF Exists
  <2>b. UNCHANGED <<created_by, keys, events, log>> /\ Become(j, "done")
    BY <1>1, <1>4 DEF memberVars
  <2>5. barred' \in [Jobs -> Barred]
    <3>1. barred \in [Jobs -> Barred]
      BY DEF WInv, WTypes
    <3>2. \A x \in Barred : \A S : [x EXCEPT !.services = @ \ S] \in Barred
      BY DEF Barred
    <3> HIDE DEF new
    <3> QED
      BY <1>4, <3>1, <3>2
  <2>6. ASSUME NEW i \in Jobs
        PROVE  /\ barred'[i].keys = barred[i].keys
               /\ barred'[i].services = IF new.status = "disabled" THEN barred[i].services
                                        ELSE barred[i].services \ {c.target}
    BY <1>4 DEF WInv, WTypes, Barred
  <2>7. RowsStay
    BY <1>1, <1>4, <2>3, <2>4, SettledStays DEF RowsStay, Exists
  <2>8. ServicesFounded'
    BY <2>a, <2>b DEF WInv, ServicesFounded
  <2>9. StillBarred'
    <3>1. \A r : Settled(r) => Settled(r)' /\ r \in Things
      BY <1>1, <1>4, SettledStays DEF Settled
    <3>2. ASSUME NEW i \in Jobs, NEW k \in barred'[i].keys
          PROVE  Settled(k)' /\ (Exists(keys', k) => keys'[k].revoked)
      BY <2>6, <2>b, <3>1, <3>2 DEF WInv, StillBarred
    <3>3. ASSUME NEW i \in Jobs, NEW s \in barred'[i].services
          PROVE  Settled(s)' /\ (Exists(services', s) => services'[s].status = "disabled")
      <4>1. Settled(s) /\ (Exists(services, s) => services[s].status = "disabled")
        BY <2>6, <3>3 DEF WInv, StillBarred
      <4>2. CASE s = c.target
        BY <2>4, <2>6, <3>1, <3>3, <4>1, <4>2
      <4>3. CASE s # c.target
        BY <2>4, <2>a, <3>1, <4>1, <4>3
      <4> QED
        BY <4>2, <4>3
    <3> QED
      BY <3>2, <3>3 DEF StillBarred
  <2>10. KeysComeFromOwner'
    <3>1. SUFFICES ASSUME NEW k \in Things, Exists(keys', k)
                   PROVE  /\ keys'[k].by = created_by'[keys'[k].organization]
                          /\ services'[keys'[k].service].organization = keys'[k].organization
      BY DEF KeysComeFromOwner
    <3>2. Exists(keys, k) /\ keys' = keys /\ created_by' = created_by
      BY <2>b, <3>1
    <3>3. keys[k].service \in Things
      BY <3>2 DEF WInv, WTypes, Key, Exists
    <3>4. services'[keys[k].service].organization = services[keys[k].service].organization
      BY <2>a, <3>3
    <3> QED
      BY <3>2, <3>4 DEF WInv, KeysComeFromOwner
  <2>11. AuditAccountsForKeys'
    BY <1>1, <1>4, SettledStays DEF WInv, WTypes, Entry, AuditAccountsForKeys, Exists
  <2>12. NothingOutlivesService'
    BY <1>1, <2>3, <2>4 DEF WInv, WTypes, NothingOutlivesService, Exists, Key, Event
  <2>13. \A i \in Jobs : i # j /\ stage[i] # "done" => services'[i] = None
    BY <1>2, <2>4 DEF WInv, Unborn, Things, Settled
  <2>14. \A i \in Jobs : /\ barred'[i].keys = barred[i].keys
                         /\ barred'[i].services \subseteq barred[i].services
    BY <2>6
  <2> HIDE DEF new, old
  <2> QED
    BY <1>1, <2>4, <2>5, <2>7, <2>8, <2>9, <2>10, <2>11, <2>12, <2>13, <2>14, <2>b, WritersKeep
    DEF WInv, WTypes, Unborn
<1> QED
  BY <1>3, <1>4 DEF update_service

LEMMA ServiceDeletionKeeps ==
  ASSUME WInv, NEW j \in Jobs, delete_service(j), UNCHANGED memberVars
  PROVE  WInv'
<1> DEFINE s == job[j].target
<1>1. /\ stage[j] = "allowed" /\ job[j].op = "delete_service" /\ Located(j) /\ Become(j, "done")
      /\ UNCHANGED <<memberVars, log, expired, job, row, barred>>
  BY DEF delete_service, WInv
<1>2. Settled(s) /\ s \in Things
  BY <1>1 DEF Located, ServiceOps, Settled
<1>3. /\ services' \in [Things -> Service \cup {None}] /\ services'[s] = None
      /\ \A r \in Things : r # s => services'[r] = services[r]
  BY <1>2 DEF delete_service, Insert, WInv, WTypes
<1>4. keys' = [k \in Things |-> IF Exists(keys, k) /\ keys[k].service = s THEN None ELSE keys[k]]
  BY DEF delete_service
<1>5. /\ keys' \in [Things -> Key \cup {None}]
      /\ \A k \in Things : Exists(keys', k) => /\ Exists(keys, k) /\ keys'[k] = keys[k]
                                               /\ keys[k].service # s
      /\ \A k \in Things : keys[k] = None => keys'[k] = None
  BY <1>4 DEF WInv, WTypes, Exists
<1>6. /\ events' \in [Jobs -> Event \cup {None}]
      /\ \A i \in Jobs : events'[i] # None => events'[i] = events[i] /\ events[i].service # s
      /\ \A i \in Jobs : events[i] = None => events'[i] = None
  BY DEF delete_service, WInv, WTypes
<1>7. RowsStay
  BY <1>1, <1>3, <1>5, SettledStays DEF RowsStay, Exists
<1>8. ServicesFounded'
  BY <1>1, <1>3 DEF WInv, ServicesFounded, Exists, memberVars
<1>9. StillBarred'
  <2>1. \A r : Settled(r) => Settled(r)' /\ r \in Things
    BY <1>1, SettledStays DEF Settled
  <2> QED
    BY <1>1, <1>3, <1>5, <2>1 DEF WInv, StillBarred, Exists
<1>10. NothingOutlivesService' /\ KeysComeFromOwner'
  BY <1>1, <1>3, <1>5, <1>6
  DEF WInv, WTypes, NothingOutlivesService, KeysComeFromOwner, Exists, Key, Event, memberVars
<1>11. AuditAccountsForKeys'
  BY <1>1, <1>5, SettledStays DEF WInv, WTypes, Entry, AuditAccountsForKeys
<1>12. \A i \in Jobs : i # j /\ stage[i] # "done" =>
         services'[i] = None /\ keys'[i] = None /\ events'[i] = None
  BY <1>2, <1>3, <1>5, <1>6 DEF WInv, Unborn, Things, Settled
<1> QED
  BY <1>1, <1>3, <1>5, <1>6, <1>7, <1>8, <1>9, <1>10, <1>11, <1>12, WritersKeep DEF WInv, WTypes, Unborn

Dead(key) == [key EXCEPT !.revoked = TRUE]

\* What is true of a new key.
Sound(key) ==
  /\ key # None /\ ~key.revoked
  /\ Exists(services, key.service) /\ services[key.service].organization = key.organization
  /\ key.by = created_by[key.organization]

\* A new key, which is not yet there, with the entry of its origin.
LEMMA NewKeyKeeps ==
  ASSUME WInv, NEW j \in Jobs, stage[j] \in {"allowed", "rotating"}, Become(j, "done"),
         job[j].op \in {"create_service_api_key", "rotate_api_key"},
         UNCHANGED <<memberVars, services, events, expired, job, row, barred>>,
         keys' \in [Things -> Key \cup {None}], keys'[j] \in Key, Sound(keys'[j]),
         NEW old \in Things \cup {None}, old # j, old # None => Settled(old) /\ Exists(keys, old),
         \/ Record(j, "API_KEY_CREATED", j, old)
         \/ Record(j, "API_KEY_ROTATED", j, old),
         \A k \in Things : k # j /\ k # old => keys'[k] = keys[k],
         old # None => keys'[old] # None /\ keys'[old] = Dead(keys[old])
  PROVE  WInv'
<1> USE DEF Exists, Sound
<1> DEFINE new == keys'[j]
<1>0. PICK action \in {"API_KEY_CREATED", "API_KEY_ROTATED"} : Record(j, action, j, old)
  OBVIOUS
<1>1. /\ stage[j] # "done" /\ stage[j] # "idle" /\ j \in Things /\ keys[j] = None
      /\ \A r : Settled(r) => Settled(r)' /\ r # j /\ r \in Things
      /\ \A i \in Jobs : stage[i] = "done" => stage'[i] = "done"
      /\ stage'[j] = "done"
  BY SettledStays DEF WInv, Unborn, Things, Settled
<1>2. created_by' = created_by /\ services' = services /\ events' = events
  BY DEF memberVars
<1>3. \A k \in Things : k # j =>
        /\ Exists(keys', k) <=> Exists(keys, k)
        /\ Exists(keys, k) => /\ keys'[k].organization = keys[k].organization
                              /\ keys'[k].service = keys[k].service
                              /\ keys'[k].by = keys[k].by
                              /\ keys'[k].revoked <=> keys[k].revoked \/ k = old
  BY WorkspaceAssumption DEF WInv, WTypes, Key, Dead
<1> DEFINE entry == [action |-> action, key |-> j, previous |-> old, job |-> j]
<1>5. log' = log \cup {entry} /\ log' \subseteq Entry
  BY <1>0, <1>1 DEF Record, Entry, WInv, WTypes
<1>6. RowsStay
  BY <1>1, <1>2, <1>3 DEF RowsStay
<1>7. ServicesFounded'
  BY <1>2 DEF WInv, ServicesFounded
<1>8. StillBarred'
  BY <1>1, <1>2, <1>3 DEF WInv, StillBarred
<1>9. KeysComeFromOwner'
  BY <1>2, <1>3 DEF WInv, KeysComeFromOwner
<1>10. NothingOutlivesService'
  BY <1>2, <1>3 DEF WInv, NothingOutlivesService
<1>11. AuditAccountsForKeys'
  <2>1. \A e \in log : e.key # j /\ e.previous # j /\ e.job # j /\ e.job \in Jobs
    BY <1>1 DEF WInv, WTypes, Unborn, Entry
  <2>2. entry \in log' /\ entry.key = j /\ entry.previous = old /\ entry.job = j
        /\ entry.action = action /\ action # "API_KEY_REVOKED"
    BY <1>5
  <2>3. ASSUME NEW k \in Things, Exists(keys', k)
        PROVE  /\ keys'[k].revoked <=> \E e \in log' :
                    e.previous = k \/ (e.key = k /\ e.action = "API_KEY_REVOKED")
               /\ k \notin Keys0 => \E e \in log' :
                    /\ e.key = k /\ e.action \in {"API_KEY_CREATED", "API_KEY_ROTATED"}
                    /\ e.job = k
    <3>1. CASE k = j
      BY <1>5, <2>1, <2>2, <3>1
    <3>2. CASE k # j
      <4>1. Exists(keys, k) /\ (keys'[k].revoked <=> keys[k].revoked \/ k = old)
        BY <1>3, <2>3, <3>2
      <4>2. /\ keys[k].revoked <=> \E e \in log :
                 e.previous = k \/ (e.key = k /\ e.action = "API_KEY_REVOKED")
            /\ k \notin Keys0 => \E e \in log :
                 /\ e.key = k /\ e.action \in {"API_KEY_CREATED", "API_KEY_ROTATED"}
                 /\ e.job = k
        BY <4>1 DEF WInv, AuditAccountsForKeys
      <4> HIDE DEF entry
      <4> QED
        BY <1>5, <2>2, <3>2, <4>1, <4>2
    <3> QED
      BY <3>1, <3>2
  <2>4. \A e \in log' : stage'[e.job] = "done"
    BY <1>1, <1>5, <2>1, <2>2 DEF WInv, AuditAccountsForKeys
  <2> QED
    BY <2>3, <2>4 DEF AuditAccountsForKeys
<1>12. \A i \in Jobs : i # j /\ stage[i] # "done" =>
         /\ services'[i] = None /\ keys'[i] = None /\ events'[i] = None
         /\ \A e \in log' : e.job # i /\ e.key # i /\ e.previous # i
  <2> SUFFICES ASSUME NEW i \in Jobs, i # j, stage[i] # "done"
               PROVE  /\ services'[i] = None /\ keys'[i] = None /\ events'[i] = None
                      /\ \A e \in log' : e.job # i /\ e.key # i /\ e.previous # i
    OBVIOUS
  <2>1. i # old /\ i \in Things
    BY WorkspaceAssumption DEF Settled, Things
  <2>2. services'[i] = None /\ keys'[i] = None /\ events'[i] = None
    BY <1>2, <2>1 DEF WInv, Unborn
  <2>3. \A e \in log : e.job # i /\ e.key # i /\ e.previous # i
    BY DEF WInv, Unborn
  <2> QED
    BY <1>5, <2>1, <2>2, <2>3
<1>13. /\ \A i \in Jobs : barred'[i] = barred[i]
       /\ UNCHANGED <<memberVars, expired, job, row>>
       /\ services' \in [Things -> Service \cup {None}]
       /\ events' \in [Jobs -> Event \cup {None}]
       /\ barred' \in [Jobs -> Barred]
       /\ job[j].op # "ingest_event"
  BY DEF WInv, WTypes
<1> QED
  BY <1>1, <1>5, <1>6, <1>7, <1>8, <1>9, <1>10, <1>11, <1>12, <1>13, WritersKeep

LEMMA KeyCreationKeeps ==
  ASSUME WInv, NEW j \in Jobs, create_service_api_key(j), UNCHANGED memberVars
  PROVE  WInv'
<1> DEFINE c == job[j]
           new == NewKey(row[j].organization, c.target, j, c.user)
<1>1. /\ stage[j] = "allowed" /\ c.op = "create_service_api_key" /\ Located(j)
      /\ UNCHANGED <<memberVars, services, events, expired, job, row, barred>>
  BY DEF create_service_api_key, WInv
<1>2. /\ c \in Ordered /\ c.user \in Users /\ c.target \in Things /\ j \in Things
      /\ row[j] \in Service /\ c.user = created_by[row[j].organization]
      /\ Exists(services, c.target) => services[c.target].organization = row[j].organization
  BY <1>1, WorkspaceAssumption DEF Located, JobCall, ServiceOps, OwnersOps, Settled, Things
<1>3. CASE ~Exists(services, c.target)
  BY <1>1, <1>3, JobRefused DEF create_service_api_key
<1>4. CASE Exists(services, c.target)
  <2>1. /\ keys' = [keys EXCEPT ![j] = new] /\ Record(j, "API_KEY_CREATED", j, None)
        /\ Become(j, "done")
    BY <1>4 DEF create_service_api_key, Insert
  <2>2. /\ new \in Key /\ new # None /\ ~new.revoked /\ new.service = c.target
        /\ new.organization = row[j].organization /\ new.by = c.user
    <3>1. new \in Key
      BY <1>2 DEF Key, NewKey, Service
    <3> QED
      BY <3>1, NoThingAssumption DEF NewKey
  <2>3. /\ keys' \in [Things -> Key \cup {None}] /\ keys'[j] = new
        /\ \A k \in Things : k # j => keys'[k] = keys[k]
    BY <1>2, <2>1, <2>2 DEF WInv, WTypes
  <2>4. \A k \in Things : k # None
    BY WorkspaceAssumption
  <2>5. Sound(keys'[j]) /\ keys'[j] \in Key
    BY <1>2, <1>4, <2>2, <2>3 DEF Sound
  <2> HIDE DEF new
  <2> QED
    BY <1>1, <1>2, <1>4, <2>1, <2>3, <2>4, <2>5, NewKeyKeeps
<1> QED
  BY <1>3, <1>4

LEMMA RotationKeeps ==
  ASSUME WInv, NEW j \in Jobs, rotate_api_key(j), UNCHANGED memberVars
  PROVE  WInv'
<1> DEFINE k == job[j].target
           new == NewKey(row[j].organization, row[j].service, row[j].chain, job[j].user)
<1>1. /\ stage[j] = "rotating" /\ job[j].op = "rotate_api_key" /\ Located(j)
      /\ UNCHANGED <<memberVars, services, events, expired, job, row, barred>>
  BY DEF rotate_api_key, WInv, Located
<1>2. /\ job[j] \in Ordered /\ job[j].user \in Users /\ Settled(k) /\ k \in Things /\ j \in Things
      /\ k # j /\ row[j] \in Key /\ job[j].user = created_by[row[j].organization]
      /\ Exists(keys, k) => /\ keys[k].organization = row[j].organization
                            /\ keys[k].service = row[j].service
  BY <1>1, WorkspaceAssumption DEF Located, JobCall, KeyOps, OwnersOps, Settled, Things
<1>3. CASE ~Exists(keys, k)
  BY <1>1, <1>3, JobRefused DEF rotate_api_key
<1>4. CASE Exists(keys, k)
  <2>1. /\ keys' = [keys EXCEPT ![k].revoked = TRUE, ![j] = new]
        /\ Record(j, "API_KEY_ROTATED", j, k) /\ Become(j, "done")
    BY <1>4 DEF rotate_api_key
  <2>2. /\ new \in Key /\ new # None /\ ~new.revoked /\ new.service = row[j].service
        /\ new.organization = row[j].organization /\ new.by = job[j].user
    <3>1. new \in Key
      BY <1>2 DEF Key, NewKey
    <3> QED
      BY <3>1, NoThingAssumption DEF NewKey
  <2>3. [keys[k] EXCEPT !.revoked = TRUE] \in Key /\ keys \in [Things -> Key \cup {None}]
    BY <1>2, <1>4 DEF WInv, WTypes, Exists, Key
  <2>4. /\ keys'[k] = [keys[k] EXCEPT !.revoked = TRUE] /\ keys'[j] = new
        /\ \A r \in Things : r # j /\ r # k => keys'[r] = keys[r]
        /\ keys' \in [Things -> Key \cup {None}]
    BY <1>2, <2>1, <2>2, <2>3
  <2>5. Exists(keys', k)
    BY <2>3, <2>4, NoThingAssumption DEF Exists
  <2>6. /\ Exists(services, new.service) /\ services[new.service].organization = new.organization
    BY <1>2, <1>4, <2>2 DEF WInv, KeysComeFromOwner, NothingOutlivesService
  <2>7. /\ \A r \in Things : r # j /\ r # k => keys'[r] = keys[r]
        /\ keys'[k] # None /\ keys'[k] = Dead(keys[k])
    BY <2>4, <2>5 DEF Exists, Dead
  <2>8. /\ k \in Things \cup {None} /\ k # j /\ (k # None => Settled(k) /\ Exists(keys, k))
        /\ stage[j] \in {"allowed", "rotating"}
        /\ job[j].op \in {"create_service_api_key", "rotate_api_key"}
    BY <1>1, <1>2, <1>4
  <2>9. Sound(keys'[j]) /\ keys'[j] \in Key
    BY <1>2, <2>2, <2>4, <2>6 DEF Sound
  <2> HIDE DEF new, k
  <2> QED
    BY <1>1, <2>1, <2>4, <2>7, <2>8, <2>9, NewKeyKeeps
<1> QED
  BY <1>3, <1>4

LEMMA RevocationKeeps ==
  ASSUME WInv, NEW j \in Jobs, revoke_api_key(j), UNCHANGED memberVars
  PROVE  WInv'
<1> DEFINE k == job[j].target
<1>1. /\ stage[j] = "allowed" /\ job[j].op = "revoke_api_key" /\ Located(j)
      /\ UNCHANGED <<memberVars, services, events, expired, job, row, barred>>
  BY DEF revoke_api_key, WInv
<1>2. Settled(k) /\ k \in Things /\ k # j /\ j \in Things
  BY <1>1 DEF Located, KeyOps, Settled, Things
<1>3. CASE ~row[j].revoked /\ ~Exists(keys, k)
  BY <1>1, <1>3, JobRefused DEF revoke_api_key
<1>4. CASE row[j].revoked
  <2>1. Become(j, "done") /\ UNCHANGED <<keys, log>>
    BY <1>4 DEF revoke_api_key
  <2>2. stage'[j] = "done" /\ job'[j] = job[j]
    BY <1>1, <2>1 DEF Become, WInv, WTypes
  <2>3. Located(j)' /\ Delivering(j)'
    BY <1>1, <2>2 DEF Located, Delivering
  <2> QED
    BY <1>1, <2>1, <2>3, JobMoves DEF WInv, WTypes
<1>5. CASE ~row[j].revoked /\ Exists(keys, k)
  <2> USE DEF Exists
  <2> DEFINE entry == [action |-> "API_KEY_REVOKED", key |-> k, previous |-> None, job |-> j]
  <2>1. /\ keys' = [keys EXCEPT ![k].revoked = TRUE]
        /\ log' = log \cup {entry} /\ Become(j, "done")
    BY <1>5 DEF revoke_api_key, Record
  <2>2. [keys[k] EXCEPT !.revoked = TRUE] \in Key /\ keys \in [Things -> Key \cup {None}]
    BY <1>2, <1>5 DEF WInv, WTypes, Key
  <2>3. /\ keys' \in [Things -> Key \cup {None}] /\ Exists(keys', k)
        /\ \A r \in Things :
             /\ Exists(keys', r) <=> Exists(keys, r)
             /\ Exists(keys, r) => /\ keys'[r].organization = keys[r].organization
                                   /\ keys'[r].service = keys[r].service
                                   /\ keys'[r].by = keys[r].by
                                   /\ keys'[r].revoked <=> keys[r].revoked \/ r = k
    <3>1. keys'[k] = [keys[k] EXCEPT !.revoked = TRUE]
          /\ \A r \in Things : r # k => keys'[r] = keys[r]
      BY <1>2, <2>1, <2>2
    <3> QED
      BY <1>2, <1>5, <2>1, <2>2, <3>1, NoThingAssumption DEF Key
  <2>4. /\ \A r : Settled(r) => Settled(r)' /\ r # j /\ r \in Things
        /\ \A i \in Jobs : stage[i] = "done" => stage'[i] = "done"
        /\ stage'[j] = "done"
    BY <1>1, <2>1, SettledStays DEF Settled
  <2>5. created_by' = created_by /\ services' = services /\ events' = events
    BY <1>1 DEF memberVars
  <2>6. RowsStay /\ ServicesFounded' /\ StillBarred'
    <3>1. RowsStay
      BY <1>1, <2>3, <2>4, <2>5 DEF RowsStay
    <3>2. ServicesFounded'
      BY <2>5 DEF WInv, ServicesFounded
    <3>3. StillBarred'
      BY <1>1, <2>3, <2>4, <2>5 DEF WInv, StillBarred
    <3> QED
      BY <3>1, <3>2, <3>3
  <2>7. KeysComeFromOwner' /\ NothingOutlivesService'
    BY <2>3, <2>5 DEF WInv, KeysComeFromOwner, NothingOutlivesService
  <2>8. log' \subseteq Entry /\ \A r \in Things : r # None
    BY <1>2, <2>1, WorkspaceAssumption DEF Entry, WInv, WTypes
  <2>9. AuditAccountsForKeys'
    <3>1. entry \in log' /\ entry.key = k /\ entry.previous = None /\ entry.job = j
          /\ entry.action = "API_KEY_REVOKED"
      BY <2>1
    <3>2. ASSUME NEW r \in Things, Exists(keys', r)
          PROVE  /\ keys'[r].revoked <=> \E e \in log' :
                      e.previous = r \/ (e.key = r /\ e.action = "API_KEY_REVOKED")
                 /\ r \notin Keys0 => \E e \in log' :
                      /\ e.key = r /\ e.action \in {"API_KEY_CREATED", "API_KEY_ROTATED"}
                      /\ e.job = r
      <4>1. Exists(keys, r) /\ (keys'[r].revoked <=> keys[r].revoked \/ r = k)
        BY <2>3, <3>2
      <4>2. /\ keys[r].revoked <=> \E e \in log :
                 e.previous = r \/ (e.key = r /\ e.action = "API_KEY_REVOKED")
            /\ r \notin Keys0 => \E e \in log :
                 /\ e.key = r /\ e.action \in {"API_KEY_CREATED", "API_KEY_ROTATED"}
                 /\ e.job = r
        BY <4>1 DEF WInv, AuditAccountsForKeys
      <4> HIDE DEF entry
      <4> QED
        BY <2>1, <2>8, <3>1, <4>1, <4>2
    <3>3. \A e \in log' : stage'[e.job] = "done"
      BY <2>1, <2>4 DEF WInv, WTypes, Entry, AuditAccountsForKeys
    <3> QED
      BY <3>2, <3>3 DEF AuditAccountsForKeys
  <2>10. \A i \in Jobs : i # j /\ stage[i] # "done" =>
           /\ services'[i] = None /\ keys'[i] = None /\ events'[i] = None
           /\ \A e \in log' : e.job # i /\ e.key # i /\ e.previous # i
    <3>1. \A i \in Jobs : i \in Things /\ (stage[i] # "done" => i # k)
      BY <1>2 DEF Settled, Things
    <3> QED
      BY <2>1, <2>3, <2>5, <2>8, <3>1 DEF WInv, Unborn
  <2>11. /\ UNCHANGED <<memberVars, expired, job, row>>
         /\ services' \in [Things -> Service \cup {None}]
         /\ events' \in [Jobs -> Event \cup {None}]
         /\ barred' \in [Jobs -> Barred] /\ barred' = barred
         /\ job[j].op # "ingest_event"
    BY <1>1 DEF WInv, WTypes
  <2> QED
    BY <1>1, <2>1, <2>3, <2>6, <2>7, <2>8, <2>9, <2>10, <2>11, WritersKeep
<1> QED
  BY <1>3, <1>4, <1>5

LEMMA DeliveryKeeps ==
  ASSUME WInv, NEW j \in Jobs, ingest_event(j), UNCHANGED memberVars
  PROVE  WInv'
<1> DEFINE k == job[j].target
           event == [service |-> row[j].service, key |-> k]
<1>1. /\ stage[j] = "storing" /\ job[j].op = "ingest_event" /\ Delivering(j) /\ Located(j)
      /\ UNCHANGED <<memberVars, services, keys, log, expired, job, row, barred>>
  BY DEF ingest_event, WInv, Delivering
<1>2. /\ row[j] \in Key /\ Settled(k) /\ k \in Things
      /\ Exists(keys, k) => keys[k].service = row[j].service
      /\ k \in barred[j].keys => row[j].revoked
      /\ ~row[j].revoked /\ row[j].service \notin barred[j].services
  BY <1>1 DEF Delivering, Settled
<1>3. CASE ~Exists(keys, k)
  BY <1>1, <1>3, JobRefused DEF ingest_event
<1>4. CASE Exists(keys, k)
  <2>1. events' = [events EXCEPT ![j] = event] /\ Become(j, "done")
    BY <1>4 DEF ingest_event, Insert
  <2>2. /\ events' \in [Jobs -> Event \cup {None}] /\ events'[j] = event
        /\ event.service = row[j].service /\ \A i \in Jobs : i # j => events'[i] = events[i]
    BY <1>2, <2>1 DEF WInv, WTypes, Event, Key
  <2>3. /\ \A r : Settled(r) => Settled(r)' /\ r # j /\ r \in Things
        /\ \A i \in Jobs : stage[i] = "done" => stage'[i] = "done"
        /\ stage'[j] = "done"
    BY <1>1, <2>1, SettledStays DEF Settled
  <2>4. UNCHANGED <<created_by, services, keys, log, barred>>
    BY <1>1 DEF memberVars
  <2>5. RowsStay /\ ServicesFounded' /\ StillBarred'
    BY <2>3, <2>4 DEF WInv, RowsStay, ServicesFounded, StillBarred, Exists
  <2>6. KeysComeFromOwner'
    BY <2>4 DEF WInv, KeysComeFromOwner, Exists
  <2>7. NothingOutlivesService'
    BY <1>2, <1>4, <2>2, <2>4 DEF WInv, NothingOutlivesService, Exists
  <2>8. AuditAccountsForKeys'
    <3>1. \A e \in log : e.job \in Jobs
      BY DEF WInv, WTypes, Entry
    <3> QED
      BY <2>3, <2>4, <3>1 DEF WInv, AuditAccountsForKeys, Exists
  <2>9. Delivering(j)'
    BY <1>1, <1>2, <2>3, <2>4 DEF Delivering, Exists
  <2>10. \A i \in Jobs : i # j /\ stage[i] # "done" =>
           /\ services'[i] = None /\ keys'[i] = None /\ events'[i] = None
           /\ \A e \in log' : e.job # i /\ e.key # i /\ e.previous # i
    BY <2>2, <2>4 DEF WInv, Unborn
  <2>11. /\ services' \in [Things -> Service \cup {None}] /\ keys' \in [Things -> Key \cup {None}]
         /\ log' \subseteq Entry /\ barred' \in [Jobs -> Barred]
         /\ UNCHANGED <<memberVars, expired, job, row>>
    BY <1>1, <2>4 DEF WInv, WTypes
  <2> HIDE DEF event, k
  <2> QED
    BY <1>1, <2>1, <2>2, <2>4, <2>5, <2>6, <2>7, <2>8, <2>9, <2>10, <2>11, WritersKeep
<1> QED
  BY <1>3, <1>4

\* A handler of members touches no row of the workspace, and no founder.
LEMMA MembersMove ==
  ASSUME MInv, WInv, UNCHANGED workVars, MembersNext \/ UNCHANGED memberVars
  PROVE  WInv'
<1>1. UNCHANGED <<services, keys, events, log, expired, job, stage, row, barred>>
  BY DEF workVars
<1>2. FoundersStay
  <2>1. CASE UNCHANGED created_by
    BY <2>1 DEF FoundersStay
  <2>2. ASSUME NEW q \in Requests, create_organization(q) PROVE FoundersStay
    BY <2>2 DEF create_organization, FoundersStay, MInv, MembersTypeOK
  <2> QED
    BY <2>1, <2>2 DEF MembersNext, memberVars, Handle, Send, require_permission, select_existing,
       add_member, get_target_member, update_member_role, remove_member
<1>3. RowsStay /\ WTypes' /\ Unborn' /\ StillBarred' /\ AuditAccountsForKeys' /\ NothingOutlivesService'
  BY <1>1 DEF WInv, RowsStay, WTypes, Unborn, StillBarred, Settled, AuditAccountsForKeys,
     NothingOutlivesService, Exists
<1>4. \A s \in Things : Exists(services, s) => services[s].organization \in Organizations
  BY DEF WInv, WTypes, Service, Exists
<1>5. ServicesFounded'
  BY <1>1, <1>2, <1>4 DEF WInv, ServicesFounded, FoundersStay, Exists
<1>6. KeysComeFromOwner'
  <2>1. \A k \in Things : Exists(keys, k) =>
          keys[k].organization \in Organizations /\ created_by[keys[k].organization] # None
    BY <1>4 DEF WInv, WTypes, Key, Exists, ServicesFounded, KeysComeFromOwner, NothingOutlivesService
  <2> QED
    BY <1>1, <1>2, <2>1 DEF WInv, KeysComeFromOwner, FoundersStay, Exists
<1>7. \A i \in Jobs : Located(i)' /\ Delivering(i)'
  BY <1>1, <1>2, <1>3, OtherJobsStay
<1> QED
  BY <1>3, <1>5, <1>6, <1>7 DEF WInv

-----------------------------------------------------------------------------
(* The theorems. *)

\* The handlers of services, keys and deliveries leave the members alone: Workspace
\* implements Members, so what holds of members alone holds of them here.
THEOREM LeavesMembers == Spec => MembersSpec
<1>1. Init => MembersInit
  BY DEF Init
<1>2. [Next]_vars => [MembersNext]_memberVars
  BY DEF Next, MembersNext, Rest, vars
<1> QED
  BY <1>1, <1>2, PTL DEF Spec, MembersSpec

\* The invariant of the workspace: a handler relies only on what no other changes.
THEOREM WorkspaceInvariance == Spec => [](MInv /\ WInv)
<1>1. MInv /\ WInv /\ [Next]_vars => WInv'
  <2>1. SUFFICES ASSUME MInv, WInv, [Next]_vars PROVE WInv'
    OBVIOUS
  <2>2. CASE UNCHANGED vars
    BY <2>1, <2>2, MembersMove DEF vars
  <2>3. CASE Rest
    BY <2>1, <2>3, MembersMove DEF Rest, vars
  <2>4. ASSUME NEW q \in Requests, Send(q) \/ Handle(q), UNCHANGED workVars PROVE WInv'
    BY <2>1, <2>4, MembersMove DEF MembersNext
  <2>5. ASSUME NEW j \in Jobs, Order(j) \/ Work(j), UNCHANGED memberVars PROVE WInv'
    BY <2>1, <2>5, OrderKeeps, LocatingKeeps, RoleKeeps, ServiceCreationKeeps, ServiceUpdateKeeps,
       ServiceDeletionKeeps, KeyCreationKeeps, RevocationKeeps, ServiceReadKeeps, RotationKeeps,
       KeyReadKeeps, AuthenticationKeeps, DeliveryKeeps DEF Work
  <2>6. ASSUME NEW k \in ShortLived, Expire(k), UNCHANGED memberVars PROVE WInv'
    BY <2>1, <2>6, ExpireKeeps, WorkspaceAssumption
  <2> QED
    BY <2>1, <2>2, <2>3, <2>4, <2>5, <2>6 DEF Next
<1> QED
  BY <1>1, WorkInit, LeavesMembers, MembersInvariance, PTL DEF Spec

\* Every variable keeps its type, in the tables of members and of the workspace.
THEOREM TypeCorrectness == Spec => []TypeOK
<1>1. MInv /\ WInv => TypeOK
  BY DEF MInv, WInv, WTypes, TypeOK
<1> QED
  BY <1>1, WorkspaceInvariance, PTL

\* An organization keeps the one owner that founded it (members.py).
THEOREM OneOwnerForEver == Spec => []OneOwner
<1>1. MInv => OneOwner
  BY DEF MInv
<1> QED
  BY <1>1, WorkspaceInvariance, PTL

\* No admin was made by an admin (modules/organizations/permissions.py).
THEOREM AdminsAreTheOwners == Spec => []AdminsComeFromOwner
<1>1. MInv => AdminsComeFromOwner
  BY DEF MInv
<1> QED
  BY <1>1, WorkspaceInvariance, PTL

\* The log of role changes ends with the role that the member has (members.py).
THEOREM RolesAreAccountedFor == Spec => []AuditAccountsForRoles
<1>1. MInv => AuditAccountsForRoles
  BY DEF MInv
<1> QED
  BY <1>1, WorkspaceInvariance, PTL

\* What was revoked or disabled before a delivery was sent does not let it in
\* (dependencies.py), however many statements the check takes.
THEOREM RevocationHolds == Spec => []RevocationIsFinal
<1>1. WInv => RevocationIsFinal
  BY DEF WInv, RevocationIsFinal, Delivering
<1> QED
  BY <1>1, WorkspaceInvariance, PTL

\* Every key was issued by the owner, within his organization (api_keys.py).
THEOREM KeysAreTheOwners == Spec => []KeysComeFromOwner
<1>1. WInv => KeysComeFromOwner
  BY DEF WInv
<1> QED
  BY <1>1, WorkspaceInvariance, PTL

\* The log of keys says of each whence it came and whether it is revoked (api_keys.py).
THEOREM KeysAreAccountedFor == Spec => []AuditAccountsForKeys
<1>1. WInv => AuditAccountsForKeys
  BY DEF WInv
<1> QED
  BY <1>1, WorkspaceInvariance, PTL

\* No key and no event of a deleted service is left (services.py).
THEOREM DeletionIsComplete == Spec => []NothingOutlivesService
<1>1. WInv => NothingOutlivesService
  BY DEF WInv
<1> QED
  BY <1>1, WorkspaceInvariance, PTL
=============================================================================
