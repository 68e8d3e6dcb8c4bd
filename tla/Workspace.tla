------------------------------ MODULE Workspace ------------------------------
(***************************************************************************)
(* The services of organizations, their API keys, and the deliveries that  *)
(* authenticate with them, while the members of the organizations change   *)
(* (Members): the handlers of /services and /api-keys that write, and      *)
(* get_ingestion_api_key with the commit of the delivery it lets in.       *)
(*                                                                         *)
(* Each statement is a step.  What a handler writes it writes in its last  *)
(* flush, with the commit.  A service or a key is named by the job that    *)
(* inserts it.                                                             *)
(***************************************************************************)
EXTENDS Members

CONSTANTS
  Jobs,        \* requests to these handlers
  Services0,   \* services at the start
  Keys0,       \* keys at the start
  Deployed,    \* service at the start -> [organization, slug, status]
  Issued,      \* key at the start -> its service
  Ordered,     \* bound: the calls that clients of an instance make
  ShortLived,  \* bound: the keys that may expire, with the keys they are rotated into
  Load         \* bound: the requests and jobs that are sent

Things == Jobs \cup Services0 \cup Keys0

Status == {"operational", "disabled"}   \* degraded and maintenance are as operational
Slugs == {"api", "web"}

NeededPermission ==
  [create_service |-> "service:create", update_service |-> "service:update",
   delete_service |-> "service:delete", create_service_api_key |-> "api_key:manage",
   revoke_api_key |-> "api_key:manage", rotate_api_key |-> "api_key:manage"]

JobCall == [op : DOMAIN NeededPermission \cup {"ingest_event"},
            user : Users \cup {None},                  \* who asks; the key, for an ingest
            target : Things \cup {None},               \* the service or the key
            organization : Organizations \cup {None},  \* of a new service
            slug : Slugs \cup {None},                  \* fields of the body that are set
            status : Status \cup {None}]

ASSUME WorkspaceAssumption ==
  /\ Jobs \cap Services0 = {} /\ Jobs \cap Keys0 = {} /\ Services0 \cap Keys0 = {}
  /\ None \notin Things \cup Organizations \cup Slugs \cup Status
  /\ Ordered \subseteq JobCall
  /\ \A c \in Ordered :
       /\ c.op = "create_service" => c.organization # None /\ c.slug # None
       /\ c.op # "create_service" => c.target # None
       /\ c.op # "ingest_event" => c.user # None
  /\ ShortLived \subseteq Things
  /\ Load \in Nat

ASSUME DeployedAssumption ==
  /\ Deployed \in [Services0 -> [organization : {o \in Organizations : Founded[o] # None},
                                 slug : Slugs, status : Status]]
  /\ \A s, t \in Services0 : (/\ Deployed[s].organization = Deployed[t].organization
                              /\ Deployed[s].slug = Deployed[t].slug) => s = t
  /\ Issued \in [Keys0 -> Services0]

VARIABLES
  services,  \* services: row -> [organization, slug, status], or None
  keys,      \* api_keys: row -> [organization, service, revoked, ...], or None
  events,    \* events: job -> the service and the key it was delivered with, or None
  log,       \* audit_logs: the API_KEY_* entries
  expired,   \* the keys at the head of a chain of rotations whose expires_at is past
  job,       \* job -> what it asks for
  stage,     \* job -> where its handler stands
  row,       \* job -> the row that its handler has read, or None
  barred     \* job -> the dead keys and disabled services when it was sent (history)

workVars == <<services, keys, events, log, expired, job, stage, row, barred>>
vars == <<memberVars, workVars>>

-----------------------------------------------------------------------------
(* The tables. *)

Service == [organization : Organizations, slug : Slugs, status : Status]

\* chain: the key whose expires_at it has; by: whoever issued it (history).
Key == [organization : Organizations, service : Things, revoked : BOOLEAN,
        chain : Things, by : Users]
NewKey(organization, service, chain, by) ==
  [organization |-> organization, service |-> service, revoked |-> FALSE,
   chain |-> chain, by |-> by]

Event == [service : Things, key : Things]

ASSUME NoThingAssumption == None \notin Service \cup Key \cup Event

Entry == [action : {"API_KEY_CREATED", "API_KEY_ROTATED", "API_KEY_REVOKED"},
          key : Things, previous : Things \cup {None}, job : Jobs]

NoJob == [op |-> "none", user |-> None, target |-> None, organization |-> None,
          slug |-> None, status |-> None]

Barred == [keys : SUBSET Things, services : SUBSET Things]
NothingBarred == [keys |-> {}, services |-> {}]

Exists(table, r) == table[r] # None
Taken(organization, slug) == \E s \in Things :
  /\ Exists(services, s)
  /\ services[s].organization = organization /\ services[s].slug = slug
IsExpired(key) == key.chain \in expired

Become(j, label) == stage' = [stage EXCEPT ![j] = label]
Insert(table, r, value) == [table EXCEPT ![r] = value]

Init ==
  /\ MembersInit
  /\ services = [s \in Things |-> IF s \in Services0 THEN Deployed[s] ELSE None]
  /\ keys = [k \in Things |->
       IF k \in Keys0
       THEN NewKey(Deployed[Issued[k]].organization, Issued[k], k,
                   Founded[Deployed[Issued[k]].organization])
       ELSE None]
  /\ events = [j \in Jobs |-> None]
  /\ log = {}
  /\ expired = {}
  /\ job = [j \in Jobs |-> NoJob]
  /\ stage = [j \in Jobs |-> "idle"]
  /\ row = [j \in Jobs |-> None]
  /\ barred = [j \in Jobs |-> NothingBarred]

\* Clients send while the bound leaves room.
Room == Cardinality({q \in Requests : pc[q] # "idle"})
      + Cardinality({j \in Jobs : stage[j] # "idle"}) < Load

Order(j) ==
  /\ stage[j] = "idle"
  /\ \E c \in Ordered : job' = [job EXCEPT ![j] = c]
  /\ Become(j, "sent")
  /\ barred' = [barred EXCEPT ![j] =
       [keys |-> {k \in Things : Exists(keys, k) /\ keys[k].revoked},
        services |-> {s \in Things : Exists(services, s) /\ services[s].status = "disabled"}]]
  /\ UNCHANGED <<services, keys, events, log, expired, row>>

Expire(k) ==
  /\ Exists(keys, k) /\ keys[k].chain \notin expired
  /\ expired' = expired \cup {keys[k].chain}
  /\ UNCHANGED <<services, keys, events, log, job, stage, row, barred>>

-----------------------------------------------------------------------------
(* What the handlers of users read first. *)

\* The table of the rows that an operation is about.
TableOf(op) == IF op \in {"revoke_api_key", "rotate_api_key"} THEN keys ELSE services

\* The row, if the user is a member of its organization.
get_tenant_resource(j) ==
  LET c == job[j]
      table == TableOf(c.op) IN
  /\ stage[j] = "sent" /\ c.op \notin {"create_service", "ingest_event"}
  /\ IF /\ Exists(table, c.target)
        /\ Membership(table[c.target].organization, c.user) # {}
     THEN row' = Insert(row, j, table[c.target]) /\ Become(j, "located")
     ELSE Become(j, "refused") /\ UNCHANGED row
  /\ UNCHANGED <<services, keys, events, log, expired, job, barred>>

\* The user's role, read by another statement; a rotation then checks the key that
\* was read before.
check_role(j) ==
  LET c == job[j]
      organization == IF c.op = "create_service" THEN c.organization ELSE row[j].organization
      permitted == \E m \in Membership(organization, c.user) :
                     NeededPermission[c.op] \in ROLE_PERMISSIONS[members[m].role]
      rotatable == ~row[j].revoked /\ ~IsExpired(row[j]) IN
  /\ stage[j] = IF c.op = "create_service" THEN "sent" ELSE "located"
  /\ c.op # "ingest_event"
  /\ Become(j, IF permitted /\ (c.op = "rotate_api_key" => rotatable)
               THEN "allowed" ELSE "refused")
  /\ UNCHANGED <<services, keys, events, log, expired, job, row, barred>>

-----------------------------------------------------------------------------
(* Services. *)

create_service(j) ==
  LET c == job[j] IN
  /\ stage[j] = "allowed" /\ c.op = "create_service"
  /\ IF Taken(c.organization, c.slug)
     THEN Become(j, "refused") /\ UNCHANGED services
     ELSE /\ services' = Insert(services, j,
               [organization |-> c.organization, slug |-> c.slug, status |-> "operational"])
          /\ Become(j, "done")
  /\ UNCHANGED <<keys, events, log, expired, job, row, barred>>

\* A field is written if the body sets it and it differs from the row that was read.
Writes(j, field) == job[j][field] # None /\ job[j][field] # row[j][field]

\* An UPDATE that finds no row fails; without one the answer cannot be read again.
\* barred: requests sent while the service was disabled may find it enabled.
update_service(j) ==
  LET c == job[j]
      old == services[c.target]
      new == [old EXCEPT !.slug = IF Writes(j, "slug") THEN c.slug ELSE @,
                         !.status = IF Writes(j, "status") THEN c.status ELSE @] IN
  /\ stage[j] = "allowed" /\ c.op = "update_service"
  /\ IF ~Exists(services, c.target)
     THEN Become(j, "failed") /\ UNCHANGED <<services, barred>>
     ELSE IF new.slug # old.slug /\ Taken(new.organization, new.slug)
     THEN Become(j, "refused") /\ UNCHANGED <<services, barred>>
     ELSE /\ services' = Insert(services, c.target, new)
          /\ barred' = IF new.status = "disabled" THEN barred
                       ELSE [i \in Jobs |-> [barred[i] EXCEPT !.services = @ \ {c.target}]]
          /\ Become(j, "done")
  /\ UNCHANGED <<keys, events, log, expired, job, row>>

\* A fault: the keys are deleted with their service, the events are not.
DeleteServiceAndKeys(j) ==
  LET s == job[j].target IN
  /\ stage[j] = "allowed" /\ job[j].op = "delete_service"
  /\ services' = Insert(services, s, None)
  /\ keys' = [k \in Things |-> IF Exists(keys, k) /\ keys[k].service = s THEN None ELSE keys[k]]
  /\ Become(j, "done")
  /\ UNCHANGED <<events, log, expired, job, row, barred>>

\* The service goes with its keys and events, by the mapper's cascade or by that
\* of the foreign keys; a DELETE is content with rows that are gone.
delete_service(j) ==
  LET s == job[j].target IN
  /\ stage[j] = "allowed" /\ job[j].op = "delete_service"
  /\ services' = Insert(services, s, None)
  /\ keys' = [k \in Things |-> IF Exists(keys, k) /\ keys[k].service = s THEN None ELSE keys[k]]
  /\ events' = [i \in Jobs |->
       IF events[i] # None /\ events[i].service = s THEN None ELSE events[i]]
  /\ Become(j, "done")
  /\ UNCHANGED <<log, expired, job, row, barred>>

-----------------------------------------------------------------------------
(* API keys. *)

\* A fault: the entry is written before the flush that gives a new key its identifier.
RecordUnflushed(j, action, key, previous) ==
  log' = log \cup {[action |-> action, key |-> IF key = j THEN None ELSE key,
                    previous |-> previous, job |-> j]}

Record(j, action, key, previous) ==
  log' = log \cup {[action |-> action, key |-> key, previous |-> previous, job |-> j]}

\* The INSERT, which the foreign key fails if the service is gone.
create_service_api_key(j) ==
  LET c == job[j] IN
  /\ stage[j] = "allowed" /\ c.op = "create_service_api_key"
  /\ IF Exists(services, c.target)
     THEN /\ keys' = Insert(keys, j, NewKey(row[j].organization, c.target, j, c.user))
          /\ Record(j, "API_KEY_CREATED", j, None)
          /\ Become(j, "done")
     ELSE Become(j, "failed") /\ UNCHANGED <<keys, log>>
  /\ UNCHANGED <<services, events, expired, job, row, barred>>

\* A key that was read as revoked is left alone; otherwise the UPDATE fails if the
\* key is gone, and revokes it, perhaps again.
revoke_api_key(j) ==
  LET k == job[j].target IN
  /\ stage[j] = "allowed" /\ job[j].op = "revoke_api_key"
  /\ IF row[j].revoked
     THEN Become(j, "done") /\ UNCHANGED <<keys, log>>
     ELSE IF Exists(keys, k)
     THEN /\ keys' = [keys EXCEPT ![k].revoked = TRUE]
          /\ Record(j, "API_KEY_REVOKED", k, None)
          /\ Become(j, "done")
     ELSE Become(j, "failed") /\ UNCHANGED <<keys, log>>
  /\ UNCHANGED <<services, events, expired, job, row, barred>>

\* The rotation selects the service of the key, and validates the new key: one that
\* expired since the check is an error.
select_service(j) ==
  LET s == row[j].service IN
  /\ stage[j] = "allowed" /\ job[j].op = "rotate_api_key"
  /\ Become(j, IF ~Exists(services, s) THEN "refused"
               ELSE IF Membership(services[s].organization, job[j].user) = {} THEN "refused"
               ELSE IF IsExpired(row[j]) THEN "failed" ELSE "rotating")
  /\ UNCHANGED <<services, keys, events, log, expired, job, row, barred>>

\* A fault: the old key stays valid.
RotateAndKeep(j) ==
  LET k == job[j].target IN
  /\ stage[j] = "rotating"
  /\ IF Exists(keys, k)
     THEN /\ keys' = Insert(keys, j, NewKey(row[j].organization, row[j].service,
                                            row[j].chain, job[j].user))
          /\ Record(j, "API_KEY_ROTATED", j, k)
          /\ Become(j, "done")
     ELSE Become(j, "failed") /\ UNCHANGED <<keys, log>>
  /\ UNCHANGED <<services, events, expired, job, row, barred>>

\* The old key is revoked and its successor, which expires with it, inserted in
\* one flush; it fails if the key is gone, which goes with the service.
rotate_api_key(j) ==
  LET k == job[j].target IN
  /\ stage[j] = "rotating"
  /\ IF Exists(keys, k)
     THEN /\ keys' = [keys EXCEPT ![k].revoked = TRUE,
                                  ![j] = NewKey(row[j].organization, row[j].service,
                                                row[j].chain, job[j].user)]
          /\ Record(j, "API_KEY_ROTATED", j, k)
          /\ Become(j, "done")
     ELSE Become(j, "failed") /\ UNCHANGED <<keys, log>>
  /\ UNCHANGED <<services, events, expired, job, row, barred>>

-----------------------------------------------------------------------------
(* Deliveries. *)

\* The key is selected by its hash.
select_key(j) ==
  LET k == job[j].target IN
  /\ stage[j] = "sent" /\ job[j].op = "ingest_event"
  /\ IF Exists(keys, k)
     THEN row' = Insert(row, j, keys[k]) /\ Become(j, "authenticating")
     ELSE Become(j, "refused") /\ UNCHANGED row
  /\ UNCHANGED <<services, keys, events, log, expired, job, barred>>

\* A fault: revoked_at is not looked at.
IgnoreRevocation(j) ==
  LET s == row[j].service IN
  /\ stage[j] = "authenticating"
  /\ Become(j, IF IsExpired(row[j]) THEN "refused"
               ELSE IF ~Exists(services, s) THEN "failed"
               ELSE IF services[s].status = "disabled" THEN "refused" ELSE "storing")
  /\ UNCHANGED <<services, keys, events, log, expired, job, row, barred>>

\* The service is selected by a second statement, and then all is checked: an
\* error if the service is gone and the key was not refused first.
get_ingestion_api_key(j) ==
  LET s == row[j].service IN
  /\ stage[j] = "authenticating"
  /\ Become(j, IF row[j].revoked \/ IsExpired(row[j]) THEN "refused"
               ELSE IF ~Exists(services, s) THEN "failed"
               ELSE IF services[s].status = "disabled" THEN "refused" ELSE "storing")
  /\ UNCHANGED <<services, keys, events, log, expired, job, row, barred>>

\* The flush of ingest_event writes the key's last_used_at and the event, and
\* fails if the key is gone; nothing is checked again.
ingest_event(j) ==
  /\ stage[j] = "storing"
  /\ IF Exists(keys, job[j].target)
     THEN /\ events' = Insert(events, j, [service |-> row[j].service, key |-> job[j].target])
          /\ Become(j, "done")
     ELSE Become(j, "failed") /\ UNCHANGED events
  /\ UNCHANGED <<services, keys, log, expired, job, row, barred>>

-----------------------------------------------------------------------------
Work(j) ==
  \/ get_tenant_resource(j) \/ check_role(j)
  \/ create_service(j) \/ update_service(j) \/ delete_service(j)
  \/ create_service_api_key(j) \/ revoke_api_key(j)
  \/ select_service(j) \/ rotate_api_key(j)
  \/ select_key(j) \/ get_ingestion_api_key(j) \/ ingest_event(j)

\* Everything that was sent has been answered, or clients send no more.
Rest ==
  /\ \A q \in Requests : pc[q] \in Final \cup {"idle"}
  /\ \A j \in Jobs : stage[j] \in Final \cup {"idle"}
  /\ UNCHANGED vars

Next ==
  \/ \E q \in Requests : ((Room /\ Send(q)) \/ Handle(q)) /\ UNCHANGED workVars
  \/ \E j \in Jobs : ((Room /\ Order(j)) \/ Work(j)) /\ UNCHANGED memberVars
  \/ \E k \in ShortLived : Expire(k) /\ UNCHANGED memberVars
  \/ Rest

Spec == Init /\ [][Next]_vars

-----------------------------------------------------------------------------
(* Properties. *)

\* Every variable keeps its type (the models of services, api_keys and events).
TypeOK ==
  /\ MembersTypeOK
  /\ services \in [Things -> Service \cup {None}]
  /\ keys \in [Things -> Key \cup {None}]
  /\ events \in [Jobs -> Event \cup {None}]
  /\ log \subseteq Entry
  /\ expired \subseteq Things
  /\ job \in [Jobs -> Ordered \cup {NoJob}]
  /\ stage \in [Jobs -> {"idle", "sent", "located", "allowed", "rotating",
                         "authenticating", "storing"} \cup Final]
  /\ row \in [Jobs -> Service \cup Key \cup {None}]
  /\ barred \in [Jobs -> Barred]

\* A delivery is not accepted if its key was revoked or rotated before it was
\* sent, nor if its service was disabled then and has not been enabled since, though
\* key, service and event are three statements (dependencies.py:69-102).
RevocationIsFinal ==
  \A j \in Jobs : (job[j].op = "ingest_event" /\ stage[j] = "done") =>
    job[j].target \notin barred[j].keys /\ row[j].service \notin barred[j].services

\* Every key was issued by the owner of its organization, for a service of that
\* organization, whatever roles and services changed after the checks (api_keys.py).
KeysComeFromOwner ==
  \A k \in Things : Exists(keys, k) =>
    /\ keys[k].by = created_by[keys[k].organization]
    /\ services[keys[k].service].organization = keys[k].organization

\* A key is revoked exactly if an entry says it was revoked or rotated; a key that
\* was issued has the entry of its origin, and two rotations of one key are both on
\* record; a request that failed or was refused leaves none (api_keys.py:21-57).
AuditAccountsForKeys ==
  /\ \A k \in Things : Exists(keys, k) =>
       /\ keys[k].revoked <=> \E e \in log :
            e.previous = k \/ (e.key = k /\ e.action = "API_KEY_REVOKED")
       /\ k \notin Keys0 => \E e \in log :
            /\ e.key = k /\ e.action \in {"API_KEY_CREATED", "API_KEY_ROTATED"}
            /\ e.job = k
  /\ \A e \in log : stage[e.job] = "done"

\* No key and no event is left of a service that was deleted, even if a rotation
\* or a delivery had read the service before (services.py:112-120, the foreign keys).
NothingOutlivesService ==
  /\ \A k \in Things : Exists(keys, k) => Exists(services, keys[k].service)
  /\ \A j \in Jobs : events[j] # None => Exists(services, events[j].service)
=============================================================================
