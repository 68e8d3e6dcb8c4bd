---------------------------- MODULE IncidentEngine ----------------------------
(***************************************************************************)
(* POST /events, incident detection, and the acknowledge and resolve       *)
(* handlers, one SQL statement per step.                                   *)
(*                                                                         *)
(* Every handler runs in a thread of its own with a database session of    *)
(* its own, under PostgreSQL's READ COMMITTED: each SELECT sees what is    *)
(* committed when it starts and the transaction's own rows, and nothing of *)
(* any other open transaction.  A write waits for the open transaction     *)
(* that wrote the same row or the same unique key, then goes by what that  *)
(* one committed.  An event row is identified by the request that inserts  *)
(* it, an incident by the request that creates it.                         *)
(*                                                                         *)
(* A delivery starts after its API key and its rate limit were accepted.   *)
(***************************************************************************)
EXTENDS Telemetry

CONSTANTS
  Requests,     \* deliveries of events; a retry is a delivery of its own
  Clicks,       \* acknowledge and resolve requests of authorised users
  Keys,         \* API keys
  KeyService,   \* the service each key belongs to
  Payloads,     \* bodies: [id, type, level, at], as the client spelt them
  strip,        \* what strip() makes of an event_id
  normalize     \* what strip().upper() makes of an event_type

ASSUME RequestsAssumption == IsFiniteSet(Requests) /\ None \notin Requests
ASSUME ClicksAssumption == None \notin Clicks
ASSUME KeysAssumption == KeyService \in [Keys -> Services]
ASSUME PayloadsAssumption ==
  \A p \in Payloads : /\ p.level \in EventLevel /\ p.at \in Times
                      /\ strip[p.id] \in EventIds
                      /\ normalize[p.type] \in EventTypes

VARIABLES
  req,       \* request -> [key, payload]; what each client sends
  pc,        \* request -> where its handler stands
  target,    \* request -> the incident its handler holds, or None
  batch,     \* request -> the events its session will link at commit
  incident,  \* request -> the incident row it created, or None
  links,     \* incident_events: committed <<incident, event>> pairs
  click,     \* click -> [pc, incident, status, assigned_to]: what it read
  audit      \* audit_logs: committed [action, incident, actor] entries

ingestVars == <<pc, target, batch>>
clickVars == <<click, audit>>
vars == <<req, ingestVars, incident, links, clickVars>>

-----------------------------------------------------------------------------
(* The tables. *)

\* Between the flush that inserts the event and the commit or rollback.
InTxn == {"flushed", "counting", "creating", "beaten", "collecting", "committing"}
Final == {"accepted", "duplicate", "failed"}
PC == {"new", "known", "inserting", "answering"} \cup InTxn \cup Final

ClickFinal == {"done", "conflict", "failed"}
ClickPC == {"idle", "acknowledging", "resolving"} \cup ClickFinal

Incident == [status : IncidentStatus, severity : IncidentSeverity,
             assigned_to : Clicks \cup {None},
             acknowledged : BOOLEAN, resolved : BOOLEAN]

ASSUME NoIncidentAssumption == None \notin Incident

\* The row made of a body sent under a key.
EventRow(k, p) == [service |-> KeyService[k], id |-> strip[p.id],
                   type |-> normalize[p.type], level |-> p.level, at |-> p.at]

\* The row that the request inserts.
Row(r) == EventRow(req[r].key, req[r].payload)

Committed(r) == pc[r] = "accepted"
Inserted(r) == pc[r] \in InTxn \/ Committed(r)

\* The event rows a statement of r's transaction sees.
VisibleEvents(r) == {o \in Requests : Committed(o) \/ (o = r /\ Inserted(o))}

\* The committed rows with the service and event_id of r.
Stored(r) == {o \in Requests : Committed(o) /\ SameDelivery(Row(o), Row(r))}

\* Incidents with the fingerprint of r that the unique index covers.
ActiveLike(r) == {i \in Requests : /\ incident[i] # None
                                   /\ IsActive(incident[i].status)
                                   /\ SameFingerprint(Row(i), Row(r))}

\* A fault: the query forgets the fingerprint.
FindActiveOfAnyType(r) ==
  {i \in Requests : incident[i] # None /\ IsActive(incident[i].status) /\ Committed(i)}

\* Those that other transactions see.
find_active_incident(r) == {i \in ActiveLike(r) : Committed(i)}


matching_events(r) == {o \in VisibleEvents(r) : Matches(Row(r), Row(o))}

\* A fault: the flush leaves the row of the key alone.
KeyUnlocked(r) == r \in Requests

\* The flush writes last_used_at, so the row of the key stays locked until the
\* transaction ends: deliveries under one key go one after the other from there.
KeyFree(r) == \A o \in Requests \ {r} : pc[o] \in InTxn => req[o].key # req[r].key

Goto(r, label) == pc' = [pc EXCEPT ![r] = label]

Init ==
  /\ req \in [Requests -> [key : Keys, payload : Payloads]]
  /\ pc = [r \in Requests |-> "new"]
  /\ target = [r \in Requests |-> None]
  /\ batch = [r \in Requests |-> {}]
  /\ incident = [r \in Requests |-> None]
  /\ links = {}
  /\ click = [c \in Clicks |-> [pc |-> "idle", incident |-> None, assigned_to |-> None]]
  /\ audit = {}

-----------------------------------------------------------------------------
(* Faults of the handlers, each of which breaks one of the properties below. *)

\* There is no unique constraint on deliveries.
FlushUnconstrained(r) ==
  /\ pc[r] = "inserting"
  /\ KeyFree(r)
  /\ Goto(r, "flushed")
  /\ UNCHANGED <<req, target, batch, incident, links, clickVars>>

\* The severity of the joined incident is not written.
CommitLinksOnly(r) ==
  /\ pc[r] = "committing"
  /\ Goto(r, "accepted")
  /\ links' = links \cup {<<target[r], e>> : e \in batch[r]}
  /\ batch' = [batch EXCEPT ![r] = {}]
  /\ UNCHANGED <<req, target, incident, clickVars>>

\* The joined incident is returned and the link forgotten.
JoinUnlinked(r, i) ==
  /\ target' = [target EXCEPT ![r] = i]
  /\ Goto(r, "committing")
  /\ UNCHANGED batch

\* One failure too few is enough.
CountOneLess(r) ==
  /\ pc[r] = "counting"
  /\ Goto(r, IF Cardinality(matching_events(r)) < Threshold - 1
             THEN "committing" ELSE "creating")
  /\ UNCHANGED <<req, target, batch, incident, links, clickVars>>

\* There is no unique index on active incidents.
CreateUnchecked(r) ==
  /\ pc[r] = "creating"
  /\ incident' = [incident EXCEPT ![r] = NewIncident(Row(r))]
  /\ target' = [target EXCEPT ![r] = r]
  /\ Goto(r, "collecting")
  /\ UNCHANGED <<req, batch, links, clickVars>>

\* The insert waits for a rival to be resolved instead of giving way to it.
CreateWaiting(r) == ActiveLike(r) = {} /\ CreateUnchecked(r)

\* The new incident is linked to the last failure only.
CollectOnlyLast(r) ==
  /\ pc[r] = "collecting"
  /\ batch' = [batch EXCEPT ![r] = {r}]
  /\ Goto(r, "committing")
  /\ UNCHANGED <<req, target, incident, links, clickVars>>

\* The index is not consulted when an incident becomes active again.
AcknowledgeUnchecked(c) ==
  LET i == click[c].incident IN
  /\ click[c].pc = "acknowledging"
  /\ incident' = [incident EXCEPT ![i].status = "ACKNOWLEDGED",
                                  ![i].acknowledged = TRUE,
                                  ![i].assigned_to = c]
  /\ audit' = audit \cup
       {[action |-> "INCIDENT_ACKNOWLEDGED", incident |-> i, actor |-> c]}
  /\ click' = [click EXCEPT ![c].pc = "done"]
  /\ UNCHANGED <<req, ingestVars, links>>

\* The audit entry is left out.
ResolveUnaudited(c) ==
  LET i == click[c].incident IN
  /\ click[c].pc = "resolving"
  /\ incident' = [incident EXCEPT ![i].status = "RESOLVED",
                                  ![i].resolved = TRUE,
                                  ![i].assigned_to =
                                    IF click[c].assigned_to = None THEN c ELSE @]
  /\ click' = [click EXCEPT ![c].pc = "done"]
  /\ UNCHANGED <<req, ingestVars, links, audit>>

-----------------------------------------------------------------------------
(* ingest_event *)

\* The first SELECT: is this delivery already stored?
Lookup(r) ==
  /\ pc[r] = "new"
  /\ Goto(r, IF Stored(r) = {} THEN "inserting" ELSE "known")
  /\ UNCHANGED <<req, target, batch, incident, links, clickVars>>

\* A known delivery only commits last_used_at, once the row of the key is free.
CommitLastUsed(r) ==
  /\ pc[r] = "known"
  /\ KeyFree(r)
  /\ Goto(r, "answering")
  /\ UNCHANGED <<req, target, batch, incident, links, clickVars>>

\* The flush: it waits for the key and for an open transaction that inserted
\* the same delivery.  If that one committed, the unique constraint fails, the
\* session is rolled back and the row is there when it is selected again.
Flush(r) ==
  /\ pc[r] = "inserting"
  /\ KeyFree(r)
  /\ \A o \in Requests \ {r} : pc[o] \in InTxn => ~SameDelivery(Row(o), Row(r))
  /\ Goto(r, IF Stored(r) = {} THEN "flushed" ELSE "answering")
  /\ UNCHANGED <<req, target, batch, incident, links, clickVars>>

\* find_incident_id for a duplicate: any incident that the stored event is
\* linked to, the query has a LIMIT and no ORDER BY.
find_incident_id(r) ==
  LET linked == {i \in Requests : \E e \in Stored(r) : <<i, e>> \in links}
  IN  IF linked = {} THEN {None} ELSE linked

AnswerDuplicate(r) ==
  /\ pc[r] = "answering"
  /\ \E i \in find_incident_id(r) : target' = [target EXCEPT ![r] = i]
  /\ Goto(r, "duplicate")
  /\ UNCHANGED <<req, batch, incident, links, clickVars>>

\* The commit writes the links and, for a critical event that joined an
\* incident, its severity; whatever became of that incident since it was read.
Commit(r) ==
  /\ pc[r] = "committing"
  /\ Goto(r, "accepted")
  /\ links' = links \cup {<<target[r], e>> : e \in batch[r]}
  /\ incident' = [i \in Requests |->
                    IF i = target[r] /\ i # r /\ Row(r).level = "CRITICAL"
                    THEN [incident[i] EXCEPT !.severity = "SEV_1"]
                    ELSE incident[i]]
  /\ batch' = [batch EXCEPT ![r] = {}]
  /\ UNCHANGED <<req, target, clickVars>>

\* The transaction ends without a trace.
Rollback(r) ==
  /\ Goto(r, "failed")
  /\ incident' = [incident EXCEPT ![r] = None]
  /\ target' = [target EXCEPT ![r] = None]
  /\ batch' = [batch EXCEPT ![r] = {}]

\* The worker or its connection dies before the commit.
Crash(r) ==
  /\ pc[r] \in InTxn
  /\ Rollback(r)
  /\ UNCHANGED <<req, links, clickVars>>

-----------------------------------------------------------------------------
(* evaluate_event_for_incident *)

\* link_event_if_needed: the event is not committed yet, so nothing links it.
Join(r, i) ==
  /\ target' = [target EXCEPT ![r] = i]
  /\ batch' = [batch EXCEPT ![r] = {r}]
  /\ Goto(r, "committing")

\* Only failures are evaluated; one that finds an active incident joins it.
FindActive(r) ==
  /\ pc[r] = "flushed"
  /\ \/ /\ ~IsFailure(Row(r))
        /\ Goto(r, "committing")
        /\ UNCHANGED <<target, batch>>
     \/ /\ IsFailure(Row(r))
        /\ find_active_incident(r) = {}
        /\ Goto(r, "counting")
        /\ UNCHANGED <<target, batch>>
     \/ /\ IsFailure(Row(r))
        /\ \E i \in find_active_incident(r) : Join(r, i)
  /\ UNCHANGED <<req, incident, links, clickVars>>

CountMatching(r) ==
  /\ pc[r] = "counting"
  /\ Goto(r, IF Cardinality(matching_events(r)) < Threshold
             THEN "committing" ELSE "creating")
  /\ UNCHANGED <<req, target, batch, incident, links, clickVars>>

\* The insert, in a savepoint, waits for an open transaction that inserted an
\* active incident of this fingerprint; a committed one makes it fail.
CreateIncident(r) ==
  /\ pc[r] = "creating"
  /\ ActiveLike(r) = find_active_incident(r)
  /\ \/ /\ ActiveLike(r) = {}
        /\ incident' = [incident EXCEPT ![r] = NewIncident(Row(r))]
        /\ target' = [target EXCEPT ![r] = r]
        /\ Goto(r, "collecting")
     \/ /\ ActiveLike(r) # {}
        /\ Goto(r, "beaten")
        /\ UNCHANGED <<incident, target>>
  /\ UNCHANGED <<req, batch, links, clickVars>>

\* The loser joins the winner's incident, or fails if that is already resolved.
JoinWinner(r) ==
  /\ pc[r] = "beaten"
  /\ \/ /\ \E i \in find_active_incident(r) : Join(r, i)
        /\ UNCHANGED incident
     \/ /\ find_active_incident(r) = {}
        /\ Rollback(r)
  /\ UNCHANGED <<req, links, clickVars>>

\* The winner selects the matching events again, with a later snapshot.
CollectMatching(r) ==
  /\ pc[r] = "collecting"
  /\ batch' = [batch EXCEPT ![r] = matching_events(r)]
  /\ Goto(r, "committing")
  /\ UNCHANGED <<req, target, incident, links, clickVars>>

-----------------------------------------------------------------------------
(* acknowledge_incident and resolve_incident *)

\* The handler loads a committed incident and decides by the status it sees.
Read(c, verdict) ==
  /\ click[c].pc = "idle"
  /\ \E i \in Requests :
       /\ incident[i] # None /\ Committed(i)
       /\ click' = [click EXCEPT ![c] =
                      [pc |-> verdict[incident[i].status], incident |-> i,
                       assigned_to |-> incident[i].assigned_to]]
  /\ UNCHANGED <<req, ingestVars, incident, links, audit>>

ReadToAcknowledge(c) ==
  Read(c, [OPEN |-> "acknowledging", ACKNOWLEDGED |-> "done", RESOLVED |-> "conflict"])

ReadToResolve(c) ==
  Read(c, [OPEN |-> "resolving", ACKNOWLEDGED |-> "resolving", RESOLVED |-> "done"])

\* The incident another one of its fingerprint keeps c from making active.
Rivals(c) == ActiveLike(click[c].incident) \ {click[c].incident}

\* Only the changed columns are written, over whatever the row holds by now.
\* The unique index applies when that makes a resolved row active again.
CommitAcknowledge(c) ==
  LET i == click[c].incident IN
  /\ click[c].pc = "acknowledging"
  /\ \A o \in Rivals(c) : Committed(o)
  /\ \/ /\ Rivals(c) = {}
        /\ incident' = [incident EXCEPT ![i].status = "ACKNOWLEDGED",
                                        ![i].acknowledged = TRUE,
                                        ![i].assigned_to = c]
        /\ audit' = audit \cup
             {[action |-> "INCIDENT_ACKNOWLEDGED", incident |-> i, actor |-> c]}
        /\ click' = [click EXCEPT ![c].pc = "done"]
     \/ /\ Rivals(c) # {}
        /\ click' = [click EXCEPT ![c].pc = "failed"]
        /\ UNCHANGED <<incident, audit>>
  /\ UNCHANGED <<req, ingestVars, links>>

\* assigned_to is written only if it was unset when it was read.
CommitResolve(c) ==
  LET i == click[c].incident IN
  /\ click[c].pc = "resolving"
  /\ incident' = [incident EXCEPT ![i].status = "RESOLVED",
                                  ![i].resolved = TRUE,
                                  ![i].assigned_to =
                                    IF click[c].assigned_to = None THEN c ELSE @]
  /\ audit' = audit \cup {[action |-> "INCIDENT_RESOLVED", incident |-> i, actor |-> c]}
  /\ click' = [click EXCEPT ![c].pc = "done"]
  /\ UNCHANGED <<req, ingestVars, links>>

-----------------------------------------------------------------------------

\* What the server does for a delivery it has begun to handle.
Handle(r) ==
  \/ CommitLastUsed(r) \/ Flush(r) \/ AnswerDuplicate(r) \/ Commit(r)
  \/ FindActive(r) \/ CountMatching(r) \/ CreateIncident(r) \/ JoinWinner(r)
  \/ CollectMatching(r)

FinishClick(c) == CommitAcknowledge(c) \/ CommitResolve(c)

\* Everything sent has been answered.
Rest ==
  /\ \A r \in Requests : pc[r] \in Final
  /\ \A c \in Clicks : click[c].pc \notin {"acknowledging", "resolving"}
  /\ UNCHANGED vars

Next ==
  \/ \E r \in Requests : Lookup(r) \/ Handle(r) \/ Crash(r)
  \/ \E c \in Clicks : ReadToAcknowledge(c) \/ ReadToResolve(c) \/ FinishClick(c)
  \/ Rest

\* A thread that is running keeps running, and a lock that stays free is
\* granted.  Clients send, and workers crash, as they please.
Fairness ==
  /\ \A r \in Requests : WF_vars(Handle(r))
  /\ \A c \in Clicks : WF_vars(FinishClick(c))

Spec == Init /\ [][Next]_vars /\ Fairness

-----------------------------------------------------------------------------
(* What the committed state looks like from outside: the mapping under which *)
(* the handlers implement the incident board.                                *)

Board == INSTANCE IncidentBoard WITH
  Rows <- Requests, Users <- Clicks,
  Arrivals <- {EventRow(k, p) : k \in Keys, p \in Payloads},
  events <- [r \in Requests |-> IF Committed(r) THEN Row(r) ELSE None],
  incidents <- [r \in Requests |-> IF Committed(r) THEN incident[r] ELSE None]

\* Read statement by statement, the handlers do nothing that the board, which
\* changes in one step per commit, could not do.
BoardSpec == Board!Spec

-----------------------------------------------------------------------------
(* Properties. *)

TypeOK ==
  /\ req \in [Requests -> [key : Keys, payload : Payloads]]
  /\ pc \in [Requests -> PC]
  /\ target \in [Requests -> Requests \cup {None}]
  /\ batch \in [Requests -> SUBSET Requests]
  /\ incident \in [Requests -> Incident \cup {None}]
  /\ links \subseteq Requests \X Requests
  /\ click \in [Clicks -> [pc : ClickPC, incident : Requests \cup {None},
                           assigned_to : Clicks \cup {None}]]
  /\ audit \subseteq [action : {"INCIDENT_ACKNOWLEDGED", "INCIDENT_RESOLVED"},
                      incident : Requests, actor : Clicks]

\* However deliveries and clicks race, a fingerprint never has two incidents
\* that await a resolution, open transactions included.
OneActivePerFingerprint ==
  \A i, j \in Requests :
    /\ incident[i] # None /\ incident[j] # None
    /\ IsActive(incident[i].status) /\ IsActive(incident[j].status)
    /\ SameFingerprint(Row(i), Row(j))
    => i = j

\* A delivery repeated under another key, spelling or level, at any moment of
\* the first one's handling, never becomes a second event.
OneEventPerDelivery ==
  \A r, o \in Requests :
    Inserted(r) /\ Inserted(o) /\ SameDelivery(Row(r), Row(o)) => r = o

\* The description of an incident ("at least n matching error events within
\* w seconds") is true of the events linked to it, although the events were
\* counted by one statement and selected for linking by a later one.
IncidentHasEvidence == Board!IncidentHasEvidence

\* A link joins a committed failure to a committed incident of its fingerprint,
\* although incidents and events commit and roll back in between.
LinksAgree == Board!LinksAgree

\* The incident_id in an answer is an incident the event is linked to, and an
\* answer that says duplicate is given only while the event is stored.
AnswersAreTrue ==
  \A r \in Requests :
    /\ pc[r] = "accepted" /\ target[r] # None => <<target[r], r>> \in links
    /\ pc[r] = "duplicate" =>
         \E e \in Stored(r) : target[r] # None => <<target[r], e>> \in links

\* No interleaving loses the escalation by a critical event that was filed.
CriticalEscalates ==
  \A r \in Requests :
    Committed(r) /\ Row(r).level = "CRITICAL" /\ target[r] # None
    => incident[target[r]].severity = "SEV_1"

\* The audit log accounts for the state of every incident: who it is assigned
\* to acted on it, and it was acknowledged or resolved exactly if someone did.
AuditAccountsForIncidents ==
  \A i \in Requests : incident[i] # None =>
    LET acts == {a \in audit : a.incident = i}
        kinds == {a.action : a \in acts}
    IN  /\ incident[i].assigned_to \in {a.actor : a \in acts} \cup {None}
        /\ incident[i].assigned_to = None <=> acts = {}
        /\ incident[i].acknowledged <=> "INCIDENT_ACKNOWLEDGED" \in kinds
        /\ incident[i].resolved <=> "INCIDENT_RESOLVED" \in kinds
        /\ incident[i].status = "OPEN" <=> acts = {}

\* A failure whose window holds Threshold committed failures when it commits
\* is filed under an incident, if its service has no other key: the row lock of
\* the key then makes the deliveries count one after the other.  With a second
\* key the counts of two open transactions miss each other.
ThresholdDetected ==
  [][\A r \in Requests :
       /\ ~Committed(r) /\ Committed(r)'
       /\ IsFailure(Row(r))
       /\ \A k \in Keys : KeyService[k] = Row(r).service => k = req[r].key
       /\ Cardinality(matching_events(r)') >= Threshold
       => target'[r] # None]_vars

\* The same promise as the state that parallel deliveries leave behind: once
\* all is quiet and nothing was resolved, Threshold simultaneous failures have
\* an incident.
ParallelFailuresOpenIncident ==
  \A r \in Requests :
    /\ \A o \in Requests : pc[o] \in {"new", "accepted"}
    /\ Committed(r)
    /\ IsFailure(Row(r))
    /\ Cardinality({o \in Requests : /\ Committed(o) /\ IsFailure(Row(o))
                                     /\ SameFingerprint(Row(o), Row(r))
                                     /\ Row(o).at = Row(r).at}) >= Threshold
    => \E i \in Requests : incident[i] # None /\ SameFingerprint(Row(i), Row(r))

\* "Resolved incidents cannot be acknowledged": an incident that carries a
\* resolution is not in the acknowledged state.
ResolvedStaysResolved ==
  \A i \in Requests :
    incident[i] # None /\ incident[i].resolved => incident[i].status = "RESOLVED"

\* Waiting for keys, for duplicates and for rival incidents never goes round in
\* a circle: every delivery that reached the server is answered or fails.
EveryDeliveryEnds == \A r \in Requests : pc[r] # "new" ~> pc[r] \in Final
=============================================================================
