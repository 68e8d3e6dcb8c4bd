----------------------------- MODULE IncidentBoard ----------------------------
(***************************************************************************)
(* What a team may rely on when it looks at the incident board, whatever   *)
(* the requests that fill it do to each other: every committed request is  *)
(* one atomic step here.  IncidentEngine, which takes the handlers one     *)
(* SQL statement at a time, implements this specification.                 *)
(*                                                                         *)
(* The board is deliberately weak where the code is: it may accept a       *)
(* failure without opening an incident, it may file one under an incident  *)
(* that has been resolved meanwhile, and a resolved incident may be        *)
(* acknowledged.  IncidentEngine's runs show that the code does all three. *)
(***************************************************************************)
EXTENDS Telemetry

CONSTANTS
  Rows,      \* identities of stored events; an incident has that of its opener
  Arrivals,  \* the events that clients may send
  Users      \* who acknowledges and resolves

VARIABLES
  events,     \* row -> the committed event, or None
  incidents,  \* row -> the committed incident that this event opened, or None
  links       \* incident_events: <<incident, event>> pairs

vars == <<events, incidents, links>>

Incident == [status : IncidentStatus, severity : IncidentSeverity,
             assigned_to : Users \cup {None},
             acknowledged : BOOLEAN, resolved : BOOLEAN]

\* What the theorems about the board assume of its constants.
BoardAssumptions ==
  IsFiniteSet(Rows) /\ Arrivals \subseteq Event /\ None \notin Incident

TypeOK ==
  /\ events \in [Rows -> Event \cup {None}]
  /\ incidents \in [Rows -> Incident \cup {None}]
  /\ links \subseteq Rows \X Rows

Stored == {r \in Rows : events[r] # None}
Filed == {i \in Rows : incidents[i] # None}

\* The active incidents with the fingerprint of e.
ActiveFor(e) == {i \in Filed : /\ IsActive(incidents[i].status)
                               /\ SameFingerprint(events[i], e)}

Init ==
  /\ events = [r \in Rows |-> None]
  /\ incidents = [r \in Rows |-> None]
  /\ links = {}

\* An event enters the board under an identity and a delivery not yet stored.
Store(r, e) ==
  /\ events[r] = None
  /\ events' = [events EXCEPT ![r] = e]
  /\ \A o \in Stored : ~SameDelivery(events[o], e)

\* A failure is filed under an incident of its fingerprint; a critical one
\* raises the severity.
FileUnder(i, r, e) ==
  /\ IsFailure(e)
  /\ i \in Filed
  /\ SameFingerprint(events[i], e)
  /\ incidents' = [incidents EXCEPT ![i].severity =
                     IF e.level = "CRITICAL" THEN "SEV_1" ELSE @]
  /\ links' = links \cup {<<i, r>>}

\* A failure opens an incident, which is born with its evidence.
Open(r, e, evidence) ==
  /\ IsFailure(e)
  /\ ActiveFor(e) = {}
  /\ r \in evidence
  /\ \A o \in evidence : events'[o] # None /\ Matches(e, events'[o])
  /\ Cardinality(evidence) >= Threshold
  /\ incidents' = [incidents EXCEPT ![r] = NewIncident(e)]
  /\ links' = links \cup {<<r, o>> : o \in evidence}

Accept(r, e) ==
  /\ Store(r, e)
  /\ \/ UNCHANGED <<incidents, links>>
     \/ \E i \in Rows : FileUnder(i, r, e)
     \/ \E evidence \in SUBSET Rows : Open(r, e, evidence)

Acknowledge(i, u) ==
  /\ i \in Filed
  /\ ActiveFor(events[i]) \subseteq {i}
  /\ incidents' = [incidents EXCEPT ![i].status = "ACKNOWLEDGED",
                                    ![i].acknowledged = TRUE,
                                    ![i].assigned_to = u]
  /\ UNCHANGED <<events, links>>

Resolve(i, u) ==
  /\ i \in Filed
  /\ \E assignee \in {u, incidents[i].assigned_to} :
       incidents' = [incidents EXCEPT ![i].status = "RESOLVED",
                                      ![i].resolved = TRUE,
                                      ![i].assigned_to = assignee]
  /\ UNCHANGED <<events, links>>

Next ==
  \/ \E r \in Rows, e \in Arrivals : Accept(r, e)
  \/ \E i \in Rows, u \in Users : Acknowledge(i, u) \/ Resolve(i, u)

Spec == Init /\ [][Next]_vars

-----------------------------------------------------------------------------
(* What the board promises. *)

\* At most one incident per service and event type awaits a resolution: the
\* partial unique index of incidents/models.py.
OneActivePerFingerprint ==
  \A i, j \in Filed :
    /\ IsActive(incidents[i].status) /\ IsActive(incidents[j].status)
    /\ SameFingerprint(events[i], events[j])
    => i = j

\* Every incident can show what its description claims: at least Threshold
\* matching failures, within the window that ends at its opener.
IncidentHasEvidence ==
  \A i \in Filed :
    Cardinality({o \in Stored : <<i, o>> \in links
                                /\ Matches(events[i], events[o])}) >= Threshold

\* Nothing is filed under an incident of another service or type.
LinksAgree ==
  \A l \in links : /\ l[1] \in Filed /\ l[2] \in Stored
                   /\ IsFailure(events[l[2]])
                   /\ SameFingerprint(events[l[1]], events[l[2]])
=============================================================================
