------------------------------ MODULE Telemetry ------------------------------
(***************************************************************************)
(* The data that event ingestion and incident detection share: a stored    *)
(* event, its fingerprint, and the two queries the code runs over events.  *)
(* A message, metadata, trace and request identifiers are carried along by *)
(* the code and never looked at, so they are left out.                     *)
(***************************************************************************)
EXTENDS Integers, FiniteSets

CONSTANTS
  Services,    \* the services of one organization
  EventIds,    \* event identifiers, after strip()
  EventTypes,  \* event types, after strip().upper()
  Times,       \* values of occurred_at
  Threshold,   \* INCIDENT_THRESHOLD: matching failures that open an incident
  Window,      \* INCIDENT_WINDOW_SECONDS: how far back they are counted
  None         \* no row, no incident, no user

ASSUME ThresholdAssumption == Threshold \in Nat \ {0}
ASSUME WindowAssumption == Window \in Nat
ASSUME TimesAssumption == Times \subseteq Int

EventLevel == {"DEBUG", "INFO", "WARNING", "ERROR", "CRITICAL"}
IncidentSeverity == {"SEV_1", "SEV_2", "SEV_3", "SEV_4"}
IncidentStatus == {"OPEN", "ACKNOWLEDGED", "RESOLVED"}

Event == [service : Services, id : EventIds, type : EventTypes,
          level : EventLevel, at : Times]

ASSUME NoEventAssumption == None \notin Event

\* The digest is taken of "service:TYPE", so it identifies the pair.
create_event_fingerprint(e) == <<e.service, e.type>>

SameFingerprint(e, f) == create_event_fingerprint(e) = create_event_fingerprint(f)

\* The unique constraint uq_event_service_event_id: one row per pair.
SameDelivery(e, f) == e.service = f.service /\ e.id = f.id

IsFailure(e) == e.level \in {"ERROR", "CRITICAL"}

\* f is among the rows counted, and later linked, on behalf of e: the WHERE
\* clause of both queries of evaluate_event_for_incident.
Matches(e, f) ==
  /\ SameFingerprint(e, f)
  /\ IsFailure(f)
  /\ e.at - Window <= f.at
  /\ f.at <= e.at

\* The partial unique index unique_active_incident covers these two states.
IsActive(status) == status \in {"OPEN", "ACKNOWLEDGED"}

\* A fault: the level is stored as the severity.
SeverityIsLevel(e) == e.level

SeverityFor(e) == IF e.level = "CRITICAL" THEN "SEV_1" ELSE "SEV_2"

\* The row with which the failure e opens an incident; its service, fingerprint
\* and detected_at are those of e and are never written again.
NewIncident(e) ==
  [status |-> "OPEN", severity |-> SeverityFor(e), assigned_to |-> None,
   acknowledged |-> FALSE, resolved |-> FALSE]
=============================================================================
