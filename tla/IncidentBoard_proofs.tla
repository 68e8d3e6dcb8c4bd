------------------------- MODULE IncidentBoard_proofs -------------------------
(* Proofs that the incident board keeps its promises, for every value of the *)
(* constants.                                                                *)
EXTENDS IncidentBoard, FiniteSetTheorems, TLAPS

\* Every variable of the board keeps its type.
LEMMA BoardTypeCorrect ==
  ASSUME BoardAssumptions
  PROVE  Spec => []TypeOK
<1>1. Init => TypeOK
  BY DEF Init, TypeOK
<1>2. TypeOK /\ [Next]_vars => TypeOK'
  <2> SUFFICES ASSUME TypeOK, [Next]_vars PROVE TypeOK'
    OBVIOUS
  <2> USE DEF TypeOK
  <2>1. ASSUME NEW r \in Rows, NEW e \in Arrivals, Accept(r, e) PROVE TypeOK'
    <3>1. e \in Event
      BY DEF BoardAssumptions
    <3>2. events' \in [Rows -> Event \cup {None}]
      BY <2>1, <3>1 DEF Accept, Store
    <3>3. CASE UNCHANGED <<incidents, links>>
      BY <3>2, <3>3
    <3>4. ASSUME NEW i \in Rows, FileUnder(i, r, e) PROVE TypeOK'
      <4>1. incidents[i] \in Incident
        BY <3>4 DEF FileUnder, Filed
      <4>2. [incidents[i] EXCEPT !.severity =
               IF e.level = "CRITICAL" THEN "SEV_1" ELSE @] \in Incident
        BY <4>1 DEF Incident, IncidentSeverity
      <4>3. incidents' \in [Rows -> Incident \cup {None}]
        BY <3>4, <4>2 DEF FileUnder
      <4> QED
        BY <3>2, <3>4, <4>3 DEF FileUnder
    <3>5. ASSUME NEW evidence \in SUBSET Rows, Open(r, e, evidence) PROVE TypeOK'
      <4>1. NewIncident(e) \in Incident
        BY DEF NewIncident, SeverityFor, Incident, IncidentStatus, IncidentSeverity
      <4> QED
        BY <3>2, <3>5, <4>1 DEF Open
    <3> QED
      BY <2>1, <3>3, <3>4, <3>5 DEF Accept
  <2>2. ASSUME NEW i \in Rows, NEW u \in Users, Acknowledge(i, u) PROVE TypeOK'
    <3>1. incidents[i] \in Incident
      BY <2>2 DEF Acknowledge, Filed
    <3>2. [incidents[i] EXCEPT !.status = "ACKNOWLEDGED", !.acknowledged = TRUE,
             !.assigned_to = u] \in Incident
      BY <3>1 DEF Incident, IncidentStatus
    <3> QED
      BY <2>2, <3>2 DEF Acknowledge
  <2>3. ASSUME NEW i \in Rows, NEW u \in Users, Resolve(i, u) PROVE TypeOK'
    <3>1. incidents[i] \in Incident
      BY <2>3 DEF Resolve, Filed
    <3>2. ASSUME NEW a \in {u, incidents[i].assigned_to}
          PROVE [incidents[i] EXCEPT !.status = "RESOLVED", !.resolved = TRUE,
                   !.assigned_to = a] \in Incident
      BY <3>1 DEF Incident, IncidentStatus
    <3> QED
      BY <2>3, <3>2 DEF Resolve
  <2>4. CASE UNCHANGED vars
    BY <2>4 DEF vars
  <2> QED
    BY <2>1, <2>2, <2>3, <2>4 DEF Next
<1> QED
  BY <1>1, <1>2, PTL DEF Spec


\* The inductive invariant.  What is filed was stored, so an incident's event
\* never changes; the promises then survive because rows are only added.
BoardInv ==
  /\ TypeOK
  /\ Filed \subseteq Stored
  /\ OneActivePerFingerprint
  /\ LinksAgree
  /\ IncidentHasEvidence

\* The matching events linked to an incident.
Evidence(i) == {o \in Stored : <<i, o>> \in links /\ Matches(events[i], events[o])}

\* A step that keeps the stored events and the links keeps the evidence of an
\* incident, which needs only to grow.
LEMMA EvidenceGrows ==
  ASSUME IsFiniteSet(Rows), NEW i \in Stored,
         events'[i] = events[i],
         \A o \in Stored : o \in Stored' /\ events'[o] = events[o],
         links \subseteq links',
         Cardinality(Evidence(i)) >= Threshold
  PROVE  Cardinality(Evidence(i)') >= Threshold
<1>1. IsFiniteSet(Evidence(i)') /\ IsFiniteSet(Evidence(i))
  BY FS_Subset DEF Evidence, Stored
<1>2. Evidence(i) \subseteq Evidence(i)'
  BY DEF Evidence, Matches
<1>3. Cardinality(Evidence(i)) <= Cardinality(Evidence(i)')
  BY <1>1, <1>2, FS_Subset
<1>4. Cardinality(Evidence(i)) \in Nat /\ Cardinality(Evidence(i)') \in Nat
  BY <1>1, FS_CardinalityType
<1> QED
  BY <1>3, <1>4, ThresholdAssumption

\* Accepting an event keeps the board's promises.
LEMMA AcceptKeepsBoard ==
  ASSUME BoardAssumptions, BoardInv, TypeOK',
         NEW r \in Rows, NEW e \in Arrivals, Accept(r, e)
  PROVE  BoardInv'
<1> USE DEF TypeOK, Filed, Stored
<1>1. /\ r \notin Stored /\ r \notin Filed
      /\ events' = [events EXCEPT ![r] = e]
      /\ e \in Event /\ e # None
  BY NoEventAssumption DEF Accept, Store, BoardInv, BoardAssumptions
<1>2. /\ Stored' = Stored \cup {r}
      /\ events'[r] = e
      /\ \A o \in Stored : events'[o] = events[o] /\ o # r
  BY <1>1
<1>3. CASE UNCHANGED <<incidents, links>>
  <2>1. Filed' = Filed /\ Filed' \subseteq Stored'
    BY <1>2, <1>3 DEF BoardInv
  <2>2. OneActivePerFingerprint'
    BY <1>2, <1>3, <2>1 DEF BoardInv, OneActivePerFingerprint, SameFingerprint,
       create_event_fingerprint
  <2>3. LinksAgree'
    BY <1>2, <1>3, <2>1 DEF BoardInv, LinksAgree, SameFingerprint,
       create_event_fingerprint, IsFailure
  <2>4. IncidentHasEvidence'
    <3> SUFFICES ASSUME NEW i \in Filed PROVE Cardinality(Evidence(i)') >= Threshold
      BY <2>1 DEF IncidentHasEvidence, Evidence
    <3>1. Cardinality(Evidence(i)) >= Threshold /\ i \in Stored
      BY DEF BoardInv, IncidentHasEvidence, Evidence
    <3> QED
      BY <1>2, <1>3, <3>1, EvidenceGrows DEF BoardAssumptions
  <2> QED
    BY <2>1, <2>2, <2>3, <2>4 DEF BoardInv
<1>4. ASSUME NEW i \in Rows, FileUnder(i, r, e) PROVE BoardInv'
  <2> DEFINE row == [incidents[i] EXCEPT !.severity =
                       IF e.level = "CRITICAL" THEN "SEV_1" ELSE @]
  <2>0. incidents[i] \in Incident
    BY <1>4 DEF FileUnder, BoardInv
  <2>1. /\ incidents' = [incidents EXCEPT ![i] = row]
        /\ row.status = incidents[i].status
    BY <1>4, <2>0 DEF FileUnder, Incident
  <2>2. row \in Incident
    BY <2>0 DEF Incident, IncidentSeverity
  <2>3. Filed' = Filed /\ Filed' \subseteq Stored'
    BY <1>2, <2>1, <2>2, <1>4 DEF BoardInv, BoardAssumptions, FileUnder
  <2>4. OneActivePerFingerprint'
    BY <1>2, <2>1, <2>3 DEF BoardInv, OneActivePerFingerprint, SameFingerprint,
       create_event_fingerprint
  <2>5. LinksAgree'
    BY <1>2, <1>4, <2>3 DEF BoardInv, LinksAgree, SameFingerprint,
       create_event_fingerprint, IsFailure, FileUnder
  <2>6. IncidentHasEvidence'
    <3> SUFFICES ASSUME NEW j \in Filed PROVE Cardinality(Evidence(j)') >= Threshold
      BY <2>3 DEF IncidentHasEvidence, Evidence
    <3>1. Cardinality(Evidence(j)) >= Threshold /\ j \in Stored
      BY DEF BoardInv, IncidentHasEvidence, Evidence
    <3>2. links \subseteq links'
      BY <1>4 DEF FileUnder
    <3> QED
      BY <1>2, <3>1, <3>2, EvidenceGrows DEF BoardAssumptions
  <2> QED
    BY <2>3, <2>4, <2>5, <2>6 DEF BoardInv
<1>5. ASSUME NEW evidence \in SUBSET Rows, Open(r, e, evidence) PROVE BoardInv'
  <2>1. /\ incidents' = [incidents EXCEPT ![r] = NewIncident(e)]
        /\ NewIncident(e) # None
        /\ NewIncident(e).status = "OPEN"
    <3>1. NewIncident(e) \in Incident
      BY DEF NewIncident, SeverityFor, Incident, IncidentStatus, IncidentSeverity
    <3> QED
      BY <1>5, <3>1 DEF Open, BoardAssumptions, NewIncident
  <2>2. Filed' = Filed \cup {r} /\ Filed' \subseteq Stored'
    BY <1>2, <2>1 DEF BoardInv
  <2>3. OneActivePerFingerprint'
    <3>1. \A i \in Filed : IsActive(incidents[i].status) => ~SameFingerprint(events[i], e)
      BY <1>5 DEF Open, ActiveFor
    <3> QED
      BY <1>1, <1>2, <2>1, <2>2, <3>1 DEF BoardInv, OneActivePerFingerprint,
         SameFingerprint, create_event_fingerprint
  <2>4. LinksAgree'
    <3>1. \A o \in evidence : /\ o \in Stored' /\ IsFailure(events'[o])
                              /\ SameFingerprint(events'[r], events'[o])
      BY <1>2, <1>5 DEF Open, Matches
    <3> QED
      BY <1>2, <1>5, <2>2, <3>1 DEF BoardInv, LinksAgree, SameFingerprint,
         create_event_fingerprint, IsFailure, Open
  <2>5. IncidentHasEvidence'
    <3> SUFFICES ASSUME NEW j \in Filed' PROVE Cardinality(Evidence(j)') >= Threshold
      BY DEF IncidentHasEvidence, Evidence
    <3>1. CASE j \in Filed
      <4>1. Cardinality(Evidence(j)) >= Threshold /\ j \in Stored
        BY <3>1 DEF BoardInv, IncidentHasEvidence, Evidence
      <4>2. links \subseteq links'
        BY <1>5 DEF Open
      <4> QED
        BY <1>2, <4>1, <4>2, EvidenceGrows DEF BoardAssumptions
    <3>2. CASE j = r
      <4>1. evidence \subseteq Evidence(r)'
        BY <1>2, <1>5 DEF Open, Evidence
      <4>2. IsFiniteSet(Evidence(r)') /\ IsFiniteSet(evidence)
        BY FS_Subset DEF Evidence, BoardAssumptions
      <4>3. /\ Cardinality(evidence) <= Cardinality(Evidence(r)')
            /\ Cardinality(evidence) \in Nat /\ Cardinality(Evidence(r)') \in Nat
        BY <4>1, <4>2, FS_Subset, FS_CardinalityType
      <4> QED
        BY <1>5, <3>2, <4>3, ThresholdAssumption DEF Open
    <3> QED
      BY <2>2, <3>1, <3>2
  <2> QED
    BY <2>2, <2>3, <2>4, <2>5 DEF BoardInv
<1> QED
  BY <1>3, <1>4, <1>5 DEF Accept

\* So does a change of one incident's row that leaves its identity alone and
\* makes it active only if no other one is.
LEMMA UpdateKeepsBoard ==
  ASSUME BoardAssumptions, BoardInv, TypeOK',
         NEW i \in Filed, NEW row \in Incident,
         incidents' = [incidents EXCEPT ![i] = row],
         IsActive(row.status) => ActiveFor(events[i]) \subseteq {i},
         UNCHANGED <<events, links>>
  PROVE  BoardInv'
<1> USE DEF TypeOK, Filed, Stored
<1>1. Filed' = Filed /\ Filed' \subseteq Stored'
  BY DEF BoardInv, BoardAssumptions
<1>2. OneActivePerFingerprint'
  BY <1>1 DEF BoardInv, OneActivePerFingerprint, ActiveFor, SameFingerprint,
     create_event_fingerprint
<1>3. LinksAgree'
  BY <1>1 DEF BoardInv, LinksAgree
<1>4. IncidentHasEvidence'
  BY <1>1 DEF BoardInv, IncidentHasEvidence
<1> QED
  BY <1>1, <1>2, <1>3, <1>4 DEF BoardInv

\* The board keeps its promises.
THEOREM BoardCorrect ==
  BoardAssumptions
  => (Spec => [](OneActivePerFingerprint /\ LinksAgree /\ IncidentHasEvidence))
<1> SUFFICES ASSUME BoardAssumptions
             PROVE  Spec => [](OneActivePerFingerprint /\ LinksAgree /\ IncidentHasEvidence)
  OBVIOUS
<1>1. Init => BoardInv
  BY DEF Init, BoardInv, TypeOK, Filed, Stored, OneActivePerFingerprint, LinksAgree,
     IncidentHasEvidence
<1>2. BoardInv /\ TypeOK' /\ [Next]_vars => BoardInv'
  <2> SUFFICES ASSUME BoardInv, TypeOK', [Next]_vars PROVE BoardInv'
    OBVIOUS
  <2>1. ASSUME NEW r \in Rows, NEW e \in Arrivals, Accept(r, e) PROVE BoardInv'
    BY <2>1, AcceptKeepsBoard
  <2>2. ASSUME NEW i \in Rows, NEW u \in Users, Acknowledge(i, u) PROVE BoardInv'
    <3> DEFINE row == [incidents[i] EXCEPT !.status = "ACKNOWLEDGED",
                         !.acknowledged = TRUE, !.assigned_to = u]
    <3>1. incidents[i] \in Incident /\ i \in Filed
      BY <2>2 DEF Acknowledge, Filed, BoardInv, TypeOK
    <3>2. row \in Incident
      BY <3>1 DEF Incident, IncidentStatus
    <3>3. incidents' = [incidents EXCEPT ![i] = row]
      BY <2>2 DEF Acknowledge
    <3> QED
      BY <2>2, <3>1, <3>2, <3>3, UpdateKeepsBoard DEF Acknowledge
  <2>3. ASSUME NEW i \in Rows, NEW u \in Users, Resolve(i, u) PROVE BoardInv'
    <3>1. PICK a \in {u, incidents[i].assigned_to} :
            incidents' = [incidents EXCEPT ![i].status = "RESOLVED",
                            ![i].resolved = TRUE, ![i].assigned_to = a]
      BY <2>3 DEF Resolve
    <3> DEFINE row == [incidents[i] EXCEPT !.status = "RESOLVED", !.resolved = TRUE,
                         !.assigned_to = a]
    <3>2. incidents[i] \in Incident /\ i \in Filed
      BY <2>3 DEF Resolve, Filed, BoardInv, TypeOK
    <3>3. row \in Incident /\ row.status = "RESOLVED"
      BY <3>2 DEF Incident, IncidentStatus
    <3>4. incidents' = [incidents EXCEPT ![i] = row]
      BY <3>1
    <3> QED
      BY <2>3, <3>2, <3>3, <3>4, UpdateKeepsBoard DEF Resolve, IsActive
  <2>4. CASE UNCHANGED vars
    BY <2>4 DEF vars, BoardInv, TypeOK, Filed, Stored, OneActivePerFingerprint,
       LinksAgree, IncidentHasEvidence
  <2> QED
    BY <2>1, <2>2, <2>3, <2>4 DEF Next
<1>3. BoardInv => OneActivePerFingerprint /\ LinksAgree /\ IncidentHasEvidence
  BY DEF BoardInv
<1> QED
  BY <1>1, <1>2, <1>3, BoardTypeCorrect, PTL DEF Spec
=============================================================================
