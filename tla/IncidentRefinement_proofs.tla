----------------------- MODULE IncidentRefinement_proofs ----------------------
(* Proofs that the handlers of IncidentEngine, taken statement by statement, *)
(* implement the incident board, and therefore keep what it promises.        *)
EXTENDS IncidentEngine_proofs

(* The handlers implement the board. *)

\* The board's events and incidents: those of committed transactions.
boardEvents == [r \in Requests |-> IF Committed(r) THEN Row(r) ELSE None]
boardIncidents == [r \in Requests |-> IF Committed(r) THEN incident[r] ELSE None]

\* The board's data definitions are those of the handlers.
LEMMA BoardData ==
  /\ \A e, f : Board!SameFingerprint(e, f) <=> SameFingerprint(e, f)
  /\ \A e, f : Board!SameDelivery(e, f) <=> SameDelivery(e, f)
  /\ \A e, f : Board!Matches(e, f) <=> Matches(e, f)
  /\ \A e : Board!IsFailure(e) <=> IsFailure(e)
  /\ \A e : Board!NewIncident(e) = NewIncident(e)
  /\ \A s : Board!IsActive(s) <=> IsActive(s)
BY DEF Board!SameFingerprint, SameFingerprint, Board!create_event_fingerprint,
   create_event_fingerprint, Board!SameDelivery, SameDelivery, Board!Matches, Matches,
   Board!IsFailure, IsFailure, Board!NewIncident, NewIncident, Board!SeverityFor,
   SeverityFor, Board!IsActive, IsActive

\* Nor does an instance count differently.
LEMMA BoardCardinality == \A S : Board!Cardinality(S) = Cardinality(S)
BY DEF Board!Cardinality, Cardinality

\* A step that commits nothing and writes no committed incident is invisible.
LEMMA InvisibleStep ==
  ASSUME req' = req, links' = links,
         \A q \in Requests : Committed(q)' <=> Committed(q),
         \A q \in Requests : Committed(q) => incident'[q] = incident[q]
  PROVE  UNCHANGED Board!vars
<1>1. \A q \in Requests : Row(q)' = Row(q)
  BY RowFixed
<1>2. boardEvents' = boardEvents /\ boardIncidents' = boardIncidents
  BY <1>1 DEF boardEvents, boardIncidents
<1> QED
  BY <1>2 DEF Board!vars, boardEvents, boardIncidents

\* What the board shows of a row.
LEMMA BoardView ==
  ASSUME IInv
  PROVE  /\ Board!Stored = {q \in Requests : Committed(q)}
         /\ Board!Filed = {q \in Requests : Committed(q) /\ incident[q] # None}
         /\ \A e : Board!ActiveFor(e) =
              {q \in Requests : /\ Committed(q) /\ incident[q] # None
                                /\ IsActive(incident[q].status)
                                /\ SameFingerprint(Row(q), e)}
<1>1. TypeOK
  BY DEF IInv
<1>2. \A q \in Requests : Row(q) # None
  BY <1>1, RowType, NoEventAssumption
<1>3. Board!Stored = {q \in Requests : Committed(q)}
  BY <1>2 DEF Board!Stored
<1>4. Board!Filed = {q \in Requests : Committed(q) /\ incident[q] # None}
  BY DEF Board!Filed
<1> QED
  BY <1>3, <1>4, BoardData DEF Board!ActiveFor

\* A commit is the acceptance of the event, with what its evaluation decided.
LEMMA CommitRefines ==
  ASSUME IInv, NEW r \in Requests, Commit(r), NEW e, e = Row(r)
  PROVE  Board!Accept(r, e)
<1>1. TypeOK /\ HandlerInv(r) /\ pc[r] = "committing"
  BY DEF IInv, Commit
<1>2. \A q \in Requests : Committed(q)' <=> Committed(q) \/ q = r
  BY <1>1 DEF Commit, Goto, TypeOK, Committed
<1>3. req' = req /\ \A q \in Requests : Row(q)' = Row(q)
  BY RowFixed DEF Commit
<1>4. ~Committed(r) /\ Inserted(r) /\ r \in VisibleEvents(r)
  BY <1>1 DEF Committed, Inserted, InTxn, VisibleEvents
<1>5. boardEvents' = [boardEvents EXCEPT ![r] = Row(r)]
  BY <1>2, <1>3 DEF boardEvents
<1>6. Board!Store(r, e)
  <2>1. boardEvents[r] = None
    BY <1>4 DEF boardEvents
  <2>2. \A o \in Requests : Committed(o) => ~SameDelivery(Row(o), Row(r))
    BY <1>4 DEF IInv, OneEventPerDelivery, Inserted, SameDelivery
  <2>3. \A o \in Board!Stored : ~SameDelivery(boardEvents[o], Row(r))
    BY <2>2, BoardView DEF boardEvents
  <2> QED
    BY <1>5, <2>1, <2>3, BoardData DEF Board!Store, boardEvents
<1>7. CASE Blank(r)
  <2>1. links' = links /\ boardIncidents' = boardIncidents
    BY <1>2, <1>4, <1>7, RequestsAssumption DEF Commit, Blank, boardIncidents
  <2> QED
    BY <1>6, <2>1 DEF Board!Accept, boardIncidents
<1>8. CASE Joined(r)
  <2> DEFINE i == target[r]
  <2>1. i \in Requests /\ i # r /\ Committed(i) /\ incident[i] # None
        /\ SameFingerprint(Row(i), Row(r)) /\ IsFailure(Row(r)) /\ incident[r] = None
    BY <1>8 DEF Joined
  <2>2. incident[i] \in Incident
    BY <1>1, <2>1 DEF TypeOK
  <2>3. incident'[i] = [incident[i] EXCEPT !.severity =
                          IF Row(r).level = "CRITICAL" THEN "SEV_1" ELSE @]
    BY <2>1, <2>2 DEF Commit, Incident
  <2>4. \A q \in Requests \ {i} : incident'[q] = incident[q]
    BY DEF Commit
  <2>5. boardIncidents' = [boardIncidents EXCEPT ![i].severity =
                             IF Row(r).level = "CRITICAL" THEN "SEV_1" ELSE @]
    BY <1>2, <2>1, <2>3, <2>4 DEF boardIncidents
  <2>6. links' = links \cup {<<i, r>>}
    BY <1>8 DEF Commit, Joined
  <2>7. i \in Board!Filed /\ SameFingerprint(boardEvents[i], Row(r))
    BY <2>1, BoardView DEF boardEvents
  <2>8. Board!FileUnder(i, r, e)
    BY <2>1, <2>5, <2>6, <2>7, BoardData DEF Board!FileUnder, boardEvents, boardIncidents
  <2> QED
    BY <1>6, <2>1, <2>8 DEF Board!Accept
<1>9. CASE Created(r)
  <2>0. PICK evidence \in SUBSET Requests : evidence = batch[r]
    BY <1>1 DEF TypeOK
  <2>1. /\ target[r] = r /\ incident[r] = NewIncident(Row(r)) /\ IsFailure(Row(r))
        /\ r \in evidence /\ evidence \subseteq matching_events(r)
        /\ Cardinality(evidence) >= Threshold
    BY <1>9, <2>0 DEF Created
  <2>2. boardIncidents' = [boardIncidents EXCEPT ![r] = NewIncident(Row(r))]
    <3>1. \A q \in Requests : incident'[q] = incident[q]
      BY <2>1 DEF Commit
    <3> QED
      BY <1>2, <2>1, <3>1 DEF boardIncidents
  <2>3. links' = links \cup {<<r, o>> : o \in evidence}
    BY <2>0, <2>1 DEF Commit
  <2>4. Board!ActiveFor(Row(r)) = {}
    <3>1. IsActive(incident[r].status) /\ incident[r] # None
      BY <2>1, NewIncidentType DEF NewIncident, IsActive
    <3>2. \A q \in Requests :
            incident[q] # None /\ IsActive(incident[q].status)
            /\ SameFingerprint(Row(q), Row(r)) => q = r
      <4>1. OneActivePerFingerprint
        BY DEF IInv
      <4> QED
        BY <3>1, <4>1 DEF OneActivePerFingerprint
    <3> QED
      BY <1>4, <3>2, BoardView
  <2>5. \A o \in evidence : boardEvents'[o] # None /\ Matches(Row(r), boardEvents'[o])
    <3> SUFFICES ASSUME NEW o \in evidence
                 PROVE  boardEvents'[o] # None /\ Matches(Row(r), boardEvents'[o])
      OBVIOUS
    <3>1. o \in Requests /\ (Committed(o) \/ o = r) /\ Matches(Row(r), Row(o))
      BY <2>1 DEF matching_events, VisibleEvents
    <3>2. boardEvents'[o] = Row(o)
      BY <1>2, <1>3, <3>1 DEF boardEvents
    <3> QED
      BY <1>1, <3>1, <3>2, RowType, NoEventAssumption
  <2>6. /\ Board!IsFailure(e)
        /\ Board!ActiveFor(e) = {}
        /\ \A o \in evidence : boardEvents'[o] # None /\ Board!Matches(e, boardEvents'[o])
        /\ boardIncidents' = [boardIncidents EXCEPT ![r] = Board!NewIncident(e)]
    BY <2>1, <2>2, <2>4, <2>5, BoardData
  <2>7. Board!Open(r, e, evidence)
    BY <2>1, <2>3, <2>6, BoardCardinality DEF Board!Open, boardEvents, boardIncidents
  <2> QED
    BY <1>6, <2>7 DEF Board!Accept
<1> QED
  BY <1>1, <1>7, <1>8, <1>9 DEF HandlerInv

\* A delivery's other steps move its handler to a label that is not the commit,
\* and write no incident but the delivery's own.
LEMMA DeliveryRefines ==
  ASSUME TypeOK, NEW r \in Requests,
         Lookup(r) \/ CommitLastUsed(r) \/ Flush(r) \/ AnswerDuplicate(r) \/ Crash(r)
           \/ FindActive(r) \/ CountMatching(r) \/ CreateIncident(r) \/ JoinWinner(r)
           \/ CollectMatching(r)
  PROVE  UNCHANGED Board!vars
<1>1. req' = req /\ links' = links
  BY DEF Lookup, CommitLastUsed, Flush, AnswerDuplicate, Crash, FindActive, CountMatching,
     CreateIncident, JoinWinner, CollectMatching
<1>2. /\ pc[r] # "accepted"
      /\ \E label \in PC \ {"accepted"} : Goto(r, label)
  BY DEF Lookup, CommitLastUsed, Flush, AnswerDuplicate, Crash, FindActive, CountMatching,
     CreateIncident, JoinWinner, CollectMatching, Rollback, Join, InTxn, PC, Final
<1>3. \A q \in Requests : Committed(q)' <=> Committed(q)
  BY <1>2 DEF Goto, Committed, TypeOK
<1>4. \A q \in Requests \ {r} : incident'[q] = incident[q]
  BY DEF Lookup, CommitLastUsed, Flush, AnswerDuplicate, Crash, FindActive, CountMatching,
     CreateIncident, JoinWinner, CollectMatching, Rollback, TypeOK
<1> QED
  BY <1>1, <1>2, <1>3, <1>4, InvisibleStep DEF Committed

\* What an update of a committed incident does to the board.
LEMMA UpdateRefines ==
  ASSUME TypeOK, NEW i \in Requests, Committed(i), NEW row,
         UNCHANGED <<req, ingestVars, links>>,
         incident' = [incident EXCEPT ![i] = row]
  PROVE  /\ boardEvents' = boardEvents
         /\ boardIncidents' = [boardIncidents EXCEPT ![i] = row]
<1>1. \A q \in Requests : Row(q)' = Row(q) /\ (Committed(q)' <=> Committed(q))
  BY RowFixed DEF ingestVars, Committed
<1>2. \A q \in Requests : incident'[q] = IF q = i THEN row ELSE incident[q]
  BY DEF TypeOK
<1> QED
  BY <1>1, <1>2 DEF boardEvents, boardIncidents

LEMMA AcknowledgeRefines ==
  ASSUME IInv, NEW c \in Clicks, CommitAcknowledge(c)
  PROVE  (\E i \in Requests : Board!Acknowledge(i, c)) \/ UNCHANGED Board!vars
<1>1. TypeOK /\ click[c].pc = "acknowledging"
  BY DEF IInv, CommitAcknowledge
<1>2. PICK i \in Requests : i = click[c].incident /\ Committed(i) /\ incident[i] # None
  BY <1>1 DEF IInv, ClickInv
<1>3. UNCHANGED <<req, ingestVars, links>>
  BY DEF CommitAcknowledge
<1>4. CASE Rivals(c) = {}
  <2> DEFINE row == [incident[i] EXCEPT !.status = "ACKNOWLEDGED", !.acknowledged = TRUE,
                                        !.assigned_to = c]
  <2>1. incident' = [incident EXCEPT ![i] = row]
    BY <1>2, <1>4 DEF CommitAcknowledge
  <2>2. boardEvents' = boardEvents /\ boardIncidents' = [boardIncidents EXCEPT ![i] = row]
    <3> HIDE DEF row
    <3> QED
      BY <1>1, <1>2, <1>3, <2>1, UpdateRefines
  <2>3. boardIncidents[i] = incident[i] /\ boardEvents[i] = Row(i)
    BY <1>2 DEF boardIncidents, boardEvents
  <2>4. boardIncidents' = [boardIncidents EXCEPT ![i].status = "ACKNOWLEDGED",
                                                 ![i].acknowledged = TRUE,
                                                 ![i].assigned_to = c]
    BY <2>2, <2>3 DEF boardIncidents
  <2>5. i \in Board!Filed
    BY <1>2, BoardView
  <2>6. Board!ActiveFor(boardEvents[i]) \subseteq {i}
    BY <1>2, <1>4, <2>3, BoardView DEF Rivals, ActiveLike
  <2>7. Board!Acknowledge(i, c)
    BY <1>3, <2>2, <2>4, <2>5, <2>6 DEF Board!Acknowledge, boardEvents, boardIncidents
  <2> QED
    BY <2>7
<1>5. CASE Rivals(c) # {}
  <2>1. incident' = incident /\ \A q \in Requests : Committed(q)' <=> Committed(q)
    BY <1>3, <1>5 DEF CommitAcknowledge, ingestVars, Committed
  <2> QED
    BY <1>3, <2>1, InvisibleStep
<1> QED
  BY <1>4, <1>5

LEMMA ResolveRefines ==
  ASSUME IInv, NEW c \in Clicks, CommitResolve(c)
  PROVE  \E i \in Requests : Board!Resolve(i, c)
<1>1. TypeOK /\ click[c].pc = "resolving"
  BY DEF IInv, CommitResolve
<1>2. PICK i \in Requests : i = click[c].incident /\ Committed(i) /\ incident[i] # None
  BY <1>1 DEF IInv, ClickInv
<1>3. UNCHANGED <<req, ingestVars, links>>
  BY DEF CommitResolve
<1>4. PICK assignee \in {c, incident[i].assigned_to} :
        assignee = IF click[c].assigned_to = None THEN c ELSE incident[i].assigned_to
  OBVIOUS
<1> DEFINE row == [incident[i] EXCEPT !.status = "RESOLVED", !.resolved = TRUE,
                                      !.assigned_to = assignee]
<1>5. incident' = [incident EXCEPT ![i] = row]
  BY <1>1, <1>2, <1>4 DEF CommitResolve, TypeOK, Incident
<1>6. boardEvents' = boardEvents /\ boardIncidents' = [boardIncidents EXCEPT ![i] = row]
  <2> HIDE DEF row
  <2> QED
    BY <1>1, <1>2, <1>3, <1>5, UpdateRefines
<1>7. boardIncidents[i] = incident[i]
  BY <1>2 DEF boardIncidents
<1>8. boardIncidents' = [boardIncidents EXCEPT ![i].status = "RESOLVED",
                                               ![i].resolved = TRUE,
                                               ![i].assigned_to = assignee]
  BY <1>6, <1>7 DEF boardIncidents
<1>9. i \in Board!Filed
  BY <1>2, BoardView
<1>10. Board!Resolve(i, c)
  BY <1>3, <1>4, <1>6, <1>7, <1>8, <1>9 DEF Board!Resolve, boardEvents, boardIncidents
<1> QED
  BY <1>10

\* Read statement by statement, whatever deliveries, crashes, acknowledgements
\* and resolutions do to each other, the handlers implement the incident board.
THEOREM Implements == Spec => BoardSpec
<1>1. Init => Board!Init
  BY DEF Init, Board!Init, Committed
<1>2. IInv /\ [Next]_vars => [Board!Next]_(Board!vars)
  <2> SUFFICES ASSUME IInv, [Next]_vars PROVE [Board!Next]_(Board!vars)
    OBVIOUS
  <2>1. TypeOK
    BY DEF IInv
  <2>2. ASSUME NEW r \in Requests, Commit(r) PROVE Board!Next
    <3>1. req[r].key \in Keys /\ req[r].payload \in Payloads
      BY <2>1 DEF TypeOK
    <3>2. PICK e \in {EventRow(k, p) : k \in Keys, p \in Payloads} : e = Row(r)
      BY <3>1 DEF Row
    <3>3. Board!Accept(r, e)
      BY <2>2, <3>2, CommitRefines
    <3> QED
      BY <3>3 DEF Board!Next
  <2>3. ASSUME NEW c \in Clicks, CommitAcknowledge(c) PROVE [Board!Next]_(Board!vars)
    BY <2>3, AcknowledgeRefines DEF Board!Next
  <2>4. ASSUME NEW c \in Clicks, CommitResolve(c) PROVE Board!Next
    BY <2>4, ResolveRefines DEF Board!Next
  <2>5. CASE \E c \in Clicks : ReadToAcknowledge(c) \/ ReadToResolve(c)
    <3>1. req' = req /\ links' = links /\ incident' = incident /\ pc' = pc
      BY <2>5 DEF ReadToAcknowledge, ReadToResolve, Read, ingestVars
    <3> QED
      BY <3>1, InvisibleStep DEF Committed
  <2>6. CASE UNCHANGED vars
    <3>1. req' = req /\ links' = links /\ incident' = incident /\ pc' = pc
      BY <2>6 DEF vars, ingestVars
    <3> QED
      BY <3>1, InvisibleStep DEF Committed
  <2> QED
    BY <2>1, <2>2, <2>3, <2>4, <2>5, <2>6, DeliveryRefines
       DEF Next, Handle, FinishClick, Rest
<1> QED
  BY <1>1, <1>2, Invariance, PTL DEF Spec, BoardSpec, Board!Spec

-----------------------------------------------------------------------------
(* So what the board promises holds of the handlers. *)

Promise == INSTANCE IncidentBoard_proofs WITH
  Rows <- Requests, Users <- Clicks,
  Arrivals <- {EventRow(k, p) : k \in Keys, p \in Payloads},
  events <- [r \in Requests |-> IF Committed(r) THEN Row(r) ELSE None],
  incidents <- [r \in Requests |-> IF Committed(r) THEN incident[r] ELSE None]

\* An instance of the board's proofs speaks of the same board.
LEMMA PromiseData ==
  /\ \A e, f : Promise!SameFingerprint(e, f) <=> Board!SameFingerprint(e, f)
  /\ \A e, f : Promise!SameDelivery(e, f) <=> Board!SameDelivery(e, f)
  /\ \A e, f : Promise!Matches(e, f) <=> Board!Matches(e, f)
  /\ \A e : Promise!IsFailure(e) <=> Board!IsFailure(e)
  /\ \A e : Promise!NewIncident(e) = Board!NewIncident(e)
  /\ \A s : Promise!IsActive(s) <=> Board!IsActive(s)
  /\ \A S : Promise!Cardinality(S) = Board!Cardinality(S)
BY DEF Promise!SameFingerprint, Board!SameFingerprint, Promise!create_event_fingerprint,
   Board!create_event_fingerprint, Promise!SameDelivery, Board!SameDelivery, Promise!Matches,
   Board!Matches, Promise!IsFailure, Board!IsFailure, Promise!NewIncident,
   Board!NewIncident, Promise!SeverityFor, Board!SeverityFor, Promise!IsActive,
   Board!IsActive, Promise!Cardinality, Board!Cardinality

\* Every incident has its evidence and every link agrees, however often the
\* handlers' statements interleave between counting, linking and committing.
THEOREM PromisesKept == Spec => [](LinksAgree /\ IncidentHasEvidence)
<1>1. Promise!BoardAssumptions
  BY KeysAssumption, PayloadsAssumption, NoIncidentAssumption, RequestsAssumption
     DEF Promise!BoardAssumptions, EventRow, Promise!Event, Event, Promise!EventLevel,
     EventLevel, Promise!Incident, Incident, Promise!IncidentStatus, IncidentStatus,
     Promise!IncidentSeverity, IncidentSeverity, Promise!IsFiniteSet, IsFiniteSet
<1>2. None \notin Promise!Event
  BY NoEventAssumption DEF Promise!Event, Event, Promise!EventLevel, EventLevel
<1>3. Promise!Spec => [](/\ Promise!OneActivePerFingerprint
                         /\ Promise!LinksAgree
                         /\ Promise!IncidentHasEvidence)
  BY <1>1, <1>2, ThresholdAssumption, WindowAssumption, TimesAssumption,
     Promise!BoardCorrect, PTL
<1>4. Promise!LinksAgree => LinksAgree
  BY PromiseData DEF Promise!LinksAgree, LinksAgree, Board!LinksAgree, Promise!Filed,
     Board!Filed, Promise!Stored, Board!Stored
<1>5. Promise!IncidentHasEvidence => IncidentHasEvidence
  BY PromiseData DEF Promise!IncidentHasEvidence, IncidentHasEvidence,
     Board!IncidentHasEvidence, Promise!Filed, Board!Filed, Promise!Stored, Board!Stored
<1>6. Board!Init => Promise!Init
  BY DEF Board!Init, Promise!Init
<1>7. [Board!Next]_(Board!vars) => [Promise!Next]_(Promise!vars)
  <2>1. /\ Promise!Stored = Board!Stored
        /\ Promise!Filed = Board!Filed
        /\ \A e : Promise!ActiveFor(e) = Board!ActiveFor(e)
    BY PromiseData DEF Promise!Stored, Board!Stored, Promise!Filed, Board!Filed,
       Promise!ActiveFor, Board!ActiveFor
  <2>2. Promise!vars = Board!vars /\ Promise!vars' = Board!vars'
    BY DEF Promise!vars, Board!vars
  <2>3. ASSUME NEW r, NEW e, Board!Accept(r, e) PROVE Promise!Accept(r, e)
    <3>1. Promise!Store(r, e)
      BY <2>1, <2>3, PromiseData DEF Promise!Store, Board!Store, Board!Accept
    <3>2. ASSUME NEW i, Board!FileUnder(i, r, e) PROVE Promise!FileUnder(i, r, e)
      BY <2>1, <3>2, PromiseData DEF Promise!FileUnder, Board!FileUnder
    <3>3. ASSUME NEW evidence, Board!Open(r, e, evidence)
          PROVE  Promise!Open(r, e, evidence)
      BY <2>1, <3>3, PromiseData, Zenon DEF Promise!Open, Board!Open
    <3> QED
      BY <2>3, <3>1, <3>2, <3>3 DEF Promise!Accept, Board!Accept
  <2>4. ASSUME NEW i, NEW u, Board!Acknowledge(i, u) PROVE Promise!Acknowledge(i, u)
    BY <2>1, <2>4 DEF Promise!Acknowledge, Board!Acknowledge
  <2>5. ASSUME NEW i, NEW u, Board!Resolve(i, u) PROVE Promise!Resolve(i, u)
    BY <2>1, <2>5 DEF Promise!Resolve, Board!Resolve
  <2> QED
    BY <2>2, <2>3, <2>4, <2>5 DEF Board!Next, Promise!Next
<1> QED
  BY <1>3, <1>4, <1>5, <1>6, <1>7, Implements, PTL DEF BoardSpec, Board!Spec, Promise!Spec

\* No link names a missing event or incident, or crosses fingerprints.
THEOREM LinksKept == Spec => []LinksAgree
BY PromisesKept, PTL
=============================================================================
