------------------------- MODULE IncidentEngine_proofs ------------------------
(***************************************************************************)
(* For every value of the constants: the ingestion and incident handlers,  *)
(* statement by statement, keep their invariants.                          *)
(***************************************************************************)
EXTENDS IncidentEngine, FiniteSetTheorems, TLAPS

-----------------------------------------------------------------------------
(* The inductive invariant. *)

\* The handler has found, created and collected nothing yet.
Blank(r) == target[r] = None /\ batch[r] = {} /\ incident[r] = None

\* It holds a committed incident of its fingerprint.
Joined(r) ==
  /\ target[r] \in Requests \ {r}
  /\ batch[r] = {r}
  /\ incident[r] = None
  /\ IsFailure(Row(r))
  /\ Committed(target[r])
  /\ incident[target[r]] # None
  /\ SameFingerprint(Row(target[r]), Row(r))

\* It has inserted an incident, and selected its evidence.
Created(r) ==
  /\ target[r] = r
  /\ incident[r] = NewIncident(Row(r))
  /\ IsFailure(Row(r))
  /\ r \in batch[r]
  /\ batch[r] \subseteq matching_events(r)
  /\ Cardinality(batch[r]) >= Threshold

\* What a handler has in hand where it stands.
HandlerInv(r) ==
  /\ pc[r] \in PC \ {"collecting", "committing", "accepted", "duplicate"} => Blank(r)
  /\ pc[r] \in {"counting", "creating", "beaten", "collecting"} => IsFailure(Row(r))
  /\ pc[r] \in {"creating", "collecting"} =>
       Cardinality(matching_events(r)) >= Threshold
  /\ pc[r] = "collecting" =>
       target[r] = r /\ batch[r] = {} /\ incident[r] = NewIncident(Row(r))
  /\ pc[r] = "committing" => Blank(r) \/ Joined(r) \/ Created(r)
  /\ pc[r] = "duplicate" => batch[r] = {} /\ incident[r] = None
  /\ pc[r] = "accepted" => batch[r] = {}

\* Two open transactions never hold the row lock of one key.
OneTransactionPerKey ==
  \A r, o \in Requests :
    pc[r] \in InTxn /\ pc[o] \in InTxn /\ req[r].key = req[o].key => r = o

\* A click that is about to write holds a committed incident.
ClickInv(c) ==
  click[c].pc \in {"acknowledging", "resolving"} =>
    /\ click[c].incident \in Requests
    /\ Committed(click[c].incident)
    /\ incident[click[c].incident] # None

IInv ==
  /\ TypeOK
  /\ \A r \in Requests : HandlerInv(r)
  /\ OneTransactionPerKey
  /\ OneEventPerDelivery
  /\ OneActivePerFingerprint
  /\ \A c \in Clicks : ClickInv(c)

-----------------------------------------------------------------------------
(* Lemmas about a step in general. *)

\* What is sent never changes, so neither does the row made of it.
LEMMA RowFixed ==
  ASSUME req' = req, NEW r \in Requests
  PROVE  Row(r)' = Row(r)
BY DEF Row

\* A new incident is an incident.
LEMMA NewIncidentType ==
  ASSUME NEW e
  PROVE  NewIncident(e) \in Incident /\ NewIncident(e) # None
<1>1. NewIncident(e) \in Incident
  BY DEF NewIncident, SeverityFor, Incident, IncidentStatus, IncidentSeverity
<1> QED
  BY <1>1, NoIncidentAssumption

\* What is committed stays, with its incident.
Monotone ==
  \A o \in Requests : Committed(o) =>
    Committed(o)' /\ (incident[o] # None => incident'[o] # None)

\* More commits never take matching events away from a handler.
LEMMA MatchingGrows ==
  ASSUME req' = req, Monotone, NEW q \in Requests, Inserted(q) => Inserted(q)'
  PROVE  /\ matching_events(q) \subseteq matching_events(q)'
         /\ IsFiniteSet(matching_events(q)) /\ IsFiniteSet(matching_events(q)')
         /\ Cardinality(matching_events(q)) >= Threshold
              => Cardinality(matching_events(q)') >= Threshold
<1>1. \A o \in Requests : Matches(Row(q), Row(o))' <=> Matches(Row(q), Row(o))
  BY RowFixed DEF Matches, SameFingerprint, create_event_fingerprint, IsFailure
<1>2. matching_events(q) \subseteq matching_events(q)'
  BY <1>1 DEF matching_events, VisibleEvents, Monotone
<1>3. IsFiniteSet(matching_events(q)) /\ IsFiniteSet(matching_events(q)')
  BY RequestsAssumption, FS_Subset DEF matching_events, VisibleEvents
<1>4. /\ Cardinality(matching_events(q)) <= Cardinality(matching_events(q)')
      /\ Cardinality(matching_events(q)) \in Nat
      /\ Cardinality(matching_events(q)') \in Nat
  BY <1>2, <1>3, FS_Subset, FS_CardinalityType
<1> QED
  BY <1>2, <1>3, <1>4, ThresholdAssumption

\* A handler that the step leaves alone keeps its invariant.
LEMMA OthersKeep ==
  ASSUME IInv, req' = req, Monotone, NEW q \in Requests,
         pc'[q] = pc[q], target'[q] = target[q], batch'[q] = batch[q],
         ~Committed(q) => incident'[q] = incident[q]
  PROVE  HandlerInv(q)'
<1>1. /\ matching_events(q) \subseteq matching_events(q)'
      /\ Cardinality(matching_events(q)) >= Threshold
           => Cardinality(matching_events(q)') >= Threshold
  BY MatchingGrows DEF Inserted, Committed
<1>2. /\ Row(q)' = Row(q)
      /\ target[q] \in Requests => Row(target[q])' = Row(target[q])
  BY RowFixed
<1>3. HandlerInv(q)
  BY DEF IInv
<1>4. Joined(q) /\ ~Committed(q) => Joined(q)'
  BY <1>2 DEF Joined, Monotone, Committed, IsFailure, SameFingerprint,
     create_event_fingerprint
<1>5. Created(q) /\ ~Committed(q) => Created(q)'
  BY <1>1, <1>2 DEF Created, IsFailure, NewIncident, SeverityFor
<1>6. Blank(q) /\ ~Committed(q) => Blank(q)'
  BY DEF Blank
<1> QED
  BY <1>1, <1>2, <1>3, <1>4, <1>5, <1>6
     DEF HandlerInv, Committed, IsFailure, NewIncident, SeverityFor

\* A step of one handler that neither commits nor touches a table, apart from
\* the event it may insert.
LEMMA LocalStep ==
  ASSUME IInv, TypeOK', NEW r \in Requests,
         UNCHANGED <<req, incident, links, clickVars>>,
         \A q \in Requests \ {r} :
           pc'[q] = pc[q] /\ target'[q] = target[q] /\ batch'[q] = batch[q],
         ~Committed(r), ~Committed(r)', HandlerInv(r)',
         pc'[r] \in InTxn => \/ pc[r] \in InTxn
                             \/ /\ KeyFree(r)
                                /\ \A o \in Requests \ {r} :
                                     Inserted(o) => ~SameDelivery(Row(o), Row(r))
  PROVE  IInv'
<1>1. \A o \in Requests : Committed(o)' <=> Committed(o)
  BY DEF Committed
<1>2. Monotone
  BY <1>1 DEF Monotone
<1>3. \A q \in Requests : HandlerInv(q)'
  BY <1>2, OthersKeep
<1>4. \A q \in Requests : Row(q)' = Row(q)
  BY RowFixed
<1>5. OneTransactionPerKey'
  BY DEF IInv, OneTransactionPerKey, KeyFree
<1>6. OneEventPerDelivery'
  BY <1>1, <1>4 DEF IInv, OneEventPerDelivery, Inserted, SameDelivery
<1>7. OneActivePerFingerprint'
  BY <1>4 DEF IInv, OneActivePerFingerprint, SameFingerprint, create_event_fingerprint
<1>8. \A c \in Clicks : ClickInv(c)'
  BY <1>1 DEF IInv, ClickInv, clickVars
<1> QED
  BY <1>3, <1>5, <1>6, <1>7, <1>8 DEF IInv

\* A step of one handler that ends its transaction, by commit or rollback, and
\* makes no incident active.
LEMMA EndStep ==
  ASSUME IInv, TypeOK', NEW r \in Requests,
         UNCHANGED <<req, clickVars>>,
         \A q \in Requests \ {r} :
           pc'[q] = pc[q] /\ target'[q] = target[q] /\ batch'[q] = batch[q],
         pc[r] \in InTxn, pc'[r] \notin InTxn, HandlerInv(r)',
         \A q \in Requests \ {r} : ~Committed(q) => incident'[q] = incident[q],
         \A q \in Requests : incident'[q] # None =>
           incident[q] # None /\ incident'[q].status = incident[q].status,
         \A q \in Requests : Committed(q) /\ incident[q] # None => incident'[q] # None
  PROVE  IInv'
<1>1. \A o \in Requests : /\ Committed(o) => Committed(o)'
                          /\ Inserted(o)' => Inserted(o)
  BY DEF Committed, Inserted, InTxn
<1>2. Monotone
  BY <1>1 DEF Monotone
<1>3. \A q \in Requests : HandlerInv(q)'
  BY <1>2, OthersKeep
<1>4. \A q \in Requests : Row(q)' = Row(q)
  BY RowFixed
<1>5. OneTransactionPerKey'
  BY DEF IInv, OneTransactionPerKey
<1>6. OneEventPerDelivery'
  BY <1>1, <1>4 DEF IInv, OneEventPerDelivery, SameDelivery
<1>7. OneActivePerFingerprint'
  BY <1>4 DEF IInv, OneActivePerFingerprint, SameFingerprint, create_event_fingerprint
<1>8. \A c \in Clicks : ClickInv(c)'
  BY <1>1 DEF IInv, ClickInv, clickVars
<1> QED
  BY <1>3, <1>5, <1>6, <1>7, <1>8 DEF IInv

\* A click that writes the row of a committed incident, without making a second
\* incident of its fingerprint active.
LEMMA WriteStep ==
  ASSUME IInv, TypeOK', NEW c \in Clicks, NEW i \in Requests, NEW row \in Incident,
         UNCHANGED <<req, ingestVars, links>>,
         Committed(i), incident[i] # None,
         incident' = [incident EXCEPT ![i] = row],
         IsActive(row.status) => ActiveLike(i) \ {i} = {},
         \A d \in Clicks \ {c} : click'[d] = click[d],
         click'[c].pc \notin {"acknowledging", "resolving"}
  PROVE  IInv'
<1>1. \A o \in Requests : (Committed(o)' <=> Committed(o)) /\ (Inserted(o)' <=> Inserted(o))
  BY DEF Committed, Inserted, ingestVars
<1>2. \A o \in Requests : incident'[o] = IF o = i THEN row ELSE incident[o]
  BY DEF IInv, TypeOK
<1>3. Monotone
  BY <1>1, <1>2, NoIncidentAssumption DEF Monotone
<1>4. \A q \in Requests : HandlerInv(q)'
  BY <1>2, <1>3, OthersKeep DEF ingestVars
<1>5. \A q \in Requests : Row(q)' = Row(q)
  BY RowFixed
<1>6. OneTransactionPerKey'
  BY DEF IInv, OneTransactionPerKey, ingestVars
<1>7. OneEventPerDelivery'
  BY <1>1, <1>5 DEF IInv, OneEventPerDelivery, SameDelivery
<1>8. OneActivePerFingerprint'
  BY <1>2, <1>5 DEF IInv, OneActivePerFingerprint, ActiveLike, SameFingerprint,
     create_event_fingerprint
<1>9. \A d \in Clicks : ClickInv(d)'
  BY <1>1, <1>3 DEF IInv, ClickInv, Monotone
<1> QED
  BY <1>4, <1>6, <1>7, <1>8, <1>9 DEF IInv

\* A step that leaves the handlers and the tables of events and incidents alone.
LEMMA QuietStep ==
  ASSUME IInv, TypeOK', UNCHANGED <<req, ingestVars, incident>>,
         \A c \in Clicks : ClickInv(c)'
  PROVE  IInv'
<1>1. \A o \in Requests : Committed(o)' <=> Committed(o)
  BY DEF Committed, ingestVars
<1>2. Monotone
  BY <1>1 DEF Monotone
<1>3. \A q \in Requests : HandlerInv(q)'
  BY <1>2, OthersKeep DEF ingestVars
<1>4. \A q \in Requests : Row(q)' = Row(q)
  BY RowFixed
<1>5. OneTransactionPerKey' /\ OneEventPerDelivery'
  BY <1>4 DEF IInv, OneTransactionPerKey, OneEventPerDelivery, Inserted,
     Committed, SameDelivery, ingestVars
<1>6. OneActivePerFingerprint'
  BY <1>4 DEF IInv, OneActivePerFingerprint, SameFingerprint, create_event_fingerprint
<1> QED
  BY <1>3, <1>5, <1>6 DEF IInv

-----------------------------------------------------------------------------
(* The steps of a handler. *)

\* Goto is a step of one program counter.
LEMMA GotoStep ==
  ASSUME TypeOK, NEW r \in Requests, NEW label \in PC, Goto(r, label)
  PROVE  /\ pc' \in [Requests -> PC]
         /\ pc'[r] = label
         /\ \A q \in Requests \ {r} : pc'[q] = pc[q]
BY DEF Goto, TypeOK

\* Looking a delivery up, committing last_used_at and answering a duplicate
\* touch no table.
LEMMA LookupSteps ==
  ASSUME IInv, NEW r \in Requests,
         Lookup(r) \/ CommitLastUsed(r) \/ AnswerDuplicate(r)
  PROVE  IInv'
<1> USE DEF PC, InTxn, Final
<1>1. TypeOK /\ HandlerInv(r)
  BY DEF IInv
<1>2. CASE Lookup(r) \/ CommitLastUsed(r)
  <2>1. \E label \in {"inserting", "known", "answering"} : Goto(r, label)
    BY <1>2 DEF Lookup, CommitLastUsed
  <2>2. /\ pc' \in [Requests -> PC]
        /\ pc'[r] \in {"inserting", "known", "answering"}
        /\ \A q \in Requests \ {r} : pc'[q] = pc[q]
    BY <1>1, <2>1, GotoStep
  <2>3. UNCHANGED <<req, target, batch, incident, links, clickVars>> /\ pc[r] \in {"new", "known"}
    BY <1>2 DEF Lookup, CommitLastUsed
  <2>4. TypeOK'
    BY <1>1, <2>2, <2>3 DEF TypeOK, clickVars
  <2>5. HandlerInv(r)'
    BY <1>1, <2>2, <2>3 DEF HandlerInv, Blank
  <2> QED
    BY <2>2, <2>3, <2>4, <2>5, LocalStep DEF Committed
<1>3. CASE AnswerDuplicate(r)
  <2>1. /\ pc' \in [Requests -> PC] /\ pc'[r] = "duplicate"
        /\ \A q \in Requests \ {r} : pc'[q] = pc[q]
    BY <1>1, <1>3, GotoStep DEF AnswerDuplicate
  <2>2. PICK i \in Requests \cup {None} : target' = [target EXCEPT ![r] = i]
    BY <1>3 DEF AnswerDuplicate, find_incident_id
  <2>3. UNCHANGED <<req, batch, incident, links, clickVars>> /\ pc[r] = "answering"
    BY <1>3 DEF AnswerDuplicate
  <2>4. TypeOK'
    BY <1>1, <2>1, <2>2, <2>3 DEF TypeOK, clickVars
  <2>5. HandlerInv(r)'
    BY <1>1, <2>1, <2>3 DEF HandlerInv, Blank
  <2> QED
    BY <1>1, <2>1, <2>2, <2>3, <2>4, <2>5, LocalStep DEF Committed, TypeOK
<1> QED
  BY <1>2, <1>3

\* The flush inserts the event, and takes the key, only if no one else has them.
LEMMA FlushStep ==
  ASSUME IInv, NEW r \in Requests, Flush(r)
  PROVE  IInv'
<1> USE DEF PC, InTxn, Final
<1>1. TypeOK /\ HandlerInv(r)
  BY DEF IInv
<1>2. /\ pc' \in [Requests -> PC]
      /\ pc'[r] = IF Stored(r) = {} THEN "flushed" ELSE "answering"
      /\ \A q \in Requests \ {r} : pc'[q] = pc[q]
  BY <1>1, GotoStep DEF Flush
<1>3. UNCHANGED <<req, target, batch, incident, links, clickVars>> /\ pc[r] = "inserting"
  BY DEF Flush
<1>4. TypeOK'
  BY <1>1, <1>2, <1>3 DEF TypeOK, clickVars
<1>5. HandlerInv(r)'
  BY <1>1, <1>2, <1>3 DEF HandlerInv, Blank
<1>6. pc'[r] \in InTxn => /\ KeyFree(r)
                          /\ \A o \in Requests \ {r} :
                               Inserted(o) => ~SameDelivery(Row(o), Row(r))
  BY <1>2 DEF Flush, Inserted, Stored
<1> QED
  BY <1>2, <1>3, <1>4, <1>5, <1>6, LocalStep DEF Committed

\* A handler that finds an active incident joins it.
LEMMA JoinInv ==
  ASSUME IInv, NEW r \in Requests, NEW i \in find_active_incident(r), Join(r, i),
         UNCHANGED <<req, incident>>,
         pc[r] \in {"flushed", "beaten"}, IsFailure(Row(r))
  PROVE  /\ pc' \in [Requests -> PC] /\ pc'[r] = "committing"
         /\ target' \in [Requests -> Requests \cup {None}]
         /\ batch' \in [Requests -> SUBSET Requests]
         /\ \A q \in Requests \ {r} :
              pc'[q] = pc[q] /\ target'[q] = target[q] /\ batch'[q] = batch[q]
         /\ HandlerInv(r)'
<1>1. TypeOK /\ HandlerInv(r)
  BY DEF IInv
<1>2. /\ pc' \in [Requests -> PC] /\ pc'[r] = "committing"
      /\ \A q \in Requests \ {r} : pc'[q] = pc[q]
  BY <1>1, GotoStep DEF Join, PC, InTxn
<1>3. /\ i \in Requests /\ incident[i] # None /\ Committed(i)
      /\ SameFingerprint(Row(i), Row(r)) /\ i # r
  BY DEF find_active_incident, ActiveLike, Committed
<1>4. /\ target' \in [Requests -> Requests \cup {None}]
      /\ batch' \in [Requests -> SUBSET Requests]
      /\ target'[r] = i /\ batch'[r] = {r}
      /\ \A q \in Requests \ {r} : target'[q] = target[q] /\ batch'[q] = batch[q]
  BY <1>1, <1>3 DEF Join, TypeOK
<1>5. incident[r] = None
  BY <1>1 DEF HandlerInv, Blank, PC, InTxn
<1>6. Row(r)' = Row(r) /\ Row(i)' = Row(i)
  BY <1>3, RowFixed
<1>7. Joined(r)'
  BY <1>2, <1>3, <1>4, <1>5, <1>6 DEF Joined, Committed, IsFailure, SameFingerprint,
     create_event_fingerprint
<1> QED
  BY <1>2, <1>4, <1>7 DEF HandlerInv

\* A rollback leaves nothing of the transaction.
LEMMA RollbackStep ==
  ASSUME IInv, NEW r \in Requests, pc[r] \in InTxn, Rollback(r),
         UNCHANGED <<req, links, clickVars>>
  PROVE  IInv'
<1>1. TypeOK
  BY DEF IInv
<1>2. /\ pc' \in [Requests -> PC] /\ pc'[r] = "failed"
      /\ \A q \in Requests \ {r} : pc'[q] = pc[q]
  BY <1>1, GotoStep DEF Rollback, PC, Final
<1>3. TypeOK'
  BY <1>1, <1>2 DEF TypeOK, Rollback, clickVars
<1>4. Blank(r)'
  BY <1>1 DEF Blank, Rollback, TypeOK
<1>5. HandlerInv(r)'
  BY <1>2, <1>4 DEF HandlerInv
<1>6. \A q \in Requests : incident'[q] = IF q = r THEN None ELSE incident[q]
  BY <1>1 DEF TypeOK, Rollback
<1> QED
  BY <1>1, <1>2, <1>3, <1>5, <1>6, EndStep
     DEF Rollback, TypeOK, InTxn, Committed

\* A row has the types of its columns, and a failure matches itself.
LEMMA RowType ==
  ASSUME TypeOK, NEW r \in Requests
  PROVE  /\ Row(r) \in Event
         /\ IsFailure(Row(r)) => Matches(Row(r), Row(r))
<1>1. req[r].key \in Keys /\ req[r].payload \in Payloads
  BY DEF TypeOK
<1>2. /\ Row(r) \in Event /\ Row(r).at \in Int
  BY <1>1, KeysAssumption, PayloadsAssumption, TimesAssumption DEF Row, EventRow, Event
<1>3. Row(r).at - Window <= Row(r).at
  BY <1>2, WindowAssumption
<1> QED
  BY <1>2, <1>3 DEF Matches, SameFingerprint

\* Evaluation reads, and decides what the commit will write.
LEMMA EvaluationSteps ==
  ASSUME IInv, NEW r \in Requests,
         FindActive(r) \/ CountMatching(r) \/ CollectMatching(r) \/ JoinWinner(r)
  PROVE  IInv'
<1> USE DEF PC, InTxn, Final
<1>1. TypeOK /\ HandlerInv(r)
  BY DEF IInv
<1> DEFINE Joins == /\ \E i \in find_active_incident(r) : Join(r, i)
                    /\ UNCHANGED <<req, incident, links, clickVars>>
                    /\ pc[r] \in {"flushed", "beaten"} /\ IsFailure(Row(r))
           Decides == \/ FindActive(r) /\ UNCHANGED <<target, batch>>
                      \/ CountMatching(r)
<1>2. CASE JoinWinner(r) /\ Rollback(r)
  BY <1>2, RollbackStep DEF JoinWinner
<1>3. CASE Joins
  <2>1. PICK i \in find_active_incident(r) : Join(r, i)
    BY <1>3
  <2>2. /\ pc' \in [Requests -> PC] /\ pc'[r] = "committing"
        /\ target' \in [Requests -> Requests \cup {None}]
        /\ batch' \in [Requests -> SUBSET Requests]
        /\ \A q \in Requests \ {r} :
             pc'[q] = pc[q] /\ target'[q] = target[q] /\ batch'[q] = batch[q]
        /\ HandlerInv(r)'
    BY <1>3, <2>1, JoinInv
  <2>3. TypeOK'
    BY <1>1, <1>3, <2>2 DEF TypeOK, clickVars
  <2> QED
    BY <1>3, <2>2, <2>3, LocalStep DEF Committed
<1>4. CASE Decides
  <2>1. UNCHANGED <<req, target, batch, incident, links, clickVars>>
        /\ pc[r] \in {"flushed", "counting"}
    BY <1>4 DEF FindActive, CountMatching
  <2>2. \E label \in {"committing", "counting", "creating"} :
          /\ Goto(r, label)
          /\ label = "counting" => IsFailure(Row(r))
          /\ label = "creating" => /\ IsFailure(Row(r))
                                   /\ ~(Cardinality(matching_events(r)) < Threshold)
    <3>1. ASSUME FindActive(r), UNCHANGED <<target, batch>>
          PROVE  \/ Goto(r, "committing")
                 \/ Goto(r, "counting") /\ IsFailure(Row(r))
      <4>1. ASSUME NEW i \in find_active_incident(r), Join(r, i) PROVE Goto(r, "committing")
        BY <4>1 DEF Join
      <4> QED
        BY <3>1, <4>1 DEF FindActive
    <3>2. ASSUME CountMatching(r)
          PROVE  \/ Goto(r, "committing")
                 \/ /\ Goto(r, "creating") /\ IsFailure(Row(r))
                    /\ ~(Cardinality(matching_events(r)) < Threshold)
      BY <1>1, <3>2 DEF CountMatching, HandlerInv
    <3> QED
      BY <1>4, <3>1, <3>2
  <2>3. /\ pc' \in [Requests -> PC]
        /\ pc'[r] \in {"committing", "counting", "creating"}
        /\ pc'[r] # "committing" => IsFailure(Row(r))
        /\ pc'[r] = "creating" => ~(Cardinality(matching_events(r)) < Threshold)
        /\ \A q \in Requests \ {r} : pc'[q] = pc[q]
    BY <1>1, <2>2, GotoStep
  <2>4. Monotone /\ Inserted(r) /\ Inserted(r)'
    BY <2>1, <2>3 DEF Monotone, Committed, Inserted
  <2>5. pc'[r] = "creating" => Cardinality(matching_events(r)') >= Threshold
    <3>1. Cardinality(matching_events(r)) \in Nat
      BY <2>1, <2>4, MatchingGrows, FS_CardinalityType
    <3> QED
      BY <2>1, <2>3, <2>4, <3>1, MatchingGrows, ThresholdAssumption
  <2>6. Row(r)' = Row(r)
    BY <2>1, RowFixed
  <2>7. HandlerInv(r)'
    BY <1>1, <2>1, <2>3, <2>5, <2>6 DEF HandlerInv, Blank, IsFailure
  <2>8. TypeOK'
    BY <1>1, <2>1, <2>3 DEF TypeOK, clickVars
  <2> QED
    BY <2>1, <2>3, <2>7, <2>8, LocalStep DEF Committed
<1>5. CASE CollectMatching(r)
  <2>1. /\ pc' \in [Requests -> PC] /\ pc'[r] = "committing"
        /\ \A q \in Requests \ {r} : pc'[q] = pc[q]
    BY <1>1, <1>5, GotoStep DEF CollectMatching
  <2>2. /\ UNCHANGED <<req, target, incident, links, clickVars>> /\ pc[r] = "collecting"
        /\ batch' = [batch EXCEPT ![r] = matching_events(r)]
    BY <1>5 DEF CollectMatching
  <2>3. TypeOK'
    BY <1>1, <2>1, <2>2 DEF TypeOK, clickVars, matching_events, VisibleEvents
  <2>4. Monotone /\ Inserted(r) /\ Inserted(r)'
    BY <2>1, <2>2 DEF Monotone, Committed, Inserted
  <2>5. batch'[r] = matching_events(r) /\ \A q \in Requests \ {r} : batch'[q] = batch[q]
    BY <1>1, <2>2 DEF TypeOK
  <2>6. matching_events(r) \subseteq matching_events(r)'
    BY <2>2, <2>4, MatchingGrows
  <2>7. Row(r)' = Row(r)
    BY <2>2, RowFixed
  <2>8. r \in matching_events(r)
    BY <1>1, <2>2, <2>4, RowType DEF matching_events, VisibleEvents, HandlerInv
  <2>9. Created(r)'
    BY <1>1, <2>2, <2>5, <2>6, <2>7, <2>8
       DEF Created, HandlerInv, IsFailure, NewIncident, SeverityFor
  <2>10. HandlerInv(r)'
    BY <2>1, <2>9 DEF HandlerInv
  <2> QED
    BY <2>1, <2>2, <2>3, <2>5, <2>10, LocalStep DEF Committed
<1>6. JoinWinner(r) /\ ~Rollback(r) => Joins
  BY <1>1 DEF JoinWinner, HandlerInv
<1>7. FindActive(r) => Joins \/ Decides
  BY DEF FindActive
<1> QED
  BY <1>2, <1>3, <1>4, <1>5, <1>6, <1>7

\* Creating an incident, or being beaten to it.
LEMMA CreateStep ==
  ASSUME IInv, NEW r \in Requests, CreateIncident(r)
  PROVE  IInv'
<1> USE DEF PC, InTxn, Final
<1>1. TypeOK /\ HandlerInv(r) /\ pc[r] = "creating"
  BY DEF IInv, CreateIncident
<1>2. UNCHANGED <<req, batch, links, clickVars>>
  BY DEF CreateIncident
<1>3. Row(r)' = Row(r)
  BY <1>2, RowFixed
<1>4. CASE UNCHANGED <<incident, target>> /\ Goto(r, "beaten")
  <2>1. /\ pc' \in [Requests -> PC] /\ pc'[r] = "beaten"
        /\ \A q \in Requests \ {r} : pc'[q] = pc[q]
    BY <1>1, <1>4, GotoStep
  <2>2. TypeOK'
    BY <1>1, <1>2, <1>4, <2>1 DEF TypeOK, clickVars
  <2>3. HandlerInv(r)'
    BY <1>1, <1>2, <1>3, <1>4, <2>1 DEF HandlerInv, Blank, IsFailure
  <2> QED
    BY <1>1, <1>2, <1>4, <2>1, <2>2, <2>3, LocalStep DEF Committed
<1>5. CASE /\ ActiveLike(r) = {}
           /\ incident' = [incident EXCEPT ![r] = NewIncident(Row(r))]
           /\ target' = [target EXCEPT ![r] = r]
           /\ Goto(r, "collecting")
  <2>1. /\ pc' \in [Requests -> PC] /\ pc'[r] = "collecting"
        /\ \A q \in Requests \ {r} : pc'[q] = pc[q]
    BY <1>1, <1>5, GotoStep
  <2>2. \A q \in Requests :
          /\ incident'[q] = IF q = r THEN NewIncident(Row(r)) ELSE incident[q]
          /\ target'[q] = IF q = r THEN r ELSE target[q]
    BY <1>1, <1>5 DEF TypeOK
  <2>3. TypeOK'
    BY <1>1, <1>2, <1>5, <2>1, NewIncidentType DEF TypeOK, clickVars
  <2>4. \A o \in Requests : (Committed(o)' <=> Committed(o)) /\ (Inserted(o)' <=> Inserted(o))
    BY <1>1, <2>1 DEF Committed, Inserted
  <2>5. Monotone
    BY <2>2, <2>4, NewIncidentType DEF Monotone
  <2>6. HandlerInv(r)'
    <3>1. Cardinality(matching_events(r)') >= Threshold
      BY <1>1, <1>2, <2>4, <2>5, MatchingGrows DEF HandlerInv
    <3>2. batch'[r] = {} /\ IsFailure(Row(r))
      BY <1>1, <1>2 DEF HandlerInv, Blank
    <3> QED
      BY <1>3, <2>1, <2>2, <3>1, <3>2 DEF HandlerInv, IsFailure, NewIncident, SeverityFor
  <2>7. \A q \in Requests : HandlerInv(q)'
    BY <1>2, <2>1, <2>2, <2>5, <2>6, OthersKeep
  <2>8. \A q \in Requests : Row(q)' = Row(q)
    BY <1>2, RowFixed
  <2>9. OneTransactionPerKey'
    BY <1>1, <1>2, <2>1 DEF IInv, OneTransactionPerKey
  <2>10. OneEventPerDelivery'
    BY <2>4, <2>8 DEF IInv, OneEventPerDelivery, SameDelivery
  <2>11. OneActivePerFingerprint'
    BY <1>5, <2>2, <2>8 DEF IInv, OneActivePerFingerprint, ActiveLike, SameFingerprint,
       create_event_fingerprint
  <2>12. \A c \in Clicks : ClickInv(c)'
    BY <1>2, <2>4, <2>5 DEF IInv, ClickInv, Monotone, clickVars
  <2> QED
    BY <2>3, <2>7, <2>9, <2>10, <2>11, <2>12 DEF IInv
<1> QED
  BY <1>4, <1>5 DEF CreateIncident

\* The commit makes all that the transaction did visible at once.
LEMMA CommitStep ==
  ASSUME IInv, NEW r \in Requests, Commit(r)
  PROVE  IInv'
<1> USE DEF PC, InTxn, Final
<1>1. TypeOK /\ HandlerInv(r) /\ pc[r] = "committing"
  BY DEF IInv, Commit
<1>2. /\ pc' \in [Requests -> PC] /\ pc'[r] = "accepted"
      /\ \A q \in Requests \ {r} : pc'[q] = pc[q]
  BY <1>1, GotoStep DEF Commit
<1>3. /\ UNCHANGED <<req, target, clickVars>>
      /\ batch' \in [Requests -> SUBSET Requests] /\ batch'[r] = {}
      /\ \A q \in Requests \ {r} : batch'[q] = batch[q]
  BY <1>1 DEF Commit, TypeOK
<1>4. Blank(r) \/ Joined(r) \/ Created(r)
  BY <1>1 DEF HandlerInv
<1>5. \A i \in Requests :
        /\ i = target[r] /\ i # r => Committed(i) /\ incident[i] \in Incident
        /\ incident'[i] = IF i = target[r] /\ i # r /\ Row(r).level = "CRITICAL"
                          THEN [incident[i] EXCEPT !.severity = "SEV_1"]
                          ELSE incident[i]
  BY <1>1, <1>4, RequestsAssumption DEF Commit, Blank, Joined, Created, TypeOK
<1>6. \A row \in Incident : /\ [row EXCEPT !.severity = "SEV_1"] \in Incident
                            /\ [row EXCEPT !.severity = "SEV_1"].status = row.status
  BY DEF Incident, IncidentSeverity
<1>7. \A i \in Requests :
        /\ incident'[i] \in Incident \cup {None}
        /\ incident'[i] # None <=> incident[i] # None
        /\ incident'[i] # None => incident'[i].status = incident[i].status
        /\ ~Committed(i) => incident'[i] = incident[i]
  <2> SUFFICES ASSUME NEW i \in Requests
               PROVE  /\ incident'[i] \in Incident \cup {None}
                      /\ incident'[i] # None <=> incident[i] # None
                      /\ incident'[i] # None => incident'[i].status = incident[i].status
                      /\ ~Committed(i) => incident'[i] = incident[i]
    OBVIOUS
  <2>1. CASE i = target[r] /\ i # r /\ Row(r).level = "CRITICAL"
    <3>1. incident[i] \in Incident /\ Committed(i)
      BY <1>5, <2>1
    <3>2. incident'[i] = [incident[i] EXCEPT !.severity = "SEV_1"]
      BY <1>5, <2>1
    <3> HIDE DEF InTxn, Final, PC
    <3> QED
      BY <1>6, <3>1, <3>2, NoIncidentAssumption
  <2>2. CASE ~(i = target[r] /\ i # r /\ Row(r).level = "CRITICAL")
    <3>1. incident'[i] = incident[i]
      BY <1>5, <2>2
    <3> QED
      BY <1>1, <3>1 DEF TypeOK
  <2> QED
    BY <2>1, <2>2
<1>8. TypeOK'
  <2>1. incident' \in [Requests -> Incident \cup {None}]
    BY <1>7 DEF Commit
  <2>2. links' \subseteq Requests \X Requests
    BY <1>1, <1>4 DEF Commit, Blank, Joined, Created, TypeOK
  <2> QED
    BY <1>1, <1>2, <1>3, <2>1, <2>2 DEF TypeOK, clickVars
<1>9. HandlerInv(r)'
  BY <1>2, <1>3 DEF HandlerInv
<1> QED
  BY <1>1, <1>2, <1>3, <1>7, <1>8, <1>9, EndStep

-----------------------------------------------------------------------------
(* The steps of a click. *)

\* Loading an incident writes nothing.
LEMMA ReadStep ==
  ASSUME IInv, NEW c \in Clicks, ReadToAcknowledge(c) \/ ReadToResolve(c)
  PROVE  IInv'
<1>1. PICK verdict : /\ Read(c, verdict)
                     /\ \A s \in IncidentStatus : verdict[s] \in ClickPC
  BY DEF ReadToAcknowledge, ReadToResolve, IncidentStatus, ClickPC, ClickFinal
<1>2. PICK i \in Requests :
        /\ incident[i] # None /\ Committed(i)
        /\ click' = [click EXCEPT ![c] =
                       [pc |-> verdict[incident[i].status], incident |-> i,
                        assigned_to |-> incident[i].assigned_to]]
  BY <1>1 DEF Read
<1>3. UNCHANGED <<req, ingestVars, incident, links, audit>>
  BY <1>1 DEF Read
<1>4. TypeOK /\ incident[i] \in Incident
  BY <1>2 DEF IInv, TypeOK
<1>5. [pc |-> verdict[incident[i].status], incident |-> i,
       assigned_to |-> incident[i].assigned_to]
        \in [pc : ClickPC, incident : Requests \cup {None}, assigned_to : Clicks \cup {None}]
  BY <1>1, <1>4 DEF Incident
<1>6. TypeOK'
  BY <1>2, <1>3, <1>4, <1>5 DEF TypeOK, ingestVars
<1>7. \A d \in Clicks : ClickInv(d)'
  BY <1>2, <1>3, <1>4 DEF IInv, ClickInv, TypeOK, Committed, ingestVars
<1> QED
  BY <1>3, <1>6, <1>7, QuietStep

\* Acknowledging, even what was resolved meanwhile, respects the unique index.
LEMMA AcknowledgeStep ==
  ASSUME IInv, NEW c \in Clicks, CommitAcknowledge(c)
  PROVE  IInv'
<1> DEFINE i == click[c].incident
           row == [incident[i] EXCEPT !.status = "ACKNOWLEDGED", !.acknowledged = TRUE,
                                      !.assigned_to = c]
<1>1. TypeOK /\ click[c].pc = "acknowledging"
  BY DEF IInv, CommitAcknowledge
<1>2. i \in Requests /\ Committed(i) /\ incident[i] # None
  BY <1>1 DEF IInv, ClickInv
<1>3. incident[i] \in Incident
  BY <1>1, <1>2 DEF TypeOK
<1>4. row \in Incident
  BY <1>3 DEF Incident, IncidentStatus
<1>5. UNCHANGED <<req, ingestVars, links>>
  BY DEF CommitAcknowledge
<1>6. CASE /\ Rivals(c) = {}
           /\ incident' = [incident EXCEPT ![i].status = "ACKNOWLEDGED",
                                           ![i].acknowledged = TRUE,
                                           ![i].assigned_to = c]
           /\ audit' = audit \cup
                {[action |-> "INCIDENT_ACKNOWLEDGED", incident |-> i, actor |-> c]}
           /\ click' = [click EXCEPT ![c].pc = "done"]
  <2>1. incident' = [incident EXCEPT ![i] = row]
    BY <1>6
  <2>2. /\ \A d \in Clicks \ {c} : click'[d] = click[d]
        /\ click'[c].pc = "done"
        /\ click' \in [Clicks -> [pc : ClickPC, incident : Requests \cup {None},
                                  assigned_to : Clicks \cup {None}]]
    BY <1>1, <1>6 DEF TypeOK, ClickPC, ClickFinal
  <2>3. TypeOK'
    BY <1>1, <1>2, <1>4, <1>5, <1>6, <2>1, <2>2 DEF TypeOK, ingestVars
  <2>4. ActiveLike(i) \ {i} = {}
    BY <1>6 DEF Rivals
  <2> HIDE DEF i, row
  <2> QED
    BY <1>2, <1>4, <1>5, <2>1, <2>2, <2>3, <2>4, WriteStep
<1>7. CASE click' = [click EXCEPT ![c].pc = "failed"] /\ UNCHANGED <<incident, audit>>
  <2>1. /\ \A d \in Clicks \ {c} : click'[d] = click[d]
        /\ click'[c].pc = "failed"
        /\ click' \in [Clicks -> [pc : ClickPC, incident : Requests \cup {None},
                                  assigned_to : Clicks \cup {None}]]
    BY <1>1, <1>7 DEF TypeOK, ClickPC, ClickFinal
  <2>2. TypeOK'
    BY <1>1, <1>5, <1>7, <2>1 DEF TypeOK, ingestVars
  <2>3. \A d \in Clicks : ClickInv(d)'
    BY <1>5, <1>7, <2>1 DEF IInv, ClickInv, Committed, ingestVars
  <2> QED
    BY <1>5, <1>7, <2>2, <2>3, QuietStep
<1> QED
  BY <1>6, <1>7 DEF CommitAcknowledge

\* Resolving never makes an incident active.
LEMMA ResolveStep ==
  ASSUME IInv, NEW c \in Clicks, CommitResolve(c)
  PROVE  IInv'
<1> DEFINE i == click[c].incident
           row == [incident[i] EXCEPT !.status = "RESOLVED", !.resolved = TRUE,
                     !.assigned_to = IF click[c].assigned_to = None THEN c ELSE @]
<1>1. TypeOK /\ click[c].pc = "resolving"
  BY DEF IInv, CommitResolve
<1>2. i \in Requests /\ Committed(i) /\ incident[i] # None
  BY <1>1 DEF IInv, ClickInv
<1>3. incident[i] \in Incident
  BY <1>1, <1>2 DEF TypeOK
<1>4. row \in Incident /\ row.status = "RESOLVED"
  BY <1>3 DEF Incident, IncidentStatus
<1>5. UNCHANGED <<req, ingestVars, links>>
  BY DEF CommitResolve
<1>6. incident' = [incident EXCEPT ![i] = row]
  BY DEF CommitResolve
<1>7. /\ \A d \in Clicks \ {c} : click'[d] = click[d]
      /\ click'[c].pc = "done"
      /\ click' \in [Clicks -> [pc : ClickPC, incident : Requests \cup {None},
                                assigned_to : Clicks \cup {None}]]
  BY <1>1 DEF CommitResolve, TypeOK, ClickPC, ClickFinal
<1>8. TypeOK'
  BY <1>1, <1>2, <1>4, <1>5, <1>6, <1>7 DEF TypeOK, ingestVars, CommitResolve
<1> HIDE DEF i, row
<1> QED
  BY <1>2, <1>4, <1>5, <1>6, <1>7, <1>8, WriteStep DEF IsActive

-----------------------------------------------------------------------------
(* The theorems. *)

\* Whatever the interleaving, the invariant holds.
THEOREM Invariance == Spec => []IInv
<1>1. Init => IInv
  <2> SUFFICES ASSUME Init PROVE IInv
    OBVIOUS
  <2>1. TypeOK
    BY DEF Init, TypeOK, PC, ClickPC
  <2>2. \A r \in Requests : HandlerInv(r)
    BY DEF Init, HandlerInv, Blank, PC
  <2>3. /\ OneTransactionPerKey /\ OneEventPerDelivery /\ OneActivePerFingerprint
        /\ \A c \in Clicks : ClickInv(c)
    BY DEF Init, OneTransactionPerKey, OneEventPerDelivery, OneActivePerFingerprint,
       ClickInv, InTxn, Inserted, Committed
  <2> QED
    BY <2>1, <2>2, <2>3 DEF IInv
<1>2. IInv /\ [Next]_vars => IInv'
  <2> SUFFICES ASSUME IInv, [Next]_vars PROVE IInv'
    OBVIOUS
  <2>1. ASSUME NEW r \in Requests, Lookup(r) \/ CommitLastUsed(r) \/ AnswerDuplicate(r)
        PROVE  IInv'
    BY <2>1, LookupSteps
  <2>2. ASSUME NEW r \in Requests, Flush(r) PROVE IInv'
    BY <2>2, FlushStep
  <2>3. ASSUME NEW r \in Requests,
               FindActive(r) \/ CountMatching(r) \/ CollectMatching(r) \/ JoinWinner(r)
        PROVE  IInv'
    BY <2>3, EvaluationSteps
  <2>4. ASSUME NEW r \in Requests, CreateIncident(r) PROVE IInv'
    BY <2>4, CreateStep
  <2>5. ASSUME NEW r \in Requests, Commit(r) PROVE IInv'
    BY <2>5, CommitStep
  <2>6. ASSUME NEW r \in Requests, Crash(r) PROVE IInv'
    BY <2>6, RollbackStep DEF Crash
  <2>7. ASSUME NEW c \in Clicks, ReadToAcknowledge(c) \/ ReadToResolve(c) PROVE IInv'
    BY <2>7, ReadStep
  <2>8. ASSUME NEW c \in Clicks, CommitAcknowledge(c) PROVE IInv'
    BY <2>8, AcknowledgeStep
  <2>9. ASSUME NEW c \in Clicks, CommitResolve(c) PROVE IInv'
    BY <2>9, ResolveStep
  <2>10. CASE UNCHANGED vars
    <3>1. UNCHANGED <<req, ingestVars, incident, links, click, audit>>
      BY <2>10 DEF vars, clickVars
    <3>2. TypeOK'
      BY <3>1 DEF IInv, TypeOK, ingestVars
    <3>3. \A c \in Clicks : ClickInv(c)'
      BY <3>1 DEF IInv, ClickInv, Committed, ingestVars
    <3> QED
      BY <3>1, <3>2, <3>3, QuietStep
  <2> QED
    BY <2>1, <2>2, <2>3, <2>4, <2>5, <2>6, <2>7, <2>8, <2>9, <2>10
       DEF Next, Handle, FinishClick, Rest
<1> QED
  BY <1>1, <1>2, PTL DEF Spec

\* Every variable keeps its type.
THEOREM TypeCorrect == Spec => []TypeOK
<1>1. IInv => TypeOK
  BY DEF IInv
<1> QED
  BY <1>1, Invariance, PTL

\* A fingerprint never has two incidents that await a resolution.
THEOREM OneActive == Spec => []OneActivePerFingerprint
<1>1. IInv => OneActivePerFingerprint
  BY DEF IInv
<1> QED
  BY <1>1, Invariance, PTL

\* No delivery is ever stored twice.
THEOREM OneEvent == Spec => []OneEventPerDelivery
<1>1. IInv => OneEventPerDelivery
  BY DEF IInv
<1> QED
  BY <1>1, Invariance, PTL

-----------------------------------------------------------------------------
(* What answers, audit and detection rest on. *)

\* A handler moves its own program counter only, and holds what it finds itself.
LEMMA Moves ==
  ASSUME TypeOK, [Next]_vars, NEW r \in Requests,
         pc'[r] # pc[r] \/ target'[r] # target[r]
  PROVE  Lookup(r) \/ Handle(r) \/ Crash(r)
<1>1. ASSUME NEW q \in Requests, Lookup(q) \/ Handle(q) \/ Crash(q)
      PROVE  q = r
  <2>1. /\ \E label : pc' = [pc EXCEPT ![q] = label]
        /\ target' = target \/ \E i : target' = [target EXCEPT ![q] = i]
    BY <1>1 DEF Lookup, Handle, Crash, CommitLastUsed, Flush, AnswerDuplicate, Commit,
       FindActive, CountMatching, CreateIncident, JoinWinner, CollectMatching, Goto,
       Join, Rollback
  <2> QED
    BY <2>1 DEF TypeOK
<1>2. ASSUME NEW c \in Clicks, ReadToAcknowledge(c) \/ ReadToResolve(c) \/ FinishClick(c)
      PROVE  FALSE
  BY <1>2 DEF ReadToAcknowledge, ReadToResolve, Read, FinishClick, CommitAcknowledge,
     CommitResolve, ingestVars
<1>3. ~ UNCHANGED vars
  BY DEF vars, ingestVars
<1> QED
  BY <1>1, <1>2, <1>3 DEF Next, Rest

\* What has been answered stays so, and a committed incident stays, no less severe.
Persists ==
  /\ req' = req /\ links \subseteq links'
  /\ \A o \in Requests :
       /\ pc[o] \in {"accepted", "duplicate"} => pc'[o] = pc[o] /\ target'[o] = target[o]
       /\ Committed(o) /\ incident[o] # None =>
            /\ incident'[o] # None
            /\ incident'[o].severity \in {incident[o].severity, "SEV_1"}

\* No step takes back an answer, a link or a committed incident.
LEMMA StepPersists ==
  ASSUME IInv, [Next]_vars
  PROVE  Persists
<1>1. TypeOK
  BY DEF IInv
<1>2. ASSUME NEW q \in Requests,
             \/ Lookup(q) \/ CommitLastUsed(q) \/ Flush(q) \/ AnswerDuplicate(q)
             \/ FindActive(q) \/ CountMatching(q) \/ CollectMatching(q)
      PROVE  Persists
  <2>1. UNCHANGED <<req, incident, links>> /\ pc[q] \notin {"accepted", "duplicate"}
    BY <1>2 DEF Lookup, CommitLastUsed, Flush, AnswerDuplicate, FindActive, CountMatching,
       CollectMatching
  <2>2. /\ \E label : pc' = [pc EXCEPT ![q] = label]
        /\ target' = target \/ \E i : target' = [target EXCEPT ![q] = i]
    BY <1>2 DEF Lookup, CommitLastUsed, Flush, AnswerDuplicate, FindActive, CountMatching,
       CollectMatching, Goto, Join
  <2>3. \A o \in Requests \ {q} : pc'[o] = pc[o] /\ target'[o] = target[o]
    BY <1>1, <2>2 DEF TypeOK
  <2> QED
    BY <2>1, <2>3 DEF Persists
<1>3. ASSUME NEW q \in Requests, CreateIncident(q) \/ JoinWinner(q) \/ Crash(q)
      PROVE  Persists
  <2>1. req' = req /\ links' = links /\ pc[q] \in InTxn
    BY <1>3 DEF CreateIncident, JoinWinner, Crash, InTxn
  <2>2. /\ \E label : pc' = [pc EXCEPT ![q] = label]
        /\ target' = target \/ \E i : target' = [target EXCEPT ![q] = i]
        /\ incident' = incident \/ \E i : incident' = [incident EXCEPT ![q] = i]
    BY <1>3 DEF CreateIncident, JoinWinner, Crash, Goto, Join, Rollback
  <2>3. \A o \in Requests \ {q} :
          pc'[o] = pc[o] /\ target'[o] = target[o] /\ incident'[o] = incident[o]
    BY <1>1, <2>2 DEF TypeOK
  <2> QED
    BY <2>1, <2>3 DEF Persists, Committed, InTxn
<1>4. ASSUME NEW q \in Requests, Commit(q)
      PROVE  Persists
  <2>1. /\ pc[q] = "committing" /\ UNCHANGED <<req, target>> /\ links \subseteq links'
        /\ \A o \in Requests \ {q} : pc'[o] = pc[o]
    BY <1>1, <1>4 DEF Commit, Goto, TypeOK
  <2>2. ASSUME NEW o \in Requests, Committed(o), incident[o] # None
        PROVE  /\ incident'[o] # None
               /\ incident'[o].severity \in {incident[o].severity, "SEV_1"}
    <3>1. incident[o] \in Incident
      BY <1>1, <2>2 DEF TypeOK
    <3>2. \A row \in Incident : /\ [row EXCEPT !.severity = "SEV_1"] \in Incident
                                /\ [row EXCEPT !.severity = "SEV_1"].severity = "SEV_1"
      BY DEF Incident, IncidentSeverity
    <3>3. incident'[o] \in {incident[o], [incident[o] EXCEPT !.severity = "SEV_1"]}
      BY <1>4 DEF Commit
    <3> QED
      BY <2>2, <3>1, <3>2, <3>3, NoIncidentAssumption
  <2> QED
    BY <2>1, <2>2 DEF Persists
<1>5. ASSUME NEW c \in Clicks, ReadToAcknowledge(c) \/ ReadToResolve(c)
      PROVE  Persists
  BY <1>5 DEF ReadToAcknowledge, ReadToResolve, Read, Persists, ingestVars
<1>6. ASSUME NEW c \in Clicks, FinishClick(c)
      PROVE  Persists
  <2> DEFINE i == click[c].incident
  <2>1. i \in Requests /\ incident[i] \in Incident /\ UNCHANGED <<req, ingestVars, links>>
    BY <1>1, <1>6, NoIncidentAssumption
       DEF IInv, ClickInv, TypeOK, FinishClick, CommitAcknowledge, CommitResolve
  <2>2. incident' = incident \/ \E row \in Incident :
          incident' = [incident EXCEPT ![i] = row] /\ row.severity = incident[i].severity
    <3>1. CASE CommitAcknowledge(c)
      <4> DEFINE row == [incident[i] EXCEPT !.status = "ACKNOWLEDGED", !.acknowledged = TRUE,
                                            !.assigned_to = c]
      <4>1. row \in Incident /\ row.severity = incident[i].severity
        BY <2>1 DEF Incident, IncidentStatus
      <4>2. incident' = incident \/ incident' = [incident EXCEPT ![i] = row]
        BY <3>1 DEF CommitAcknowledge
      <4> HIDE DEF row
      <4> QED
        BY <4>1, <4>2
    <3>2. CASE CommitResolve(c)
      <4> DEFINE row == [incident[i] EXCEPT !.status = "RESOLVED", !.resolved = TRUE,
                           !.assigned_to = IF click[c].assigned_to = None THEN c ELSE @]
      <4>1. row \in Incident /\ row.severity = incident[i].severity
        BY <2>1 DEF Incident, IncidentStatus
      <4>2. incident' = [incident EXCEPT ![i] = row]
        BY <3>2 DEF CommitResolve
      <4> HIDE DEF row
      <4> QED
        BY <4>1, <4>2
    <3> QED
      BY <1>6, <3>1, <3>2 DEF FinishClick
  <2> HIDE DEF i
  <2> QED
    BY <1>1, <2>1, <2>2, NoIncidentAssumption DEF Persists, ingestVars, TypeOK
<1>7. CASE UNCHANGED vars
  BY <1>7 DEF vars, ingestVars, Persists
<1> QED
  BY <1>2, <1>3, <1>4, <1>5, <1>6, <1>7 DEF Next, Handle, Rest

\* A delivery that was found stored, or refused by the unique constraint, is stored.
Answering ==
  /\ \A r \in Requests : pc[r] \in {"known", "answering"} => Stored(r) # {}
  /\ AnswersAreTrue

\* What an answer says is true when it is given, and stays true.
LEMMA AnsweringKept ==
  ASSUME IInv, Answering, [Next]_vars
  PROVE  Answering'
<1>1. TypeOK /\ Persists
  BY StepPersists DEF IInv
<1>2. \A r \in Requests : Row(r)' = Row(r)
  BY <1>1, RowFixed DEF Persists
<1>3. \A r \in Requests : Stored(r) \subseteq Stored(r)'
  BY <1>1, <1>2 DEF Stored, SameDelivery, Committed, Persists
<1>4. ASSUME NEW r \in Requests, pc'[r] \in {"known", "answering"}
      PROVE  Stored(r)' # {}
  <2>1. CASE pc'[r] = pc[r]
    BY <1>3, <1>4, <2>1 DEF Answering
  <2>2. CASE pc'[r] # pc[r]
    <3>1. Lookup(r) \/ CommitLastUsed(r) \/ Flush(r)
      BY <1>1, <1>4, <2>2, Moves DEF Handle, Crash, AnswerDuplicate, Commit, FindActive,
         CountMatching, CreateIncident, JoinWinner, CollectMatching, Goto, Join, Rollback,
         TypeOK
    <3>2. Stored(r) # {}
      BY <1>1, <1>4, <3>1 DEF Answering, Lookup, CommitLastUsed, Flush, Goto, TypeOK
    <3> QED
      BY <1>3, <3>2
  <2> QED
    BY <2>1, <2>2
<1>5. ASSUME NEW r \in Requests, pc'[r] = "accepted", target'[r] # None
      PROVE  <<target'[r], r>> \in links'
  <2>1. CASE pc'[r] = pc[r]
    BY <1>1, <1>5, <2>1 DEF Answering, AnswersAreTrue, Persists
  <2>2. CASE pc'[r] # pc[r]
    <3>1. Commit(r)
      BY <1>1, <1>5, <2>2, Moves DEF Handle, Crash, Lookup, CommitLastUsed, Flush,
         AnswerDuplicate, FindActive, CountMatching, CreateIncident, JoinWinner,
         CollectMatching, Goto, Join, Rollback, TypeOK
    <3>2. target' = target /\ links' = links \cup {<<target[r], e>> : e \in batch[r]}
      BY <3>1 DEF Commit
    <3>3. r \in batch[r]
      BY <1>5, <3>1, <3>2 DEF IInv, HandlerInv, Commit, Blank, Joined, Created
    <3> QED
      BY <3>2, <3>3
  <2> QED
    BY <2>1, <2>2
<1>6. ASSUME NEW r \in Requests, pc'[r] = "duplicate"
      PROVE  \E e \in Stored(r)' : target'[r] # None => <<target'[r], e>> \in links'
  <2>1. CASE pc'[r] = pc[r]
    BY <1>1, <1>3, <1>6, <2>1 DEF Answering, AnswersAreTrue, Persists
  <2>2. CASE pc'[r] # pc[r]
    <3>1. AnswerDuplicate(r)
      BY <1>1, <1>6, <2>2, Moves DEF Handle, Crash, Lookup, CommitLastUsed, Flush,
         Commit, FindActive, CountMatching, CreateIncident, JoinWinner,
         CollectMatching, Goto, Join, Rollback, TypeOK
    <3>2. target'[r] \in find_incident_id(r) /\ pc[r] = "answering"
      BY <1>1, <3>1 DEF AnswerDuplicate, TypeOK
    <3>3. \E e \in Stored(r) : target'[r] # None => <<target'[r], e>> \in links
      BY <3>2 DEF find_incident_id, Answering
    <3> QED
      BY <1>1, <1>3, <3>3 DEF Persists
  <2> QED
    BY <2>1, <2>2
<1> QED
  BY <1>4, <1>5, <1>6 DEF Answering, AnswersAreTrue

\* A delivery that was filed is under a committed incident, and has escalated it.
Escalated(r) ==
  Committed(r) /\ target[r] # None =>
    /\ target[r] \in Requests /\ Committed(target[r]) /\ incident[target[r]] # None
    /\ Row(r).level = "CRITICAL" => incident[target[r]].severity = "SEV_1"

\* The commit of a critical event writes the severity, and nobody lowers it.
LEMMA EscalatedKept ==
  ASSUME IInv, \A r \in Requests : Escalated(r), [Next]_vars
  PROVE  \A r \in Requests : Escalated(r)'
<1>1. TypeOK /\ Persists
  BY StepPersists DEF IInv
<1>2. \A r \in Requests : Row(r)' = Row(r)
  BY <1>1, RowFixed DEF Persists
<1>3. SUFFICES ASSUME NEW r \in Requests, Committed(r)', target'[r] # None
               PROVE  /\ target'[r] \in Requests /\ Committed(target[r])'
                      /\ target'[r] = target[r] /\ incident'[target[r]] # None
                      /\ Row(r).level = "CRITICAL" => incident'[target[r]].severity = "SEV_1"
  BY <1>2 DEF Escalated, Committed
<1>4. CASE Committed(r)
  BY <1>1, <1>3, <1>4 DEF Escalated, Persists, Committed
<1>5. CASE ~Committed(r)
  <2>1. Commit(r)
    BY <1>1, <1>3, <1>5, Moves DEF Handle, Crash, Lookup, CommitLastUsed, Flush,
       AnswerDuplicate, FindActive, CountMatching, CreateIncident, JoinWinner,
       CollectMatching, Goto, Join, Rollback, TypeOK, Committed
  <2>2. target' = target /\ (Joined(r) \/ Created(r))
    BY <1>3, <2>1 DEF Commit, IInv, HandlerInv, Blank
  <2>3. CASE Joined(r)
    <3>1. /\ target[r] \in Requests \ {r} /\ Committed(target[r])
          /\ incident[target[r]] \in Incident
      BY <1>1, <2>3 DEF Joined, TypeOK
    <3>2. Row(r).level = "CRITICAL" =>
            incident'[target[r]] = [incident[target[r]] EXCEPT !.severity = "SEV_1"]
      BY <2>1, <3>1 DEF Commit
    <3>3. [incident[target[r]] EXCEPT !.severity = "SEV_1"].severity = "SEV_1"
      BY <3>1 DEF Incident
    <3> QED
      BY <1>1, <2>2, <3>1, <3>2, <3>3, NoIncidentAssumption DEF Persists, Committed
  <2>4. CASE Created(r)
    <3>1. target[r] = r /\ incident'[r] = NewIncident(Row(r))
      BY <2>1, <2>4 DEF Created, Commit
    <3>2. NewIncident(Row(r)) # None
      BY NewIncidentType
    <3>3. Row(r).level = "CRITICAL" => NewIncident(Row(r)).severity = "SEV_1"
      BY DEF NewIncident, SeverityFor
    <3> QED
      BY <1>3, <2>2, <3>1, <3>2, <3>3
  <2> QED
    BY <2>2, <2>3, <2>4
<1> QED
  BY <1>4, <1>5

\* A critical event that was filed has escalated its incident, and for good.
THEOREM Escalation == Spec => []CriticalEscalates
<1>1. Init => \A r \in Requests : Escalated(r)
  BY DEF Init, Escalated, Committed
<1>2. /\ IInv /\ (\A r \in Requests : Escalated(r)) /\ [Next]_vars
      => (\A r \in Requests : Escalated(r))'
  BY EscalatedKept
<1>3. (\A r \in Requests : Escalated(r)) => CriticalEscalates
  BY DEF Escalated, CriticalEscalates
<1> QED
  BY <1>1, <1>2, <1>3, Invariance, PTL DEF Spec

\* Every answer names an incident that the event is linked to, and says duplicate
\* only of an event that is stored.
THEOREM TrueAnswers == Spec => []AnswersAreTrue
<1>1. Init => Answering
  BY DEF Init, Answering, AnswersAreTrue
<1>2. IInv /\ Answering /\ [Next]_vars => Answering'
  BY AnsweringKept
<1>3. Answering => AnswersAreTrue
  BY DEF Answering
<1> QED
  BY <1>1, <1>2, <1>3, Invariance, PTL DEF Spec

-----------------------------------------------------------------------------
(* Detection. *)

\* The service of the delivery has no other key.
OnlyKey(r) == \A k \in Keys : KeyService[k] = Row(r).service => k = req[r].key

\* A failure that is about to be committed without an incident has counted too few.
Missed(r) ==
  /\ pc[r] = "committing" /\ target[r] = None
  /\ IsFailure(Row(r)) /\ OnlyKey(r)

FewWhereMissed ==
  \A r \in Requests : Missed(r) => Cardinality(matching_events(r)) < Threshold

\* While a transaction of the only key of a service is open, nothing that it could
\* count is committed by others.
LEMMA MatchingStays ==
  ASSUME IInv, [Next]_vars, NEW r \in Requests, OnlyKey(r),
         pc[r] \in InTxn, Inserted(r)'
  PROVE  matching_events(r)' = matching_events(r)
<1>1. TypeOK /\ Persists
  BY StepPersists DEF IInv
<1>2. \A o \in Requests : Row(o)' = Row(o)
  BY <1>1, RowFixed DEF Persists
<1>3. ASSUME NEW o \in Requests \ {r}, Matches(Row(r), Row(o)), Committed(o)'
      PROVE  Committed(o)
  <2>1. SUFFICES ASSUME ~Committed(o) PROVE FALSE
    OBVIOUS
  <2>2. Commit(o)
    BY <1>1, <1>3, <2>1, Moves DEF Handle, Crash, Lookup, CommitLastUsed, Flush,
       AnswerDuplicate, FindActive, CountMatching, CreateIncident, JoinWinner,
       CollectMatching, Goto, Join, Rollback, TypeOK, Committed
  <2>3. pc[o] \in InTxn
    BY <2>2 DEF Commit, InTxn
  <2>4. Row(o).service = Row(r).service
    BY <1>3 DEF Matches, SameFingerprint, create_event_fingerprint
  <2>5. req[o].key = req[r].key
    BY <1>1, <2>4 DEF OnlyKey, Row, EventRow, TypeOK
  <2> QED
    BY <2>3, <2>5 DEF IInv, OneTransactionPerKey
<1>4. \A o \in Requests : Committed(o) => Committed(o)'
  BY <1>1 DEF Persists, Committed
<1>5. Inserted(r)
  BY DEF Inserted
<1>6. \A o \in Requests : Matches(Row(r), Row(o))' <=> Matches(Row(r), Row(o))
  BY <1>2 DEF Matches, SameFingerprint, create_event_fingerprint, IsFailure
<1> QED
  BY <1>3, <1>4, <1>5, <1>6 DEF matching_events, VisibleEvents

\* What makes a handler file nothing is a count, and the lock of the key keeps it.
LEMMA FewKept ==
  ASSUME IInv, FewWhereMissed, [Next]_vars
  PROVE  FewWhereMissed'
<1>1. TypeOK /\ Persists
  BY StepPersists DEF IInv
<1>2. SUFFICES ASSUME NEW r \in Requests, Missed(r)'
               PROVE  Cardinality(matching_events(r)') < Threshold
  BY DEF FewWhereMissed
<1>3. /\ IsFailure(Row(r)) /\ OnlyKey(r) /\ Row(r)' = Row(r)
      /\ pc'[r] = "committing" /\ target'[r] = None
  BY <1>1, <1>2, RowFixed DEF Missed, Persists, OnlyKey, IsFailure
<1>4. CASE pc'[r] = pc[r]
  <2>1. target'[r] = target[r]
    BY <1>1, <1>3, <1>4, Moves DEF Handle, Crash, Lookup, CommitLastUsed, Flush,
       AnswerDuplicate, Commit, FindActive, CountMatching, CreateIncident, JoinWinner,
       CollectMatching, Goto, Rollback, TypeOK
  <2>2. Missed(r)
    BY <1>3, <1>4, <2>1 DEF Missed
  <2>3. matching_events(r)' = matching_events(r)
    BY <1>3, <1>4, MatchingStays DEF InTxn, Inserted
  <2> QED
    BY <2>2, <2>3 DEF FewWhereMissed
<1>5. CASE pc'[r] # pc[r]
  <2>1. FindActive(r) \/ CountMatching(r) \/ JoinWinner(r) \/ CollectMatching(r)
    BY <1>1, <1>3, <1>5, Moves DEF Handle, Crash, Lookup, CommitLastUsed, Flush,
       AnswerDuplicate, Commit, CreateIncident, Goto, Rollback, TypeOK
  <2>2. target'[r] = None => CountMatching(r)
    <3>1. FindActive(r) => \E i \in find_active_incident(r) : Join(r, i)
      BY <1>1, <1>3 DEF FindActive, Goto, TypeOK
    <3>2. JoinWinner(r) => \E i \in find_active_incident(r) : Join(r, i)
      BY <1>1, <1>3 DEF JoinWinner, Rollback, Goto, TypeOK
    <3>3. ASSUME NEW i \in find_active_incident(r), Join(r, i)
          PROVE  target'[r] # None
      BY <1>1, <3>3, RequestsAssumption DEF Join, TypeOK, find_active_incident, ActiveLike
    <3>4. CollectMatching(r) => target'[r] # None
      BY RequestsAssumption DEF CollectMatching, IInv, HandlerInv
    <3> QED
      BY <2>1, <3>1, <3>2, <3>3, <3>4
  <2>3. Cardinality(matching_events(r)) < Threshold /\ pc[r] \in InTxn
    BY <1>1, <1>3, <2>2 DEF CountMatching, Goto, TypeOK, InTxn
  <2>4. matching_events(r)' = matching_events(r)
    BY <1>3, <2>3, MatchingStays DEF InTxn, Inserted
  <2> QED
    BY <2>3, <2>4
<1> QED
  BY <1>4, <1>5

\* With a single key to a service the threshold is never missed.
THEOREM Detection == Spec => ThresholdDetected
<1>1. Init => FewWhereMissed
  BY DEF Init, FewWhereMissed, Missed
<1>2. IInv /\ FewWhereMissed /\ [Next]_vars => FewWhereMissed'
  BY FewKept
<1>3. ASSUME IInv, FewWhereMissed, [Next]_vars,
             NEW r \in Requests, ~Committed(r), Committed(r)', IsFailure(Row(r)), OnlyKey(r),
             Cardinality(matching_events(r)') >= Threshold
      PROVE  target'[r] # None
  <2>1. TypeOK /\ Persists
    BY <1>3, StepPersists DEF IInv
  <2>2. Commit(r)
    BY <1>3, <2>1, Moves DEF Handle, Crash, Lookup, CommitLastUsed, Flush,
       AnswerDuplicate, FindActive, CountMatching, CreateIncident, JoinWinner,
       CollectMatching, Goto, Join, Rollback, TypeOK, Committed
  <2>3. pc[r] = "committing" /\ target' = target
    BY <2>2 DEF Commit
  <2>4. matching_events(r)' = matching_events(r)
    BY <1>3, <2>3, MatchingStays DEF InTxn, Inserted, Committed
  <2>5. IsFiniteSet(matching_events(r))
    BY RequestsAssumption, FS_Subset DEF matching_events, VisibleEvents
  <2>6. Cardinality(matching_events(r)) \in Nat /\ Threshold \in Nat
    BY <2>5, FS_CardinalityType, ThresholdAssumption
  <2>7. ~(Cardinality(matching_events(r)) < Threshold)
    BY <1>3, <2>4, <2>6
  <2> QED
    BY <1>3, <2>3, <2>7 DEF FewWhereMissed, Missed
<1>4. IInv /\ FewWhereMissed /\ [Next]_vars =>
        [\A r \in Requests :
           /\ ~Committed(r) /\ Committed(r)'
           /\ IsFailure(Row(r))
           /\ \A k \in Keys : KeyService[k] = Row(r).service => k = req[r].key
           /\ Cardinality(matching_events(r)') >= Threshold
           => target'[r] # None]_vars
  BY <1>3 DEF OnlyKey
<1> QED
  BY <1>1, <1>2, <1>4, Invariance, PTL DEF Spec, ThresholdDetected

-----------------------------------------------------------------------------
(* The audit log. *)

Acts(i) == {a \in audit : a.incident = i}
Kinds(i) == {a.action : a \in Acts(i)}

\* What the log says of one incident.
Accounted(i) ==
  /\ incident[i].assigned_to \in {a.actor : a \in Acts(i)} \cup {None}
  /\ incident[i].assigned_to = None <=> Acts(i) = {}
  /\ incident[i].acknowledged <=> "INCIDENT_ACKNOWLEDGED" \in Kinds(i)
  /\ incident[i].resolved <=> "INCIDENT_RESOLVED" \in Kinds(i)
  /\ incident[i].status = "OPEN" <=> Acts(i) = {}

\* The log is about committed incidents, and a click that read an assignee knows
\* that there is one.
Audited ==
  /\ \A i \in Requests : incident[i] # None => Accounted(i)
  /\ \A a \in audit : Committed(a.incident)
  /\ \A c \in Clicks : click[c].pc = "resolving" /\ click[c].assigned_to # None =>
       incident[click[c].incident].assigned_to # None

\* The columns that the log accounts for.
SameColumns(row, old) ==
  /\ row.status = old.status /\ row.assigned_to = old.assigned_to
  /\ row.acknowledged = old.acknowledged /\ row.resolved = old.resolved

\* Of an incident that is there, deliveries change the severity at most.
LEMMA DeliveriesLeaveColumns ==
  ASSUME IInv, NEW q \in Requests, Lookup(q) \/ Handle(q) \/ Crash(q),
         NEW i \in Requests, incident'[i] # None
  PROVE  \/ incident[i] # None /\ SameColumns(incident'[i], incident[i])
         \/ ~Committed(i) /\ \E e : incident'[i] = NewIncident(e)
<1>1. TypeOK
  BY DEF IInv
<1>2. CASE Commit(q)
  <2>1. i = target[q] /\ i # q => incident[i] \in Incident
    BY <1>1, <1>2, RequestsAssumption
       DEF IInv, HandlerInv, Commit, Blank, Joined, Created, TypeOK
  <2>2. \A row \in Incident : SameColumns([row EXCEPT !.severity = "SEV_1"], row)
    BY DEF Incident, SameColumns
  <2>3. CASE i = target[q] /\ i # q /\ Row(q).level = "CRITICAL"
    <3>1. incident'[i] = [incident[i] EXCEPT !.severity = "SEV_1"]
      BY <1>2, <2>3 DEF Commit
    <3> QED
      BY <2>1, <2>2, <2>3, <3>1, NoIncidentAssumption
  <2>4. CASE ~(i = target[q] /\ i # q /\ Row(q).level = "CRITICAL")
    <3>1. incident'[i] = incident[i]
      BY <1>2, <2>4 DEF Commit
    <3> QED
      BY <3>1 DEF SameColumns
  <2> QED
    BY <2>3, <2>4
<1>3. CASE CreateIncident(q)
  BY <1>1, <1>3 DEF CreateIncident, SameColumns, TypeOK, Committed
<1>4. CASE \/ Lookup(q) \/ CommitLastUsed(q) \/ Flush(q) \/ AnswerDuplicate(q)
           \/ FindActive(q) \/ CountMatching(q) \/ CollectMatching(q) \/ JoinWinner(q)
           \/ Crash(q)
  BY <1>1, <1>4 DEF Lookup, CommitLastUsed, Flush, AnswerDuplicate, FindActive,
     CountMatching, CollectMatching, JoinWinner, Crash, Rollback, SameColumns, TypeOK
<1> QED
  BY <1>2, <1>3, <1>4 DEF Handle

\* One more entry about an incident, and the columns that go with it.
LEMMA Acting ==
  ASSUME IInv, Audited, NEW i \in Requests, Committed(i), incident[i] # None,
         NEW c \in Clicks, NEW action \in {"INCIDENT_ACKNOWLEDGED", "INCIDENT_RESOLVED"},
         NEW row \in Incident,
         row.assigned_to \in {c, incident[i].assigned_to} \ {None}, row.status # "OPEN",
         row.acknowledged <=> action = "INCIDENT_ACKNOWLEDGED" \/ incident[i].acknowledged,
         row.resolved <=> action = "INCIDENT_RESOLVED" \/ incident[i].resolved,
         audit' = audit \cup {[action |-> action, incident |-> i, actor |-> c]},
         incident' = [incident EXCEPT ![i] = row],
         UNCHANGED <<req, ingestVars, links>>,
         \A d \in Clicks \ {c} : click'[d] = click[d], click'[c].pc # "resolving"
  PROVE  Audited'
<1>1. TypeOK
  BY DEF IInv
<1>2. \A o \in Requests : incident'[o] = IF o = i THEN row ELSE incident[o]
  BY <1>1 DEF TypeOK
<1> DEFINE entry == [action |-> action, incident |-> i, actor |-> c]
<1>3. entry.action = action /\ entry.incident = i /\ entry.actor = c
  OBVIOUS
<1>4. audit' = audit \cup {entry}
  OBVIOUS
<1> HIDE DEF entry
<1>5. \A a \in audit' : Committed(a.incident)'
  BY <1>3, <1>4 DEF Audited, Committed, ingestVars
<1>6. Acts(i)' = Acts(i) \cup {entry} /\ \A o \in Requests \ {i} : Acts(o)' = Acts(o)
  BY <1>3, <1>4 DEF Acts
<1>7. Accounted(i)'
  <2>1. Accounted(i)
    BY DEF Audited
  <2>2. Kinds(i)' = Kinds(i) \cup {action}
    BY <1>3, <1>6 DEF Kinds
  <2>3. {a.actor : a \in Acts(i)'} = {a.actor : a \in Acts(i)} \cup {c}
    BY <1>3, <1>6
  <2>4. Acts(i)' # {}
    BY <1>6
  <2>5. incident'[i] = row
    BY <1>2
  <2> QED
    BY <2>1, <2>2, <2>3, <2>4, <2>5 DEF Accounted
<1>8. \A o \in Requests \ {i} : Accounted(o) => Accounted(o)'
  BY <1>2, <1>6 DEF Accounted, Kinds
<1>9. \A o \in Requests : incident'[o] # None => Accounted(o)'
  BY <1>2, <1>7, <1>8 DEF Audited
<1>10. \A d \in Clicks : click'[d].pc = "resolving" /\ click'[d].assigned_to # None =>
         incident'[click'[d].incident].assigned_to # None
  BY <1>2 DEF Audited, IInv, ClickInv
<1> QED
  BY <1>5, <1>9, <1>10 DEF Audited

\* Every step leaves the log and the incidents in agreement.
LEMMA AuditedKept ==
  ASSUME IInv, Audited, [Next]_vars
  PROVE  Audited'
<1>1. TypeOK /\ Persists
  BY StepPersists DEF IInv
<1>2. ASSUME NEW q \in Requests, Lookup(q) \/ Handle(q) \/ Crash(q)
      PROVE  Audited'
  <2>1. UNCHANGED <<click, audit>>
    BY <1>2 DEF Lookup, Handle, Crash, CommitLastUsed, Flush, AnswerDuplicate, Commit,
       FindActive, CountMatching, CreateIncident, JoinWinner, CollectMatching, clickVars
  <2>2. ASSUME NEW i \in Requests, incident'[i] # None
        PROVE  Accounted(i)'
    <3>1. CASE incident[i] # None /\ SameColumns(incident'[i], incident[i])
      BY <2>1, <3>1 DEF Audited, Accounted, Acts, Kinds, SameColumns
    <3>2. CASE ~Committed(i) /\ \E e : incident'[i] = NewIncident(e)
      <4>1. Acts(i) = {}
        BY <3>2 DEF Audited, Acts
      <4> QED
        BY <2>1, <3>2, <4>1 DEF Accounted, Acts, Kinds, NewIncident
    <3> QED
      BY <1>2, <2>2, <3>1, <3>2, DeliveriesLeaveColumns
  <2>3. \A a \in audit : Committed(a.incident)'
    BY <1>1 DEF Audited, Persists, Committed, TypeOK
  <2>4. ASSUME NEW c \in Clicks, click[c].pc = "resolving", click[c].assigned_to # None
        PROVE  incident'[click[c].incident].assigned_to # None
    <3>1. /\ click[c].incident \in Requests /\ Committed(click[c].incident)
          /\ incident[click[c].incident] # None
      BY <2>4 DEF IInv, ClickInv
    <3>2. incident'[click[c].incident] # None
      BY <1>1, <3>1 DEF Persists
    <3>3. SameColumns(incident'[click[c].incident], incident[click[c].incident])
      BY <1>2, <3>1, <3>2, DeliveriesLeaveColumns
    <3> QED
      BY <2>4, <3>3 DEF SameColumns, Audited
  <2> QED
    BY <2>1, <2>2, <2>3, <2>4 DEF Audited
<1>3. ASSUME NEW c \in Clicks, ReadToAcknowledge(c) \/ ReadToResolve(c)
      PROVE  Audited'
  <2>1. UNCHANGED <<req, ingestVars, incident, links, audit>>
    BY <1>3 DEF ReadToAcknowledge, ReadToResolve, Read
  <2>2. \A d \in Clicks : click'[d].pc = "resolving" /\ click'[d].assigned_to # None =>
          incident[click'[d].incident].assigned_to # None
    <3>1. ASSUME NEW d \in Clicks \ {c}
          PROVE  click'[d] = click[d]
      BY <1>3 DEF ReadToAcknowledge, ReadToResolve, Read, IInv, TypeOK
    <3>2. click'[c].pc = "resolving" =>
            click'[c].assigned_to = incident[click'[c].incident].assigned_to
      BY <1>1, <1>3 DEF ReadToAcknowledge, ReadToResolve, Read, TypeOK
    <3> QED
      BY <3>1, <3>2 DEF Audited
  <2> QED
    BY <2>1, <2>2 DEF Audited, Accounted, Acts, Kinds, Committed, ingestVars
<1>4. ASSUME NEW c \in Clicks, FinishClick(c), click'[c].pc = "done"
      PROVE  Audited'
  <2> DEFINE i == click[c].incident
  <2>1. i \in Requests /\ Committed(i) /\ incident[i] # None /\ incident[i] \in Incident
    BY <1>1, <1>4 DEF IInv, ClickInv, TypeOK, FinishClick, CommitAcknowledge, CommitResolve
  <2>2. /\ UNCHANGED <<req, ingestVars, links>>
        /\ \E label : click' = [click EXCEPT ![c].pc = label]
    BY <1>4 DEF FinishClick, CommitAcknowledge, CommitResolve
  <2>3. (\A d \in Clicks \ {c} : click'[d] = click[d]) /\ click'[c].pc # "resolving"
    BY <1>1, <1>4, <2>2 DEF TypeOK
  <2>4. CASE CommitAcknowledge(c)
    <3> DEFINE row == [incident[i] EXCEPT !.status = "ACKNOWLEDGED", !.acknowledged = TRUE,
                                          !.assigned_to = c]
    <3>1. /\ row \in Incident /\ row.status # "OPEN" /\ row.assigned_to = c
          /\ row.acknowledged = TRUE /\ row.resolved = incident[i].resolved
      BY <2>1 DEF Incident, IncidentStatus
    <3>2. /\ incident' = [incident EXCEPT ![i] = row]
          /\ audit' = audit \cup
               {[action |-> "INCIDENT_ACKNOWLEDGED", incident |-> i, actor |-> c]}
      <4>1. click' # [click EXCEPT ![c].pc = "failed"]
        BY <1>1, <1>4 DEF TypeOK
      <4> QED
        BY <2>4, <4>1 DEF CommitAcknowledge
    <3>3. row.assigned_to \in {c, incident[i].assigned_to} \ {None}
      BY <3>1, ClicksAssumption
    <3> HIDE DEF row, i
    <3> QED
      BY <2>1, <2>2, <2>3, <3>1, <3>2, <3>3, Acting
  <2>5. CASE CommitResolve(c)
    <3> DEFINE row == [incident[i] EXCEPT !.status = "RESOLVED", !.resolved = TRUE,
                         !.assigned_to = IF click[c].assigned_to = None THEN c ELSE @]
    <3>1. /\ row \in Incident /\ row.status # "OPEN" /\ row.resolved = TRUE
          /\ row.acknowledged = incident[i].acknowledged
          /\ row.assigned_to =
               IF click[c].assigned_to = None THEN c ELSE incident[i].assigned_to
      BY <2>1 DEF Incident, IncidentStatus
    <3>2. /\ incident' = [incident EXCEPT ![i] = row]
          /\ audit' = audit \cup
               {[action |-> "INCIDENT_RESOLVED", incident |-> i, actor |-> c]}
      BY <2>5 DEF CommitResolve
    <3>3. row.assigned_to \in {c, incident[i].assigned_to} \ {None}
      BY <2>5, <3>1, ClicksAssumption DEF Audited, CommitResolve
    <3> HIDE DEF row, i
    <3> QED
      BY <2>1, <2>2, <2>3, <3>1, <3>2, <3>3, Acting
  <2> QED
    BY <1>4, <2>4, <2>5 DEF FinishClick
<1>5. ASSUME NEW c \in Clicks, FinishClick(c), click'[c].pc # "done"
      PROVE  Audited'
  <2>1. /\ UNCHANGED <<req, ingestVars, incident, links, audit>>
        /\ click' = [click EXCEPT ![c].pc = "failed"]
    BY <1>1, <1>5 DEF FinishClick, CommitAcknowledge, CommitResolve, TypeOK
  <2>2. \A d \in Clicks : click'[d].pc = "resolving" => click'[d] = click[d]
    BY <1>1, <2>1 DEF TypeOK
  <2> QED
    BY <2>1, <2>2 DEF Audited, Accounted, Acts, Kinds, Committed, ingestVars
<1>6. CASE UNCHANGED vars
  BY <1>6 DEF vars, ingestVars, clickVars, Audited, Accounted, Acts, Kinds, Committed
<1> QED
  BY <1>2, <1>3, <1>4, <1>5, <1>6 DEF Next, Rest

\* The log accounts for every incident.
THEOREM LogIsComplete == Spec => []AuditAccountsForIncidents
<1>1. Init => Audited
  BY DEF Init, Audited
<1>2. IInv /\ Audited /\ [Next]_vars => Audited'
  BY AuditedKept
<1>3. Audited => AuditAccountsForIncidents
  BY DEF Audited, Accounted, Acts, Kinds, AuditAccountsForIncidents
<1> QED
  BY <1>1, <1>2, <1>3, Invariance, PTL DEF Spec
=============================================================================
