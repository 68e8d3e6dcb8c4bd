------------------------- MODULE AuthSessions_proofs -------------------------
(***************************************************************************)
(* For every value of the constants: the handlers of /auth, statement by   *)
(* statement, keep their invariants and implement the session book.        *)
(***************************************************************************)
EXTENDS AuthSessions, TLAPS

-----------------------------------------------------------------------------
(* The inductive invariant. *)

\* What q asks for was known when it asked.
Known(q) ==
  /\ call[q].op \in {"refresh", "logout", "revoke_session"} => call[q].row \in Sessions
  /\ call[q].op \in {"revoke_session", "logout_all", "change_password"}
       => call[q].via \in Sessions
  /\ call[q].op = "reset_password" => call[q].row \in Resets
  /\ call[q].op \in {"register", "change_password", "reset_password"}
       => call[q].new \in Passwords

\* Which operations come to stand where.
Route(q) ==
  /\ pc[q] = "idle" => call[q].op = "none"
  /\ pc[q] = "issuing" => call[q].op = "login"
  /\ pc[q] \in {"rotating", "expiring", "replayed"} => call[q].op = "refresh"
  /\ pc[q] = "closing" => call[q].op \in {"logout", "revoke_session"}
  /\ pc[q] = "loaded" =>
       call[q].op \in {"revoke_session", "logout_all", "change_password"}
  /\ pc[q] = "choosing" => call[q].op = "revoke_session"
  /\ pc[q] = "surveying" =>
       call[q].op \in {"logout_all", "change_password", "reset_password"}
  /\ pc[q] = "sweeping" =>
       call[q].op \in {"refresh", "logout_all", "change_password", "reset_password"}
  /\ pc[q] = "withdrawing" => call[q].op = "forgot_password"

\* A refresh holds its token until it ends; one that was refused, or has
\* succeeded, leaves it revoked.
Refreshing(q) ==
  call[q].op = "refresh" =>
    /\ pc[q] \in {"rotating", "expiring", "replayed", "sweeping"}
         => call[q].row \in held[q]
    /\ pc[q] \in {"rotating", "expiring"} => ~session[call[q].row].revoked
    /\ pc[q] \in {"replayed", "sweeping", "refused", "done"}
         => session[call[q].row].revoked
    /\ pc[q] = "done" => q \in Sessions

\* A reset holds its unused token until it ends, and leaves it used.
Resetting(q) ==
  call[q].op = "reset_password" =>
    /\ pc[q] \in {"surveying", "sweeping"}
         => call[q].row \in held[q] /\ ~reset[call[q].row].used
    /\ pc[q] = "done" => reset[call[q].row].used

\* A row named q is inserted when q ends.
Inserting(q) ==
  /\ q \in Sessions => pc[q] = "done" /\ call[q].op \in {"login", "refresh"}
  /\ q \in Resets => pc[q] = "done" /\ call[q].op = "forgot_password"

\* A bulk update meets rows of one table, and reaches them all.
Sweeping(q) ==
  /\ sweep[q] \subseteq IF call[q].op = "forgot_password" THEN Resets ELSE Sessions
  /\ pc[q] \notin {"sweeping", "withdrawing"} \cup Final => sweep[q] = {}
  /\ pc[q] \in {"done", "refused"} =>
       \A s \in sweep[q] : IF call[q].op = "forgot_password" THEN reset[s].used
                           ELSE session[s].revoked

HandlerInv(q) ==
  Known(q) /\ Route(q) /\ Refreshing(q) /\ Resetting(q) /\ Inserting(q) /\ Sweeping(q)

LocksExclusive == \A q, o \in Requests : q # o => held[q] \cap held[o] = {}

\* A replay that has taken its snapshot has met the successor, unless it had
\* ended before.
ReplayMeets ==
  \A q, o \in Requests :
    (/\ call[q].op = "refresh" /\ pc[q] = "sweeping"
     /\ call[o].op = "refresh" /\ pc[o] = "done"
     /\ call[o].row = call[q].row) => o \in sweep[q] \/ session[o].revoked

\* A login is named after a session.
OriginsExist == \A s \in Sessions : session[s].origin \in Sessions

IInv ==
  /\ TypeOK
  /\ OriginsExist
  /\ \A q \in Requests : HandlerInv(q)
  /\ LocksExclusive
  /\ OneLivePerLogin
  /\ ReplayMeets
  /\ ReplayEndsSuccessor
  /\ ResetTokenSingleUse

-----------------------------------------------------------------------------
(* What a step does to others. *)

\* Rows stay, and what is revoked or used stays so.
TablesGrow ==
  /\ \A s \in Sessions : /\ s \in Sessions'
                         /\ session'[s].origin = session[s].origin
                         /\ session[s].revoked => session'[s].revoked
  /\ \A m \in Resets : m \in Resets' /\ (reset[m].used => reset'[m].used)

\* The step leaves a row as it is, apart from its expiry.
Kept(s) ==
  /\ s \in Sessions => session'[s].revoked = session[s].revoked
  /\ s \in Resets => reset'[s].used = reset[s].used

\* A step of q touches nothing of the others' handlers, no row they have locked,
\* and inserts no row but its own.
Isolated(q) ==
  /\ TablesGrow
  /\ Sessions' \subseteq Sessions \cup {q} /\ Resets' \subseteq Resets \cup {q}
  /\ \A o \in Requests \ {q} :
       /\ call'[o] = call[o] /\ pc'[o] = pc[o]
       /\ sweep'[o] = sweep[o] /\ held'[o] = held[o]
       /\ \A s \in held[o] : Kept(s)

\* A step that leaves the tables of tokens alone isolates.
LEMMA QuietStep ==
  ASSUME NEW q \in Requests, UNCHANGED <<session, reset>>,
         \A o \in Requests \ {q} : /\ call'[o] = call[o] /\ pc'[o] = pc[o]
                                   /\ sweep'[o] = sweep[o] /\ held'[o] = held[o]
  PROVE  Isolated(q)
BY DEF Isolated, TablesGrow, Kept, Sessions, Resets

\* A step isolates if it changes no row that others have locked.
LEMMA LockedStep ==
  ASSUME TypeOK, NEW q \in Requests, TablesGrow,
         Sessions' \subseteq Sessions \cup {q}, Resets' \subseteq Resets \cup {q},
         \A o \in Requests \ {q} : /\ call'[o] = call[o] /\ pc'[o] = pc[o]
                                   /\ sweep'[o] = sweep[o] /\ held'[o] = held[o],
         \A s \in Rows : Kept(s) \/ Free(q, s)
  PROVE  Isolated(q)
BY DEF Isolated, Free, TypeOK

\* New and revoked rows are rows.
LEMMA RowTypes ==
  /\ \A l \in Rows : NewSession(l) \in Session
  /\ \A s \in Session : [s EXCEPT !.revoked = TRUE] \in Session
  /\ NewReset \in Reset
  /\ \A m \in Reset : [m EXCEPT !.used = TRUE] \in Reset
BY DEF NewSession, Session, NewReset, Reset

\* The sessions S are revoked, and the table is otherwise as it was.
RevokedOnly(S) ==
  /\ session' \in [Rows -> Session \cup {None}]
  /\ Sessions' = Sessions
  /\ \A s \in Sessions : /\ session'[s].origin = session[s].origin
                         /\ session'[s].revoked <=> session[s].revoked \/ s \in S
  /\ \A s \in Sessions \ S : session'[s] = session[s]

LEMMA RevokeGrows ==
  ASSUME TypeOK, NEW S \in SUBSET Sessions, Revoke(S)
  PROVE  RevokedOnly(S)
<1>1. \A s \in Sessions : s \in Rows /\ session[s] \in Session
  BY DEF TypeOK, Sessions
<1>2. \A s \in Sessions : session'[s] = IF s \in S THEN [session[s] EXCEPT !.revoked = TRUE]
                                        ELSE session[s]
  BY <1>1 DEF Revoke
<1>3. \A s \in Rows \ Sessions : session'[s] = None
  BY DEF Revoke, Sessions
<1>4. session' \in [Rows -> Session \cup {None}]
  BY <1>1, RowTypes DEF Revoke, TypeOK, Sessions
<1>5. \A s \in Sessions : session'[s] # None
  BY <1>1, <1>2, RowTypes, NoRowAssumption
<1>6. Sessions' = Sessions
  BY <1>3, <1>5 DEF Sessions
<1>7. \A s \in Sessions : /\ session'[s].origin = session[s].origin
                          /\ session'[s].revoked <=> session[s].revoked \/ s \in S
  BY <1>1, <1>2 DEF Session
<1> QED
  BY <1>2, <1>4, <1>6, <1>7 DEF RevokedOnly

\* A rotation revokes one session of a login and inserts another.
Rotated(q) ==
  /\ session' \in [Rows -> Session \cup {None}]
  /\ Sessions' = Sessions \cup {q} /\ q \notin Sessions /\ q \in Rows
  /\ call[q].row \in Live
  /\ session'[q] = NewSession(session[call[q].row].origin)
  /\ session'[call[q].row].revoked
  /\ session'[call[q].row].origin = session[call[q].row].origin
  /\ \A s \in Rows \ {call[q].row, q} : session'[s] = session[s]

LEMMA RotateRows ==
  ASSUME TypeOK, NEW q \in Requests, HandlerInv(q), Rotate(q)
  PROVE  Rotated(q) /\ call[q].row \in held[q]
<1> DEFINE t == call[q].row
           successor == NewSession(session[t].origin)
<1>1. /\ t \in Sessions /\ t \in Live /\ t \in held[q] /\ session[t] \in Session
      /\ t \in Rows /\ q \in Rows
  BY DEF TypeOK, Rotate, HandlerInv, Known, Route, Refreshing, Sessions, Live, Rows
<1>2. q \notin Sessions /\ t # q
  BY <1>1 DEF Rotate, HandlerInv, Inserting
<1>3. successor \in Session /\ successor # None
  BY <1>1, RowTypes, NoRowAssumption DEF Session
<1>4. session' = [session EXCEPT ![t].revoked = TRUE, ![q] = successor]
  BY DEF Rotate
<1> HIDE DEF t, successor
<1>5. /\ session' \in [Rows -> Session \cup {None}]
      /\ session'[t] = [session[t] EXCEPT !.revoked = TRUE]
      /\ session'[q] = successor
      /\ \A s \in Rows \ {t, q} : session'[s] = session[s]
  BY <1>1, <1>2, <1>3, <1>4, RowTypes DEF TypeOK
<1>6. session'[t] # None /\ session'[t].origin = session[t].origin /\ session'[t].revoked
  BY <1>1, <1>5, RowTypes, NoRowAssumption DEF Session
<1>7. Sessions' = Sessions \cup {q}
  BY <1>1, <1>2, <1>3, <1>5, <1>6 DEF Sessions
<1> QED
  BY <1>1, <1>2, <1>5, <1>6, <1>7 DEF t, successor, Rotated

\* A sweep uses the reset token of its request, if it has one.
LEMMA UseReset ==
  ASSUME TypeOK, NEW q \in Requests, HandlerInv(q), Sweep(q)
  PROVE  /\ reset' \in [Rows -> Reset \cup {None}]
         /\ Resets' = Resets
         /\ call[q].op = "reset_password" =>
              call[q].row \in held[q] /\ reset'[call[q].row].used
         /\ \A m \in Resets : reset[m].used => reset'[m].used
         /\ \A m \in Rows \ held[q] : reset'[m] = reset[m]
<1>1. CASE call[q].op = "reset_password"
  <2> DEFINE t == call[q].row
  <2>1. t \in Resets /\ t \in held[q] /\ t \in Rows /\ reset[t] \in Reset
    BY <1>1 DEF TypeOK, Sweep, HandlerInv, Known, Resetting, Resets
  <2>2. reset' = [reset EXCEPT ![t].used = TRUE]
    BY <1>1 DEF Sweep
  <2> HIDE DEF t
  <2>3. /\ reset' \in [Rows -> Reset \cup {None}]
        /\ reset'[t] = [reset[t] EXCEPT !.used = TRUE]
        /\ \A m \in Rows \ {t} : reset'[m] = reset[m]
    BY <2>1, <2>2, RowTypes DEF TypeOK
  <2>4. reset'[t] # None /\ reset'[t].used
    BY <2>1, <2>3, RowTypes, NoRowAssumption DEF Reset
  <2>5. Resets' = Resets
    BY <2>1, <2>3, <2>4 DEF Resets
  <2>6. \A m \in Resets : reset[m].used => reset'[m].used
    BY <2>3, <2>4 DEF Resets
  <2> QED
    BY <2>1, <2>3, <2>4, <2>5, <2>6 DEF t
<1>2. CASE call[q].op # "reset_password"
  BY <1>2 DEF Sweep, Resets, TypeOK
<1> QED
  BY <1>1, <1>2

\* Every step of a request keeps types and isolates.
LEMMA StepIsolated ==
  ASSUME IInv, NEW q \in Requests, Send(q) \/ Handle(q) \/ Crash(q)
  PROVE  TypeOK' /\ Isolated(q)
<1> USE DEF Goto
<1>0. TypeOK /\ HandlerInv(q) /\ q \in Rows
  BY DEF IInv, Rows
<1>a. \A s \in Rows : (s \in Sessions <=> session[s] \in Session)
                   /\ (s \in Resets <=> reset[s] \in Reset)
  BY <1>0, NoRowAssumption DEF TypeOK, Sessions, Resets
<1>b. \A s \in held[q] : Free(q, s)
  BY DEF IInv, LocksExclusive, Free
<1>1. CASE Send(q)
  <2>1. PICK c \in Choices : call' = [call EXCEPT ![q] = c]
    BY <1>1 DEF Send
  <2>2. c \in [op : Operations \cup {"none"}, via : Rows \cup {None},
             row : Rows \cup {None}, current : Passwords \cup {None},
             new : Passwords \cup {None}]
    BY DEF Choices, Call, Operations, Sessions, Resets
  <2> QED
    BY <1>0, <1>1, <2>1, <2>2, QuietStep DEF Send, TypeOK, tables, Active
<1>2. CASE Register(q)
  BY <1>0, <1>2, QuietStep DEF Register, Asks, TypeOK, Final, HandlerInv, Known
<1>3. CASE CheckPassword(q)
  BY <1>0, <1>3, QuietStep DEF CheckPassword, Asks, TypeOK, Final, Active, AuditEntry
<1>4. CASE issue_session(q)
  <2>1. NewSession(q) \in Session /\ NewSession(q) # None
    BY <1>0, RowTypes, NoRowAssumption DEF Session
  <2>2. q \notin Sessions
    BY <1>0, <1>4 DEF issue_session, HandlerInv, Inserting
  <2>3. /\ session' = [session EXCEPT ![q] = NewSession(q)]
        /\ session' \in [Rows -> Session \cup {None}]
    BY <1>0, <1>4, <2>1 DEF issue_session, TypeOK
  <2> HIDE DEF Rows
  <2>4. TypeOK'
    BY <1>0, <1>4, <2>3 DEF issue_session, TypeOK, Final
  <2> QED
    BY <1>0, <1>4, <2>1, <2>2, <2>3, <2>4
       DEF issue_session, TypeOK, Isolated, TablesGrow, Kept, Sessions, Resets
<1>5. CASE LockToken(q)
  <2>1. Decision(q) \in Active \cup Final
    BY DEF Decision, Active, Final
  <2>2. call[q].row \in Rows
    BY <1>0, <1>5 DEF LockToken, HandlerInv, Known, Sessions
  <2> QED
    BY <1>0, <1>5, <2>1, <2>2, QuietStep DEF LockToken, TypeOK, tables
<1>6. CASE Rotate(q)
  <2>1. TypeOK'
    <3>1. session' \in [Rows -> Session \cup {None}]
      BY <1>0, <1>6, RotateRows DEF Rotated
    <3>2. /\ pc' \in [Requests -> {"idle"} \cup Active \cup Final]
          /\ held' \in [Requests -> SUBSET Rows]
      BY <1>0, <1>6 DEF Rotate, TypeOK, Final, Release
    <3>3. UNCHANGED <<password, reset, audit, call, sweep>>
      BY <1>6 DEF Rotate
    <3> QED
      BY <1>0, <3>1, <3>2, <3>3 DEF TypeOK
  <2>2. TablesGrow /\ Sessions' \subseteq Sessions \cup {q} /\ Resets' = Resets
    BY <1>0, <1>6, RotateRows DEF Rotate, Rotated, TablesGrow, Sessions, Resets, Live
  <2>3. \A s \in Rows : Kept(s) \/ Free(q, s)
    <3>1. /\ reset' = reset /\ call[q].row \in held[q] /\ q \notin Sessions
          /\ \A s \in Rows \ {call[q].row, q} : session'[s] = session[s]
      BY <1>0, <1>6, RotateRows DEF Rotate, Rotated
    <3> QED
      BY <1>b, <3>1 DEF Kept
  <2> QED
    BY <1>0, <1>6, <2>1, <2>2, <2>3, LockedStep DEF Rotate, TypeOK, Release
<1>7. CASE CloseSession(q)
  <2>1. call[q].row \in Sessions /\ Free(q, call[q].row)
    BY <1>0, <1>7 DEF CloseSession, HandlerInv, Known, Route
  <2>r. RevokedOnly({call[q].row})
    BY <1>0, <1>7, <2>1, RevokeGrows DEF CloseSession
  <2>2. TypeOK'
    BY <1>0, <1>7, <2>r DEF CloseSession, RevokedOnly, TypeOK, Final, Release
  <2>3. TablesGrow /\ Sessions' = Sessions /\ Resets' = Resets
    BY <1>7, <2>r DEF CloseSession, RevokedOnly, TablesGrow, Resets
  <2>4. \A s \in Rows : Kept(s) \/ Free(q, s)
    BY <1>7, <2>1, <2>r DEF CloseSession, RevokedOnly, Kept
  <2> QED
    BY <1>0, <1>7, <2>2, <2>3, <2>4, LockedStep DEF CloseSession, TypeOK, Release
<1>8. CASE LoadUser(q)
  BY <1>0, <1>8, QuietStep DEF LoadUser, TypeOK, tables, Final, Active
<1>9. CASE get_current_user(q)
  BY <1>0, <1>9, QuietStep DEF get_current_user, TypeOK, tables, Final, Active
<1>10. CASE ReadSession(q)
  BY <1>0, <1>10, QuietStep DEF ReadSession, TypeOK, tables, Final, Active
<1>11. CASE LockReset(q)
  <2>1. call[q].row \in Rows
    BY <1>0, <1>11 DEF LockReset, Asks, HandlerInv, Known, Resets
  <2> QED
    BY <1>0, <1>11, <2>1, QuietStep DEF LockReset, TypeOK, tables, Final, Active
<1>12. CASE Survey(q)
  BY <1>0, <1>12, QuietStep DEF Survey, TypeOK, tables, Active, Live, Sessions
<1>13. CASE SurveyResets(q)
  <2>1. Unused \in SUBSET Rows
    BY DEF Unused, Resets
  <2>2. TypeOK'
    BY <1>0, <1>13, <2>1 DEF SurveyResets, TypeOK, tables, Final, Active
  <2> QED
    BY <1>0, <1>13, <2>2, QuietStep DEF SurveyResets, TypeOK, tables
<1>14. CASE \E s \in Rows : LockRow(q, s)
  BY <1>0, <1>14, QuietStep DEF LockRow, TypeOK, tables
<1>15. CASE Sweep(q)
  <2>1. /\ sweep[q] \subseteq Sessions /\ sweep[q] \subseteq held[q]
        /\ Changes(q) => call[q].new \in Passwords
    BY <1>0, <1>15 DEF Sweep, Wanted, Changes, HandlerInv, Known, Route, Sweeping
  <2>r. RevokedOnly(sweep[q])
    BY <1>0, <1>15, <2>1, RevokeGrows DEF Sweep
  <2>2. TypeOK'
    <3>1. /\ password' \in Passwords \cup {None} /\ audit' \subseteq AuditEntry
          /\ pc' \in [Requests -> {"idle"} \cup Active \cup Final]
          /\ held' \in [Requests -> SUBSET Rows]
      BY <1>0, <1>15, <2>1 DEF Sweep, TypeOK, Final, Release, AuditEntry
    <3>2. reset' \in [Rows -> Reset \cup {None}]
      BY <1>0, <1>15, UseReset
    <3>3. call' = call /\ sweep' = sweep
      BY <1>15 DEF Sweep
    <3> QED
      BY <1>0, <2>r, <3>1, <3>2, <3>3 DEF RevokedOnly, TypeOK
  <2>3. TablesGrow /\ Sessions' = Sessions /\ Resets' = Resets
    BY <1>0, <1>15, <2>r, UseReset DEF RevokedOnly, TablesGrow
  <2>4. \A s \in Rows : Kept(s) \/ Free(q, s)
    BY <1>0, <1>15, <1>b, <2>1, <2>r, UseReset DEF RevokedOnly, Kept
  <2> QED
    BY <1>0, <1>15, <2>2, <2>3, <2>4, LockedStep DEF Sweep, TypeOK, Release
<1>16. CASE ReplaceResets(q)
  <2>1. sweep[q] \subseteq Resets /\ sweep[q] \subseteq held[q]
    BY <1>0, <1>16 DEF ReplaceResets, Wanted, HandlerInv, Route, Sweeping
  <2>2. q \notin Resets
    BY <1>0, <1>16 DEF ReplaceResets, HandlerInv, Inserting
  <2>3. /\ reset' \in [Rows -> Reset \cup {None}]
        /\ \A m \in Resets : m \in Resets' /\ (reset[m].used => reset'[m].used)
        /\ \A m \in Rows \ (sweep[q] \cup {q}) : reset'[m] = reset[m]
        /\ Resets' \subseteq Resets \cup {q}
    BY <1>0, <1>a, <1>16, <2>1, <2>2, RowTypes, NoRowAssumption
       DEF ReplaceResets, TypeOK, Resets, Reset
  <2>4. TypeOK'
    BY <1>0, <1>16, <2>3 DEF ReplaceResets, TypeOK, Final, Release
  <2>5. TablesGrow /\ Sessions' = Sessions
    BY <1>16, <2>3 DEF ReplaceResets, TablesGrow, Sessions
  <2>6. \A s \in Rows : Kept(s) \/ Free(q, s)
    BY <1>b, <1>16, <2>1, <2>2, <2>3 DEF ReplaceResets, Kept
  <2> QED
    BY <1>0, <1>16, <2>3, <2>4, <2>5, <2>6, LockedStep DEF ReplaceResets, TypeOK, Release
<1>17. CASE Crash(q)
  BY <1>0, <1>17, QuietStep DEF Crash, TypeOK, tables, Final, Release
<1> QED
  BY <1>1, <1>2, <1>3, <1>4, <1>5, <1>6, <1>7, <1>8, <1>9, <1>10, <1>11, <1>12, <1>13,
     <1>14, <1>15, <1>16, <1>17 DEF Handle

\* Time only marks rows as expired.
LEMMA ExpireQuiet ==
  ASSUME IInv, NEW s \in ShortLived, Expire(s)
  PROVE  /\ TypeOK' /\ TablesGrow
         /\ Sessions' = Sessions /\ Resets' = Resets
         /\ \A t \in Sessions : session'[t].revoked = session[t].revoked
         /\ \A t \in Resets : reset'[t].used = reset[t].used
<1>1. TypeOK
  BY DEF IInv
<1>2. CASE /\ s \in Live
           /\ session' = [session EXCEPT ![s].expired = TRUE] /\ UNCHANGED reset
  <2>1. s \in Rows /\ session[s] \in Session
    BY <1>1, <1>2 DEF TypeOK, Live, Sessions
  <2>2. /\ session'[s] = [session[s] EXCEPT !.expired = TRUE]
        /\ session'[s] \in Session /\ session'[s] # None
        /\ \A t \in Rows \ {s} : session'[t] = session[t]
    BY <1>1, <1>2, <2>1, NoRowAssumption DEF TypeOK, Session
  <2>3. TypeOK'
    BY <1>1, <1>2, <2>1, <2>2 DEF Expire, TypeOK
  <2>4. /\ session'[s].revoked = session[s].revoked
        /\ session'[s].origin = session[s].origin
    BY <2>1, <2>2 DEF Session
  <2> QED
    BY <1>2, <2>1, <2>2, <2>3, <2>4 DEF Live, Sessions, Resets, TablesGrow
<1>3. CASE /\ s \in Unused
           /\ reset' = [reset EXCEPT ![s].expired = TRUE] /\ UNCHANGED session
  <2>1. s \in Rows /\ reset[s] \in Reset
    BY <1>1, <1>3 DEF TypeOK, Unused, Resets
  <2>2. /\ reset'[s] = [reset[s] EXCEPT !.expired = TRUE]
        /\ reset'[s] \in Reset /\ reset'[s] # None
        /\ \A t \in Rows \ {s} : reset'[t] = reset[t]
    BY <1>1, <1>3, <2>1, NoRowAssumption DEF TypeOK, Reset
  <2>3. TypeOK'
    BY <1>1, <1>3, <2>1, <2>2 DEF Expire, TypeOK
  <2>4. reset'[s].used = reset[s].used
    BY <2>1, <2>2 DEF Reset
  <2> QED
    BY <1>3, <2>1, <2>2, <2>3, <2>4 DEF Unused, Sessions, Resets, TablesGrow
<1> QED
  BY <1>2, <1>3 DEF Expire

\* A handler that the step leaves alone keeps its invariant.
LEMMA OthersKeep ==
  ASSUME IInv, NEW o \in Requests, TablesGrow,
         call'[o] = call[o], pc'[o] = pc[o], sweep'[o] = sweep[o], held'[o] = held[o],
         o \in Sessions' => o \in Sessions, o \in Resets' => o \in Resets,
         \A s \in held[o] : Kept(s)
  PROVE  HandlerInv(o)'
<1>1. HandlerInv(o)
  BY DEF IInv
<1>g. Sessions \subseteq Sessions' /\ Resets \subseteq Resets'
  BY DEF TablesGrow, Sessions, Resets
<1>2. Known(o)' /\ Route(o)'
  <2>1. Known(o)'
    BY <1>1, <1>g DEF HandlerInv, Known
  <2>2. Route(o)'
    BY <1>1 DEF HandlerInv, Route
  <2> QED
    BY <2>1, <2>2
<1>3. Refreshing(o)'
  BY <1>1, <1>g DEF HandlerInv, Known, Refreshing, TablesGrow, Kept, Sessions
<1>4. Resetting(o)'
  BY <1>1 DEF HandlerInv, Known, Resetting, TablesGrow, Kept
<1>5. Inserting(o)' /\ Sweeping(o)'
  <2>1. Inserting(o)'
    BY <1>1 DEF HandlerInv, Inserting
  <2>2. /\ sweep'[o] \subseteq IF call'[o].op = "forgot_password" THEN Resets' ELSE Sessions'
        /\ pc'[o] \notin {"sweeping", "withdrawing"} \cup Final => sweep'[o] = {}
    BY <1>1, <1>g DEF HandlerInv, Sweeping
  <2>3. pc'[o] \in {"done", "refused"} =>
          \A s \in sweep'[o] : IF call'[o].op = "forgot_password" THEN reset'[s].used
                               ELSE session'[s].revoked
    BY <1>1 DEF HandlerInv, Sweeping, TablesGrow, Sessions, Resets
  <2> QED
    BY <2>1, <2>2, <2>3 DEF Sweeping
<1> QED
  BY <1>2, <1>3, <1>4, <1>5 DEF HandlerInv

\* The handler that takes the step keeps its own.
LEMMA HandlerStep ==
  ASSUME IInv, NEW q \in Requests, Send(q) \/ Handle(q) \/ Crash(q)
  PROVE  HandlerInv(q)'
<1> USE DEF Goto
<1>0. TypeOK /\ HandlerInv(q) /\ q \in Rows /\ TablesGrow /\ TypeOK'
  BY StepIsolated DEF IInv, Rows, Isolated
<1>g. Sessions \subseteq Sessions' /\ Resets \subseteq Resets'
  BY <1>0 DEF TablesGrow
<1>1. CASE Send(q)
  BY <1>0, <1>1
     DEF Send, TypeOK, tables, Choices, Call, HandlerInv, Known, Route, Refreshing,
         Resetting, Inserting, Sweeping, Sessions, Resets, Final
<1>2. CASE Register(q)
  BY <1>0, <1>2
     DEF Register, Asks, TypeOK, HandlerInv, Known, Route, Refreshing, Resetting,
         Inserting, Sweeping, Sessions, Resets, Final
<1>3. CASE CheckPassword(q)
  BY <1>0, <1>3
     DEF CheckPassword, Asks, TypeOK, HandlerInv, Known, Route, Refreshing, Resetting,
         Inserting, Sweeping, Sessions, Resets, Final
<1>4. CASE issue_session(q)
  BY <1>0, <1>4
     DEF issue_session, TypeOK, HandlerInv, Known, Route, Refreshing, Resetting,
         Inserting, Sweeping, TablesGrow, Resets, Final
<1>5. CASE LockToken(q)
  BY <1>0, <1>5
     DEF LockToken, Decision, tables, TypeOK, HandlerInv, Known, Route, Refreshing,
         Resetting, Inserting, Sweeping, Sessions, Resets, Final
<1>6. CASE Rotate(q)
  <2>1. /\ pc[q] = "rotating" /\ pc'[q] = "done" /\ call' = call /\ sweep' = sweep
        /\ call[q].op = "refresh" /\ sweep[q] = {} /\ Resets' = Resets /\ q \notin Resets
        /\ call[q].row \in Sessions
    BY <1>0, <1>6
       DEF Rotate, TypeOK, HandlerInv, Known, Route, Inserting, Sweeping, Resets, Final
  <2>2. session'[call[q].row].revoked /\ q \in Sessions'
    BY <1>0, <1>6, <2>1, RotateRows DEF Rotated
  <2>3. Known(q)'
    BY <1>g, <1>0, <2>1 DEF HandlerInv, Known
  <2> QED
    BY <2>1, <2>2, <2>3
       DEF HandlerInv, Route, Refreshing, Resetting, Inserting, Sweeping
<1>7. CASE CloseSession(q)
  <2>1. /\ pc[q] \in {"expiring", "closing"} /\ call' = call /\ sweep' = sweep
        /\ pc'[q] = IF pc[q] = "expiring" THEN "refused" ELSE "done"
        /\ call[q].op \in {"refresh", "logout", "revoke_session"}
        /\ call[q].op = "refresh" <=> pc[q] = "expiring"
        /\ sweep[q] = {} /\ q \notin Resets /\ q \notin Sessions
        /\ call[q].row \in Sessions
    BY <1>0, <1>7
       DEF CloseSession, TypeOK, HandlerInv, Known, Route, Inserting, Sweeping, Final
  <2>2. RevokedOnly({call[q].row}) /\ Resets' = Resets
    BY <1>0, <1>7, <2>1, RevokeGrows DEF CloseSession, Resets
  <2>3. Known(q)'
    BY <1>g, <1>0, <2>1 DEF HandlerInv, Known
  <2> QED
    BY <2>1, <2>2, <2>3
       DEF HandlerInv, Route, Refreshing, Resetting, Inserting, Sweeping, RevokedOnly
<1>8. CASE LoadUser(q)
  BY <1>0, <1>8
     DEF LoadUser, tables, TypeOK, HandlerInv, Known, Route, Refreshing, Resetting,
         Inserting, Sweeping, Sessions, Resets, Final
<1>9. CASE get_current_user(q)
  BY <1>0, <1>9
     DEF get_current_user, tables, TypeOK, HandlerInv, Known, Route, Refreshing,
         Resetting, Inserting, Sweeping, Sessions, Resets, Final
<1>10. CASE ReadSession(q)
  BY <1>0, <1>10
     DEF ReadSession, tables, TypeOK, HandlerInv, Known, Route, Refreshing, Resetting,
         Inserting, Sweeping, Sessions, Resets, Final
<1>11. CASE LockReset(q)
  BY <1>0, <1>11
     DEF LockReset, Asks, tables, TypeOK, HandlerInv, Known, Route, Refreshing,
         Resetting, Inserting, Sweeping, Sessions, Resets, Final
<1>12. CASE Survey(q)
  BY <1>0, <1>12
     DEF Survey, Live, tables, TypeOK, HandlerInv, Known, Route, Refreshing, Resetting,
         Inserting, Sweeping, Sessions, Resets, Final
<1>13. CASE SurveyResets(q)
  BY <1>0, <1>13
     DEF SurveyResets, Asks, Unused, tables, TypeOK, HandlerInv, Known, Route,
         Refreshing, Resetting, Inserting, Sweeping, Sessions, Resets, Final
<1>14. CASE \E s \in Rows : LockRow(q, s)
  BY <1>0, <1>14
     DEF LockRow, tables, TypeOK, HandlerInv, Known, Route, Refreshing, Resetting,
         Inserting, Sweeping, Sessions, Resets, Final
<1>15. CASE Sweep(q)
  <2>1. /\ pc[q] = "sweeping" /\ call' = call /\ sweep' = sweep
        /\ pc'[q] = IF call[q].op = "refresh" THEN "refused" ELSE "done"
        /\ call[q].op \in {"refresh", "logout_all", "change_password", "reset_password"}
        /\ sweep[q] \subseteq Sessions /\ q \notin Resets /\ q \notin Sessions
    BY <1>0, <1>15
       DEF Sweep, TypeOK, HandlerInv, Route, Inserting, Sweeping, Final
  <2>2. RevokedOnly(sweep[q])
    BY <1>0, <1>15, <2>1, RevokeGrows DEF Sweep
  <2>3. Known(q)'
    BY <1>g, <1>0, <2>1 DEF HandlerInv, Known
  <2>4. Refreshing(q)'
    BY <1>0, <2>1 DEF HandlerInv, Known, Refreshing, TablesGrow
  <2>5. Resetting(q)' /\ q \notin Resets'
    BY <1>0, <1>15, <2>1, UseReset DEF HandlerInv, Resetting
  <2>6. Inserting(q)' /\ Sweeping(q)'
    <3>1. \A s \in sweep[q] : s \in Sessions' /\ session'[s].revoked
      BY <2>1, <2>2 DEF RevokedOnly
    <3>2. q \notin Sessions' /\ pc'[q] \in Final
      BY <2>1, <2>2 DEF RevokedOnly, Final
    <3>3. Inserting(q)'
      BY <2>5, <3>2 DEF Inserting
    <3> QED
      BY <2>1, <3>1, <3>2, <3>3 DEF Sweeping
  <2>7. Route(q)'
    BY <2>1 DEF Route
  <2> QED
    BY <2>3, <2>4, <2>5, <2>6, <2>7 DEF HandlerInv
<1>16. CASE ReplaceResets(q)
  <2>1. /\ pc[q] = "withdrawing" /\ pc'[q] = "done" /\ call' = call /\ sweep' = sweep
        /\ call[q].op = "forgot_password" /\ sweep[q] \subseteq Resets
        /\ Sessions' = Sessions /\ q \notin Sessions
    BY <1>0, <1>16
       DEF ReplaceResets, TypeOK, HandlerInv, Route, Inserting, Sweeping, Sessions
  <2>2. Known(q)'
    BY <1>g, <1>0, <2>1 DEF HandlerInv, Known
  <2>3. \A m \in sweep[q] : reset'[m].used
    <3>1. q \notin Resets
      BY <1>0, <2>1 DEF HandlerInv, Inserting
    <3>2. \A m \in sweep[q] : m \in Rows /\ m # q /\ reset[m] \in Reset
      BY <1>0, <2>1, <3>1 DEF TypeOK, Resets
    <3>3. \A m \in sweep[q] : reset'[m] = [reset[m] EXCEPT !.used = TRUE]
      BY <1>16, <3>2 DEF ReplaceResets
    <3> QED
      BY <3>2, <3>3 DEF Reset
  <2>4. Inserting(q)' /\ Sweeping(q)'
    <3>1. sweep[q] \subseteq Resets' /\ pc'[q] \in Final
      BY <1>g, <2>1 DEF Final
    <3>2. Inserting(q)'
      BY <2>1 DEF Inserting
    <3> QED
      BY <2>1, <2>3, <3>1, <3>2 DEF Sweeping
  <2>5. Route(q)' /\ Refreshing(q)' /\ Resetting(q)'
    BY <2>1 DEF Route, Refreshing, Resetting
  <2> QED
    BY <2>2, <2>4, <2>5 DEF HandlerInv
<1>17. CASE Crash(q)
  BY <1>0, <1>17
     DEF Crash, tables, TypeOK, HandlerInv, Known, Route, Refreshing, Resetting,
         Inserting, Sweeping, Sessions, Resets, Final, Active
<1> QED
  BY <1>1, <1>2, <1>3, <1>4, <1>5, <1>6, <1>7, <1>8, <1>9, <1>10, <1>11, <1>12, <1>13,
     <1>14, <1>15, <1>16, <1>17 DEF Handle

-----------------------------------------------------------------------------
(* What a step does to the sessions. *)

\* A login opens with a session of its own.
Opened(q) ==
  /\ session' \in [Rows -> Session \cup {None}]
  /\ Sessions' = Sessions \cup {q} /\ q \notin Sessions /\ q \in Rows
  /\ session'[q] = NewSession(q)
  /\ \A s \in Rows \ {q} : session'[s] = session[s]

LEMMA SessionEffect ==
  ASSUME IInv, NEW q \in Requests, Send(q) \/ Handle(q) \/ Crash(q)
  PROVE  Opened(q) \/ (Rotate(q) /\ Rotated(q)) \/ \E S \in SUBSET Sessions : RevokedOnly(S)
<1>0. TypeOK /\ HandlerInv(q) /\ q \in Rows
  BY DEF IInv, Rows
<1>1. CASE issue_session(q)
  <2>1. q \notin Sessions
    BY <1>0, <1>1 DEF issue_session, HandlerInv, Inserting
  <2>2. NewSession(q) \in Session /\ NewSession(q) # None
    BY <1>0, RowTypes, NoRowAssumption DEF Session
  <2>3. /\ session' \in [Rows -> Session \cup {None}]
        /\ session'[q] = NewSession(q)
        /\ \A s \in Rows \ {q} : session'[s] = session[s]
    BY <1>0, <1>1, <2>2 DEF issue_session, TypeOK
  <2>4. Sessions' = Sessions \cup {q}
    BY <1>0, <2>2, <2>3 DEF Sessions
  <2> QED
    BY <1>0, <2>1, <2>3, <2>4 DEF Opened
<1>2. CASE Rotate(q)
  BY <1>0, <1>2, RotateRows
<1>3. CASE CloseSession(q)
  <2>1. {call[q].row} \in SUBSET Sessions /\ Revoke({call[q].row})
    BY <1>0, <1>3 DEF CloseSession, HandlerInv, Known, Route
  <2> QED
    BY <1>0, <2>1, RevokeGrows
<1>4. CASE Sweep(q)
  <2>1. sweep[q] \in SUBSET Sessions /\ Revoke(sweep[q])
    BY <1>0, <1>4 DEF Sweep, HandlerInv, Route, Sweeping
  <2> QED
    BY <1>0, <2>1, RevokeGrows
<1>5. CASE session' = session
  <2>1. RevokedOnly({})
    BY <1>0, <1>5 DEF RevokedOnly, TypeOK, Sessions
  <2> QED
    BY <2>1
<1> QED
  BY <1>1, <1>2, <1>3, <1>4, <1>5
     DEF Handle, Send, Crash, tables, Register, CheckPassword, LockToken, LoadUser,
         get_current_user, ReadSession, LockReset, Survey, SurveyResets, LockRow,
         ReplaceResets

\* Logins keep their names, and at most one live session each.
LEMMA OneLiveStep ==
  ASSUME IInv, NEW q \in Requests, Send(q) \/ Handle(q) \/ Crash(q)
  PROVE  OriginsExist' /\ OneLivePerLogin'
<1>0. TypeOK /\ OriginsExist /\ OneLivePerLogin
  BY DEF IInv
<1>1. CASE Opened(q)
  <2>1. \A s \in Sessions : session'[s] = session[s] /\ session[s].origin # q
    BY <1>0, <1>1 DEF Opened, OriginsExist, Sessions
  <2>2. session'[q].origin = q /\ ~session'[q].revoked
    BY <1>1 DEF Opened, NewSession
  <2> QED
    BY <1>0, <1>1, <2>1, <2>2 DEF Opened, OriginsExist, OneLivePerLogin, Live
<1>2. CASE Rotated(q)
  <2> DEFINE t == call[q].row
  <2>1. t \in Sessions /\ t \in Live /\ t # q
    BY <1>2 DEF Rotated, Live
  <2>2. session'[q].origin = session[t].origin /\ ~session'[q].revoked
    BY <1>2 DEF Rotated, NewSession
  <2>3. /\ session'[t].revoked /\ session'[t].origin = session[t].origin
        /\ \A s \in Sessions \ {t} : session'[s] = session[s]
    BY <1>2 DEF Rotated, Sessions
  <2> HIDE DEF t
  <2>4. OriginsExist'
    BY <1>0, <1>2, <2>1, <2>2, <2>3 DEF Rotated, OriginsExist
  <2>5. \A s \in Live' : s = q \/ (s \in Live \ {t} /\ session'[s] = session[s])
    BY <1>2, <2>3 DEF Rotated, Live
  <2>6. \A s \in Live \ {t} : session[s].origin # session[t].origin
    BY <1>0, <2>1 DEF OneLivePerLogin
  <2> QED
    BY <1>0, <2>2, <2>4, <2>5, <2>6 DEF OneLivePerLogin
<1>3. ASSUME NEW S \in SUBSET Sessions, RevokedOnly(S)
      PROVE  OriginsExist' /\ OneLivePerLogin'
  BY <1>0, <1>3 DEF RevokedOnly, OriginsExist, OneLivePerLogin, Live
<1> QED
  BY <1>1, <1>2, <1>3, SessionEffect

\* Locks stay exclusive.
LEMMA LocksStep ==
  ASSUME IInv, NEW q \in Requests, Send(q) \/ Handle(q) \/ Crash(q)
  PROVE  LocksExclusive'
<1>0. TypeOK /\ LocksExclusive /\ Isolated(q)
  BY StepIsolated DEF IInv
<1>1. held'[q] \subseteq held[q] \/ \E s : held'[q] \subseteq held[q] \cup {s} /\ Free(q, s)
  BY <1>0
     DEF TypeOK, Handle, Send, Crash, Register, CheckPassword, issue_session, LockToken,
         Rotate, CloseSession, LoadUser, get_current_user, ReadSession, LockReset, Survey,
         SurveyResets, LockRow, Sweep, ReplaceResets, Release
<1>2. \A o \in Requests \ {q} : held'[o] = held[o] /\ held'[q] \cap held[o] = {}
  BY <1>0, <1>1 DEF Isolated, LocksExclusive, Free
<1> QED
  BY <1>0, <1>2 DEF LocksExclusive

\* How a refresh comes to sweep and to end, and a reset to end.
LEMMA Moves ==
  ASSUME IInv, NEW q \in Requests, Send(q) \/ Handle(q) \/ Crash(q)
  PROVE  /\ pc[q] \notin Final
         /\ pc'[q] \in {"done", "refused", "sweeping"} => call'[q] = call[q]
         /\ call[q].op = "refresh" =>
              /\ pc'[q] = "done" => Rotate(q)
              /\ pc'[q] = "refused" =>
                   (pc[q] = "sweeping" /\ Sweep(q)) \/ pc[q] = "expiring"
              /\ pc'[q] = "sweeping" =>
                   sweep'[q] = Live \/ (pc[q] = "sweeping" /\ sweep'[q] = sweep[q])
         /\ call[q].op = "reset_password" /\ pc'[q] = "done" => pc[q] = "sweeping"
<1>0. TypeOK /\ Route(q)
  BY DEF IInv, HandlerInv
<1> USE DEF Goto, Final
<1>1. CASE Send(q) \/ Crash(q)
  BY <1>0, <1>1 DEF TypeOK, Send, Crash, Active
<1>2. CASE LockToken(q)
  BY <1>0, <1>2 DEF TypeOK, LockToken, Decision, tables
<1>3. CASE Rotate(q) \/ CloseSession(q) \/ Sweep(q)
  BY <1>0, <1>3 DEF TypeOK, Route, Rotate, CloseSession, Sweep
<1>4. CASE Survey(q) \/ \E s \in Rows : LockRow(q, s)
  BY <1>0, <1>4 DEF TypeOK, Survey, LockRow, Wanted, tables
<1>5. CASE \/ Register(q) \/ CheckPassword(q) \/ issue_session(q) \/ LoadUser(q)
           \/ get_current_user(q) \/ ReadSession(q)
           \/ LockReset(q) \/ SurveyResets(q) \/ ReplaceResets(q)
  BY <1>0, <1>5
     DEF TypeOK, Route, Asks, Register, CheckPassword, issue_session, LoadUser,
         get_current_user, ReadSession, LockReset, SurveyResets, ReplaceResets, tables
<1> QED
  BY <1>1, <1>2, <1>3, <1>4, <1>5 DEF Handle

\* A replay keeps up with those that refreshed with its token.
LEMMA ReplayStep ==
  ASSUME IInv, NEW a \in Requests, Send(a) \/ Handle(a) \/ Crash(a)
  PROVE  ReplayMeets' /\ ReplayEndsSuccessor'
<1>0. /\ TypeOK /\ ReplayMeets /\ ReplayEndsSuccessor /\ TablesGrow
      /\ \A q \in Requests : HandlerInv(q)
      /\ \A q \in Requests \ {a} :
           call'[q] = call[q] /\ pc'[q] = pc[q] /\ sweep'[q] = sweep[q]
  BY StepIsolated DEF IInv, Isolated
<1> SUFFICES ASSUME NEW q \in Requests, NEW o \in Requests,
                    call'[q].op = "refresh", pc'[q] \in {"sweeping", "refused"},
                    call'[o].op = "refresh", pc'[o] = "done",
                    call'[o].row = call'[q].row
             PROVE  /\ pc'[q] = "sweeping" => o \in sweep'[q] \/ session'[o].revoked
                    /\ pc'[q] = "refused" => session'[o].revoked
  BY DEF ReplayMeets, ReplayEndsSuccessor
<1>1. call'[q] = call[q] /\ call'[o] = call[o]
  BY <1>0, Moves
<1>2. CASE a = o
  \* To succeed, it would rotate a token that the replay has found revoked.
  <2>1. Rotated(a)
    BY <1>0, <1>1, <1>2, Moves, RotateRows
  <2>2. ~session[call[a].row].revoked
    BY <2>1 DEF Rotated, Live
  <2>3. q # a /\ session[call[q].row].revoked
    BY <1>0, <1>1, <1>2 DEF HandlerInv, Refreshing
  <2> QED
    BY <1>1, <1>2, <2>2, <2>3
<1>3. CASE a # o
  <2>1. /\ pc[o] = "done" /\ o \in Sessions /\ session[call[o].row].revoked
        /\ session[o].revoked => session'[o].revoked
    BY <1>0, <1>1, <1>3 DEF HandlerInv, Refreshing, TablesGrow
  <2>2. CASE a # q
    BY <1>0, <1>1, <2>1, <2>2 DEF ReplayMeets, ReplayEndsSuccessor
  <2>3. CASE a = q /\ pc'[q] = "sweeping"
    BY <1>0, <1>1, <2>1, <2>3, Moves DEF ReplayMeets, Live
  <2>4. CASE a = q /\ pc'[q] = "refused"
    <3>1. pc[q] = "sweeping" /\ Sweep(q)
      BY <1>0, <1>1, <2>1, <2>4, Moves DEF HandlerInv, Refreshing
    <3>2. sweep[q] \in SUBSET Sessions /\ Revoke(sweep[q])
      BY <1>0, <1>1, <3>1 DEF Sweep, HandlerInv, Sweeping
    <3>3. RevokedOnly(sweep[q])
      BY <1>0, <3>2, RevokeGrows
    <3> QED
      BY <1>0, <1>1, <2>1, <2>4, <3>1, <3>3 DEF ReplayMeets, RevokedOnly
  <2> QED
    BY <2>2, <2>3, <2>4
<1> QED
  BY <1>2, <1>3

\* A reset that ends had its token unused.
LEMMA ResetStep ==
  ASSUME IInv, NEW a \in Requests, Send(a) \/ Handle(a) \/ Crash(a)
  PROVE  ResetTokenSingleUse'
<1>0. /\ ResetTokenSingleUse
      /\ \A q \in Requests : HandlerInv(q)
      /\ \A q \in Requests \ {a} : call'[q] = call[q] /\ pc'[q] = pc[q]
  BY StepIsolated DEF IInv, Isolated
<1>1. \A q \in Requests : (call'[q].op = "reset_password" /\ pc'[q] = "done") =>
        /\ call'[q] = call[q]
        /\ q = a => ~reset[call[q].row].used
        /\ q # a => pc[q] = "done" /\ reset[call[q].row].used
  BY <1>0, Moves DEF HandlerInv, Resetting
<1> QED
  BY <1>0, <1>1 DEF ResetTokenSingleUse

-----------------------------------------------------------------------------
(* The invariant and what it implies. *)

LEMMA InitInv == Init => IInv
<1> SUFFICES ASSUME Init PROVE IInv
  OBVIOUS
<1>1. Sessions \subseteq Devices /\ Resets \subseteq Mails
  BY DEF Init, Sessions, Resets
<1>2. TypeOK
  <2>1. \A s \in Rows : NewSession(s) \in Session /\ NewReset \in Reset
    BY RowTypes
  <2> QED
    BY <2>1 DEF Init, TypeOK, NoCall, Call, Operations
<1>3. \A q \in Requests : HandlerInv(q)
  BY <1>1, RowsAssumption
     DEF Init, NoCall, Call, HandlerInv, Known, Route, Refreshing, Resetting, Inserting,
         Sweeping, Final
<1>4. \A s \in Sessions : session[s].origin = s
  BY DEF Init, Sessions, NewSession
<1>5. OriginsExist /\ OneLivePerLogin
  BY <1>4 DEF OriginsExist, OneLivePerLogin, Live
<1> QED
  BY <1>2, <1>3, <1>5
     DEF IInv, Init, LocksExclusive, ReplayMeets, ReplayEndsSuccessor, ResetTokenSingleUse

LEMMA StepInv == IInv /\ [Next]_vars => IInv'
<1> SUFFICES ASSUME IInv, [Next]_vars PROVE IInv'
  OBVIOUS
<1>1. ASSUME NEW q \in Requests, Send(q) \/ Handle(q) \/ Crash(q) PROVE IInv'
  <2>1. TypeOK' /\ Isolated(q)
    BY <1>1, StepIsolated
  <2>2. \A o \in Requests : HandlerInv(o)'
    <3> SUFFICES ASSUME NEW o \in Requests PROVE HandlerInv(o)'
      OBVIOUS
    <3>1. CASE o = q
      BY <1>1, <3>1, HandlerStep
    <3>2. CASE o # q
      <4>1. /\ TablesGrow
            /\ call'[o] = call[o] /\ pc'[o] = pc[o]
            /\ sweep'[o] = sweep[o] /\ held'[o] = held[o]
            /\ o \in Sessions' => o \in Sessions
            /\ o \in Resets' => o \in Resets
            /\ \A s \in held[o] : Kept(s)
        BY <2>1, <3>2 DEF Isolated
      <4> QED
        BY <4>1, OthersKeep
    <3> QED
      BY <3>1, <3>2
  <2>3. OriginsExist' /\ OneLivePerLogin'
    BY <1>1, OneLiveStep
  <2>4. LocksExclusive'
    BY <1>1, LocksStep
  <2>5. ReplayMeets' /\ ReplayEndsSuccessor'
    BY <1>1, ReplayStep
  <2>6. ResetTokenSingleUse'
    BY <1>1, ResetStep
  <2> QED
    BY <2>1, <2>2, <2>3, <2>4, <2>5, <2>6 DEF IInv
<1>2. ASSUME NEW s \in ShortLived, Expire(s) PROVE IInv'
  <2>1. /\ TypeOK' /\ TablesGrow
        /\ Sessions' = Sessions /\ Resets' = Resets
        /\ \A t \in Sessions : session'[t].revoked = session[t].revoked
        /\ \A t \in Resets : reset'[t].used = reset[t].used
    BY <1>2, ExpireQuiet
  <2>2. call' = call /\ pc' = pc /\ sweep' = sweep /\ held' = held
    BY <1>2 DEF Expire
  <2>3. \A o \in Requests : HandlerInv(o)'
    BY <2>1, <2>2, OthersKeep DEF Kept
  <2>4. OriginsExist' /\ OneLivePerLogin'
    BY <2>1 DEF IInv, TablesGrow, OriginsExist, OneLivePerLogin, Live
  <2>5. ReplayMeets' /\ ReplayEndsSuccessor'
    BY <2>1, <2>2
       DEF IInv, TablesGrow, ReplayMeets, ReplayEndsSuccessor, HandlerInv, Refreshing
  <2> QED
    BY <2>1, <2>2, <2>3, <2>4, <2>5 DEF IInv, LocksExclusive, ResetTokenSingleUse
<1>3. CASE UNCHANGED vars
  <2>1. /\ TypeOK' /\ Sessions' = Sessions /\ Resets' = Resets
        /\ OriginsExist' /\ OneLivePerLogin' /\ LocksExclusive'
        /\ ReplayMeets' /\ ReplayEndsSuccessor' /\ ResetTokenSingleUse'
    BY <1>3
       DEF vars, tables, IInv, TypeOK, Sessions, Resets, Live, OriginsExist,
           OneLivePerLogin, LocksExclusive, ReplayMeets, ReplayEndsSuccessor,
           ResetTokenSingleUse
  <2>2. \A o \in Requests : HandlerInv(o)'
    BY <1>3, <2>1
       DEF vars, tables, IInv, HandlerInv, Known, Route, Refreshing, Resetting, Inserting,
           Sweeping
  <2> QED
    BY <2>1, <2>2 DEF IInv
<1> QED
  BY <1>1, <1>2, <1>3 DEF Next, Rest, BreakDeadlock

\* The inductive invariant of the handlers of /auth: what an open transaction has
\* read of a row it holds stays true whatever the others commit.
THEOREM SessionsInvariance == Spec => []IInv
BY InitInv, StepInv, PTL DEF Spec

\* Every variable keeps its type.
THEOREM SessionTypes == Spec => []TypeOK
<1>1. IInv => TypeOK
  BY DEF IInv
<1> QED
  BY <1>1, SessionsInvariance, PTL

\* A login has one live token at most (auth.py:224-246).
THEOREM OneLive == Spec => []OneLivePerLogin
<1>1. IInv => OneLivePerLogin
  BY DEF IInv
<1> QED
  BY <1>1, SessionsInvariance, PTL

\* A refused refresh leaves nobody a session for its token (auth.py:234-237).
THEOREM ReplayEnds == Spec => []ReplayEndsSuccessor
<1>1. IInv => ReplayEndsSuccessor
  BY DEF IInv
<1> QED
  BY <1>1, SessionsInvariance, PTL

\* A bulk update ends all it met (auth.py:108-113, 311-318).
THEOREM SweepsReach == Spec => []BulkUpdatesReach
<1>1. IInv => BulkUpdatesReach
  BY DEF IInv, HandlerInv, Sweeping, BulkUpdatesReach
<1> QED
  BY <1>1, SessionsInvariance, PTL

\* A reset token changes the password once (auth.py:348-368).
THEOREM SingleUse == Spec => []ResetTokenSingleUse
<1>1. IInv => ResetTokenSingleUse
  BY DEF IInv
<1> QED
  BY <1>1, SessionsInvariance, PTL

-----------------------------------------------------------------------------
(* The handlers keep the session book. *)

\* The token of a login is its live session, if it has one.
LEMMA TokenIs ==
  ASSUME OneLivePerLogin, None \notin Rows
  PROVE  /\ \A s \in Live : CurrentToken(session[s].origin) = s
         /\ \A l \in Rows : (\A s \in Live : session[s].origin # l) => CurrentToken(l) = None
         /\ \A l \in Rows : CurrentToken(l) # None =>
              \E s \in Live : session[s].origin = l /\ CurrentToken(l) = s
<1>1. \A s \in Live : CurrentToken(session[s].origin) = s
  BY DEF CurrentToken, OneLivePerLogin
<1>2. \A l \in Rows : (\A s \in Live : session[s].origin # l) => CurrentToken(l) = None
  BY DEF CurrentToken
<1> QED
  BY <1>1, <1>2

\* The same of the next state.
LEMMA TokenIsNext ==
  ASSUME OneLivePerLogin', None \notin Rows, NEW l \in Rows
  PROVE  /\ \A s \in Live' : session'[s].origin = l => CurrentToken(l)' = s
         /\ (\A s \in Live' : session'[s].origin # l) => CurrentToken(l)' = None
<1>1. ASSUME NEW s \in Live', session'[s].origin = l PROVE CurrentToken(l)' = s
  <2>1. \A t \in Live' : session'[t].origin = l => t = s
    BY <1>1 DEF OneLivePerLogin
  <2> QED
    BY <1>1, <2>1 DEF CurrentToken
<1>2. ASSUME \A s \in Live' : session'[s].origin # l PROVE CurrentToken(l)' = None
  BY <1>2 DEF CurrentToken
<1> QED
  BY <1>1, <1>2

\* A login that the step leaves alone keeps its token.
LEMMA SameToken ==
  ASSUME OneLivePerLogin, OneLivePerLogin', None \notin Rows, NEW l \in Rows,
         \A s \in Live : session[s].origin = l => s \in Live' /\ session'[s].origin = l,
         \A s \in Live' : session'[s].origin = l => s \in Live /\ session[s].origin = l
  PROVE  CurrentToken(l)' = CurrentToken(l)
<1>1. CASE \E s \in Live : session[s].origin = l
  <2>1. PICK s \in Live : session[s].origin = l
    BY <1>1
  <2>2. CurrentToken(l) = s
    BY <2>1, TokenIs
  <2>3. CurrentToken(l)' = s
    BY <2>1, TokenIsNext
  <2> QED
    BY <2>2, <2>3
<1>2. CASE ~ \E s \in Live : session[s].origin = l
  BY <1>2, TokenIs, TokenIsNext
<1> QED
  BY <1>1, <1>2

LEMMA BookInit == Init => Book!Init
<1> SUFFICES ASSUME Init PROVE Book!Init
  OBVIOUS
<1>1. IInv
  BY InitInv
<1>2. None \notin Rows
  BY RowsAssumption
<1>3. /\ Sessions \in {{}, Devices} /\ Live = Sessions
      /\ \A s \in Sessions : session[s].origin = s
  <2>1. \A s \in Devices : s \in Rows /\ NewSession(s) # None /\ ~NewSession(s).revoked
    BY RowTypes, NoRowAssumption DEF Rows, NewSession, Session
  <2> QED
    BY <2>1 DEF Init, Sessions, Live, NewSession
<1>4. \A l \in Rows : CurrentToken(l) = IF l \in Sessions THEN l ELSE None
  BY <1>1, <1>2, <1>3, TokenIs DEF IInv
<1> QED
  BY <1>3, <1>4 DEF Book!Init

LEMMA BookStep == IInv /\ [Next]_vars => [Book!Next]_(Book!vars)
<1> SUFFICES ASSUME IInv, [Next]_vars PROVE [Book!Next]_(Book!vars)
  OBVIOUS
<1>0. /\ TypeOK /\ OriginsExist /\ OneLivePerLogin /\ OneLivePerLogin'
      /\ None \notin Rows
      /\ \A s \in Sessions : s \in Rows /\ session[s].origin \in Rows
  BY StepInv, RowsAssumption DEF IInv, OriginsExist, Sessions
<1> DEFINE cur == [l \in Rows |-> CurrentToken(l)]
<1>1. ASSUME NEW q \in Requests, Opened(q) PROVE Book!SignIn(q)
  <2>1. session'[q].origin = q /\ q \in Live'
    BY <1>1 DEF Opened, NewSession, Live
  <2>2. \A s \in Sessions : session'[s] = session[s] /\ session[s].origin # q
    BY <1>0, <1>1 DEF Opened, OriginsExist
  <2>3. \A l \in Rows \ {q} : CurrentToken(l)' = CurrentToken(l)
    <3> TAKE l \in Rows \ {q}
    <3>1. \A s \in Live : session[s].origin = l => s \in Live' /\ session'[s].origin = l
      BY <1>1, <2>2 DEF Opened, Live
    <3>2. \A s \in Live' : session'[s].origin = l => s \in Live /\ session[s].origin = l
      BY <1>1, <2>1, <2>2 DEF Opened, Live
    <3> QED
      BY <1>0, <3>1, <3>2, SameToken
  <2>4. CurrentToken(q)' = q
    BY <1>0, <2>1, TokenIsNext DEF Rows
  <2>5. cur' = [cur EXCEPT ![q] = q]
    BY <1>1, <2>3, <2>4 DEF Opened
  <2> QED
    BY <1>1, <2>5 DEF Opened, Book!SignIn
<1>2. ASSUME NEW q \in Requests, Rotated(q)
      PROVE  Book!Rotate(session[call[q].row].origin, q)
  <2>1. PICK t \in Live : t = call[q].row
    BY <1>2 DEF Rotated
  <2>2. PICK k \in Rows : k = session[t].origin
    BY <1>0, <2>1 DEF Live
  <2>3. /\ session'[q].origin = k /\ q \in Live' /\ t # q /\ t \notin Live'
        /\ \A s \in Sessions \ {t} : session'[s] = session[s]
    BY <1>0, <1>2, <2>1, <2>2 DEF Rotated, NewSession, Live
  <2>4. CurrentToken(k) = t /\ t # None /\ CurrentToken(k)' = q
    <3>1. CurrentToken(k) = t /\ t # None
      BY <1>0, <2>1, <2>2, TokenIs DEF Live
    <3>2. CurrentToken(k)' = q
      BY <1>0, <2>2, <2>3, TokenIsNext
    <3> QED
      BY <3>1, <3>2
  <2>5. \A l \in Rows \ {k} : CurrentToken(l)' = CurrentToken(l)
    <3> TAKE l \in Rows \ {k}
    <3>1. \A s \in Live : session[s].origin = l => s \in Live' /\ session'[s].origin = l
      BY <1>2, <2>2, <2>3 DEF Rotated, Live
    <3>2. \A s \in Live' : session'[s].origin = l => s \in Live /\ session[s].origin = l
      BY <1>2, <2>2, <2>3 DEF Rotated, Live
    <3> QED
      BY <1>0, <3>1, <3>2, SameToken
  <2>6. cur' = [cur EXCEPT ![k] = q]
    BY <2>4, <2>5
  <2> QED
    BY <1>2, <2>1, <2>2, <2>4, <2>6 DEF Rotated, Book!Rotate, Book!Open
<1>3. ASSUME NEW S \in SUBSET Sessions, RevokedOnly(S)
      PROVE  \E L \in SUBSET Book!Open : Book!End(L)
  <2> DEFINE L == {session[s].origin : s \in S \cap Live}
  <2>1. /\ Live' = Live \ S
        /\ \A s \in Sessions : session'[s].origin = session[s].origin
    BY <1>3 DEF RevokedOnly, Live
  <2>2. L \in SUBSET Book!Open
    BY <1>0, TokenIs DEF Book!Open, Live
  <2>3. \A l \in L : CurrentToken(l)' = None
    <3>1. \A l \in L : l \in Rows /\ \A s \in Live' : session'[s].origin # l
      BY <1>0, <2>1 DEF OneLivePerLogin, Live
    <3> QED
      BY <1>0, <3>1, TokenIsNext
  <2>4. \A l \in Rows \ L : CurrentToken(l)' = CurrentToken(l)
    <3> TAKE l \in Rows \ L
    <3>1. \A s \in Live : session[s].origin = l => s \in Live' /\ session'[s].origin = l
      BY <2>1 DEF Live
    <3>2. \A s \in Live' : session'[s].origin = l => s \in Live /\ session[s].origin = l
      BY <2>1 DEF Live
    <3> QED
      BY <1>0, <3>1, <3>2, SameToken
  <2> HIDE DEF L
  <2>5. Book!End(L)
    BY <1>3, <2>3, <2>4 DEF RevokedOnly, Book!End
  <2> QED
    BY <2>2, <2>5
<1>4. ASSUME RevokedOnly({}) PROVE [Book!Next]_(Book!vars)
  BY <1>3, <1>4 DEF Book!Next
<1>5. ASSUME NEW q \in Requests, Send(q) \/ Handle(q) \/ Crash(q)
      PROVE  Book!Next
  <2>1. q \in Rows /\ (Rotated(q) => session[call[q].row].origin \in Rows)
    BY <1>0 DEF Rows, Rotated, Live
  <2>2. Opened(q) \/ Rotated(q) \/ \E S \in SUBSET Sessions : RevokedOnly(S)
    BY <1>5, SessionEffect
  <2> QED
    BY <1>1, <1>2, <1>3, <2>1, <2>2 DEF Book!Next
<1>6. ASSUME NEW s \in ShortLived, Expire(s) PROVE UNCHANGED Book!vars
  <2>1. /\ Sessions' = Sessions
        /\ \A t \in Sessions : /\ session'[t].revoked = session[t].revoked
                               /\ session'[t].origin = session[t].origin
    BY <1>6, ExpireQuiet DEF TablesGrow
  <2>2. Live' = Live
    BY <2>1 DEF Live
  <2>3. \A l \in Rows : CurrentToken(l)' = CurrentToken(l)
    BY <1>0, <2>1, <2>2, SameToken DEF Live
  <2> QED
    BY <2>1, <2>3 DEF Book!vars
<1>7. CASE UNCHANGED vars
  BY <1>7 DEF vars, tables, Book!vars, CurrentToken, Live, Sessions
<1> QED
  BY <1>5, <1>6, <1>7 DEF Next, Rest, BreakDeadlock

\* The handlers, one SQL statement per step, implement the session book.
THEOREM KeepsTheBook == Spec => BookSpec
BY SessionsInvariance, BookInit, BookStep, PTL DEF Spec, BookSpec, Book!Spec

-----------------------------------------------------------------------------
(* The audit log of the account. *)

\* Who asks for a new password.
Sets(q) == call[q].op \in {"register", "change_password", "reset_password"}

\* Entry by entry: who was refused a login, and who has changed the password.
Logged(q) ==
  /\ [action |-> "LOGIN_FAILED", request |-> q] \in audit
       <=> call[q].op = "login" /\ pc[q] = "refused"
  /\ [action |-> "PASSWORD_CHANGED", request |-> q] \in audit
       <=> Changes(q) /\ pc[q] = "done"

\* The password in force is the one of somebody who has set it.
InForce ==
  (\E q \in Requests : Sets(q) /\ pc[q] = "done") =>
    \E q \in Requests : Sets(q) /\ pc[q] = "done" /\ password = call[q].new

LoggedInv ==
  /\ \A q \in Requests : Logged(q) /\ (~Sets(q) => call[q].new = None)
  /\ InForce

\* Only a check of the password refuses a login, and only the commit of a sweep ends
\* a change of the password.
LEMMA Enters ==
  ASSUME IInv, NEW q \in Requests, Send(q) \/ Handle(q) \/ Crash(q)
  PROVE  \/ CheckPassword(q) \/ Sweep(q) \/ Register(q)
         \/ /\ audit' = audit /\ password' = password
            /\ call'[q] = call[q] \/ (call'[q] \in Choices /\ pc'[q] = "sent")
            /\ ~(call'[q].op = "login" /\ pc'[q] = "refused")
            /\ ~(Sets(q)' /\ pc'[q] = "done")
<1>0. TypeOK /\ Route(q)
  BY DEF IInv, HandlerInv
<1> USE DEF Goto, Sets, tables
<1>1. CASE Send(q) \/ Crash(q)
  <2>1. CASE Crash(q)
    BY <1>0, <2>1 DEF Crash, TypeOK
  <2>2. CASE Send(q)
    BY <1>0, <2>2 DEF Send, TypeOK
  <2> QED
    BY <1>1, <2>1, <2>2
<1>2. CASE LockToken(q) \/ Rotate(q) \/ CloseSession(q) \/ issue_session(q)
  BY <1>0, <1>2 DEF TypeOK, Route, LockToken, Decision, Rotate, CloseSession, issue_session
<1>3. CASE Survey(q) \/ (\E s \in Rows : LockRow(q, s)) \/ SurveyResets(q) \/ ReplaceResets(q)
  BY <1>0, <1>3 DEF TypeOK, Route, Survey, LockRow, Wanted, SurveyResets, ReplaceResets, Asks
<1>4. CASE LoadUser(q) \/ get_current_user(q) \/ ReadSession(q) \/ LockReset(q)
  BY <1>0, <1>4 DEF TypeOK, Route, LoadUser, get_current_user, ReadSession, LockReset, Asks
<1> QED
  BY <1>1, <1>2, <1>3, <1>4 DEF Handle

\* Every step keeps log and password in agreement.
LEMMA LoggedKept ==
  ASSUME IInv, LoggedInv, NEW q \in Requests, Send(q) \/ Handle(q) \/ Crash(q)
  PROVE  LoggedInv'
<1>0. /\ TypeOK /\ pc[q] \notin Final
      /\ \A o \in Requests \ {q} : call'[o] = call[o] /\ pc'[o] = pc[o]
  BY StepIsolated, Moves DEF IInv, Isolated
<1>1. \A c \in Choices :
        c.op \notin {"register", "change_password", "reset_password"} => c.new = None
  BY DEF Choices, Call
<1>2. ~Sets(q)' => call'[q].new = None
  <2>1. call' = call \/ call'[q] \in Choices
    BY Enters, <1>0 DEF CheckPassword, Sweep, Register, Send, Handle, Crash, tables, LockToken,
       Rotate, CloseSession, issue_session, Survey, LockRow, SurveyResets, ReplaceResets,
       LoadUser, get_current_user, ReadSession, LockReset, TypeOK
  <2> QED
    BY <1>1, <2>1 DEF LoggedInv, Sets
<1>3. \A o \in Requests \ {q} : /\ Sets(o)' = Sets(o) /\ Changes(o)' = Changes(o)
  BY <1>0 DEF Sets, Changes
<1>4. ~(\E a : [action |-> a, request |-> q] \in audit)
  <2>1. \A a : [action |-> a, request |-> q] \in audit =>
          a \in {"LOGIN_FAILED", "PASSWORD_CHANGED"}
    BY <1>0 DEF TypeOK, AuditEntry
  <2> QED
    BY <1>0, <2>1 DEF LoggedInv, Logged, Final
<1>5. CASE CheckPassword(q)
  <2>1. /\ call' = call /\ password' = password /\ call[q].op = "login"
        /\ \/ pc'[q] = "issuing" /\ audit' = audit
           \/ /\ pc'[q] = "refused"
              /\ audit' = audit \cup {[action |-> "LOGIN_FAILED", request |-> q]}
    BY <1>0, <1>5 DEF CheckPassword, Asks, Goto, TypeOK
  <2>2. \A o \in Requests : Logged(o)'
    <3>1. CASE pc'[q] = "issuing" /\ audit' = audit
      BY <1>0, <1>3, <1>4, <2>1, <3>1 DEF LoggedInv, Logged, Changes
    <3>2. CASE /\ pc'[q] = "refused"
               /\ audit' = audit \cup {[action |-> "LOGIN_FAILED", request |-> q]}
      BY <1>0, <1>3, <1>4, <2>1, <3>2 DEF LoggedInv, Logged, Changes
    <3> QED
      BY <2>1, <3>1, <3>2
  <2> QED
    BY <1>0, <1>2, <1>3, <2>1, <2>2 DEF LoggedInv, InForce, Sets, Final
<1>6. CASE Register(q)
  <2>1. /\ call' = call /\ audit' = audit /\ call[q].op = "register"
        /\ \/ pc'[q] = "done" /\ password' = call[q].new
           \/ pc'[q] = "refused" /\ password' = password
    BY <1>0, <1>6 DEF Register, Asks, Goto, TypeOK
  <2>2. \A o \in Requests : Logged(o)'
    BY <1>0, <1>3, <1>4, <2>1 DEF LoggedInv, Logged, Changes
  <2> QED
    BY <1>0, <1>2, <1>3, <2>1, <2>2 DEF LoggedInv, InForce, Sets, Final
<1>7. CASE Sweep(q)
  <2>1. /\ call' = call
        /\ audit' = audit \cup {[action |-> "PASSWORD_CHANGED", request |-> o] :
                                  o \in {o \in {q} : Changes(o)}}
        /\ password' = IF Changes(q) THEN call[q].new ELSE password
        /\ pc'[q] = IF call[q].op = "refresh" THEN "refused" ELSE "done"
        /\ call[q].op \in {"refresh", "logout_all", "change_password", "reset_password"}
    BY <1>0, <1>7 DEF Sweep, Goto, TypeOK, IInv, HandlerInv, Route
  <2>2. \A o \in Requests : Logged(o)'
    <3>1. CASE Changes(q)
      <4>1. audit' = audit \cup {[action |-> "PASSWORD_CHANGED", request |-> q]}
        BY <2>1, <3>1
      <4> QED
        BY <1>0, <1>3, <1>4, <2>1, <3>1, <4>1 DEF LoggedInv, Logged, Changes
    <3>2. CASE ~Changes(q)
      <4>1. audit' = audit
        BY <2>1, <3>2
      <4> QED
        BY <1>0, <1>3, <1>4, <2>1, <3>2, <4>1 DEF LoggedInv, Logged, Changes
    <3> QED
      BY <3>1, <3>2
  <2> QED
    BY <1>0, <1>2, <1>3, <2>1, <2>2 DEF LoggedInv, InForce, Sets, Changes, Final
<1>8. CASE /\ audit' = audit /\ password' = password
           /\ ~(call'[q].op = "login" /\ pc'[q] = "refused")
           /\ ~(Sets(q)' /\ pc'[q] = "done")
  <2>1. \A o \in Requests : Logged(o)'
    BY <1>0, <1>3, <1>4, <1>8 DEF LoggedInv, Logged, Changes, Sets
  <2> QED
    BY <1>0, <1>2, <1>3, <1>8, <2>1 DEF LoggedInv, InForce, Final
<1> QED
  BY Enters, <1>5, <1>6, <1>7, <1>8

\* The log tells every refused login and every change of the password, and nothing
\* else; and somebody who was told so has set the password in force
\* (auth.py:172-185, 289-299, 356-367).
THEOREM PasswordsLogged == Spec => []AuditAccountsForPasswords
<1>1. Init => LoggedInv
  BY DEF Init, LoggedInv, Logged, InForce, Sets, Changes, NoCall, Call
<1>2. IInv /\ LoggedInv /\ [Next]_vars => LoggedInv'
  <2> SUFFICES ASSUME IInv, LoggedInv, [Next]_vars PROVE LoggedInv'
    OBVIOUS
  <2>1. ASSUME NEW q \in Requests, Send(q) \/ Handle(q) \/ Crash(q) PROVE LoggedInv'
    BY <2>1, LoggedKept
  <2>2. CASE UNCHANGED <<password, audit, call, pc>>
    BY <2>2 DEF LoggedInv, Logged, InForce, Sets, Changes
  <2>3. (\E s \in ShortLived : Expire(s)) \/ UNCHANGED vars
          => UNCHANGED <<password, audit, call, pc>>
    BY DEF Expire, vars, tables
  <2> QED
    BY <2>1, <2>2, <2>3 DEF Next, Rest, BreakDeadlock
<1>3. IInv /\ LoggedInv => AuditAccountsForPasswords
  <2> SUFFICES ASSUME IInv, LoggedInv PROVE AuditAccountsForPasswords
    OBVIOUS
  <2>1. \A q \in Requests : call[q].new # None <=> Sets(q)
    BY RowsAssumption DEF LoggedInv, IInv, HandlerInv, Known, Sets
  <2>2. \A a \in audit : \E q \in Requests :
          \/ a = [action |-> "LOGIN_FAILED", request |-> q]
          \/ a = [action |-> "PASSWORD_CHANGED", request |-> q]
    BY DEF IInv, TypeOK, AuditEntry
  <2> DEFINE Refusals == {[action |-> "LOGIN_FAILED", request |-> q] :
                 q \in {q \in Requests : call[q].op = "login" /\ pc[q] = "refused"}}
             Setters == {q \in Requests : pc[q] = "done" /\ call[q].new # None}
             Settings == {[action |-> "PASSWORD_CHANGED", request |-> q] :
                 q \in {q \in Setters : call[q].op # "register"}}
  <2>3. Setters = {q \in Requests : Sets(q) /\ pc[q] = "done"}
    BY <2>1
  <2>4. \A q \in Requests : q \in Setters /\ call[q].op # "register"
                            <=> Changes(q) /\ pc[q] = "done"
    BY <2>3 DEF Sets, Changes
  <2> HIDE DEF Setters
  <2>5. Refusals \cup Settings \subseteq audit
    BY <2>4 DEF LoggedInv, Logged, Setters
  <2>6. audit \subseteq Refusals \cup Settings
    BY <2>2, <2>4 DEF LoggedInv, Logged, Setters
  <2>7. Setters # {} => \E q \in Setters : password = call[q].new
    BY <2>3 DEF LoggedInv, InForce
  <2> QED
    BY <2>5, <2>6, <2>7 DEF AuditAccountsForPasswords, Setters
<1> QED
  BY <1>1, <1>2, <1>3, SessionsInvariance, PTL DEF Spec
=============================================================================
