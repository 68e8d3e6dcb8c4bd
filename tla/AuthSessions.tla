---------------------------- MODULE AuthSessions ----------------------------
(***************************************************************************)
(* The handlers of /auth for one account: register, login, refresh,        *)
(* logout, logout-all, change-password, forgot-password, reset-password    *)
(* and the revocation of one session; one SQL statement per step, the last *)
(* one together with its commit.                                           *)
(*                                                                         *)
(* The database runs at READ COMMITTED.  SELECT ... FOR UPDATE and UPDATE  *)
(* wait while another open transaction holds the row, then go by what that *)
(* one committed.  A bulk UPDATE meets only the rows that were committed   *)
(* when it started (`sweep') and locks them one after the other, in no     *)
(* order the code fixes.  A row is named after the request that inserts it *)
(* and appears when its transaction commits.                               *)
(***************************************************************************)
EXTENDS FiniteSets

CONSTANTS
  Requests,     \* requests to the API, retries and concurrent ones included
  Devices,      \* sessions that exist at the start
  Mails,        \* password reset tokens that exist at the start
  Passwords,
  Offered,      \* bound: the operations that clients of an instance send
  ShortLived,   \* bound: the rows that may expire while an instance runs
  None

Operations == {"register", "login", "refresh", "logout", "revoke_session",
               "logout_all", "change_password", "forgot_password", "reset_password"}

Rows == Requests \cup Devices \cup Mails

ASSUME OfferedAssumption == Offered \subseteq Operations
ASSUME RowsAssumption ==
  /\ Requests \cap Devices = {} /\ Requests \cap Mails = {} /\ Devices \cap Mails = {}
  /\ ShortLived \subseteq Rows
  /\ None \notin Rows \cup Passwords
ASSUME FiniteAssumption == IsFiniteSet(Requests)

VARIABLES
  password,  \* users.password_hash, or None before the account is registered
  session,   \* refresh_tokens: row -> [revoked, expired, origin], or None
  reset,     \* password_reset_tokens: row -> [used, expired], or None
  audit,     \* audit_logs: [action, request] entries
  call,      \* request -> what it asks for
  pc,        \* request -> where its handler stands
  sweep,     \* request -> the rows its bulk UPDATE met (kept as history)
  held       \* request -> the rows its open transaction has locked

tables == <<password, session, reset, audit>>
vars == <<tables, call, pc, sweep, held>>

-----------------------------------------------------------------------------
(* The tables and the requests. *)

\* `origin' is history: the login that a session goes back to.
Session == [revoked : BOOLEAN, expired : BOOLEAN, origin : Rows]
NewSession(origin) == [revoked |-> FALSE, expired |-> FALSE, origin |-> origin]

Reset == [used : BOOLEAN, expired : BOOLEAN]
NewReset == [used |-> FALSE, expired |-> FALSE]

ASSUME NoRowAssumption == None \notin Session \cup Reset

AuditEntry == [action : {"LOGIN_FAILED", "PASSWORD_CHANGED"}, request : Requests]

Sessions == {s \in Rows : session[s] # None}
Live == {s \in Sessions : ~session[s].revoked}
Resets == {m \in Rows : reset[m] # None}
Unused == {m \in Resets : ~reset[m].used}

\* via: the session of the access token; row: the token in the cookie or body,
\* or the session to revoke; current, new: the passwords in the body.
Call(op, via, row, current, new) ==
  [op |-> op, via |-> via, row |-> row, current |-> current, new |-> new]
NoCall == Call("none", None, None, None, None)

\* What clients can send: tokens they were given, whatever became of them.
Choices ==
       {Call("register", None, None, None, p) : p \in Passwords}
  \cup {Call("login", None, None, p, None) : p \in Passwords}
  \cup {Call(op, None, s, None, None) : op \in {"refresh", "logout"}, s \in Sessions}
  \cup {Call("revoke_session", v, s, None, None) : v \in Sessions, s \in Sessions}
  \cup {Call("logout_all", v, None, None, None) : v \in Sessions}
  \cup {Call("change_password", v, None, p, n) :
          v \in Sessions, p \in Passwords, n \in Passwords}
  \cup {Call("forgot_password", None, None, None, None)}
  \cup {Call("reset_password", None, m, None, n) : m \in Resets, n \in Passwords}

Final == {"done", "refused", "failed"}
Active == {"sent", "issuing", "rotating", "expiring", "replayed", "loaded",
           "choosing", "closing", "surveying", "sweeping", "withdrawing"}

Goto(q, label) == pc' = [pc EXCEPT ![q] = label]

\* No other open transaction holds the row.
Free(q, s) == \A o \in Requests \ {q} : s \notin held[o]

\* A commit or a rollback.
Release(q) == held' = [held EXCEPT ![q] = {}]

Revoke(S) == session' = [s \in Rows |->
  IF s \in S THEN [session[s] EXCEPT !.revoked = TRUE] ELSE session[s]]

Init ==
  /\ password \in Passwords \cup {None}
  /\ session = [s \in Rows |->
       IF s \in Devices /\ password # None THEN NewSession(s) ELSE None]
  /\ reset = [m \in Rows |-> IF m \in Mails /\ password # None THEN NewReset ELSE None]
  /\ audit = {}
  /\ call = [q \in Requests |-> NoCall]
  /\ pc = [q \in Requests |-> "idle"]
  /\ sweep = [q \in Requests |-> {}]
  /\ held = [q \in Requests |-> {}]

-----------------------------------------------------------------------------
(* Clients and time. *)

Send(q) ==
  /\ pc[q] = "idle"
  /\ \E c \in Choices : c.op \in Offered /\ call' = [call EXCEPT ![q] = c]
  /\ Goto(q, "sent")
  /\ UNCHANGED <<tables, sweep, held>>

Expire(s) ==
  /\ \/ /\ s \in Live /\ ~session[s].expired
        /\ session' = [session EXCEPT ![s].expired = TRUE]
        /\ UNCHANGED reset
     \/ /\ s \in Unused /\ ~reset[s].expired
        /\ reset' = [reset EXCEPT ![s].expired = TRUE]
        /\ UNCHANGED session
  /\ UNCHANGED <<password, audit, call, pc, sweep, held>>

Asks(q, op) == pc[q] = "sent" /\ call[q].op = op

-----------------------------------------------------------------------------
(* Register and login. *)

\* The unique e-mail address lets one registration through.
Register(q) ==
  /\ Asks(q, "register")
  /\ IF password = None
     THEN password' = call[q].new /\ Goto(q, "done")
     ELSE Goto(q, "refused") /\ UNCHANGED password
  /\ UNCHANGED <<session, reset, audit, call, sweep, held>>

\* A fault: the reason is recorded where the action belongs.
CheckPasswordMislabelled(q) ==
  /\ Asks(q, "login")
  /\ IF password = call[q].current
     THEN Goto(q, "issuing") /\ UNCHANGED audit
     ELSE /\ Goto(q, "refused")
          /\ audit' = audit \cup {[action |-> "INVALID_CREDENTIALS", request |-> q]}
  /\ UNCHANGED <<password, session, reset, call, sweep, held>>

\* The hash is read and verified; the session is issued later.
CheckPassword(q) ==
  /\ Asks(q, "login")
  /\ IF password = call[q].current
     THEN Goto(q, "issuing") /\ UNCHANGED audit
     ELSE /\ Goto(q, "refused")
          /\ audit' = audit \cup {[action |-> "LOGIN_FAILED", request |-> q]}
  /\ UNCHANGED <<password, session, reset, call, sweep, held>>

issue_session(q) ==
  /\ pc[q] = "issuing"
  /\ session' = [session EXCEPT ![q] = NewSession(q)]
  /\ Goto(q, "done")
  /\ UNCHANGED <<password, reset, audit, call, sweep, held>>

-----------------------------------------------------------------------------
(* Refresh and logout: the row of the token is locked first. *)

\* Where a refresh or a logout goes from the row it has read.
Decision(q) ==
  LET s == session[call[q].row] IN
  IF call[q].op = "logout" THEN IF s.revoked THEN "done" ELSE "closing"
  ELSE IF s.revoked THEN "replayed" ELSE IF s.expired THEN "expiring" ELSE "rotating"

\* A fault: the row is read without FOR UPDATE.
LockNothing(q) ==
  /\ pc[q] = "sent" /\ call[q].op \in {"refresh", "logout"}
  /\ Goto(q, Decision(q))
  /\ UNCHANGED <<tables, call, sweep, held>>

\* A fault: a logout that finds nothing to do leaves its transaction open.
LockTokenAndStay(q) ==
  /\ pc[q] = "sent" /\ call[q].op \in {"refresh", "logout"}
  /\ Free(q, call[q].row)
  /\ Goto(q, Decision(q))
  /\ held' = [held EXCEPT ![q] = {call[q].row}]
  /\ UNCHANGED <<tables, call, sweep>>

\* SELECT ... FOR UPDATE, and the checks on what it returns; a logout that finds
\* nothing to do rolls back.
LockToken(q) ==
  /\ pc[q] = "sent" /\ call[q].op \in {"refresh", "logout"}
  /\ Free(q, call[q].row)
  /\ Goto(q, Decision(q))
  /\ held' = [held EXCEPT ![q] = IF Decision(q) = "done" THEN {} ELSE {call[q].row}]
  /\ UNCHANGED <<tables, call, sweep>>

\* A fault: the rotated token stays valid.
RotateAndKeep(q) ==
  /\ pc[q] = "rotating"
  /\ session' = [session EXCEPT ![q] = NewSession(session[call[q].row].origin)]
  /\ Goto(q, "done")
  /\ Release(q)
  /\ UNCHANGED <<password, reset, audit, call, sweep>>

\* The old token is revoked and its successor inserted.
Rotate(q) ==
  /\ pc[q] = "rotating"
  /\ session' = [session EXCEPT ![call[q].row].revoked = TRUE,
                                ![q] = NewSession(session[call[q].row].origin)]
  /\ Goto(q, "done")
  /\ Release(q)
  /\ UNCHANGED <<password, reset, audit, call, sweep>>

\* An expired token met by a refresh, a logout, or the revocation of one session,
\* whose UPDATE waits for the row.
CloseSession(q) ==
  /\ pc[q] \in {"expiring", "closing"}
  /\ Free(q, call[q].row)
  /\ Revoke({call[q].row})
  /\ Goto(q, IF pc[q] = "expiring" THEN "refused" ELSE "done")
  /\ Release(q)
  /\ UNCHANGED <<password, reset, audit, call, sweep>>

-----------------------------------------------------------------------------
(* Requests with an access token: get_current_user, then the handler. *)

\* The user is read first; change_password later verifies against this hash that
\* the current password is right and the new one differs.
LoadUser(q) ==
  LET c == call[q] IN
  /\ pc[q] = "sent" /\ c.op \in {"revoke_session", "logout_all", "change_password"}
  /\ Goto(q, IF c.op = "change_password" /\ (password # c.current \/ password = c.new)
             THEN "refused" ELSE "loaded")
  /\ UNCHANGED <<tables, call, sweep, held>>

\* The session behind the access token must be live.
get_current_user(q) ==
  LET via == session[call[q].via] IN
  /\ pc[q] = "loaded"
  /\ Goto(q, IF via.revoked \/ via.expired THEN "refused"
             ELSE IF call[q].op = "revoke_session" THEN "choosing" ELSE "surveying")
  /\ UNCHANGED <<tables, call, sweep, held>>

ReadSession(q) ==
  /\ pc[q] = "choosing"
  /\ Goto(q, IF session[call[q].row].revoked THEN "done" ELSE "closing")
  /\ UNCHANGED <<tables, call, sweep, held>>

-----------------------------------------------------------------------------
(* Bulk updates: logout-all, replays, and changes and resets of the password  *)
(* end all sessions; forgot-password withdraws all reset tokens.              *)

\* A fault: the token is not locked while it is being used.
LockResetNot(q) ==
  /\ Asks(q, "reset_password")
  /\ Goto(q, IF reset[call[q].row].used \/ reset[call[q].row].expired
             THEN "refused" ELSE "surveying")
  /\ UNCHANGED <<tables, call, sweep, held>>

\* reset_password reads its token FOR UPDATE.
LockReset(q) ==
  LET token == reset[call[q].row] IN
  /\ Asks(q, "reset_password")
  /\ Free(q, call[q].row)
  /\ IF token.used \/ token.expired
     THEN Goto(q, "refused") /\ UNCHANGED held
     ELSE Goto(q, "surveying") /\ held' = [held EXCEPT ![q] = {call[q].row}]
  /\ UNCHANGED <<tables, call, sweep>>

\* A fault: a replay ends only the session that was replayed.
SurveyReplayedOnly(q) ==
  /\ pc[q] \in {"replayed", "surveying"}
  /\ sweep' = [sweep EXCEPT ![q] = IF pc[q] = "replayed" THEN {call[q].row} ELSE Live]
  /\ Goto(q, "sweeping")
  /\ UNCHANGED <<tables, call, held>>

\* The snapshot of revoke_user_sessions.
Survey(q) ==
  /\ pc[q] \in {"replayed", "surveying"}
  /\ sweep' = [sweep EXCEPT ![q] = Live]
  /\ Goto(q, "sweeping")
  /\ UNCHANGED <<tables, call, held>>

\* The snapshot of forgot_password, which leaves quietly if there is no account.
SurveyResets(q) ==
  /\ Asks(q, "forgot_password")
  /\ IF password = None
     THEN Goto(q, "done") /\ UNCHANGED sweep
     ELSE Goto(q, "withdrawing") /\ sweep' = [sweep EXCEPT ![q] = Unused]
  /\ UNCHANGED <<tables, call, held>>

Wanted(q) == IF pc[q] \in {"sweeping", "withdrawing"} THEN sweep[q] \ held[q] ELSE {}

LockRow(q, s) ==
  /\ s \in Wanted(q)
  /\ Free(q, s)
  /\ held' = [held EXCEPT ![q] = @ \cup {s}]
  /\ UNCHANGED <<tables, call, pc, sweep>>

Changes(q) == call[q].op \in {"change_password", "reset_password"}

\* A fault: rows that others have locked are skipped.
SweepUnlocked(q) ==
  /\ pc[q] = "sweeping"
  /\ Revoke({s \in sweep[q] : Free(q, s)})
  /\ password' = IF Changes(q) THEN call[q].new ELSE password
  /\ reset' = IF call[q].op = "reset_password"
              THEN [reset EXCEPT ![call[q].row].used = TRUE] ELSE reset
  /\ audit' = audit \cup
       {[action |-> "PASSWORD_CHANGED", request |-> o] : o \in {o \in {q} : Changes(o)}}
  /\ Goto(q, IF call[q].op = "refresh" THEN "refused" ELSE "done")
  /\ Release(q)
  /\ UNCHANGED <<call, sweep>>

\* A fault: the audit entries are not added to the transaction.
SweepUnaudited(q) ==
  /\ pc[q] = "sweeping" /\ Wanted(q) = {}
  /\ Revoke(sweep[q])
  /\ password' = IF Changes(q) THEN call[q].new ELSE password
  /\ reset' = IF call[q].op = "reset_password"
              THEN [reset EXCEPT ![call[q].row].used = TRUE] ELSE reset
  /\ Goto(q, IF call[q].op = "refresh" THEN "refused" ELSE "done")
  /\ Release(q)
  /\ UNCHANGED <<audit, call, sweep>>

\* The rest of revoke_user_sessions and the commit, with the new password, the
\* used token and the audit entries that are flushed by it.
Sweep(q) ==
  /\ pc[q] = "sweeping" /\ Wanted(q) = {}
  /\ Revoke(sweep[q])
  /\ password' = IF Changes(q) THEN call[q].new ELSE password
  /\ reset' = IF call[q].op = "reset_password"
              THEN [reset EXCEPT ![call[q].row].used = TRUE] ELSE reset
  /\ audit' = audit \cup
       {[action |-> "PASSWORD_CHANGED", request |-> o] : o \in {o \in {q} : Changes(o)}}
  /\ Goto(q, IF call[q].op = "refresh" THEN "refused" ELSE "done")
  /\ Release(q)
  /\ UNCHANGED <<call, sweep>>

\* The rest of forgot_password: withdraw the tokens, insert one, commit.
ReplaceResets(q) ==
  /\ pc[q] = "withdrawing" /\ Wanted(q) = {}
  /\ reset' = [m \in Rows |->
       IF m = q THEN NewReset
       ELSE IF m \in sweep[q] THEN [reset[m] EXCEPT !.used = TRUE] ELSE reset[m]]
  /\ Goto(q, "done")
  /\ Release(q)
  /\ UNCHANGED <<password, session, audit, call, sweep>>

-----------------------------------------------------------------------------
(* Failures. *)

\* The connection or the worker dies: PostgreSQL rolls back.
Crash(q) ==
  /\ pc[q] \in Active
  /\ Goto(q, "failed")
  /\ Release(q)
  /\ UNCHANGED <<tables, call, sweep>>

\* The transactions that hold what q waits for.
Holders(q) == {o \in Requests \ {q} : held[o] \cap Wanted(q) # {}}

\* Bulk updates that wait for one another, and can lock nothing more.
Deadlocked(q) == \E D \in SUBSET Requests :
  q \in D /\ \A d \in D : /\ Wanted(d) # {} /\ Holders(d) \subseteq D
                          /\ \A s \in Wanted(d) : ~Free(d, s)

\* PostgreSQL's deadlock_timeout: one of them is aborted.
BreakDeadlock(q) == Deadlocked(q) /\ Crash(q)

-----------------------------------------------------------------------------
Handle(q) ==
  \/ Register(q) \/ CheckPassword(q) \/ issue_session(q)
  \/ LockToken(q) \/ Rotate(q) \/ CloseSession(q)
  \/ LoadUser(q) \/ get_current_user(q) \/ ReadSession(q)
  \/ LockReset(q) \/ Survey(q) \/ SurveyResets(q)
  \/ (\E s \in Rows : LockRow(q, s))
  \/ Sweep(q) \/ ReplaceResets(q)

\* All requests have been answered, or clients send no more.
Rest == (\A q \in Requests : pc[q] \in Final \cup {"idle"}) /\ UNCHANGED vars

Next ==
  \/ \E q \in Requests : Send(q) \/ Handle(q) \/ Crash(q) \/ BreakDeadlock(q)
  \/ \E s \in ShortLived : Expire(s)
  \/ Rest

\* A handler keeps running, a free lock is granted, a deadlock is detected.
Fairness ==
  /\ \A q \in Requests : WF_vars(Handle(q))
  /\ WF_vars(\E q \in Requests : BreakDeadlock(q))

Spec == Init /\ [][Next]_vars /\ Fairness

-----------------------------------------------------------------------------
(* Properties. *)

\* Every variable keeps its type (models.py, and the columns of the tables).
TypeOK ==
  /\ password \in Passwords \cup {None}
  /\ session \in [Rows -> Session \cup {None}]
  /\ reset \in [Rows -> Reset \cup {None}]
  /\ audit \subseteq AuditEntry
  /\ call \in [Requests -> [op : Operations \cup {"none"}, via : Rows \cup {None},
                            row : Rows \cup {None}, current : Passwords \cup {None},
                            new : Passwords \cup {None}]]
  /\ pc \in [Requests -> {"idle"} \cup Active \cup Final]
  /\ sweep \in [Requests -> SUBSET Rows]
  /\ held \in [Requests -> SUBSET Rows]

\* A login has one live token at most, however many requests refresh with the
\* same cookie at once (auth.py:224-246).
OneLivePerLogin ==
  \A s, t \in Live : session[s].origin = session[t].origin => s = t

\* When a refresh was refused, whoever refreshed with the same token has lost
\* the session it got for it (auth.py:234-237).
ReplayEndsSuccessor ==
  \A q, o \in Requests :
    (/\ call[q].op = "refresh" /\ pc[q] = "refused"
     /\ call[o].op = "refresh" /\ pc[o] = "done"
     /\ call[o].row = call[q].row) => session[o].revoked

\* What a bulk update met is ended when its request is, whoever held the row in
\* between and whatever he did to it (auth.py:108-113, 311-318).
BulkUpdatesReach ==
  \A q \in Requests : pc[q] \in {"done", "refused"} =>
    \A s \in sweep[q] : IF call[q].op = "forgot_password" THEN reset[s].used
                        ELSE session[s].revoked

\* A reset token changes the password once, even if it is used twice at the same
\* time or withdrawn meanwhile (auth.py:348-368).
ResetTokenSingleUse ==
  \A q, o \in Requests :
    (/\ call[q].op = "reset_password" /\ pc[q] = "done"
     /\ call[o].op = "reset_password" /\ pc[o] = "done"
     /\ call[q].row = call[o].row) => q = o

\* The audit log holds an entry for every login that was refused and every change
\* that was committed, and no other; and the password in force is one that such
\* a request, or the registration, has set (auth.py:122-144, 188-196).
AuditAccountsForPasswords ==
  LET Setters == {q \in Requests : pc[q] = "done" /\ call[q].new # None} IN
  /\ audit = {[action |-> "LOGIN_FAILED", request |-> q] :
                q \in {q \in Requests : call[q].op = "login" /\ pc[q] = "refused"}}
       \cup {[action |-> "PASSWORD_CHANGED", request |-> q] :
                q \in {q \in Setters : call[q].op # "register"}}
  /\ Setters # {} => \E q \in Setters : password = call[q].new

\* The token that continues a login.
CurrentToken(l) == IF \E s \in Live : session[s].origin = l
                   THEN CHOOSE s \in Live : session[s].origin = l ELSE None

Book == INSTANCE SessionBook WITH
  Tokens <- Rows,
  issued <- Sessions,
  current <- [l \in Rows |-> CurrentToken(l)]

\* The handlers keep the book: a login is continued by one token at a time, by
\* tokens never seen before, and never again once it has ended.
BookSpec == Book!Spec

\* A request that was sent is answered, although its bulk update may wait for
\* others and others for it: no lock is kept by a request that has ended.
EveryRequestEnds == \A q \in Requests : pc[q] = "sent" ~> pc[q] \in Final

\* test_auth_sessions.py:196: logout-all revokes every session; here those that
\* no login of the instance has opened since.
LogoutAllRevokesEverySession ==
  \A q \in Requests : (call[q].op = "logout_all" /\ pc[q] = "done") =>
    \A s \in Live : session[s].origin \notin Devices

\* test_auth_sessions.py:214: changing the password revokes the sessions, so that a
\* live session goes back to a login with the password that is in force.
SessionsHavePassword ==
  \A s \in Live : session[s].origin \in Requests =>
    call[session[s].origin].current = password
=============================================================================
