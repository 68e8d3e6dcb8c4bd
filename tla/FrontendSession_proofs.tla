------------------------ MODULE FrontendSession_proofs ------------------------
(***************************************************************************)
(* For any number of tabs and calls: a tab has one refresh under way at    *)
(* most, whoever started it is still waiting for it, and nobody waits for  *)
(* a refresh that is over; a call that nothing has come in between of is   *)
(* not rejected, a login holds, a logout leaves nothing; and the server    *)
(* keeps the session book.                                                 *)
(***************************************************************************)
EXTENDS FrontendSession, TLAPS

-----------------------------------------------------------------------------
(* The inductive invariant. *)

\* A call has been given something exactly if it has started.
Started == \A q \in Calls : pc[q] = "idle" <=> call[q] = None

\* The refresh of a tab was started by a call of the tab, which waits for it.
Owned ==
  \A t \in Tabs : refreshInFlight[t] # None =>
    /\ call[refreshInFlight[t]] # None
    /\ call[refreshInFlight[t]].tab = t
    /\ pc[refreshInFlight[t]] = "refreshing"

\* Who waits for the refresh of his tab waits for one that is under way.
NobodyForgotten ==
  \A q \in Calls : pc[q] \in {"waiting", "refreshing"} =>
    call[q] # None /\ refreshInFlight[call[q].tab] # None

\* Sign-ins alone are read in two pieces.
Reading == \A q \in Calls : pc[q] = "reading" => call[q].fun = "login"

IInv == TypeOK /\ Started /\ Owned /\ NobodyForgotten /\ Reading

-----------------------------------------------------------------------------
(* The records that steps write. *)

\* What is under way of q, if anything, is a record of its type.
LEMMA Records ==
  ASSUME TypeOK, NEW q \in Calls
  PROVE  /\ call[q] # None => call[q] \in Call /\ call[q].tab \in Tabs
         /\ refresh[q] # None => refresh[q] \in Refresh
         /\ \A s \in Live : session[s] \in Session
BY DEF TypeOK, Call, Live

\* Changes of one field keep the record.
LEMMA Fields ==
  /\ \A c \in Call, s \in Tokens \cup {None} :
       /\ [c EXCEPT !.token = s] \in Call
       /\ [c EXCEPT !.token = s].tab = c.tab /\ [c EXCEPT !.token = s].fun = c.fun
       /\ [c EXCEPT !.token = s, !.attempt = 2] \in Call
       /\ [c EXCEPT !.token = s, !.attempt = 2].tab = c.tab
       /\ [c EXCEPT !.token = s, !.attempt = 2].fun = c.fun
  /\ \A r \in Refresh, stage \in {"sent", "accepted", "denied", "reading"} :
       [r EXCEPT !.stage = stage] \in Refresh
  /\ \A s \in Session : [s EXCEPT !.live = FALSE] \in Session
BY DEF Call, Refresh, Session

\* Ended sessions are sessions.
LEMMA EndType ==
  ASSUME TypeOK, NEW S \in SUBSET Live, End(S)
  PROVE  session' \in [Tokens -> Session \cup {None}]
<1>1. \A s \in Tokens : /\ session[s] \in Session \cup {None}
                        /\ s \in S => session[s] \in Session
  BY DEF TypeOK, Live
<1>2. \A s \in Tokens : (IF s \in S THEN [session[s] EXCEPT !.live = FALSE] ELSE session[s])
                          \in Session \cup {None}
  BY <1>1, Fields
<1> QED
  BY <1>2 DEF End

\* What a call or a refresh does to the sessions keeps types.
LEMMA EffectType ==
  ASSUME TypeOK, NEW q \in Calls,
         CallEffect(q) \/ \E c \in Tokens \cup {None} : RefreshEffect(q, c)
  PROVE  session' \in [Tokens -> Session \cup {None}]
<1>1. ASSUME NEW S \in SUBSET Live, End(S) PROVE session' \in [Tokens -> Session \cup {None}]
  BY <1>1, EndType
<1>2. /\ Live \in SUBSET Live /\ {} \in SUBSET Live
      /\ \A c : Live \cap {c} \in SUBSET Live
  OBVIOUS
<1>3. CASE CallEffect(q)
  <2>1. CASE session' = [session EXCEPT ![q] = [live |-> TRUE, origin |-> q]]
    BY <2>1 DEF TypeOK, Session, Tokens
  <2> QED
    BY <1>1, <1>2, <1>3, <2>1 DEF CallEffect
<1>4. ASSUME NEW c \in Tokens \cup {None}, RefreshEffect(q, c)
      PROVE  session' \in [Tokens -> Session \cup {None}]
  <2>1. CASE /\ c \in Live
             /\ session' = [session EXCEPT ![c].live = FALSE,
                              ![q] = [live |-> TRUE, origin |-> session[c].origin]]
    <3>1. session[c] \in Session /\ session[c].origin \in Tokens
      BY <2>1, Records DEF Session
    <3>2. [live |-> TRUE, origin |-> session[c].origin] \in Session
      BY <3>1 DEF Session
    <3> QED
      BY <2>1, <3>1, <3>2, Fields DEF TypeOK
  <2> QED
    BY <1>1, <1>2, <1>4, <2>1 DEF RefreshEffect, GoodCookie
<1> QED
  BY <1>3, <1>4

\* Requests that are given up are requests.
LEMMA GiveUpType ==
  ASSUME TypeOK, NEW Q
  PROVE  /\ GiveUpCalls(Q) => lateCall' \subseteq Calls
         /\ GiveUpRefreshes(Q) => lateRefresh' \in [Calls -> Tokens \cup {None}]
<1>1. ASSUME NEW q \in Calls
      PROVE  (IF q \in Q \cap Late /\ refresh[q] # None /\ refresh[q].stage = "sent"
              THEN refresh[q].cookie ELSE lateRefresh[q]) \in Tokens \cup {None}
  BY Records DEF Refresh, TypeOK
<1> QED
  BY <1>1 DEF GiveUpCalls, GiveUpRefreshes, TypeOK, Changing, Made

\* A sign-out keeps types.
LEMMA ClearType ==
  ASSUME TypeOK, NEW t \in Tabs, clearTokens(t)
  PROVE  /\ accessToken' \in [Tabs -> Tokens \cup {None}]
         /\ sessionGeneration' \in [Tabs -> Nat]
BY DEF clearTokens, TypeOK

\* The part of the invariant about who waits for what.
Waits == Started /\ Owned /\ NobodyForgotten /\ Reading
           /\ \A q \in Calls : refresh[q] # None <=> \E t \in Tabs : refreshInFlight[t] = q

\* A step of one call that neither starts to wait nor has waited.
LEMMA Bystanders ==
  ASSUME IInv, NEW q \in Calls, NEW label,
         pc' = [pc EXCEPT ![q] = label],
         pc[q] \notin {"idle", "waiting", "refreshing"},
         label \notin {"idle", "waiting", "refreshing"},
         label = "reading" => call[q].fun = "login",
         UNCHANGED refreshInFlight,
         \A r \in Calls : refresh'[r] # None <=> refresh[r] # None,
         \A o \in Calls \ {q} : call'[o] = call[o],
         call'[q] # None, call'[q].fun = call[q].fun
  PROVE  Waits'
<1>1. \A o \in Calls : pc'[o] = IF o = q THEN label ELSE pc[o]
  BY DEF IInv, TypeOK
<1>2. \A t \in Tabs : refreshInFlight[t] # None =>
        refreshInFlight[t] \in Calls \ {q}
  BY DEF IInv, TypeOK, Owned
<1>3. Started' /\ Owned' /\ NobodyForgotten' /\ Reading'
  BY <1>1, <1>2 DEF IInv, Started, Owned, NobodyForgotten, Reading
<1> QED
  BY <1>3 DEF Waits, IInv, TypeOK

\* A step that moves no call and ends no refresh.
LEMMA Standstill ==
  ASSUME IInv, UNCHANGED <<pc, call, refreshInFlight>>,
         \A r \in Calls : refresh'[r] # None <=> refresh[r] # None
  PROVE  Waits'
BY DEF IInv, Waits, TypeOK, Started, Owned, NobodyForgotten, Reading

\* The refresh of r ends: its tab, and who waited for it.
LEMMA SettleEffect ==
  ASSUME IInv, NEW r \in Calls, refresh[r] # None,
         NEW cookie \in Tokens \cup {None}, NEW token \in Tokens \cup {None},
         Settle(r, cookie, token)
  PROVE  /\ call[r].tab \in Tabs /\ refreshInFlight[call[r].tab] = r
         /\ r \in Waiters(r) /\ pc[r] = "refreshing"
         /\ \A u \in Tabs : refreshInFlight'[u] =
              IF u = call[r].tab THEN None ELSE refreshInFlight[u]
         /\ \A q \in Calls : refresh'[q] = IF q = r THEN None ELSE refresh[q]
         /\ \A q \in Calls \ Waiters(r) : pc'[q] = pc[q] /\ call'[q] = call[q]
         /\ \A q \in Waiters(r) :
              /\ q \in Calls /\ call[q] \in Call /\ call'[q] \in Call
              /\ call[q].tab = call[r].tab /\ pc[q] \in {"waiting", "refreshing"}
              /\ call'[q].fun = call[q].fun /\ call'[q].tab = call[q].tab
              /\ call'[q].generation = call[q].generation
              /\ pc[q] = "waiting" =>
                   /\ pc'[q] = "sent" /\ call'[q].attempt = call[q].attempt
                   /\ call'[q].token = IF call[q].fun = "logout" THEN cookie ELSE None
              /\ pc[q] = "refreshing" /\ token # None =>
                   pc'[q] = "sent" /\ call'[q].attempt = 2 /\ call'[q].token = token
              /\ pc[q] = "refreshing" /\ token = None =>
                   pc'[q] = "refused" /\ call'[q] = call[q]
<1> DEFINE t == call[r].tab
<1>1. /\ refreshInFlight[t] = r /\ t \in Tabs /\ pc[r] = "refreshing" /\ r \in Waiters(r)
      /\ \A u \in Tabs \ {t} : refreshInFlight[u] # r
  BY NoRecordAssumption, TokensAssumption DEF IInv, TypeOK, Owned, Waiters, Of
<1>2. /\ refreshInFlight' = [refreshInFlight EXCEPT ![t] = None]
      /\ refresh' = [refresh EXCEPT ![r] = None]
  BY DEF Settle, DropPromise
<1>3. \A q \in Waiters(r) : /\ q \in Calls /\ call[q] \in Call /\ call[q].tab = t
                            /\ pc[q] \in {"waiting", "refreshing"}
  BY DEF Waiters, Of, IInv, TypeOK
<1> DEFINE Going(q) ==
      IF pc[q] = "waiting"
      THEN [call[q] EXCEPT !.token = IF call[q].fun = "logout" THEN cookie ELSE None]
      ELSE IF token # None THEN [call[q] EXCEPT !.token = token, !.attempt = 2]
      ELSE call[q]
<1>4. /\ call' = [q \in Calls |-> IF q \in Waiters(r) THEN Going(q) ELSE call[q]]
      /\ pc' = [q \in Calls |->
           IF q \notin Waiters(r) THEN pc[q]
           ELSE IF pc[q] = "waiting" \/ token # None THEN "sent" ELSE "refused"]
  BY DEF Settle
<1>5. ASSUME NEW q \in Waiters(r)
      PROVE  /\ Going(q) \in Call
             /\ Going(q).fun = call[q].fun /\ Going(q).tab = call[q].tab
             /\ Going(q).generation = call[q].generation
             /\ pc[q] = "waiting" =>
                  /\ Going(q).attempt = call[q].attempt
                  /\ Going(q).token = IF call[q].fun = "logout" THEN cookie ELSE None
             /\ pc[q] # "waiting" /\ token # None =>
                  Going(q).attempt = 2 /\ Going(q).token = token
             /\ pc[q] # "waiting" /\ token = None => Going(q) = call[q]
  <2>1. call[q] \in Call
    BY <1>3
  <2>2. CASE pc[q] = "waiting"
    <3>1. PICK s \in Tokens \cup {None} : s = IF call[q].fun = "logout" THEN cookie ELSE None
      OBVIOUS
    <3>2. Going(q) = [call[q] EXCEPT !.token = s]
      BY <2>2, <3>1
    <3> HIDE DEF Going
    <3> QED
      BY <2>1, <2>2, <3>1, <3>2 DEF Call
  <2>3. CASE pc[q] # "waiting" /\ token # None
    <3>1. Going(q) = [call[q] EXCEPT !.token = token, !.attempt = 2]
      BY <2>3
    <3> HIDE DEF Going
    <3> QED
      BY <2>1, <2>3, <3>1 DEF Call
  <2>4. CASE pc[q] # "waiting" /\ token = None
    BY <2>1, <2>4
  <2> QED
    BY <2>2, <2>3, <2>4
<1>6. \A u \in Tabs : refreshInFlight'[u] = IF u = t THEN None ELSE refreshInFlight[u]
  BY <1>1, <1>2 DEF IInv, TypeOK
<1>7. \A q \in Calls : refresh'[q] = IF q = r THEN None ELSE refresh[q]
  BY <1>2 DEF IInv, TypeOK
<1>8. \A q \in Calls \ Waiters(r) : pc'[q] = pc[q] /\ call'[q] = call[q]
  BY <1>4
<1>9. \A q \in Waiters(r) : /\ call'[q] = Going(q)
                            /\ pc[q] = "waiting" \/ token # None => pc'[q] = "sent"
                            /\ pc[q] # "waiting" /\ token = None => pc'[q] = "refused"
  BY <1>3, <1>4
<1> HIDE DEF Going, t
<1>10. \A q \in Waiters(r) :
         /\ q \in Calls /\ call[q] \in Call /\ call'[q] \in Call
         /\ call[q].tab = t /\ pc[q] \in {"waiting", "refreshing"}
         /\ call'[q].fun = call[q].fun /\ call'[q].tab = call[q].tab
         /\ call'[q].generation = call[q].generation
         /\ pc[q] = "waiting" =>
              /\ pc'[q] = "sent" /\ call'[q].attempt = call[q].attempt
              /\ call'[q].token = IF call[q].fun = "logout" THEN cookie ELSE None
         /\ pc[q] = "refreshing" /\ token # None =>
              pc'[q] = "sent" /\ call'[q].attempt = 2 /\ call'[q].token = token
         /\ pc[q] = "refreshing" /\ token = None =>
              pc'[q] = "refused" /\ call'[q] = call[q]
  BY <1>3, <1>5, <1>9
<1> QED
  BY <1>1, <1>6, <1>7, <1>8, <1>10 DEF t

\* The end of a refresh lets all go on that waited for it.
LEMMA SettleWaits ==
  ASSUME IInv, NEW r \in Calls, refresh[r] # None,
         NEW cookie \in Tokens \cup {None}, NEW token \in Tokens \cup {None},
         Settle(r, cookie, token)
  PROVE  /\ Waits'
         /\ refreshInFlight' \in [Tabs -> Calls \cup {None}]
         /\ call' \in [Calls -> Call \cup {None}]
         /\ pc' \in [Calls -> {"idle", "waiting", "sent", "accepted", "denied", "refreshing",
                               "refused", "reading"} \cup Ended]
         /\ refresh' \in [Calls -> Refresh \cup {None}]
<1> DEFINE t == call[r].tab
<1>1. /\ refreshInFlight[t] = r /\ t \in Tabs
      /\ \A u \in Tabs \ {t} : refreshInFlight[u] # r
  BY NoRecordAssumption, TokensAssumption DEF IInv, TypeOK, Owned
<1>2. /\ refreshInFlight' = [refreshInFlight EXCEPT ![t] = None]
      /\ refresh' = [refresh EXCEPT ![r] = None]
  BY DEF Settle, DropPromise
<1>3. \A q \in Waiters(r) : call[q] \in Call /\ call[q].tab = t
  BY DEF Waiters, Of, IInv, TypeOK
<1>4. \A q \in Calls :
        /\ q \in Waiters(r) =>
             /\ pc'[q] \in {"sent", "refused"}
             /\ call'[q] \in Call /\ call'[q].tab = t /\ call'[q].fun = call[q].fun
        /\ q \notin Waiters(r) => pc'[q] = pc[q] /\ call'[q] = call[q]
  BY SettleEffect
<1>5. \A q \in Calls : pc[q] \in {"waiting", "refreshing"} =>
        q \in Waiters(r) \/ call[q].tab # t
  BY DEF Waiters, Of, IInv, NobodyForgotten
<1>6. Started' /\ Reading'
  BY <1>4, NoRecordAssumption DEF IInv, Started, Reading, Waiters
<1>7. \A u \in Tabs \ {t} : refreshInFlight[u] # None =>
        refreshInFlight[u] \in Calls \ Waiters(r)
  BY <1>3 DEF IInv, Owned, TypeOK
<1>8. Owned'
  BY <1>1, <1>2, <1>4, <1>7 DEF IInv, Owned, TypeOK
<1>9. NobodyForgotten'
  <2> SUFFICES ASSUME NEW q \in Calls, pc'[q] \in {"waiting", "refreshing"}
               PROVE  call'[q] # None /\ refreshInFlight'[call'[q].tab] # None
    BY DEF NobodyForgotten
  <2>1. q \notin Waiters(r) /\ pc'[q] = pc[q] /\ call'[q] = call[q]
    BY <1>4
  <2>2. call[q] # None /\ call[q].tab # t /\ refreshInFlight[call[q].tab] # None
    BY <1>5, <2>1 DEF IInv, NobodyForgotten
  <2>3. call[q].tab \in Tabs
    BY <2>2, Records DEF IInv
  <2> HIDE DEF t
  <2> QED
    BY <1>1, <1>2, <2>1, <2>2, <2>3 DEF IInv, TypeOK
<1>10. \A q \in Calls : refresh'[q] # None <=> \E u \in Tabs : refreshInFlight'[u] = q
  <2> HIDE DEF t
  <2> QED
    BY <1>1, <1>2, TokensAssumption DEF IInv, TypeOK
<1>11. refreshInFlight' \in [Tabs -> Calls \cup {None}]
       /\ refresh' \in [Calls -> Refresh \cup {None}]
  BY <1>2 DEF IInv, TypeOK
<1>12. /\ call' \in [Calls -> Call \cup {None}]
       /\ pc' \in [Calls -> {"idle", "waiting", "sent", "accepted", "denied", "refreshing",
                             "refused", "reading"} \cup Ended]
  <2>1. \A q \in Calls : /\ call'[q] \in Call \cup {None}
                         /\ pc'[q] \in {"idle", "waiting", "sent", "accepted", "denied",
                              "refreshing", "refused", "reading"} \cup Ended
    BY <1>4 DEF IInv, TypeOK
  <2> QED
    BY <2>1 DEF Settle
<1> QED
  BY <1>6, <1>8, <1>9, <1>10, <1>11, <1>12 DEF Waits

-----------------------------------------------------------------------------
(* The steps. *)

LEMMA InitInv == Init => IInv
<1> SUFFICES ASSUME Init PROVE IInv
  OBVIOUS
<1>1. session \in [Tokens -> Session \cup {None}]
  BY DEF Init, Session, Tokens
<1>2. TypeOK
  BY <1>1, TokensAssumption DEF Init, TypeOK, Tokens
<1> QED
  BY <1>2 DEF Init, IInv, Started, Owned, NobodyForgotten, Reading

\* A call starts.
LEMMA StartKeeps ==
  ASSUME IInv, NEW q \in Calls, NEW t \in Tabs, NEW fun \in Functions, Start(q, t, fun)
  PROVE  IInv'
<1> DEFINE c == [fun |-> fun, tab |-> t, token |-> Bearer(t, fun),
                 generation |-> sessionGeneration[t], attempt |-> 1]
<1>1. c \in Call /\ c # None /\ c.tab = t
  BY NoRecordAssumption DEF IInv, TypeOK, Call, Bearer
<1>2. call' = [call EXCEPT ![q] = c] /\ pc[q] = "idle" /\ UNCHANGED <<refresh, refreshInFlight>>
  BY DEF Start
<1>3. pc' = [pc EXCEPT ![q] = IF MustWait(t, fun) THEN "waiting" ELSE "sent"]
  BY DEF Start, Goto
<1> HIDE DEF c
<1>4. undisturbed' \subseteq Calls
  BY DEF Start, IInv, TypeOK
<1>5. TypeOK'
  <2>1. screen' \in [Tabs -> {"loading", "form", "retry", "shell"}]
    BY DEF Start, Show, IInv, TypeOK
  <2> QED
    BY <1>1, <1>2, <1>3, <1>4, <2>1 DEF Start, IInv, TypeOK, server, late
<1>6. \A u \in Tabs : refreshInFlight[u] # q
  BY <1>2, TokensAssumption DEF IInv, Owned
<1>7. Started' /\ Owned' /\ Reading'
  BY <1>1, <1>2, <1>3, <1>6 DEF IInv, TypeOK, Started, Owned, Reading
<1>8. NobodyForgotten'
  BY <1>1, <1>2, <1>3 DEF IInv, TypeOK, NobodyForgotten, MustWait
<1> QED
  BY <1>5, <1>7, <1>8 DEF IInv

\* The server answers a call.
LEMMA ServeCallKeeps ==
  ASSUME IInv, NEW q \in Calls, ServeCall(q)
  PROVE  IInv'
<1>1. PICK label \in {"accepted", "denied"} : pc' = [pc EXCEPT ![q] = label]
  BY DEF ServeCall, Goto
<1>2. pc[q] = "sent" /\ call[q] # None /\ UNCHANGED <<call, refresh, refreshInFlight>>
  BY DEF ServeCall, IInv, Started
<1>3. session' \in [Tokens -> Session \cup {None}]
  BY EffectType DEF ServeCall, IInv
<1>4. TypeOK'
  BY <1>1, <1>2, <1>3 DEF ServeCall, IInv, TypeOK, tab, late
<1>5. Waits'
  BY <1>1, <1>2, Bystanders
<1> QED
  BY <1>4, <1>5 DEF IInv, Waits

\* The server answers a refresh.
LEMMA ServeRefreshKeeps ==
  ASSUME IInv, NEW r \in Calls, ServeRefresh(r)
  PROVE  IInv'
<1> DEFINE c == refresh[r].cookie
<1>1. PICK label \in {"accepted", "denied"} : refresh' = [refresh EXCEPT ![r].stage = label]
  BY DEF ServeRefresh
<1>2. refresh[r] \in Refresh /\ UNCHANGED <<pc, call, refreshInFlight>>
  BY Records DEF ServeRefresh, IInv
<1>3. /\ refresh' \in [Calls -> Refresh \cup {None}]
      /\ \A q \in Calls : refresh'[q] # None <=> refresh[q] # None
  <2>1. [refresh[r] EXCEPT !.stage = label] \in Refresh /\ refresh[r] # None
    BY <1>2, Fields, NoRecordAssumption
  <2> QED
    BY <1>1, <2>1, NoRecordAssumption DEF IInv, TypeOK
<1>4. session' \in [Tokens -> Session \cup {None}]
  <2>1. c \in Tokens \cup {None} /\ RefreshEffect(r, c)
    BY <1>2 DEF ServeRefresh, Refresh
  <2> QED
    BY <2>1, EffectType DEF IInv
<1>5. Waits'
  BY <1>2, <1>3, Standstill
<1> QED
  BY <1>2, <1>3, <1>4, <1>5 DEF ServeRefresh, IInv, Waits, TypeOK, tab, late

\* A request that was given up reaches the server.
LEMMA LateKeeps ==
  ASSUME IInv, NEW q \in Calls, ServeLateCall(q) \/ ServeLateRefresh(q)
  PROVE  IInv'
<1>1. UNCHANGED <<expired, jar, tab, refreshInFlight, call, pc, refresh>>
  BY DEF ServeLateCall, ServeLateRefresh
<1>2. session' \in [Tokens -> Session \cup {None}]
  BY EffectType DEF ServeLateCall, ServeLateRefresh, IInv, TypeOK
<1>3. /\ lateCall' \subseteq Calls /\ lateRefresh' \in [Calls -> Tokens \cup {None}]
      /\ undisturbed' \subseteq Calls
  BY DEF ServeLateCall, ServeLateRefresh, Disturb, IInv, TypeOK
<1>4. Waits'
  BY <1>1, Standstill
<1> QED
  BY <1>1, <1>2, <1>3, <1>4 DEF IInv, Waits, TypeOK, tab

\* Sessions end or expire.
LEMMA TimeKeeps ==
  ASSUME IInv, NEW s \in Tokens, Expire(s) \/ EndElsewhere(s)
  PROVE  IInv'
<1>1. UNCHANGED <<jar, tab, refreshInFlight, call, pc, refresh, late>>
  BY DEF Expire, EndElsewhere
<1>2. /\ session' \in [Tokens -> Session \cup {None}] /\ expired' \subseteq Tokens
      /\ undisturbed' \subseteq Calls
  <2>1. CASE Expire(s)
    BY <2>1 DEF Expire, IInv, TypeOK, Disturb
  <2>2. CASE EndElsewhere(s)
    <3>1. PICK S \in {{s}, Live} : End(S)
      BY <2>2 DEF EndElsewhere
    <3>2. S \in SUBSET Live
      BY <2>2, <3>1 DEF EndElsewhere
    <3>3. session' \in [Tokens -> Session \cup {None}]
      BY <3>1, <3>2, EndType DEF IInv
    <3> QED
      BY <2>2, <3>3 DEF EndElsewhere, IInv, TypeOK, Disturb
  <2> QED
    BY <2>1, <2>2
<1>3. Waits'
  BY <1>1, Standstill
<1> QED
  BY <1>1, <1>2, <1>3 DEF IInv, Waits, TypeOK, tab, late

\* The answer to a call with an access token: it is taken, repeated or refused.
LEMMA AnswerKeeps ==
  ASSUME IInv, NEW q \in Calls, Succeed(q) \/ Reuse(q) \/ Reject(q)
  PROVE  IInv'
<1>1. PICK label \in {"done", "sent", "refused", "unauthorized"} :
        pc' = [pc EXCEPT ![q] = label]
  BY DEF Succeed, Reuse, Reject, Goto
<1>2. /\ pc[q] \in {"accepted", "refused", "denied"} /\ call[q] # None
      /\ call[q] \in Call /\ call[q].tab \in Tabs
      /\ UNCHANGED <<refreshInFlight, refresh, session, expired, lateCall, lateRefresh>>
  BY Records DEF Succeed, Reuse, Reject, Retries, IInv, Started, server, late
<1>3. /\ call' \in [Calls -> Call \cup {None}]
      /\ \A o \in Calls \ {q} : call'[o] = call[o]
      /\ call'[q] # None /\ call'[q].fun = call[q].fun
  <2>1. CASE call' = call
    BY <1>2, <2>1 DEF IInv, TypeOK
  <2>2. CASE call' = [call EXCEPT ![q].token = accessToken[call[q].tab], ![q].attempt = 2]
    <3>1. accessToken[call[q].tab] \in Tokens \cup {None}
      BY <1>2 DEF IInv, TypeOK
    <3> DEFINE c == [call[q] EXCEPT !.token = accessToken[call[q].tab], !.attempt = 2]
    <3>2. c \in Call /\ c # None /\ c.fun = call[q].fun
      BY <1>2, <3>1, Fields, NoRecordAssumption
    <3>3. call' = [call EXCEPT ![q] = c]
      BY <2>2 DEF IInv, TypeOK
    <3> HIDE DEF c
    <3> QED
      BY <3>2, <3>3 DEF IInv, TypeOK
  <2> QED
    BY <2>1, <2>2 DEF Succeed, Reuse, Reject
<1>4. /\ jar' \in Tokens \cup {None} /\ undisturbed' \subseteq Calls
      /\ accessToken' \in [Tabs -> Tokens \cup {None}] /\ sessionGeneration' \in [Tabs -> Nat]
      /\ screen' \in [Tabs -> {"loading", "form", "retry", "shell"}]
  <2>1. \/ clearTokens(call[q].tab)
        \/ UNCHANGED <<accessToken, sessionGeneration>>
    BY DEF Succeed, Reuse, Reject, tab
  <2>2. /\ accessToken' \in [Tabs -> Tokens \cup {None}]
        /\ sessionGeneration' \in [Tabs -> Nat]
    BY <1>2, <2>1, ClearType DEF IInv, TypeOK
  <2>3. jar' \in {jar, None} /\ undisturbed' \subseteq undisturbed
    BY DEF Succeed, Reuse, Reject, SignChange, Disturb
  <2>4. screen' = screen \/ \E what \in {"form", "shell"} : Show(call[q].tab, what)
    BY <1>2 DEF Succeed, Reuse, Reject, tab
  <2>5. screen' \in [Tabs -> {"loading", "form", "retry", "shell"}]
    BY <1>2, <2>4 DEF Show, IInv, TypeOK
  <2> QED
    BY <2>2, <2>3, <2>5 DEF IInv, TypeOK
<1>5. Waits'
  BY <1>1, <1>2, <1>3, Bystanders
<1>6. pc' \in [Calls -> {"idle", "waiting", "sent", "accepted", "denied", "refreshing",
                         "refused", "reading"} \cup Ended]
  BY <1>1 DEF IInv, TypeOK, Ended
<1> QED
  BY <1>2, <1>3, <1>4, <1>5, <1>6 DEF IInv, Waits, TypeOK

\* A call joins the refresh of its tab, or starts it.
LEMMA RefreshKeeps ==
  ASSUME IInv, NEW q \in Calls, refreshSession(q)
  PROVE  IInv'
<1> DEFINE t == call[q].tab
           r == [cookie |-> jar, stage |-> "sent", generation |-> sessionGeneration[t]]
<1>1. /\ pc[q] = "denied" /\ call[q] # None /\ t \in Tabs
      /\ pc' = [pc EXCEPT ![q] = "refreshing"]
      /\ UNCHANGED <<server, jar, tab, call, late>>
  BY Records DEF refreshSession, Retries, Goto, IInv, Started
<1>2. r \in Refresh /\ r # None
  BY <1>1, NoRecordAssumption DEF IInv, TypeOK, Refresh
<1>3. undisturbed' \subseteq Calls
  BY DEF refreshSession, Disturb, IInv, TypeOK
<1>4. \A u \in Tabs : refreshInFlight[u] # q
  BY <1>1, TokensAssumption DEF IInv, Owned
<1>5. CASE refreshInFlight[t] = None
  <2>1. refreshInFlight' = [refreshInFlight EXCEPT ![t] = q] /\ refresh' = [refresh EXCEPT ![q] = r]
    BY <1>5 DEF refreshSession
  <2> HIDE DEF r
  <2>2. TypeOK'
    <3>1. \A o \in Calls : refresh'[o] # None <=> \E u \in Tabs : refreshInFlight'[u] = o
      <4> SUFFICES ASSUME NEW o \in Calls
                   PROVE  refresh'[o] # None <=> \E u \in Tabs : refreshInFlight'[u] = o
        OBVIOUS
      <4>1. refresh[o] # None <=> \E u \in Tabs : refreshInFlight[u] = o
        BY DEF IInv, TypeOK
      <4>2. refresh'[o] = IF o = q THEN r ELSE refresh[o]
        BY <2>1 DEF IInv, TypeOK
      <4>3. \A u \in Tabs : refreshInFlight'[u] = IF u = t THEN q ELSE refreshInFlight[u]
        BY <2>1 DEF IInv, TypeOK
      <4> HIDE DEF t
      <4> QED
        BY <1>1, <1>2, <1>5, <4>1, <4>2, <4>3, TokensAssumption
    <3> HIDE DEF t
    <3> QED
      BY <1>1, <1>2, <1>3, <2>1, <3>1 DEF IInv, TypeOK, server, tab, late
  <2>3. Started' /\ Reading'
    BY <1>1 DEF IInv, TypeOK, Started, Reading
  <2>4. Owned' /\ NobodyForgotten'
    BY <1>1, <1>4, <1>5, <2>1, TokensAssumption DEF IInv, TypeOK, Owned, NobodyForgotten
  <2> QED
    BY <2>2, <2>3, <2>4 DEF IInv
<1>6. CASE refreshInFlight[t] # None
  <2>1. UNCHANGED <<refreshInFlight, refresh>>
    BY <1>6 DEF refreshSession
  <2>2. TypeOK'
    BY <1>1, <1>3, <2>1 DEF IInv, TypeOK, server, tab, late
  <2>3. Started' /\ Owned' /\ NobodyForgotten' /\ Reading'
    BY <1>1, <1>6, <2>1 DEF IInv, TypeOK, Started, Owned, NobodyForgotten, Reading
  <2> QED
    BY <2>2, <2>3 DEF IInv
<1> QED
  BY <1>5, <1>6

\* The answer to a refresh arrives, is read to its end, or is lost.
LEMMA RefreshEnds ==
  ASSUME IInv, NEW r \in Calls, ArriveRefresh(r) \/ ReadRefresh(r) \/ LoseRefresh(r)
  PROVE  IInv'
<1> DEFINE t == call[r].tab
<1>1. /\ refresh[r] # None /\ refresh[r] \in Refresh /\ t \in Tabs
      /\ UNCHANGED <<session, expired, screen>>
  <2>1. refresh[r] # None /\ UNCHANGED <<session, expired, screen>>
    BY DEF ArriveRefresh, ReadRefresh, LoseRefresh, server
  <2>2. \E u \in Tabs : refreshInFlight[u] = r
    BY <2>1 DEF IInv, TypeOK
  <2>3. t \in Tabs
    BY <2>2, TokensAssumption DEF IInv, Owned
  <2> QED
    BY <2>1, <2>3, Records DEF IInv
<1>2. jar' \in Tokens \cup {None} /\ undisturbed' \subseteq Calls
  BY DEF ArriveRefresh, ReadRefresh, LoseRefresh, SignChange, Disturb, IInv, TypeOK, Tokens
<1>3. /\ accessToken' \in [Tabs -> Tokens \cup {None}]
      /\ sessionGeneration' \in [Tabs -> Nat]
  <2>1. \/ clearTokens(t)
        \/ UNCHANGED <<accessToken, sessionGeneration>>
        \/ storeAccessToken(t, r) /\ UNCHANGED sessionGeneration
    BY DEF ArriveRefresh, ReadRefresh, LoseRefresh
  <2> QED
    BY <1>1, <2>1, ClearType DEF IInv, TypeOK, storeAccessToken, Tokens
<1>g. lateCall' \subseteq Calls /\ lateRefresh' \in [Calls -> Tokens \cup {None}]
  BY GiveUpType DEF ArriveRefresh, ReadRefresh, LoseRefresh, IInv, TypeOK, late
<1>4. CASE \E cookie \in Tokens \cup {None}, token \in Tokens \cup {None} :
             Settle(r, cookie, token)
  <2>1. PICK cookie \in Tokens \cup {None}, token \in Tokens \cup {None} :
          Settle(r, cookie, token)
    BY <1>4
  <2>2. /\ Waits'
        /\ refreshInFlight' \in [Tabs -> Calls \cup {None}]
        /\ call' \in [Calls -> Call \cup {None}]
        /\ pc' \in [Calls -> {"idle", "waiting", "sent", "accepted", "denied", "refreshing",
                              "refused", "reading"} \cup Ended]
        /\ refresh' \in [Calls -> Refresh \cup {None}]
    BY <1>1, <2>1, SettleWaits
  <2> QED
    BY <1>1, <1>2, <1>3, <1>g, <2>2 DEF IInv, Waits, TypeOK
<1>5. CASE /\ refresh' = [refresh EXCEPT ![r].stage = "reading"]
           /\ UNCHANGED <<refreshInFlight, call, pc>>
  <2>1. [refresh[r] EXCEPT !.stage = "reading"] \in Refresh
    BY <1>1, Fields
  <2>2. /\ refresh' \in [Calls -> Refresh \cup {None}]
        /\ \A q \in Calls : refresh'[q] # None <=> refresh[q] # None
    BY <1>1, <1>5, <2>1, NoRecordAssumption DEF IInv, TypeOK
  <2>3. Waits'
    BY <1>5, <2>2, Standstill
  <2> QED
    BY <1>1, <1>2, <1>3, <1>5, <1>g, <2>2, <2>3 DEF IInv, Waits, TypeOK
<1>6. \/ \E cookie \in Tokens \cup {None}, token \in Tokens \cup {None} :
           Settle(r, cookie, token)
      \/ /\ refresh' = [refresh EXCEPT ![r].stage = "reading"]
         /\ UNCHANGED <<refreshInFlight, call, pc>>
  <2>1. jar \in Tokens \cup {None} /\ r \in Tokens \cup {None} /\ None \in Tokens \cup {None}
    BY DEF IInv, TypeOK, Tokens
  <2>2. CASE ReadRefresh(r)
    BY <2>1, <2>2 DEF ReadRefresh
  <2>3. CASE LoseRefresh(r)
    BY <2>1, <2>3 DEF LoseRefresh
  <2>4. CASE ArriveRefresh(r)
    BY <2>1, <2>4 DEF ArriveRefresh
  <2> QED
    BY <2>2, <2>3, <2>4
<1> QED
  BY <1>4, <1>5, <1>6

\* The answer to a sign-in or a sign-out arrives, or an answer is lost.
LEMMA SignKeeps ==
  ASSUME IInv, NEW q \in Calls,
         ArriveLogin(q) \/ ReadLogin(q) \/ ArriveLogout(q) \/ LoseCall(q)
  PROVE  IInv'
<1> DEFINE t == call[q].tab
<1>1. PICK label \in {"done", "reading", "failed"} :
        pc' = [pc EXCEPT ![q] = label] /\ (label = "reading" => call[q].fun = "login")
  BY DEF ArriveLogin, ReadLogin, ArriveLogout, LoseCall, Goto
<1>2. /\ pc[q] \in {"sent", "accepted", "denied", "reading"} /\ call[q] # None /\ t \in Tabs
      /\ UNCHANGED <<refreshInFlight, refresh, session, expired, call>>
  BY Records
     DEF ArriveLogin, ReadLogin, ArriveLogout, LoseCall, IInv, Started, server
<1>3. /\ accessToken' \in [Tabs -> Tokens \cup {None}]
      /\ sessionGeneration' \in [Tabs -> Nat]
  <2>1. \/ clearTokens(t)
        \/ UNCHANGED <<accessToken, sessionGeneration>>
        \/ UNCHANGED accessToken /\ sessionGeneration' = [sessionGeneration EXCEPT ![t] = @ + 1]
        \/ storeAccessToken(t, q) /\ UNCHANGED sessionGeneration
    BY DEF ArriveLogin, ReadLogin, ArriveLogout, LoseCall
  <2> QED
    BY <1>2, <2>1, ClearType DEF IInv, TypeOK, storeAccessToken, Tokens
<1>4. /\ jar' \in Tokens \cup {None} /\ undisturbed' \subseteq Calls
      /\ screen' \in [Tabs -> {"loading", "form", "retry", "shell"}]
  <2>1. screen' = screen \/ \E what \in {"form", "retry"} : Show(t, what)
    BY DEF ArriveLogin, ReadLogin, ArriveLogout, LoseCall
  <2>2. jar' \in {jar, q, None} /\ undisturbed' \subseteq undisturbed
    BY DEF ArriveLogin, ReadLogin, ArriveLogout, LoseCall, SignChange, Disturb
  <2> QED
    BY <1>2, <2>1, <2>2 DEF IInv, TypeOK, Show, Tokens
<1>g. lateCall' \subseteq Calls /\ lateRefresh' \in [Calls -> Tokens \cup {None}]
  BY GiveUpType DEF ArriveLogin, ReadLogin, ArriveLogout, LoseCall, IInv, TypeOK, late
<1>5. Waits'
  BY <1>1, <1>2, Bystanders
<1>6. pc' \in [Calls -> {"idle", "waiting", "sent", "accepted", "denied", "refreshing",
                         "refused", "reading"} \cup Ended]
  BY <1>1 DEF IInv, TypeOK, Ended
<1> QED
  BY <1>2, <1>3, <1>4, <1>5, <1>6, <1>g DEF IInv, Waits, TypeOK

\* A page is loaded anew.
LEMMA ReloadKeeps ==
  ASSUME IInv, NEW t \in Tabs, Reload(t)
  PROVE  IInv'
<1> DEFINE lost == Open \cap Of(t)
<1>1. \A q \in Calls : /\ pc'[q] = (IF q \in lost THEN "failed" ELSE pc[q])
                       /\ refresh'[q] = (IF q \in lost THEN None ELSE refresh[q])
  BY DEF Reload
<1>2. refreshInFlight' = [refreshInFlight EXCEPT ![t] = None] /\ call' = call
  BY DEF Reload
<1>3. \A q \in lost : call[q] # None /\ call[q].tab = t /\ pc[q] # "idle"
  BY DEF Open, Of
<1>4. /\ refreshInFlight[t] # None => refreshInFlight[t] \in lost
      /\ \A u \in Tabs \ {t} : refreshInFlight[u] # None => refreshInFlight[u] \in Calls \ lost
  BY <1>3 DEF IInv, TypeOK, Owned, Open, Of, Ended
<1>5. \A q \in Calls : pc[q] \in {"waiting", "refreshing"} => q \in lost \/ call[q].tab # t
  BY DEF IInv, NobodyForgotten, Open, Of, Ended
<1> HIDE DEF lost
<1>6. \A q \in Calls : refresh'[q] # None <=> \E u \in Tabs : refreshInFlight'[u] = q
  BY <1>1, <1>2, <1>4, TokensAssumption DEF IInv, TypeOK
<1>7. TypeOK'
  <2>1. /\ refresh' \in [Calls -> Refresh \cup {None}]
        /\ pc' \in [Calls -> {"idle", "waiting", "sent", "accepted", "denied", "refreshing",
                              "refused", "reading"} \cup Ended]
    BY DEF Reload, IInv, TypeOK, Ended
  <2>2. /\ accessToken' \in [Tabs -> Tokens \cup {None}] /\ sessionGeneration' \in [Tabs -> Nat]
        /\ screen' \in [Tabs -> {"loading", "form", "retry", "shell"}] /\ undisturbed' \subseteq Calls
    BY DEF Reload, IInv, TypeOK, storeAccessToken, Show, Disturb
  <2>3. UNCHANGED <<session, expired, jar>>
    BY DEF Reload, server
  <2>4. lateCall' \subseteq Calls /\ lateRefresh' \in [Calls -> Tokens \cup {None}]
    BY GiveUpType DEF Reload, IInv
  <2> QED
    BY <1>2, <1>6, <2>1, <2>2, <2>3, <2>4 DEF IInv, TypeOK
<1>8. Started' /\ Reading'
  BY <1>1, <1>2, <1>3 DEF IInv, Started, Reading
<1>9. Owned'
  BY <1>1, <1>2, <1>4 DEF IInv, TypeOK, Owned
<1>10. NobodyForgotten'
  BY <1>1, <1>2, <1>5 DEF IInv, TypeOK, NobodyForgotten, Call
<1> QED
  BY <1>7, <1>8, <1>9, <1>10 DEF IInv

-----------------------------------------------------------------------------
(* The invariant and what it implies. *)

LEMMA StepInv == IInv /\ [Next]_vars => IInv'
<1> SUFFICES ASSUME IInv, [Next]_vars PROVE IInv'
  OBVIOUS
<1>1. ASSUME NEW q \in Calls, NEW t \in Tabs, NEW fun \in Functions, Start(q, t, fun)
      PROVE  IInv'
  BY <1>1, StartKeeps
<1>2. ASSUME NEW q \in Calls, Handle(q) \/ LoseCall(q) \/ LoseRefresh(q)
      PROVE  IInv'
  BY <1>2, ServeCallKeeps, ServeRefreshKeeps, AnswerKeeps, RefreshKeeps, RefreshEnds,
     SignKeeps DEF Handle
<1>3. ASSUME NEW t \in Tabs, Reload(t) PROVE IInv'
  BY <1>3, ReloadKeeps
<1>4. ASSUME NEW s \in ShortLived \cup Revocable, Expire(s) \/ EndElsewhere(s) PROVE IInv'
  BY <1>4, TimeKeeps, TokensAssumption
<1>5. ASSUME NEW q \in Calls, ServeLateCall(q) \/ ServeLateRefresh(q) PROVE IInv'
  BY <1>5, LateKeeps
<1>6. CASE UNCHANGED vars
  BY <1>6 DEF vars, server, tab, late, IInv, TypeOK, Started, Owned, NobodyForgotten, Reading
<1> QED
  BY <1>1, <1>2, <1>3, <1>4, <1>5, <1>6 DEF Next, Rest

\* The inductive invariant of the browser: the promise of a refresh is there as
\* long as somebody waits for it, and no longer than its owner does (api.ts:54-56,
\* 92-121).
THEOREM FrontendInvariance == Spec => []IInv
BY InitInv, StepInv, PTL DEF Spec

\* Every variable keeps its type, and a refresh is under way exactly in the tabs
\* that wait for it.
THEOREM TypeCorrectness == Spec => []TypeOK
<1>1. IInv => TypeOK
  BY DEF IInv
<1> QED
  BY <1>1, FrontendInvariance, PTL

\* Nobody waits for a refresh that is over.
THEOREM RefreshesAreShared == Spec => [](Owned /\ NobodyForgotten)
<1>1. IInv => Owned /\ NobodyForgotten
  BY DEF IInv
<1> QED
  BY <1>1, FrontendInvariance, PTL

-----------------------------------------------------------------------------
(* The calls that nothing has come in between of: what their tab, their token and *)
(* the cookie are at every step until they end.                                   *)

\* Which calls wait, are denied and are repeated.
Kinds ==
  \A q \in Calls :
    /\ pc[q] = "waiting" => call[q].fun \in {"login", "logout"}
    /\ pc[q] \in {"denied", "refreshing", "refused"} => q \in Authenticated
    /\ pc[q] \in {"waiting", "refreshing"} => call[q].attempt = 1
    /\ q \in Made({"login", "logout"}) => call[q].attempt = 1

\* A call that may yet bring its own token, by a login or by a refresh.
Pending(q) == pc[q] \notin Ended \cup {"refused"} /\ (call[q] # None => call[q].attempt = 1)

\* The server has issued the token of the call, and the tab has yet to read it.
Served(q) ==
  \/ pc[q] \in {"accepted", "reading"} /\ call[q].fun = "login"
  \/ refresh[q] # None /\ refresh[q].stage \in {"accepted", "reading"}

\* The token of a pending call is in use nowhere, and issued if the call is served.
Fresh ==
  \A q \in Calls : Pending(q) =>
    /\ q \notin expired /\ \A t \in Tabs : accessToken[t] # q
    /\ Served(q) <=> session[q] # None

Known(s) == s # None => session[s] # None

\* The browser holds and sends only what the server has issued.
Issued ==
  /\ Known(jar)
  /\ \A t \in Tabs : Known(accessToken[t])
  /\ \A q \in Calls : /\ call[q] # None => Known(call[q].token)
                      /\ refresh[q] # None => Known(refresh[q].cookie)

\* A login has one live token at most.
OneLive ==
  /\ \A s \in Tokens : session[s] # None => session[session[s].origin] # None
  /\ \A s, u \in Live : session[s].origin = session[u].origin => s = u

\* No call is of a generation that is yet to come.
Generations == \A q \in Open : call[q].generation <= sessionGeneration[call[q].tab]

\* Who was denied had a token that is no longer good.
Denials == \A q \in Calls : pc[q] = "denied" => call[q].token \notin Live \ expired

\* A request that was given up is one of a call that waits for its answer no longer, and
\* what it would issue has not been issued.
GivenUp ==
  \A q \in Calls :
    /\ q \in lateCall =>
         call[q] # None /\ ~Pending(q) /\ (call[q].fun = "login" => session[q] = None)
    /\ lateRefresh[q] # None => q \in Authenticated /\ ~Pending(q) /\ session[q] = None

Base == IInv /\ Kinds /\ Fresh /\ Issued /\ OneLive /\ Generations /\ Denials /\ GivenUp

\* Nobody else changes the session, and no other tab refreshes.
Alone(q) ==
  /\ call[q] # None /\ Open \cap Changing \subseteq {q}
  /\ \A u \in Tabs \ {call[q].tab} : refreshInFlight[u] = None

\* The cookie is good, and so is the one that a refresh brings, be it stale or not.
Fit(t) ==
  LET r == refreshInFlight[t] IN
  IF r = None THEN jar \in Live
  ELSE /\ jar = (IF refresh[r].stage = "reading" THEN r ELSE refresh[r].cookie)
       /\ (IF refresh[r].stage = "sent" THEN jar ELSE r) \in Live

\* The tab has a token that will be accepted.
Good(t) == accessToken[t] \in Live \ expired /\ refreshInFlight[t] = None

\* A call that will not be rejected: it has the token of its tab and may yet ask for
\* another, or the tab has got a good one and the call will have it, or has it.
Kept(q) ==
  LET t == call[q].tab IN
  /\ Current(q) /\ pc[q] \in {"sent", "denied", "refreshing"}
  /\ \/ call[q].attempt = 1 /\ call[q].token = accessToken[t]
     \/ Good(t) /\ call[q].attempt = 1
     \/ Good(t) /\ pc[q] = "sent" /\ call[q].token = accessToken[t]

\* An undisturbed call with a token.
CallKept(q) ==
  pc[q] \in {"accepted", "done"} \/ (Healthy(call[q].tab) /\ Kept(q))

\* A call that has the token of its tab and has yet to ask for another.
Asks(a) ==
  pc[a] \in {"sent", "denied"} /\ call[a].attempt = 1 /\ call[a].token = accessToken[call[a].tab]

\* A call that the login q has nothing to fear from: it will not be rejected once the login
\* has ended, nor is it while the answer to the login is read.
Safe(q, a) ==
  \/ pc[a] = "accepted"
  \/ pc[q] = "reading" /\ Asks(a)
  \/ pc[q] = "done" /\ Kept(a)

\* An undisturbed login.  The calls that are about the session of the tab are safe as soon
\* as the login has changed it.
LoginKept(q) ==
  LET t == call[q].tab IN
  /\ pc[q] \in {"waiting", "sent", "accepted", "reading", "done"}
  /\ pc[q] \in {"sent", "accepted", "reading"} => refreshInFlight[t] = None
  /\ pc[q] \in {"accepted", "reading"} => q \in Live
  /\ pc[q] = "reading" => jar = q
  /\ pc[q] = "done" => accessToken[t] # None /\ Healthy(t)
  /\ pc[q] \in {"reading", "done"} =>
       \A a \in (Open \cap Of(t)) \ {q} : Current(a) => Safe(q, a)

\* The login that the token continues has ended.
Gone(s) == s \in Tokens /\ \A u \in Live : session[u].origin # session[s].origin

\* An undisturbed logout.  It goes out with the good cookie of its tab; a refresh that
\* starts when it has ended has no cookie.
LogoutKept(q) ==
  LET t == call[q].tab IN
  /\ pc[q] \in {"waiting", "sent", "accepted", "done"}
  /\ pc[q] = "waiting" => Fit(t)
  /\ pc[q] \in {"sent", "accepted"} => refreshInFlight[t] = None
  /\ pc[q] = "sent" => jar = call[q].token /\ jar \in Live
  /\ pc[q] \in {"accepted", "done"} => Gone(call[q].token)
  /\ pc[q] = "done" =>
       /\ jar = None /\ accessToken[t] = None
       /\ refreshInFlight[t] # None =>
            /\ refresh[refreshInFlight[t]].cookie = None
            /\ refresh[refreshInFlight[t]].stage \in {"sent", "denied"}

Promise(q) ==
  /\ Alone(q)
  /\ q \in Authenticated => CallKept(q)
  /\ q \in Made({"login"}) => LoginKept(q)
  /\ q \in Made({"logout"}) => LogoutKept(q)

Undisturbed == \A q \in undisturbed : Promise(q)

-----------------------------------------------------------------------------
(* What the steps do to one call, one tab or one session. *)

\* A step of a call that has started keeps what it was given, and what has ended has.
Moves ==
  \A q \in Calls :
    /\ call'[q] = None <=> call[q] = None
    /\ call[q] # None =>
         /\ call'[q].fun = call[q].fun /\ call'[q].tab = call[q].tab
         /\ call'[q].generation = call[q].generation
    /\ Open' \subseteq Open
    /\ Pending(q)' => Pending(q)

\* A token once issued stays issued, to its login, and if it is dead it stays dead.
Grows ==
  \A s \in Tokens : session[s] # None =>
    /\ session'[s] # None /\ session'[s].origin = session[s].origin
    /\ s \in Live' => s \in Live

\* The steps of a call of the tabs, of a refresh, and the others.
LEMMA NextCases ==
  ASSUME [Next]_vars
  PROVE  \/ \E q \in Calls, t \in Tabs, fun \in Functions : Start(q, t, fun)
         \/ \E q \in Calls :
              ServeCall(q) \/ Succeed(q) \/ Reuse(q) \/ Reject(q) \/ refreshSession(q)
                \/ ArriveLogin(q) \/ ReadLogin(q) \/ ArriveLogout(q) \/ LoseCall(q)
         \/ \E r \in Calls : ServeRefresh(r) \/ ArriveRefresh(r) \/ ReadRefresh(r) \/ LoseRefresh(r)
         \/ \E q \in Calls : ServeLateCall(q) \/ ServeLateRefresh(q)
         \/ \E t \in Tabs : Reload(t)
         \/ \E s \in Tokens : Expire(s) \/ EndElsewhere(s)
         \/ UNCHANGED vars
BY TokensAssumption DEF Next, Handle, Rest

\* A call starts.
LEMMA StartEffect ==
  ASSUME IInv, NEW q \in Calls, NEW t \in Tabs, NEW fun \in Functions, Start(q, t, fun)
  PROVE  /\ pc[q] = "idle" /\ call[q] = None
         /\ \A a \in Calls \ {q} : pc'[a] = pc[a] /\ call'[a] = call[a]
         /\ pc'[q] = (IF MustWait(t, fun) THEN "waiting" ELSE "sent")
         /\ call'[q] \in Call /\ call'[q].fun = fun /\ call'[q].tab = t
         /\ call'[q].token = Bearer(t, fun) /\ call'[q].generation = sessionGeneration[t]
         /\ call'[q].attempt = 1
<1> DEFINE c == [fun |-> fun, tab |-> t, token |-> Bearer(t, fun),
                 generation |-> sessionGeneration[t], attempt |-> 1]
<1>1. /\ \A a \in Calls \ {q} : pc'[a] = pc[a] /\ call'[a] = call[a]
      /\ pc'[q] = (IF MustWait(t, fun) THEN "waiting" ELSE "sent") /\ call'[q] = c
      /\ pc[q] = "idle" /\ call[q] = None
  BY DEF Start, Goto, IInv, TypeOK, Started
<1>2. /\ c \in Call /\ c.fun = fun /\ c.tab = t /\ c.token = Bearer(t, fun)
      /\ c.generation = sessionGeneration[t] /\ c.attempt = 1
  BY DEF IInv, TypeOK, Call, Bearer
<1> HIDE DEF c
<1> QED
  BY <1>1, <1>2

\* The step of one call that is not about a refresh.
LEMMA OneMoves ==
  ASSUME IInv, NEW q \in Calls,
         ServeCall(q) \/ Succeed(q) \/ Reuse(q) \/ Reject(q) \/ refreshSession(q)
           \/ ArriveLogin(q) \/ ReadLogin(q) \/ ArriveLogout(q) \/ LoseCall(q)
  PROVE  /\ \A a \in Calls \ {q} : pc'[a] = pc[a] /\ call'[a] = call[a]
         /\ pc[q] \notin Ended \cup {"idle", "waiting", "refreshing"} /\ pc'[q] \notin {"idle", "waiting"}
         /\ call[q] \in Call /\ call[q].tab \in Tabs
         /\ \/ call'[q] = call[q]
            \/ /\ Reuse(q) /\ accessToken[call[q].tab] # None
               /\ call'[q] \in Call /\ call'[q].token = accessToken[call[q].tab]
               /\ call'[q].attempt = 2 /\ call'[q].fun = call[q].fun
               /\ call'[q].tab = call[q].tab /\ call'[q].generation = call[q].generation
<1>1. /\ pc[q] \in {"sent", "accepted", "denied", "refused", "reading"}
      /\ call[q] # None /\ call[q] \in Call /\ call[q].tab \in Tabs
  BY Records DEF ServeCall, Succeed, Reuse, Reject, refreshSession, Retries, ArriveLogin,
     ReadLogin, ArriveLogout, LoseCall, IInv, Started
<1>2. \E label \in {"sent", "accepted", "denied", "refused", "refreshing", "reading"} \cup Ended :
        pc' = [pc EXCEPT ![q] = label]
  BY DEF ServeCall, Succeed, Reuse, Reject, refreshSession, ArriveLogin,
     ReadLogin, ArriveLogout, LoseCall, Goto, Ended
<1>3. /\ \A a \in Calls \ {q} : pc'[a] = pc[a]
      /\ pc'[q] \notin {"idle", "waiting"}
  BY <1>2 DEF IInv, TypeOK, Ended
<1> DEFINE s == accessToken[call[q].tab]
           c == [call[q] EXCEPT !.token = s, !.attempt = 2]
<1>4. \/ call' = call
      \/ Reuse(q) /\ s # None /\ call' = [call EXCEPT ![q] = c]
  BY DEF ServeCall, Succeed, Reuse, Reject, refreshSession, ArriveLogin,
     ReadLogin, ArriveLogout, LoseCall, IInv, TypeOK
<1>5. s \in Tokens \cup {None}
  BY <1>1 DEF IInv, TypeOK
<1>6. /\ c \in Call /\ c.token = s /\ c.attempt = 2 /\ c.fun = call[q].fun
      /\ c.tab = call[q].tab /\ c.generation = call[q].generation
  BY <1>1, <1>5 DEF Call
<1> HIDE DEF c
<1>7. \A a \in Calls \ {q} : call'[a] = call[a]
  BY <1>4 DEF IInv, TypeOK
<1>8. call'[q] = call[q] \/ (Reuse(q) /\ s # None /\ call'[q] = c)
  BY <1>4 DEF IInv, TypeOK
<1> QED
  BY <1>1, <1>3, <1>6, <1>7, <1>8 DEF Ended

\* The end of a refresh, or the beginning of its body.
LEMMA EndsOrReads ==
  ASSUME IInv, NEW r \in Calls, ArriveRefresh(r) \/ ReadRefresh(r) \/ LoseRefresh(r)
  PROVE  /\ refresh[r] # None
         /\ \/ /\ \/ ArriveRefresh(r) /\ (Stale(r) \/ refresh[r].stage = "denied") /\ Settle(r, jar', None)
                  \/ ReadRefresh(r) /\ Settle(r, jar, r)
                  \/ LoseRefresh(r) /\ Settle(r, jar, None)
               /\ \E cookie \in Tokens \cup {None}, token \in Tokens \cup {None} :
                    Settle(r, cookie, token)
            \/ /\ ArriveRefresh(r) /\ ~Stale(r) /\ refresh[r].stage = "accepted"
               /\ refresh' = [refresh EXCEPT ![r].stage = "reading"]
               /\ UNCHANGED <<refreshInFlight, call, pc, accessToken, sessionGeneration, undisturbed>>
<1>1. jar \in Tokens \cup {None} /\ r \in Tokens \cup {None} /\ None \in Tokens \cup {None}
  BY DEF IInv, TypeOK, Tokens
<1>2. CASE ReadRefresh(r)
  BY <1>1, <1>2 DEF ReadRefresh
<1>3. CASE LoseRefresh(r)
  BY <1>1, <1>3 DEF LoseRefresh
<1>4. CASE ArriveRefresh(r)
  <2>1. jar' \in Tokens \cup {None} /\ jar' = IF refresh[r].stage = "accepted" THEN r ELSE jar
    BY <1>1, <1>4 DEF ArriveRefresh
  <2> QED
    BY <1>1, <1>4, <2>1 DEF ArriveRefresh
<1> QED
  BY <1>2, <1>3, <1>4

\* All steps but the start of a call.
LEMMA StepMoves ==
  ASSUME IInv, Kinds, [Next]_vars,
         \A q \in Calls, t \in Tabs, fun \in Functions : ~Start(q, t, fun)
  PROVE  Moves
<1>1. ASSUME NEW q \in Calls,
         ServeCall(q) \/ Succeed(q) \/ Reuse(q) \/ Reject(q) \/ refreshSession(q)
           \/ ArriveLogin(q) \/ ReadLogin(q) \/ ArriveLogout(q) \/ LoseCall(q)
      PROVE  Moves
  <2>1. pc[q] = "refused" => pc'[q] \in Ended
    BY <1>1 DEF ServeCall, Succeed, Reuse, Reject, refreshSession, Retries, ArriveLogin,
       ReadLogin, ArriveLogout, LoseCall, Goto, IInv, TypeOK, Ended
  <2> QED
    BY <1>1, <2>1, OneMoves, NoRecordAssumption DEF Moves, Pending, Open
<1>2. ASSUME NEW r \in Calls, ArriveRefresh(r) \/ ReadRefresh(r) \/ LoseRefresh(r)
      PROVE  Moves
  <2>1. CASE UNCHANGED <<call, pc>>
    BY <2>1 DEF Moves, Pending, Open
  <2>2. ASSUME NEW cookie \in Tokens \cup {None}, NEW token \in Tokens \cup {None},
               Settle(r, cookie, token)
        PROVE  Moves
    <3>1. refresh[r] # None
      BY <1>2, EndsOrReads
    <3>2. \A q \in Calls : q \in Waiters(r) => /\ call[q] # None /\ call'[q] # None
                                               /\ call[q].attempt = 1
      BY <2>2, <3>1, SettleEffect, NoRecordAssumption DEF Kinds
    <3> QED
      BY <2>2, <3>1, <3>2, SettleEffect DEF Moves, Pending, Open, Ended
  <2> QED
    BY <1>2, <2>1, <2>2, EndsOrReads
<1>3. ASSUME NEW t \in Tabs, Reload(t) PROVE Moves
  BY <1>3 DEF Reload, Moves, Pending, Open, Ended
<1>4. CASE UNCHANGED <<call, pc>>
  BY <1>4 DEF Moves, Pending, Open
<1>5. ASSUME NEW s \in Tokens, Expire(s) \/ EndElsewhere(s) PROVE UNCHANGED <<call, pc>>
  BY <1>5 DEF Expire, EndElsewhere
<1>6. ASSUME NEW q \in Calls, ServeRefresh(q) \/ ServeLateCall(q) \/ ServeLateRefresh(q)
      PROVE  UNCHANGED <<call, pc>>
  BY <1>6 DEF ServeRefresh, ServeLateCall, ServeLateRefresh
<1> QED
  BY <1>1, <1>2, <1>3, <1>4, <1>5, <1>6, TokensAssumption DEF Next, Handle, Rest, vars

-----------------------------------------------------------------------------
(* Sessions. *)

\* The sessions of S end.
LEMMA EndEffect ==
  ASSUME IInv, NEW S \in SUBSET Live, End(S)
  PROVE  \A s \in Tokens :
           /\ s \notin S => session'[s] = session[s]
           /\ session[s] # None <=> session'[s] # None
           /\ s \in S => session'[s].live = FALSE /\ session'[s].origin = session[s].origin
           /\ s \in Live' <=> s \in Live \ S
<1>1. \A s \in S : session[s] \in Session /\ session[s] # None
  BY DEF IInv, TypeOK, Live
<1>2. \A s \in S : /\ [session[s] EXCEPT !.live = FALSE] \in Session
                   /\ [session[s] EXCEPT !.live = FALSE].live = FALSE
                   /\ [session[s] EXCEPT !.live = FALSE].origin = session[s].origin
  BY <1>1 DEF Session
<1>3. \A s \in Tokens : session'[s] = IF s \in S THEN [session[s] EXCEPT !.live = FALSE]
                                      ELSE session[s]
  BY DEF End
<1>4. \A s \in Tokens : /\ s \notin S => session'[s] = session[s]
                        /\ s \in S => session'[s] \in Session /\ session'[s].live = FALSE
                                      /\ session'[s].origin = session[s].origin
  BY <1>2, <1>3
<1> QED
  BY <1>1, <1>4, NoRecordAssumption DEF Live

\* A refresh that is under way belongs to a call that waits for it.
LEMMA Owner ==
  ASSUME IInv, NEW q \in Calls, refresh[q] # None
  PROVE  /\ pc[q] = "refreshing" /\ call[q] # None /\ call[q] \in Call /\ call[q].tab \in Tabs
         /\ refreshInFlight[call[q].tab] = q
BY Records, TokensAssumption DEF IInv, TypeOK, Owned

\* A login gets a token of its own.
SignsIn(q) ==
  /\ session[q] = None /\ Live' = Live \cup {q}
  /\ session'[q] # None /\ session'[q].origin = q
  /\ \A s \in Tokens \ {q} : session'[s] = session[s]

\* The token r takes the place of c and continues its login.
Rotates(c, r) ==
  /\ session[r] = None /\ Live' = (Live \ {c}) \cup {r}
  /\ session'[r] # None /\ session'[r].origin = session[c].origin
  /\ \A s \in Tokens \ {r} : /\ session'[s] # None <=> session[s] # None
                             /\ session[s] # None => session'[s].origin = session[s].origin

\* What the request of a call does to the sessions.
LEMMA CallEffectIs ==
  ASSUME IInv, NEW q \in Calls, call[q].fun = "login" => session[q] = None, CallEffect(q)
  PROVE  \/ call[q].fun = "login" /\ SignsIn(q)
         \/ call[q].fun = "logout" /\ End(Live \cap {call[q].token})
         \/ q \in Authenticated /\ End(IF call[q].fun = "logoutAll" /\ Accepted(q) THEN Live ELSE {})
<1>1. CASE /\ call[q].fun = "login"
           /\ session' = [session EXCEPT ![q] = [live |-> TRUE, origin |-> q]]
  <2>1. /\ q \in Tokens /\ [live |-> TRUE, origin |-> q] \in Session
        /\ [live |-> TRUE, origin |-> q].live = TRUE /\ [live |-> TRUE, origin |-> q].origin = q
    BY DEF Tokens, Session
  <2>2. /\ session'[q] = [live |-> TRUE, origin |-> q]
        /\ \A s \in Tokens \ {q} : session'[s] = session[s]
    BY <1>1, <2>1 DEF IInv, TypeOK
  <2>3. session'[q] # None /\ session'[q].live = TRUE /\ session'[q].origin = q
    BY <2>1, <2>2, NoRecordAssumption
  <2>4. Live' = Live \cup {q}
    BY <2>1, <2>2, <2>3 DEF Live
  <2> QED
    BY <1>1, <2>2, <2>3, <2>4 DEF SignsIn
<1> QED
  BY <1>1 DEF CallEffect

\* What a refresh with the cookie c does to the sessions: its token continues the login
\* of the cookie, or the cookie is no longer good.
LEMMA RefreshEffectIs ==
  ASSUME IInv, NEW r \in Calls, session[r] = None, NEW c \in Tokens \cup {None}, RefreshEffect(r, c)
  PROVE  \/ c \in Live /\ Rotates(c, r)
         \/ c \notin Live /\ End(IF c = None THEN {} ELSE Live)
<1>1. CASE /\ c \in Live
           /\ session' = [session EXCEPT ![c].live = FALSE,
                            ![r] = [live |-> TRUE, origin |-> session[c].origin]]
  <2>1. session[c] \in Session /\ session[c] # None /\ c # r /\ r \in Tokens
    BY <1>1 DEF IInv, TypeOK, Live, Tokens
  <2>2. /\ [session[c] EXCEPT !.live = FALSE] \in Session
        /\ [session[c] EXCEPT !.live = FALSE].live = FALSE
        /\ [session[c] EXCEPT !.live = FALSE].origin = session[c].origin
        /\ [live |-> TRUE, origin |-> session[c].origin] \in Session
        /\ [live |-> TRUE, origin |-> session[c].origin].live = TRUE
        /\ [live |-> TRUE, origin |-> session[c].origin].origin = session[c].origin
    BY <2>1 DEF Session
  <2>3. \A s \in Tokens : session'[s] =
          IF s = r THEN [live |-> TRUE, origin |-> session[c].origin]
          ELSE IF s = c THEN [session[c] EXCEPT !.live = FALSE] ELSE session[s]
    BY <1>1, <2>1 DEF IInv, TypeOK, Live
  <2>4. session'[r] # None /\ session'[r].live = TRUE /\ session'[r].origin = session[c].origin
    <3>1. session'[r] = [live |-> TRUE, origin |-> session[c].origin]
      BY <2>1, <2>3
    <3> QED
      BY <2>2, <3>1, NoRecordAssumption
  <2>5. session'[c] # None /\ session'[c].live = FALSE /\ session'[c].origin = session[c].origin
    BY <1>1, <2>1, <2>2, <2>3, NoRecordAssumption DEF Live
  <2>6. \A s \in Tokens \ {r, c} : session'[s] = session[s]
    BY <2>3
  <2>7. Live' = (Live \ {c}) \cup {r}
    BY <2>1, <2>4, <2>5, <2>6 DEF Live
  <2>8. \A s \in Tokens \ {r} : /\ session'[s] # None <=> session[s] # None
                                /\ session[s] # None => session'[s].origin = session[s].origin
    BY <2>1, <2>5, <2>6
  <2> QED
    BY <1>1, <2>4, <2>7, <2>8 DEF Rotates
<1> QED
  BY <1>1 DEF RefreshEffect, GoodCookie

\* A step that answers a refresh.
LEMMA ServeRefreshEffect ==
  ASSUME IInv, Fresh, Kinds, NEW r \in Calls, ServeRefresh(r)
  PROVE  /\ refresh[r].stage = "sent" /\ refresh[r] \in Refresh /\ Pending(r) /\ session[r] = None
         /\ \A q \in Calls \ {r} : refresh'[q] = refresh[q]
         /\ refresh'[r] # None /\ refresh'[r].cookie = refresh[r].cookie
         /\ refresh'[r].generation = refresh[r].generation
         /\ \/ /\ refresh[r].cookie \in Live /\ refresh'[r].stage = "accepted"
               /\ Rotates(refresh[r].cookie, r)
            \/ /\ refresh[r].cookie \notin Live /\ refresh'[r].stage = "denied"
               /\ End(IF refresh[r].cookie = None THEN {} ELSE Live)
<1> DEFINE c == refresh[r].cookie
<1>1. /\ refresh[r] \in Refresh /\ refresh[r] # None /\ refresh[r].stage = "sent"
      /\ c \in Tokens \cup {None} /\ RefreshEffect(r, c) /\ UNCHANGED <<pc, call>>
  BY Records DEF ServeRefresh, IInv, Refresh
<1>2. PICK label \in {"accepted", "denied"} :
        /\ refresh' = [refresh EXCEPT ![r].stage = label]
        /\ label = IF c \in Live THEN "accepted" ELSE "denied"
  BY DEF ServeRefresh, GoodCookie
<1>3. /\ \A q \in Calls \ {r} : refresh'[q] = refresh[q]
      /\ refresh'[r] \in Refresh /\ refresh'[r].cookie = c /\ refresh'[r].stage = label
      /\ refresh'[r].generation = refresh[r].generation
  <2>1. /\ [refresh[r] EXCEPT !.stage = label] \in Refresh
        /\ [refresh[r] EXCEPT !.stage = label].cookie = c
        /\ [refresh[r] EXCEPT !.stage = label].stage = label
        /\ [refresh[r] EXCEPT !.stage = label].generation = refresh[r].generation
    BY <1>1 DEF Refresh
  <2>2. /\ refresh'[r] = [refresh[r] EXCEPT !.stage = label]
        /\ \A q \in Calls \ {r} : refresh'[q] = refresh[q]
    BY <1>2 DEF IInv, TypeOK
  <2> HIDE DEF c
  <2> QED
    BY <2>1, <2>2
<1>4. Pending(r) /\ session[r] = None
  BY <1>1, Owner DEF Fresh, Pending, Served, Kinds, Ended
<1>5. \/ c \in Live /\ Rotates(c, r)
      \/ c \notin Live /\ End(IF c = None THEN {} ELSE Live)
  BY <1>1, <1>4, RefreshEffectIs
<1> QED
  BY <1>1, <1>2, <1>3, <1>4, <1>5, NoRecordAssumption

\* A login that waits for its answer at the server has no token yet.
LEMMA SentLogin ==
  ASSUME IInv, Fresh, Kinds, NEW q \in Calls, pc[q] = "sent", call[q].fun = "login"
  PROVE  Pending(q) /\ session[q] = None
<1>1. call[q] # None /\ refresh[q] = None /\ call[q].attempt = 1
  BY Owner DEF IInv, Started, Kinds, Made
<1> QED
  BY <1>1 DEF Fresh, Pending, Served, Ended

\* What a call that is served does to the sessions.
LEMMA ServeCallEffect ==
  ASSUME IInv, Fresh, Kinds, NEW q \in Calls, ServeCall(q)
  PROVE  \/ call[q].fun = "login" /\ SignsIn(q) /\ Pending(q) /\ pc'[q] = "accepted"
         \/ call[q].fun = "logout" /\ End(Live \cap {call[q].token}) /\ pc'[q] = "accepted"
         \/ /\ q \in Authenticated
            /\ pc'[q] = (IF Accepted(q) THEN "accepted" ELSE "denied")
            /\ End(IF call[q].fun = "logoutAll" /\ Accepted(q) THEN Live ELSE {})
<1>1. /\ pc[q] = "sent" /\ call[q] # None /\ CallEffect(q)
      /\ call[q].fun \in {"login", "logout"} => q \notin Authenticated
  BY DEF ServeCall, IInv, Started, Authenticated, Made
<1>2. pc'[q] = IF q \in Authenticated /\ ~Accepted(q) THEN "denied" ELSE "accepted"
  BY DEF ServeCall, Goto, IInv, TypeOK
<1>3. call[q].fun = "login" => Pending(q) /\ session[q] = None
  BY <1>1, SentLogin
<1> QED
  BY <1>1, <1>2, <1>3, CallEffectIs

\* What a request that was given up does to the sessions.
LEMMA LateEffect ==
  ASSUME Base, NEW q \in Calls, ServeLateCall(q) \/ ServeLateRefresh(q)
  PROVE  /\ ~Pending(q)
         /\ \/ ServeLateCall(q) /\ call[q].fun = "login" /\ SignsIn(q)
            \/ ServeLateRefresh(q) /\ \E c \in Live : Rotates(c, q)
            \/ \E S \in SUBSET Live : End(S)
<1>1. \A c : Live \cap {c} \in SUBSET Live /\ Live \in SUBSET Live /\ {} \in SUBSET Live
  OBVIOUS
<1>2. CASE ServeLateCall(q)
  BY <1>1, <1>2, CallEffectIs DEF ServeLateCall, Base, GivenUp
<1>3. CASE ServeLateRefresh(q)
  <2>1. /\ ~Pending(q) /\ session[q] = None
        /\ lateRefresh[q] \in Tokens \cup {None} /\ RefreshEffect(q, lateRefresh[q])
    BY <1>3 DEF ServeLateRefresh, Base, GivenUp, IInv, TypeOK
  <2> QED
    BY <1>1, <1>3, <2>1, RefreshEffectIs DEF Base
<1> QED
  BY <1>2, <1>3

\* What steps do to the sessions, and who has got a token of his own by them.
LEMMA SessionsTouched ==
  ASSUME Base, [Next]_vars
  PROVE  \/ UNCHANGED session
         \/ \E q \in Calls : /\ (ServeCall(q) /\ Pending(q)) \/ ServeLateCall(q)
                             /\ call[q].fun = "login" /\ SignsIn(q)
         \/ \E r \in Calls : /\ (ServeRefresh(r) /\ Pending(r)) \/ ServeLateRefresh(r)
                             /\ \E c \in Live : Rotates(c, r)
         \/ \E S \in SUBSET Live : End(S)
<1>0. /\ IInv /\ Fresh /\ Kinds
      /\ \A c : Live \cap {c} \in SUBSET Live /\ Live \in SUBSET Live /\ {} \in SUBSET Live
  BY DEF Base
<1>1. ASSUME NEW s \in Tokens, EndElsewhere(s) PROVE \E S \in SUBSET Live : End(S)
  <2>1. {s} \in SUBSET Live /\ Live \in SUBSET Live
    BY <1>1 DEF EndElsewhere
  <2> QED
    BY <1>1, <2>1 DEF EndElsewhere
<1>2. ASSUME NEW q \in Calls, ServeCall(q)
      PROVE  \/ call[q].fun = "login" /\ SignsIn(q) /\ Pending(q)
             \/ \E S \in SUBSET Live : End(S)
  BY <1>0, <1>2, ServeCallEffect
<1>3. ASSUME NEW r \in Calls, ServeRefresh(r)
      PROVE  \/ Pending(r) /\ \E c \in Live : Rotates(c, r)
             \/ \E S \in SUBSET Live : End(S)
  BY <1>0, <1>3, ServeRefreshEffect
<1>4. \/ UNCHANGED session
      \/ \E q \in Calls : ServeCall(q) \/ ServeRefresh(q) \/ ServeLateCall(q) \/ ServeLateRefresh(q)
      \/ \E s \in Tokens : EndElsewhere(s)
  <2>1. ASSUME NEW q \in Calls,
               Succeed(q) \/ Reuse(q) \/ Reject(q) \/ refreshSession(q)
                 \/ ArriveLogin(q) \/ ReadLogin(q) \/ ArriveLogout(q) \/ LoseCall(q)
        PROVE  UNCHANGED session
    BY <2>1 DEF Succeed, Reuse, refreshSession, Reject, ArriveLogin, ReadLogin, ArriveLogout,
       LoseCall, server
  <2>2. ASSUME \/ \E r \in Calls : ArriveRefresh(r) \/ ReadRefresh(r) \/ LoseRefresh(r)
               \/ \E q \in Calls, t \in Tabs, fun \in Functions : Start(q, t, fun)
               \/ \E t \in Tabs : Reload(t)
               \/ \E s \in Tokens : Expire(s)
               \/ UNCHANGED vars
        PROVE  UNCHANGED session
    BY <2>2 DEF ArriveRefresh, ReadRefresh, LoseRefresh, Start, Reload, Expire, vars, server
  <2> QED
    BY <2>1, <2>2, NextCases
<1> QED
  BY <1>1, <1>2, <1>3, <1>4, LateEffect

\* What the server has issued stays so, and a login has one live token at most: a refresh
\* ends the token whose login it continues.
LEMMA StepGrows ==
  ASSUME Base, [Next]_vars
  PROVE  Grows /\ OneLive'
<1>0. IInv /\ OneLive
  BY DEF Base
<1>1. CASE UNCHANGED session
  BY <1>0, <1>1 DEF Grows, OneLive, Live
<1>2. ASSUME NEW S \in SUBSET Live, End(S) PROVE Grows /\ OneLive'
  <2>1. \A s \in Tokens : session[s] # None => session[s].origin \in Tokens
    BY <1>0 DEF IInv, TypeOK, Session
  <2>2. \A s \in Tokens : /\ session[s] # None <=> session'[s] # None
                          /\ session[s] # None => session'[s].origin = session[s].origin
                          /\ s \in Live' => s \in Live /\ session[s] # None
    BY <1>0, <1>2, EndEffect DEF Live
  <2>3. \A s \in Live' : s \in Tokens
    BY DEF Live
  <2> QED
    BY <1>0, <2>1, <2>2, <2>3 DEF Grows, OneLive
<1>3. ASSUME NEW q \in Calls, SignsIn(q) PROVE Grows /\ OneLive'
  <2>1. \A s \in Tokens : session[s] # None => session[s].origin \in Tokens \ {q}
    BY <1>0, <1>3 DEF IInv, TypeOK, Session, OneLive, SignsIn
  <2>2. q \in Tokens /\ Live \subseteq Tokens \ {q} /\ \A s \in Live : session[s] # None
    BY <1>3 DEF Live, Tokens, SignsIn
  <2>3. Grows
    BY <1>3, <2>1, <2>2 DEF Grows, SignsIn
  <2>4. OneLive'
    BY <1>0, <1>3, <2>1, <2>2 DEF OneLive, SignsIn
  <2> QED
    BY <2>3, <2>4
<1>4. ASSUME NEW r \in Calls, NEW c \in Live, Rotates(c, r) PROVE Grows /\ OneLive'
  <2>1. \A s \in Tokens : session[s] # None => session[s].origin \in Tokens \ {r}
    BY <1>0, <1>4 DEF IInv, TypeOK, Session, OneLive, Rotates
  <2>2. r \in Tokens /\ Live \subseteq Tokens \ {r} /\ \A s \in Live : session[s] # None
    BY <1>4 DEF Live, Tokens, Rotates
  <2>3. Grows
    BY <1>4, <2>1, <2>2 DEF Grows, Rotates
  <2>4. OneLive'
    BY <1>0, <1>4, <2>1, <2>2 DEF OneLive, Rotates
  <2> QED
    BY <2>3, <2>4
<1> QED
  BY <1>1, <1>2, <1>3, <1>4, SessionsTouched

-----------------------------------------------------------------------------
(* The basis: the simple invariants. *)

\* Sign-ins and sign-outs alone wait to be sent, and calls with a token alone are repeated.
LEMMA KindsKept ==
  ASSUME Base, [Next]_vars
  PROVE  Kinds'
<1>0. IInv /\ Kinds
  BY DEF Base
<1>1. ASSUME NEW q \in Calls, NEW t \in Tabs, NEW fun \in Functions, Start(q, t, fun)
      PROVE  Kinds'
  BY <1>0, <1>1, StartEffect, NoRecordAssumption DEF Kinds, Authenticated, Made, MustWait
<1>2. ASSUME NEW q \in Calls,
         ServeCall(q) \/ Succeed(q) \/ Reuse(q) \/ Reject(q) \/ refreshSession(q)
           \/ ArriveLogin(q) \/ ReadLogin(q) \/ ArriveLogout(q) \/ LoseCall(q)
      PROVE  Kinds'
  <2>1. /\ pc'[q] \in {"denied", "refreshing", "refused"} => q \in Authenticated
        /\ pc'[q] = "refreshing" => call[q].attempt = 1 /\ call'[q] = call[q]
        /\ Reuse(q) => q \in Authenticated
    BY <1>0, <1>2 DEF ServeCall, Succeed, Reuse, Reject, refreshSession, Retries, ArriveLogin,
       ReadLogin, ArriveLogout, LoseCall, Goto, IInv, TypeOK, Ended, Kinds
  <2>2. \A a \in Calls : /\ call[a] # None <=> call'[a] # None
                         /\ call'[a].fun = call[a].fun
                         /\ ~Reuse(q) => call'[a] = call[a]
    BY <1>0, <1>2, OneMoves, NoRecordAssumption
  <2> QED
    BY <1>0, <1>2, <2>1, <2>2, OneMoves DEF Kinds, Authenticated, Made
<1>3. ASSUME NEW r \in Calls, ArriveRefresh(r) \/ ReadRefresh(r) \/ LoseRefresh(r)
      PROVE  Kinds'
  <2>1. CASE UNCHANGED <<call, pc>>
    BY <1>0, <2>1 DEF Kinds, Authenticated, Made
  <2>2. ASSUME NEW cookie \in Tokens \cup {None}, NEW token \in Tokens \cup {None},
               Settle(r, cookie, token), refresh[r] # None
        PROVE  Kinds'
    <3>1. \A q \in Waiters(r) : q \in Calls /\ call[q] # None /\ call'[q] # None
      BY <1>0, <2>2, SettleEffect, NoRecordAssumption
    <3> QED
      BY <1>0, <2>2, <3>1, SettleEffect DEF Kinds, Authenticated, Made
  <2> QED
    BY <1>0, <1>3, <2>1, <2>2, EndsOrReads
<1>4. ASSUME NEW t \in Tabs, Reload(t) PROVE Kinds'
  BY <1>0, <1>4 DEF Reload, Kinds, Authenticated, Made
<1>5. CASE UNCHANGED <<call, pc>>
  BY <1>0, <1>5 DEF Kinds, Authenticated, Made
<1>6. ASSUME NEW s \in Tokens, Expire(s) \/ EndElsewhere(s) PROVE UNCHANGED <<call, pc>>
  BY <1>6 DEF Expire, EndElsewhere
<1>7. ASSUME NEW q \in Calls, ServeRefresh(q) \/ ServeLateCall(q) \/ ServeLateRefresh(q)
      PROVE  UNCHANGED <<call, pc>>
  BY <1>7 DEF ServeRefresh, ServeLateCall, ServeLateRefresh
<1> QED
  BY <1>1, <1>2, <1>3, <1>4, <1>5, <1>6, <1>7, TokensAssumption DEF Next, Handle, Rest, vars

\* What sign-ins and sign-outs do to the token and the generation of a tab.
LEMMA ClearEffect ==
  ASSUME IInv, NEW t \in Tabs, clearTokens(t)
  PROVE  /\ accessToken'[t] = None /\ sessionGeneration'[t] = sessionGeneration[t] + 1
         /\ \A u \in Tabs \ {t} : /\ accessToken'[u] = accessToken[u]
                                  /\ sessionGeneration'[u] = sessionGeneration[u]
BY DEF clearTokens, IInv, TypeOK

\* Generations only grow, until a page is loaded anew.
LEMMA GenerationsGrow ==
  ASSUME IInv, [Next]_vars, \A t \in Tabs : ~Reload(t)
  PROVE  \A t \in Tabs : sessionGeneration'[t] >= sessionGeneration[t]
<1>1. \/ UNCHANGED sessionGeneration
      \/ \E t \in Tabs : sessionGeneration' = [sessionGeneration EXCEPT ![t] = @ + 1]
  <2>1. ASSUME NEW q \in Calls,
         ServeCall(q) \/ Succeed(q) \/ Reuse(q) \/ Reject(q) \/ refreshSession(q)
           \/ ArriveLogin(q) \/ ReadLogin(q) \/ ArriveLogout(q) \/ LoseCall(q)
        PROVE  \/ UNCHANGED sessionGeneration
               \/ \E t \in Tabs : sessionGeneration' = [sessionGeneration EXCEPT ![t] = @ + 1]
    <3>1. call[q].tab \in Tabs
      BY <2>1, OneMoves
    <3> QED
      BY <2>1, <3>1 DEF ServeCall, Succeed, Reuse, Reject, refreshSession,
         ArriveLogin, ReadLogin, ArriveLogout, LoseCall, tab, clearTokens
  <2>2. ASSUME NEW q \in Calls, ServeRefresh(q) \/ ArriveRefresh(q) \/ ReadRefresh(q) \/ LoseRefresh(q)
        PROVE  \/ UNCHANGED sessionGeneration
               \/ \E t \in Tabs : sessionGeneration' = [sessionGeneration EXCEPT ![t] = @ + 1]
    <3>1. call[q].tab \in Tabs
      BY <2>2, Owner DEF ServeRefresh, ArriveRefresh, ReadRefresh, LoseRefresh
    <3> QED
      BY <2>2, <3>1 DEF ServeRefresh, ArriveRefresh, ReadRefresh, LoseRefresh, tab, clearTokens
  <2> QED
    BY <2>1, <2>2 DEF Next, Start, Handle, ServeLateCall, ServeLateRefresh, Expire,
       EndElsewhere, Rest, vars, tab
<1> QED
  BY <1>1 DEF IInv, TypeOK

\* A page that is loaded anew counts from zero: its calls are over.
LEMMA GenerationsKept ==
  ASSUME Base, [Next]_vars
  PROVE  Generations'
<1>0. IInv /\ Kinds /\ Generations
  BY DEF Base
<1>a. \A q \in Open : call[q] \in Call /\ call[q].tab \in Tabs /\ call[q].generation \in Nat
  BY <1>0 DEF IInv, TypeOK, Open, Started, Call
<1>1. ASSUME NEW q \in Calls, NEW t \in Tabs, NEW fun \in Functions, Start(q, t, fun)
      PROVE  Generations'
  <2>1. UNCHANGED sessionGeneration
    BY <1>1 DEF Start, tab
  <2>2. sessionGeneration[t] \in Nat
    BY <1>0 DEF IInv, TypeOK
  <2> QED
    BY <1>0, <1>1, <2>1, <2>2, StartEffect DEF Generations, Open
<1>2. CASE \A q \in Calls, t \in Tabs, fun \in Functions : ~Start(q, t, fun)
  <2>1. Moves
    BY <1>0, <1>2, StepMoves
  <2>2. \A q \in Open' : q \in Open /\ call'[q].tab = call[q].tab
                         /\ call'[q].generation = call[q].generation
    <3>1. \A q \in Open' : q \in Calls
      BY DEF Open
    <3> QED
      BY <1>a, <2>1, <3>1, NoRecordAssumption DEF Moves
  <2>3. ASSUME NEW t \in Tabs, Reload(t) PROVE Generations'
    <3>1. \A q \in Open' : call[q].tab # t
      BY <2>2, <2>3, <1>a, NoRecordAssumption DEF Reload, Open, Of, Ended
    <3>2. \A u \in Tabs \ {t} : sessionGeneration'[u] = sessionGeneration[u]
      BY <1>0, <2>3 DEF Reload, IInv, TypeOK
    <3> QED
      BY <1>0, <1>a, <2>2, <3>1, <3>2 DEF Generations
  <2>4. CASE \A t \in Tabs : ~Reload(t)
    <3>1. \A t \in Tabs : /\ sessionGeneration'[t] >= sessionGeneration[t]
                          /\ sessionGeneration[t] \in Nat /\ sessionGeneration'[t] \in Nat
      BY <1>0, <2>4, GenerationsGrow, StepInv DEF IInv, TypeOK
    <3> QED
      BY <1>0, <1>a, <2>2, <3>1 DEF Generations
  <2> QED
    BY <2>3, <2>4
<1> QED
  BY <1>1, <1>2

\* Expired tokens are tokens that have been in use.
LEMMA ExpiredGrows ==
  ASSUME IInv, [Next]_vars
  PROVE  /\ expired \subseteq expired'
         /\ \A s \in expired' \ expired : \E t \in Tabs : accessToken[t] = s
<1>1. (\E s \in Tokens : Expire(s)) \/ UNCHANGED expired
  BY NextCases
  DEF Start, ServeCall, ServeRefresh, Succeed, Reuse, refreshSession, Reject, ArriveRefresh,
      ReadRefresh, LoseRefresh, ArriveLogin, ReadLogin, ArriveLogout, LoseCall, EndElsewhere,
      ServeLateCall, ServeLateRefresh, Reload, vars, server
<1> QED
  BY <1>1 DEF Expire

\* A token that was denied once is not good again.
LEMMA DenialsKept ==
  ASSUME Base, [Next]_vars
  PROVE  Denials'
<1>0. IInv /\ Kinds /\ Fresh /\ Issued /\ Denials
  BY DEF Base
<1>1. ASSUME NEW s \in Tokens, s \in Live' \ expired', session[s] # None
      PROVE  s \in Live \ expired
  BY <1>1, StepGrows, ExpiredGrows, <1>0 DEF Grows
<1>2. ASSUME NEW q \in Calls, pc'[q] = "denied", pc[q] = "denied", call'[q] = call[q]
      PROVE  call'[q].token \notin Live' \ expired'
  <2>1. call[q] # None /\ Known(call[q].token)
    BY <1>0, <1>2 DEF IInv, Started, Issued
  <2>2. Live' \subseteq Tokens /\ None \notin Tokens
    BY TokensAssumption DEF Live, Tokens
  <2> QED
    BY <1>0, <1>1, <1>2, <2>1, <2>2 DEF Known, Denials
<1>3. \A q \in Calls : pc'[q] = "denied" =>
        (pc[q] = "denied" /\ call'[q] = call[q]) \/ ServeCall(q)
  <2>1. ASSUME NEW q \in Calls, NEW t \in Tabs, NEW fun \in Functions, Start(q, t, fun),
               NEW a \in Calls, pc'[a] = "denied"
        PROVE  pc[a] = "denied" /\ call'[a] = call[a]
    BY <1>0, <2>1, StartEffect
  <2>2. ASSUME NEW q \in Calls,
         ServeCall(q) \/ Succeed(q) \/ Reuse(q) \/ Reject(q) \/ refreshSession(q)
           \/ ArriveLogin(q) \/ ReadLogin(q) \/ ArriveLogout(q) \/ LoseCall(q),
         NEW a \in Calls, pc'[a] = "denied"
        PROVE  (pc[a] = "denied" /\ call'[a] = call[a]) \/ ServeCall(a)
    <3>1. pc'[q] = "denied" => ServeCall(q)
      BY <1>0, <2>2 DEF ServeCall, Succeed, Reuse, Reject, refreshSession, ArriveLogin,
         ReadLogin, ArriveLogout, LoseCall, Goto, IInv, TypeOK, Ended
    <3> QED
      BY <1>0, <2>2, <3>1, OneMoves
  <2>3. ASSUME NEW r \in Calls, ArriveRefresh(r) \/ ReadRefresh(r) \/ LoseRefresh(r),
               NEW a \in Calls, pc'[a] = "denied"
        PROVE  pc[a] = "denied" /\ call'[a] = call[a]
    <3>1. ASSUME NEW cookie \in Tokens \cup {None}, NEW token \in Tokens \cup {None},
                 Settle(r, cookie, token), refresh[r] # None
          PROVE  pc[a] = "denied" /\ call'[a] = call[a]
      BY <1>0, <2>3, <3>1, SettleEffect
    <3> QED
      BY <1>0, <2>3, <3>1, EndsOrReads
  <2>4. ASSUME NEW t \in Tabs, Reload(t), NEW a \in Calls, pc'[a] = "denied"
        PROVE  pc[a] = "denied" /\ call'[a] = call[a]
    BY <2>4 DEF Reload
  <2>5. ASSUME NEW s \in Tokens, Expire(s) \/ EndElsewhere(s) PROVE UNCHANGED <<call, pc>>
    BY <2>5 DEF Expire, EndElsewhere
  <2>6. ASSUME NEW q \in Calls, ServeRefresh(q) \/ ServeLateCall(q) \/ ServeLateRefresh(q)
        PROVE  UNCHANGED <<call, pc>>
    BY <2>6 DEF ServeRefresh, ServeLateCall, ServeLateRefresh
  <2> QED
    BY <2>1, <2>2, <2>3, <2>4, <2>5, <2>6, TokensAssumption DEF Next, Handle, Rest, vars
<1>4. ASSUME NEW q \in Calls, ServeCall(q), pc'[q] = "denied"
      PROVE  call'[q].token \notin Live' \ expired'
  <2>1. /\ ~Accepted(q) /\ End({}) /\ q \in Authenticated
    BY <1>0, <1>4, ServeCallEffect
  <2>2. {} \in SUBSET Live
    OBVIOUS
  <2>3. Live' \subseteq Live
    BY <1>0, <2>1, <2>2, EndEffect DEF Live
  <2>4. UNCHANGED <<call, expired>>
    BY <1>4 DEF ServeCall
  <2> QED
    BY <2>1, <2>3, <2>4 DEF Accepted
<1> QED
  BY <1>2, <1>3, <1>4 DEF Denials

\* Where the cookie comes from.
LEMMA JarEffect ==
  ASSUME IInv, [Next]_vars
  PROVE  \/ jar' = jar \/ jar' = None
         \/ \E q \in Calls : ArriveLogin(q) /\ jar' = q
         \/ \E r \in Calls : ArriveRefresh(r) /\ refresh[r].stage = "accepted" /\ jar' = r
<1>1. ASSUME NEW q \in Calls,
         ServeCall(q) \/ Succeed(q) \/ Reuse(q) \/ Reject(q) \/ refreshSession(q)
           \/ ArriveLogin(q) \/ ReadLogin(q) \/ ArriveLogout(q) \/ LoseCall(q)
      PROVE  jar' \in {jar, None} \/ (ArriveLogin(q) /\ jar' = q)
  BY <1>1 DEF ServeCall, Succeed, Reuse, Reject, refreshSession, ArriveLogin, ReadLogin,
     ArriveLogout, LoseCall
<1>2. ASSUME NEW r \in Calls, ServeRefresh(r) \/ ArriveRefresh(r) \/ ReadRefresh(r) \/ LoseRefresh(r)
      PROVE  jar' = jar \/ (ArriveRefresh(r) /\ refresh[r].stage = "accepted" /\ jar' = r)
  BY <1>2 DEF ServeRefresh, ArriveRefresh, ReadRefresh, LoseRefresh
<1>3. ASSUME \/ \E q \in Calls, t \in Tabs, fun \in Functions : Start(q, t, fun)
             \/ \E t \in Tabs : Reload(t)
             \/ \E s \in Tokens : Expire(s) \/ EndElsewhere(s)
             \/ \E q \in Calls : ServeLateCall(q) \/ ServeLateRefresh(q)
             \/ UNCHANGED vars
      PROVE  jar' = jar
  BY <1>3 DEF Start, Reload, Expire, EndElsewhere, ServeLateCall, ServeLateRefresh, vars
<1> QED
  BY <1>1, <1>2, <1>3, NextCases

\* Where the token of a tab comes from.
LEMMA TokenEffect ==
  ASSUME IInv, [Next]_vars, NEW t \in Tabs
  PROVE  \/ accessToken'[t] = accessToken[t] \/ accessToken'[t] = None
         \/ \E q \in Calls : ReadLogin(q) /\ call[q].tab = t /\ accessToken'[t] = q
         \/ \E r \in Calls : ReadRefresh(r) /\ call[r].tab = t /\ accessToken'[t] = r
<1> DEFINE Goal ==
      \/ accessToken'[t] = accessToken[t] \/ accessToken'[t] = None
      \/ \E q \in Calls : ReadLogin(q) /\ call[q].tab = t /\ accessToken'[t] = q
      \/ \E r \in Calls : ReadRefresh(r) /\ call[r].tab = t /\ accessToken'[t] = r
<1>1. ASSUME NEW u \in Tabs, clearTokens(u) PROVE Goal
  BY <1>1, ClearEffect
<1>2. ASSUME NEW q \in Calls,
       ServeCall(q) \/ Succeed(q) \/ Reuse(q) \/ Reject(q) \/ refreshSession(q)
         \/ ArriveLogin(q) \/ ReadLogin(q) \/ ArriveLogout(q) \/ LoseCall(q)
      PROVE  Goal
  <2>1. call[q].tab \in Tabs
    BY <1>2, OneMoves
  <2>2. ReadLogin(q) => Goal
    BY <2>1 DEF ReadLogin, storeAccessToken, IInv, TypeOK
  <2>3. ReadLogin(q) \/ clearTokens(call[q].tab) \/ UNCHANGED accessToken
    BY <1>2 DEF ServeCall, Succeed, Reuse, Reject, refreshSession,
       ArriveLogin, ReadLogin, ArriveLogout, LoseCall, tab
  <2> QED
    BY <1>1, <2>1, <2>2, <2>3
<1>3. ASSUME NEW q \in Calls, ServeRefresh(q) \/ ArriveRefresh(q) \/ ReadRefresh(q) \/ LoseRefresh(q)
      PROVE  Goal
  <2>1. call[q].tab \in Tabs
    BY <1>3, Owner DEF ServeRefresh, ArriveRefresh, ReadRefresh, LoseRefresh
  <2>2. ReadRefresh(q) => Goal
    BY <2>1 DEF ReadRefresh, storeAccessToken, IInv, TypeOK
  <2>3. ReadRefresh(q) \/ clearTokens(call[q].tab) \/ UNCHANGED accessToken
    BY <1>3 DEF ServeRefresh, ArriveRefresh, ReadRefresh, LoseRefresh, tab
  <2> QED
    BY <1>1, <2>1, <2>2, <2>3
<1>4. ASSUME NEW u \in Tabs, Reload(u) PROVE Goal
  BY <1>4 DEF Reload, storeAccessToken, IInv, TypeOK
<1>5. CASE UNCHANGED accessToken
  BY <1>5
<1>6. ASSUME \/ \E q \in Calls, u \in Tabs, fun \in Functions : Start(q, u, fun)
             \/ \E s \in Tokens : Expire(s) \/ EndElsewhere(s)
             \/ \E q \in Calls : ServeLateCall(q) \/ ServeLateRefresh(q)
             \/ UNCHANGED vars
      PROVE  UNCHANGED accessToken
  BY <1>6 DEF Start, Expire, EndElsewhere, ServeLateCall, ServeLateRefresh, vars, tab
<1> QED
  BY <1>2, <1>3, <1>4, <1>5, <1>6, NextCases

\* Who waits for his own token has it from the server, or is told about it.
LEMMA Getting ==
  ASSUME IInv, Kinds, Fresh, NEW q \in Calls
  PROVE  /\ refresh[q] # None => Pending(q)
         /\ refresh[q] # None /\ refresh[q].stage \in {"accepted", "reading"} => session[q] # None
         /\ refresh[q] # None /\ refresh[q].stage \in {"sent", "denied"} => session[q] = None
         /\ call[q] # None /\ call[q].fun = "login" /\ pc[q] \in {"accepted", "reading"} =>
              Pending(q) /\ session[q] # None
<1>1. refresh[q] # None => Pending(q) /\ pc[q] = "refreshing"
  BY Owner DEF Kinds, Pending, Ended
<1>2. call[q] # None /\ call[q].fun = "login" /\ pc[q] \in {"accepted", "reading"} => Pending(q)
  BY DEF Kinds, Made, Pending, Ended
<1> QED
  BY <1>1, <1>2, Records DEF Fresh, Served

\* Tokens and cookies come from the server.
LEMMA IssuedKept ==
  ASSUME Base, [Next]_vars
  PROVE  Issued'
<1>0. IInv /\ Kinds /\ Fresh /\ Issued /\ Grows /\ IInv'
  BY StepGrows, StepInv DEF Base
<1>1. ASSUME NEW s \in Tokens \cup {None}, Known(s)
      PROVE  s # None => session'[s] # None
  BY <1>0, <1>1 DEF Known, Grows
<1>2. \A q \in Calls : q \in Tokens \cup {None} /\ (session[q] # None => Known(q))
  BY DEF Tokens, Known
<1>3. Known(jar)'
  <2>1. ASSUME NEW q \in Calls, ArriveLogin(q) PROVE Known(q)
    BY <1>0, <1>2, <2>1, Getting DEF ArriveLogin, IInv, Started
  <2>2. ASSUME NEW r \in Calls, ArriveRefresh(r), refresh[r].stage = "accepted" PROVE Known(r)
    BY <1>0, <1>2, <2>2, Getting DEF ArriveRefresh
  <2>3. Known(jar) /\ Known(None) /\ jar \in Tokens \cup {None}
    BY <1>0 DEF Issued, Known, IInv, TypeOK
  <2> QED
    BY <1>0, <1>1, <1>2, <2>1, <2>2, <2>3, JarEffect DEF Known
<1>4. \A t \in Tabs : Known(accessToken[t])'
  <2> TAKE t \in Tabs
  <2>1. ASSUME NEW q \in Calls, ReadLogin(q) PROVE Known(q)
    BY <1>0, <1>2, <2>1, Getting DEF ReadLogin, IInv, Started, Reading
  <2>2. ASSUME NEW r \in Calls, ReadRefresh(r) PROVE Known(r)
    BY <1>0, <1>2, <2>2, Getting DEF ReadRefresh
  <2>3. Known(accessToken[t]) /\ Known(None) /\ accessToken[t] \in Tokens \cup {None}
    BY <1>0 DEF Issued, Known, IInv, TypeOK
  <2> QED
    BY <1>0, <1>1, <1>2, <2>1, <2>2, <2>3, TokenEffect DEF Known
<1>5. ASSUME NEW q \in Calls, call'[q] # None, call'[q] = call[q] PROVE Known(call[q].token)'
  <2>1. call[q] \in Call /\ call[q].token \in Tokens \cup {None} /\ Known(call[q].token)
    BY <1>0, <1>5, Records DEF Issued, IInv, Call
  <2> QED
    BY <1>1, <1>5, <2>1 DEF Known
<1>6. ASSUME NEW q \in Calls, call'[q] # None PROVE Known(call[q].token)'
  <2>1. ASSUME NEW p \in Calls, NEW t \in Tabs, NEW fun \in Functions, Start(p, t, fun)
        PROVE  Known(call[q].token)'
    <3>1. Known(Bearer(t, fun)) /\ Bearer(t, fun) \in Tokens \cup {None}
      BY <1>0 DEF Bearer, Issued, Known, IInv, TypeOK
    <3>2. Known(Bearer(t, fun))'
      BY <2>1, <3>1, <1>1, <1>0, <1>3, <1>4 DEF Start, tab, Bearer, Known
    <3>3. Bearer(t, fun)' = Bearer(t, fun)
      BY <2>1 DEF Start, tab, Bearer
    <3> QED
      BY <1>0, <1>5, <1>6, <2>1, <3>2, <3>3, StartEffect
  <2>2. ASSUME NEW p \in Calls,
         ServeCall(p) \/ Succeed(p) \/ Reuse(p) \/ Reject(p) \/ refreshSession(p)
           \/ ArriveLogin(p) \/ ReadLogin(p) \/ ArriveLogout(p) \/ LoseCall(p)
        PROVE  Known(call[q].token)'
    <3>1. CASE call'[q] = call[q]
      BY <1>5, <1>6, <3>1
    <3>2. CASE Reuse(p) /\ q = p /\ call'[q].token = accessToken[call[q].tab]
      <4>1. call[q].tab \in Tabs /\ accessToken' = accessToken
        BY <1>0, <2>2, <3>2, OneMoves DEF Reuse, tab
      <4> QED
        BY <1>4, <3>2, <4>1
    <3> QED
      BY <1>0, <2>2, <3>1, <3>2, OneMoves
  <2>3. ASSUME NEW r \in Calls, ArriveRefresh(r) \/ ReadRefresh(r) \/ LoseRefresh(r)
        PROVE  Known(call[q].token)'
    <3>1. refresh[r] # None
      BY <1>0, <2>3, EndsOrReads
    <3>2. ASSUME NEW cookie \in Tokens \cup {None}, NEW token \in Tokens \cup {None},
                 Settle(r, cookie, token), cookie = jar', token = None \/ Known(token)'
          PROVE  Known(call[q].token)'
      <4>1. Known(None)' /\ Known(cookie)'
        BY <1>3, <3>2 DEF Known
      <4> QED
        BY <1>0, <1>5, <1>6, <3>1, <3>2, <4>1, SettleEffect
    <3>3. jar' \in Tokens \cup {None} /\ None \in Tokens \cup {None} /\ r \in Tokens \cup {None}
      BY <1>0 DEF IInv, TypeOK, Tokens
    <3>4. CASE ReadRefresh(r)
      <4>1. Known(r)' /\ Settle(r, jar, r) /\ jar' = jar
        <5>1. session[r] # None /\ Settle(r, jar, r) /\ jar' = jar
          BY <1>0, <3>4, Getting DEF ReadRefresh
        <5>2. Known(r)'
          BY <1>1, <1>2, <5>1 DEF Known
        <5> QED
          BY <5>1, <5>2
      <4> QED
        BY <3>2, <3>3, <4>1
    <3>5. CASE LoseRefresh(r)
      <4>1. Settle(r, jar, None) /\ jar' = jar
        BY <3>5 DEF LoseRefresh
      <4> QED
        BY <3>2, <3>3, <4>1
    <3>6. CASE Settle(r, jar', None)
      BY <3>2, <3>3, <3>6
    <3>7. CASE UNCHANGED call
      BY <1>5, <1>6, <3>7
    <3> QED
      BY <1>0, <2>3, <3>4, <3>5, <3>6, <3>7, EndsOrReads
  <2>4. CASE UNCHANGED call
    BY <1>5, <1>6, <2>4
  <2> QED
    BY <2>1, <2>2, <2>3, <2>4
    DEF Next, Handle, ServeRefresh, ServeLateCall, ServeLateRefresh, Expire, EndElsewhere,
        Reload, Rest, vars
<1>7. ASSUME NEW q \in Calls, refresh'[q] # None PROVE Known(refresh[q].cookie)'
  <2>1. CASE refresh[q] # None /\ refresh'[q].cookie = refresh[q].cookie
    <3>1. Known(refresh[q].cookie) /\ refresh[q].cookie \in Tokens \cup {None}
      BY <1>0, <2>1, Records DEF Issued, Refresh, IInv
    <3> QED
      BY <1>1, <2>1, <3>1 DEF Known
  <2>2. CASE refresh'[q].cookie = jar /\ UNCHANGED <<jar, session>>
    BY <1>0, <2>2 DEF Issued, Known
  <2>3. \/ refresh[q] # None /\ refresh'[q].cookie = refresh[q].cookie
        \/ refresh'[q].cookie = jar /\ UNCHANGED <<jar, session>>
    <3>1. ASSUME NEW r \in Calls, ServeRefresh(r)
          PROVE  refresh[q] # None /\ refresh'[q].cookie = refresh[q].cookie
      BY <1>0, <1>7, <3>1, ServeRefreshEffect DEF ServeRefresh
    <3>2. ASSUME NEW r \in Calls, ArriveRefresh(r) \/ ReadRefresh(r) \/ LoseRefresh(r)
          PROVE  refresh[q] # None /\ refresh'[q].cookie = refresh[q].cookie
      <4>1. refresh[r] # None /\ refresh[r] \in Refresh
        BY <1>0, <3>2, EndsOrReads, Records DEF IInv
      <4>2. CASE refresh' = [refresh EXCEPT ![r].stage = "reading"]
        <5>1. /\ [refresh[r] EXCEPT !.stage = "reading"] \in Refresh
              /\ [refresh[r] EXCEPT !.stage = "reading"].cookie = refresh[r].cookie
          BY <4>1 DEF Refresh
        <5>2. refresh'[q] = IF q = r THEN [refresh[r] EXCEPT !.stage = "reading"] ELSE refresh[q]
          BY <1>0, <4>2 DEF IInv, TypeOK
        <5> QED
          BY <1>7, <4>1, <5>1, <5>2
      <4>3. ASSUME NEW cookie \in Tokens \cup {None}, NEW token \in Tokens \cup {None},
                   Settle(r, cookie, token)
            PROVE  refresh'[q] = refresh[q]
        BY <1>0, <1>7, <4>1, <4>3, SettleEffect
      <4> QED
        BY <1>0, <1>7, <3>2, <4>2, <4>3, EndsOrReads
    <3>3. ASSUME NEW p \in Calls, refreshSession(p)
          PROVE  \/ refresh[q] # None /\ refresh'[q].cookie = refresh[q].cookie
                 \/ refresh'[q].cookie = jar /\ UNCHANGED <<jar, session>>
      BY <1>0, <1>7, <3>3 DEF refreshSession, server, IInv, TypeOK
    <3>4. ASSUME NEW t \in Tabs, Reload(t) PROVE refresh'[q] = refresh[q]
      BY <1>7, <3>4 DEF Reload
    <3>5. CASE UNCHANGED refresh
      BY <1>7, <3>5
    <3>6. ASSUME NEW p \in Calls,
                 ServeCall(p) \/ Succeed(p) \/ Reuse(p) \/ Reject(p)
                   \/ ArriveLogin(p) \/ ReadLogin(p) \/ ArriveLogout(p) \/ LoseCall(p)
          PROVE  UNCHANGED refresh
      BY <3>6 DEF ServeCall, Succeed, Reuse, Reject, ArriveLogin, ReadLogin, ArriveLogout, LoseCall
    <3>7. ASSUME \/ \E p \in Calls, t \in Tabs, fun \in Functions : Start(p, t, fun)
                 \/ \E p \in Calls : ServeLateCall(p) \/ ServeLateRefresh(p)
                 \/ \E s \in Tokens : Expire(s) \/ EndElsewhere(s)
                 \/ UNCHANGED vars
          PROVE  UNCHANGED refresh
      BY <3>7 DEF Start, ServeLateCall, ServeLateRefresh, Expire, EndElsewhere, vars
    <3> QED
      BY <1>7, <3>1, <3>2, <3>3, <3>4, <3>5, <3>6, <3>7, NextCases
  <2> QED
    BY <2>1, <2>2, <2>3
<1> QED
  BY <1>3, <1>4, <1>6, <1>7 DEF Issued

\* The token of a call is new until its tab has read it.
LEMMA FreshKept ==
  ASSUME Base, [Next]_vars
  PROVE  Fresh'
<1>0. IInv /\ Kinds /\ Fresh /\ IInv'
  BY StepInv DEF Base
<1>1. \A q \in Calls : Pending(q)' => Pending(q)
  <2>1. ASSUME NEW q \in Calls, NEW t \in Tabs, NEW fun \in Functions, Start(q, t, fun)
        PROVE  \A a \in Calls : Pending(a)' => Pending(a)
    BY <1>0, <2>1, StartEffect DEF Pending, Ended
  <2> QED
    BY <1>0, <2>1, StepMoves DEF Moves
<1>2. ASSUME NEW q \in Calls, Pending(q)' PROVE q \notin expired'
  BY <1>0, <1>1, <1>2, ExpiredGrows DEF Fresh
<1>3. ASSUME NEW q \in Calls, Pending(q)', NEW t \in Tabs PROVE accessToken'[t] # q
  <2>1. ~ReadLogin(q)
    BY <1>0, <1>3 DEF ReadLogin, Goto, Pending, Ended, IInv, TypeOK
  <2>2. ~ReadRefresh(q)
    <3> SUFFICES ASSUME ReadRefresh(q) PROVE FALSE
      OBVIOUS
    <3>1. refresh[q] # None /\ Settle(q, jar, q) /\ jar \in Tokens \cup {None} /\ q \in Tokens
      BY <1>0 DEF ReadRefresh, IInv, TypeOK, Tokens
    <3>2. q \in Waiters(q) /\ pc[q] = "refreshing" /\ call'[q].attempt = 2 /\ call'[q] \in Call
      BY <1>0, <3>1, SettleEffect, TokensAssumption
    <3> QED
      BY <1>3, <3>2, NoRecordAssumption DEF Pending
  <2> QED
    BY <1>0, <1>1, <1>3, <2>1, <2>2, TokenEffect, TokensAssumption DEF Fresh
<1>4. ASSUME NEW q \in Calls, Pending(q)' PROVE Served(q)' <=> session'[q] # None
  <2> DEFINE Goal == Served(q)' <=> session'[q] # None
  <2>0. (Served(q) <=> session[q] # None) /\ q \in Tokens
    BY <1>0, <1>1, <1>4 DEF Fresh, Tokens
  <2>1. ASSUME pc'[q] = pc[q], call'[q] = call[q], refresh'[q] = refresh[q],
               session'[q] # None <=> session[q] # None
        PROVE  Goal
    BY <2>0, <2>1 DEF Served
  <2>2. ASSUME NEW p \in Calls, NEW t \in Tabs, NEW fun \in Functions, Start(p, t, fun)
        PROVE  Goal
    <3>1. UNCHANGED <<session, refresh>> /\ refresh[p] = None
      BY <1>0, <2>2, Owner DEF Start, server
    <3> QED
      BY <1>0, <2>0, <2>2, <3>1, StartEffect DEF Served
  <2>3. ASSUME NEW S \in SUBSET Live, End(S) PROVE session'[q] # None <=> session[q] # None
    BY <1>0, <2>0, <2>3, EndEffect
  <2>4. ASSUME NEW p \in Calls, ServeCall(p) PROVE Goal
    <3>1. /\ refresh' = refresh /\ call' = call /\ pc[p] = "sent" /\ refresh[p] = None /\ call[p] # None
      BY <1>0, <2>4, Owner DEF ServeCall, IInv, Started
    <3>2. \A a \in Calls \ {p} : pc'[a] = pc[a]
      BY <1>0, <2>4, OneMoves
    <3>3. CASE call[p].fun = "login"
      BY <1>0, <2>0, <2>4, <3>1, <3>2, <3>3, ServeCallEffect DEF Served, SignsIn, Authenticated, Made
    <3>4. CASE call[p].fun # "login"
      <4>1. session'[q] # None <=> session[q] # None
        <5>1. Live \cap {call[p].token} \in SUBSET Live /\ Live \in SUBSET Live /\ {} \in SUBSET Live
          OBVIOUS
        <5> QED
          BY <1>0, <2>3, <2>4, <3>4, <5>1, ServeCallEffect
      <4> QED
        BY <2>0, <3>1, <3>2, <3>4, <4>1 DEF Served
    <3> QED
      BY <3>3, <3>4
  <2>5. ASSUME NEW p \in Calls,
               Succeed(p) \/ Reuse(p) \/ Reject(p) \/ refreshSession(p)
                 \/ ArriveLogin(p) \/ ReadLogin(p) \/ ArriveLogout(p) \/ LoseCall(p)
        PROVE  Goal
    <3>1. session' = session
      BY <2>5 DEF Succeed, Reuse, Reject, refreshSession, ArriveLogin, ReadLogin, ArriveLogout,
         LoseCall, server
    <3>2. \A a \in Calls \ {p} : pc'[a] = pc[a] /\ call'[a] = call[a] /\ refresh'[a] = refresh[a]
      <4>1. \A a \in Calls \ {p} : refresh'[a] = refresh[a]
        BY <1>0, <2>5 DEF Succeed, Reuse, Reject, refreshSession, ArriveLogin, ReadLogin,
           ArriveLogout, LoseCall, IInv, TypeOK
      <4> QED
        BY <1>0, <2>5, <4>1, OneMoves
    <3>3. CASE q # p
      BY <2>1, <3>1, <3>2, <3>3
    <3>4. CASE q = p
      <4>1. refreshSession(q) \/ ArriveLogin(q)
        <5>1. ~(ReadLogin(q) \/ ArriveLogout(q) \/ LoseCall(q) \/ Succeed(q) \/ Reject(q))
          BY <1>0, <1>4 DEF Succeed, Reject, ReadLogin, ArriveLogout, LoseCall, Goto, Pending,
             Ended, IInv, TypeOK
        <5>2. ~Reuse(q)
          <6> SUFFICES ASSUME Reuse(q) PROVE FALSE
            OBVIOUS
          <6>1. CASE accessToken[call[q].tab] = None
            BY <1>0, <1>4, <6>1 DEF Reuse, Goto, Pending, IInv, TypeOK
          <6>2. CASE accessToken[call[q].tab] # None
            <7>1. call'[q].attempt = 2 /\ call'[q] \in Call
              <8>1. call[q] \in Call /\ accessToken[call[q].tab] \in Tokens \cup {None}
                BY <1>0, OneMoves DEF IInv, TypeOK
              <8>2. call'[q] = [call[q] EXCEPT !.token = accessToken[call[q].tab], !.attempt = 2]
                BY <1>0, <6>2 DEF Reuse, IInv, TypeOK
              <8> QED
                BY <8>1, <8>2 DEF Call
            <7> QED
              BY <1>4, <7>1, NoRecordAssumption DEF Pending
          <6> QED
            BY <6>1, <6>2
        <5> QED
          BY <2>5, <3>4, <5>1, <5>2
      <4>2. CASE ArriveLogin(q)
        BY <1>0, <2>0, <3>1, <4>2 DEF ArriveLogin, Goto, Served, IInv, TypeOK
      <4>3. CASE refreshSession(q)
        <5>1. pc[q] = "denied" /\ pc'[q] = "refreshing" /\ refresh[q] = None
          BY <1>0, <4>3, Owner DEF refreshSession, Retries, Goto, IInv, TypeOK
        <5>2. refresh'[q] = None \/ refresh'[q].stage = "sent"
          BY <1>0, <4>3, <5>1 DEF refreshSession, IInv, TypeOK
        <5> QED
          BY <2>0, <3>1, <5>1, <5>2 DEF Served
      <4> QED
        BY <4>1, <4>2, <4>3
    <3> QED
      BY <3>3, <3>4
  <2>6. ASSUME NEW r \in Calls, ServeRefresh(r) PROVE Goal
    <3>1. UNCHANGED <<pc, call>> /\ pc[r] = "refreshing"
      BY <1>0, <2>6, Owner DEF ServeRefresh
    <3>2. \A S \in {{}, Live} : S \in SUBSET Live
      OBVIOUS
    <3>3. refresh[r].cookie \notin Live => (session'[q] # None <=> session[q] # None)
      BY <1>0, <2>3, <2>6, <3>2, ServeRefreshEffect
    <3> QED
      BY <1>0, <2>0, <2>6, <3>1, <3>3, ServeRefreshEffect DEF Served, Rotates
  <2>7. ASSUME NEW r \in Calls, ArriveRefresh(r) \/ ReadRefresh(r) \/ LoseRefresh(r)
        PROVE  Goal
    <3>1. refresh[r] # None /\ refresh[r] \in Refresh /\ UNCHANGED session
      BY <1>0, <2>7, EndsOrReads, Records DEF IInv, ArriveRefresh, ReadRefresh, LoseRefresh, server
    <3>2. CASE /\ refresh' = [refresh EXCEPT ![r].stage = "reading"] /\ UNCHANGED <<call, pc>>
               /\ refresh[r].stage = "accepted"
      <4>1. /\ [refresh[r] EXCEPT !.stage = "reading"] \in Refresh
            /\ [refresh[r] EXCEPT !.stage = "reading"].stage = "reading"
        BY <3>1 DEF Refresh
      <4>2. refresh'[q] = IF q = r THEN [refresh[r] EXCEPT !.stage = "reading"] ELSE refresh[q]
        BY <1>0, <3>2 DEF IInv, TypeOK
      <4> QED
        BY <2>0, <3>1, <3>2, <4>1, <4>2, NoRecordAssumption DEF Served
    <3>3. ASSUME NEW cookie \in Tokens \cup {None}, NEW token \in Tokens \cup {None},
                 Settle(r, cookie, token)
          PROVE  Goal
      <4>1. CASE q \notin Waiters(r)
        BY <1>0, <2>1, <3>1, <3>3, <4>1, SettleEffect
      <4>2. CASE q \in Waiters(r)
        <5>1. pc[q] = "waiting" /\ pc'[q] = "sent"
          BY <1>0, <1>4, <3>1, <3>3, <4>2, SettleEffect, NoRecordAssumption DEF Pending
        <5>2. refresh'[q] = None /\ refresh[q] = None
          BY <1>0, <3>1, <3>3, <5>1, SettleEffect, Owner
        <5> QED
          BY <2>0, <3>1, <5>1, <5>2 DEF Served
      <4> QED
        BY <4>1, <4>2
    <3> QED
      BY <1>0, <2>7, <3>2, <3>3, EndsOrReads
  <2>8. ASSUME NEW t \in Tabs, Reload(t) PROVE Goal
    <3>1. q \notin Open \cap Of(t)
      BY <1>4, <2>8 DEF Reload, Pending, Ended
    <3> QED
      BY <2>1, <2>8, <3>1 DEF Reload, server
  <2>9. ASSUME NEW s \in Tokens, Expire(s) \/ EndElsewhere(s) PROVE Goal
    <3>1. EndElsewhere(s) => \E S \in SUBSET Live : End(S)
      <4>1. EndElsewhere(s) => {s} \in SUBSET Live /\ Live \in SUBSET Live
        BY DEF EndElsewhere
      <4> QED
        BY <4>1 DEF EndElsewhere
    <3> QED
      BY <2>1, <2>3, <2>9, <3>1 DEF Expire, EndElsewhere
  <2>10. ASSUME NEW p \in Calls, ServeLateCall(p) \/ ServeLateRefresh(p) PROVE Goal
    <3>1. UNCHANGED <<pc, call, refresh>> /\ p # q
      BY <1>1, <1>4, <2>10, LateEffect DEF ServeLateCall, ServeLateRefresh
    <3>2. session'[q] # None <=> session[q] # None
      BY <2>0, <2>3, <2>10, <3>1, LateEffect DEF SignsIn, Rotates
    <3> QED
      BY <2>1, <3>1, <3>2
  <2>11. CASE UNCHANGED vars
    BY <2>1, <2>11 DEF vars, server
  <2> QED
    BY <2>2, <2>4, <2>5, <2>6, <2>7, <2>8, <2>9, <2>10, <2>11, NextCases
<1> QED
  BY <1>2, <1>3, <1>4 DEF Fresh

\* Which requests a step gives up.
LEMMA LateGrows ==
  ASSUME IInv, [Next]_vars, NEW q \in Calls
  PROVE  /\ q \in lateCall' \ lateCall =>
              /\ LoseCall(q) \/ \E t \in Tabs : Reload(t) /\ q \in Open \cap Of(t)
              /\ pc[q] = "sent" /\ q \in Changing
         /\ lateRefresh'[q] # None /\ lateRefresh[q] = None =>
              /\ LoseRefresh(q) \/ \E t \in Tabs : Reload(t) /\ q \in Open \cap Of(t)
              /\ refresh[q] # None /\ refresh[q].stage = "sent"
<1>1. CASE UNCHANGED late
  BY <1>1 DEF late
<1>2. ASSUME NEW p \in Calls, LoseCall(p)
      PROVE  /\ q \in lateCall' \ lateCall => q = p /\ pc[q] = "sent" /\ q \in Changing
             /\ lateRefresh'[q] = lateRefresh[q]
  BY <1>2 DEF LoseCall, GiveUpCalls
<1>3. ASSUME NEW r \in Calls, LoseRefresh(r)
      PROVE  /\ lateCall' = lateCall
             /\ lateRefresh'[q] # None /\ lateRefresh[q] = None =>
                  q = r /\ refresh[q] # None /\ refresh[q].stage = "sent"
  BY <1>3 DEF LoseRefresh, GiveUpRefreshes
<1>4. ASSUME NEW t \in Tabs, Reload(t)
      PROVE  /\ q \in lateCall' \ lateCall =>
                  q \in Open \cap Of(t) /\ pc[q] = "sent" /\ q \in Changing
             /\ lateRefresh'[q] # None /\ lateRefresh[q] = None =>
                  q \in Open \cap Of(t) /\ refresh[q] # None /\ refresh[q].stage = "sent"
  BY <1>4 DEF Reload, GiveUpCalls, GiveUpRefreshes
<1>5. ASSUME NEW p \in Calls, ServeLateCall(p) \/ ServeLateRefresh(p)
      PROVE  lateCall' \subseteq lateCall /\ lateRefresh'[q] \in {lateRefresh[q], None}
  BY <1>5 DEF ServeLateCall, ServeLateRefresh, IInv, TypeOK
<1>6. \/ UNCHANGED late
      \/ \E p \in Calls : LoseCall(p) \/ LoseRefresh(p) \/ ServeLateCall(p) \/ ServeLateRefresh(p)
      \/ \E t \in Tabs : Reload(t)
  <2>1. ASSUME NEW p \in Calls,
               ServeCall(p) \/ Succeed(p) \/ Reuse(p) \/ Reject(p) \/ refreshSession(p)
                 \/ ArriveLogin(p) \/ ReadLogin(p) \/ ArriveLogout(p)
        PROVE  UNCHANGED late
    BY <2>1 DEF ServeCall, Succeed, Reuse, refreshSession, Reject, ArriveLogin, ReadLogin,
       ArriveLogout
  <2>2. ASSUME \/ \E r \in Calls : ServeRefresh(r) \/ ArriveRefresh(r) \/ ReadRefresh(r)
               \/ \E p \in Calls, t \in Tabs, fun \in Functions : Start(p, t, fun)
               \/ \E s \in Tokens : Expire(s) \/ EndElsewhere(s)
               \/ UNCHANGED vars
        PROVE  UNCHANGED late
    BY <2>2 DEF ServeRefresh, ArriveRefresh, ReadRefresh, Start, Expire, EndElsewhere, vars
  <2> QED
    BY <2>1, <2>2, NextCases
<1> QED
  BY <1>1, <1>2, <1>3, <1>4, <1>5, <1>6

\* A request that is given up has not been served, and is served once at most.
LEMMA GivenUpKept ==
  ASSUME Base, [Next]_vars
  PROVE  GivenUp'
<1>0. IInv /\ Kinds /\ Fresh /\ GivenUp
  BY DEF Base
<1> SUFFICES ASSUME NEW q \in Calls
             PROVE  /\ q \in lateCall' =>
                         /\ call'[q] # None /\ ~Pending(q)'
                         /\ call'[q].fun = "login" => session'[q] = None
                    /\ lateRefresh'[q] # None =>
                         q \in Authenticated' /\ ~Pending(q)' /\ session'[q] = None
  BY DEF GivenUp
<1>1. ASSUME call[q] # None, ~Pending(q)
      PROVE  /\ call'[q] # None /\ call'[q].fun = call[q].fun /\ ~Pending(q)'
             /\ q \in Authenticated => q \in Authenticated'
  <2>1. ASSUME NEW p \in Calls, NEW t \in Tabs, NEW fun \in Functions, Start(p, t, fun)
        PROVE  call'[q] = call[q] /\ pc'[q] = pc[q]
    BY <1>0, <1>1, <2>1, StartEffect
  <2>2. /\ call'[q] # None /\ call'[q].fun = call[q].fun /\ ~Pending(q)'
    BY <1>0, <1>1, <2>1, StepMoves DEF Moves, Pending
  <2> QED
    BY <2>2 DEF Authenticated, Made
<1>2. ASSUME session[q] = None, session'[q] # None, ~Pending(q)
      PROVE  \/ ServeLateCall(q) /\ call[q].fun = "login"
             \/ ServeLateRefresh(q)
  <2>1. q \in Tokens
    BY DEF Tokens
  <2>2. ~ \E S \in SUBSET Live : End(S)
    BY <1>0, <1>2, <2>1, EndEffect
  <2> QED
    BY <1>2, <2>1, <2>2, SessionsTouched DEF SignsIn, Rotates
<1>3. ASSUME q \in lateCall', q \in lateCall
      PROVE  /\ call'[q] # None /\ ~Pending(q)'
             /\ call'[q].fun = "login" => session'[q] = None
  <2>1. call[q] # None /\ ~Pending(q) /\ (call[q].fun = "login" => session[q] = None)
    BY <1>0, <1>3 DEF GivenUp
  <2>2. ~ServeLateCall(q)
    BY <1>3 DEF ServeLateCall
  <2>3. call[q].fun = "login" => ~ServeLateRefresh(q)
    BY <1>0 DEF ServeLateRefresh, GivenUp, Authenticated, Made
  <2> QED
    BY <1>1, <1>2, <2>1, <2>2, <2>3
<1>4. ASSUME lateRefresh'[q] # None, lateRefresh[q] # None
      PROVE  q \in Authenticated' /\ ~Pending(q)' /\ session'[q] = None
  <2>1. q \in Authenticated /\ call[q] # None /\ ~Pending(q) /\ session[q] = None
    BY <1>0, <1>4 DEF GivenUp, Authenticated, Made
  <2>2. ~ServeLateRefresh(q)
    BY <1>0, <1>4 DEF ServeLateRefresh, IInv, TypeOK
  <2>3. call[q].fun # "login"
    BY <2>1 DEF Authenticated, Made
  <2> QED
    BY <1>1, <1>2, <2>1, <2>2, <2>3
<1>5. ASSUME NEW t \in Tabs, Reload(t), q \in Open \cap Of(t)
      PROVE  pc'[q] = "failed" /\ call' = call /\ session' = session
  BY <1>5 DEF Reload, server
<1>6. ASSUME q \in lateCall' \ lateCall
      PROVE  /\ call'[q] # None /\ ~Pending(q)'
             /\ call'[q].fun = "login" => session'[q] = None
  <2>1. /\ LoseCall(q) \/ \E t \in Tabs : Reload(t) /\ q \in Open \cap Of(t)
        /\ pc[q] = "sent" /\ q \in Changing /\ call[q] # None
    BY <1>0, <1>6, LateGrows DEF Changing, Made
  <2>2. pc'[q] = "failed" /\ call' = call /\ session' = session
    BY <1>0, <1>5, <2>1 DEF LoseCall, Goto, server, IInv, TypeOK
  <2>3. call[q].fun = "login" => session[q] = None
    BY <1>0, <2>1, SentLogin
  <2> QED
    BY <2>1, <2>2, <2>3 DEF Pending, Ended
<1>7. ASSUME lateRefresh'[q] # None, lateRefresh[q] = None
      PROVE  q \in Authenticated' /\ ~Pending(q)' /\ session'[q] = None
  <2>1. /\ LoseRefresh(q) \/ \E t \in Tabs : Reload(t) /\ q \in Open \cap Of(t)
        /\ refresh[q] # None /\ refresh[q].stage = "sent"
    BY <1>0, <1>7, LateGrows
  <2>2. q \in Authenticated /\ session[q] = None /\ call[q] # None
    BY <1>0, <2>1, Owner, Getting DEF Kinds
  <2>3. ASSUME LoseRefresh(q)
        PROVE  pc'[q] = "refused" /\ call'[q] = call[q] /\ session' = session
    <3>1. Settle(q, jar, None) /\ jar \in Tokens \cup {None} /\ None \in Tokens \cup {None}
      BY <1>0, <2>3 DEF LoseRefresh, IInv, TypeOK
    <3>2. q \in Waiters(q) /\ pc[q] = "refreshing"
      BY <1>0, <2>1, <3>1, SettleEffect
    <3>3. pc'[q] = "refused" /\ call'[q] = call[q]
      BY <1>0, <2>1, <3>1, <3>2, SettleEffect
    <3> QED
      BY <2>3, <3>3 DEF LoseRefresh, server
  <2>4. pc'[q] \in {"refused", "failed"} /\ call'[q] = call[q] /\ session' = session
    BY <1>5, <2>1, <2>3
  <2> QED
    BY <2>2, <2>4 DEF Pending, Ended, Authenticated, Made
<1> QED
  BY <1>3, <1>4, <1>6, <1>7

\* The base of the promises.
LEMMA InitBase == Init => Base
<1> SUFFICES ASSUME Init PROVE Base
  OBVIOUS
<1>1. /\ \A s \in Tokens \ {first} : session[s] = None
      /\ session[first] = [live |-> TRUE, origin |-> first] /\ first \in Tokens
  BY DEF Init, Tokens
<1>2. session[first] # None /\ session[first].origin = first
  <2>1. [live |-> TRUE, origin |-> first] \in Session /\ [live |-> TRUE, origin |-> first].origin = first
    BY DEF Session, Tokens
  <2> QED
    BY <1>1, <2>1, NoRecordAssumption
<1>3. IInv /\ Kinds /\ Generations /\ Denials /\ GivenUp
  BY InitInv DEF Init, Kinds, Generations, Denials, GivenUp, Authenticated, Made, Open
<1>4. Fresh
  <2>1. \A q \in Calls : q \in Tokens \ {first} /\ q # None
    BY TokensAssumption DEF Tokens
  <2> QED
    BY <1>1, <2>1 DEF Init, Fresh, Served
<1>5. Issued
  BY <1>1, <1>2 DEF Init, Issued, Known
<1>6. OneLive
  BY <1>1, <1>2 DEF OneLive, Live
<1> QED
  BY <1>3, <1>4, <1>5, <1>6 DEF Base

\* The basis is inductive.
LEMMA StepBase == Base /\ [Next]_vars => Base'
<1> SUFFICES ASSUME Base, [Next]_vars PROVE Base'
  OBVIOUS
<1>1. IInv'
  BY StepInv DEF Base
<1> QED
  BY <1>1, KindsKept, FreshKept, IssuedKept, StepGrows, GenerationsKept, DenialsKept, GivenUpKept DEF Base

-----------------------------------------------------------------------------
(* The calls that nothing has come in between of. *)

\* The parts of Healthy.
LEMMA HealthyParts ==
  ASSUME NEW t \in Tabs
  PROVE  Healthy(t) <=> Fit(t) /\ (refreshInFlight[t] # None => ~Stale(refreshInFlight[t]))
BY DEF Healthy, Fit

\* A refresh that is under way is one of the tab.
LEMMA InFlight ==
  ASSUME IInv, NEW t \in Tabs, refreshInFlight[t] # None
  PROVE  /\ refreshInFlight[t] \in Calls /\ refresh[refreshInFlight[t]] # None
         /\ refresh[refreshInFlight[t]] \in Refresh
         /\ call[refreshInFlight[t]] # None /\ call[refreshInFlight[t]].tab = t
         /\ pc[refreshInFlight[t]] = "refreshing"
<1>1. refreshInFlight[t] \in Calls
  BY DEF IInv, TypeOK
<1>2. refresh[refreshInFlight[t]] # None
  BY <1>1 DEF IInv, TypeOK
<1> QED
  BY <1>1, <1>2, Records DEF IInv, Owned

\* A refresh is under way in the tab of an undisturbed call, or in none.
LEMMA OneRefresh ==
  ASSUME IInv, NEW q \in Calls, Alone(q), NEW r \in Calls, refresh[r] # None
  PROVE  call[r].tab = call[q].tab /\ call[r].tab \in Tabs /\ refreshInFlight[call[q].tab] = r
<1>1. call[r].tab \in Tabs /\ refreshInFlight[call[r].tab] = r /\ r # None
  BY Owner, TokensAssumption
<1> QED
  BY <1>1 DEF Alone

\* Who changes the session is alone.
LEMMA OneChange ==
  ASSUME IInv, NEW q \in Calls, Alone(q), NEW p \in Calls, p \in Open, p \in Changing
  PROVE  p = q
BY DEF Alone

\* A call that is undisturbed is of one kind.
LEMMA OneKind ==
  ASSUME IInv, NEW q \in Calls, call[q] # None
  PROVE  /\ call[q] \in Call /\ call[q].tab \in Tabs
         /\ \/ q \in Authenticated /\ q \notin Made({"login"}) /\ q \notin Made({"logout"})
            \/ q \in Made({"login"}) /\ q \notin Authenticated /\ q \notin Made({"logout"}) /\ q \in Changing
            \/ q \in Made({"logout"}) /\ q \notin Made({"login"}) /\ q \notin Authenticated /\ q \in Changing
BY Records DEF IInv, Authenticated, Made, Changing, Call, Functions

\* A step that starts no call and no refresh leaves nobody less alone.
LEMMA AloneKept ==
  ASSUME IInv, NEW q \in Calls, Alone(q), Moves,
         \A u \in Tabs \ {call[q].tab} : refreshInFlight'[u] \in {None, refreshInFlight[u]}
  PROVE  Alone(q)'
BY DEF Alone, Moves, Changing, Made, Open

\* The cookie of a tab is as good as it was.
LEMMA FitSame ==
  ASSUME NEW t \in Tabs, jar' = jar, Live' = Live, refreshInFlight'[t] = refreshInFlight[t],
         refreshInFlight[t] # None => refresh'[refreshInFlight[t]] = refresh[refreshInFlight[t]]
  PROVE  Fit(t)' <=> Fit(t)
BY DEF Fit

\* The same, and its refresh as stale.
LEMMA HealthySame ==
  ASSUME IInv, NEW t \in Tabs, jar' = jar, Live' = Live, refreshInFlight'[t] = refreshInFlight[t],
         \A r \in Calls : refresh'[r] = refresh[r],
         \A r \in Calls : call[r] # None => call'[r].tab = call[r].tab,
         sessionGeneration'[t] = sessionGeneration[t]
  PROVE  Healthy(t)' <=> Healthy(t)
<1>1. refreshInFlight[t] # None =>
        /\ refreshInFlight[t] \in Calls /\ call'[refreshInFlight[t]].tab = t
        /\ call[refreshInFlight[t]].tab = t
  BY InFlight
<1>2. Fit(t)' <=> Fit(t)
  BY <1>1, FitSame
<1>3. refreshInFlight[t] # None => (Stale(refreshInFlight[t])' <=> Stale(refreshInFlight[t]))
  BY <1>1 DEF Stale
<1> QED
  BY <1>2, <1>3, HealthyParts DEF Healthy, Fit

\* A call that the step leaves alone, with its tab.
LEMMA KeptSame ==
  ASSUME NEW a \in Calls, Kept(a), pc'[a] = pc[a], call'[a] = call[a],
         accessToken'[call[a].tab] = accessToken[call[a].tab],
         sessionGeneration'[call[a].tab] = sessionGeneration[call[a].tab],
         Good(call[a].tab) => Good(call[a].tab)'
  PROVE  Kept(a)'
BY DEF Kept, Current

\* A step that changes neither what the call and its tab have nor the sessions.
LEMMA PromiseSame ==
  ASSUME IInv, NEW q \in Calls, Promise(q), Alone(q)',
         pc'[q] = pc[q], call'[q] = call[q],
         UNCHANGED <<jar, session, expired, refresh, refreshInFlight>>,
         accessToken'[call[q].tab] = accessToken[call[q].tab],
         sessionGeneration'[call[q].tab] = sessionGeneration[call[q].tab],
         \A a \in Calls : call[a] # None =>
           /\ call'[a] # None /\ call'[a].fun = call[a].fun /\ call'[a].tab = call[a].tab
           /\ call'[a].generation = call[a].generation,
         \A a \in Calls \ {q} :
           /\ q \in Made({"login"}) /\ pc[q] \in {"reading", "done"}
           /\ a \in Open' /\ call'[a].tab = call[q].tab
           => \/ a \in Open /\ call[a] # None /\ (Current(a) /\ Safe(q, a) => Safe(q, a)')
              \/ Safe(q, a)'
  PROVE  Promise(q)'
<1>1. call[q] # None /\ Live' = Live
  BY OneKind DEF Promise, Alone, Live
<1>t. PICK t \in Tabs : t = call[q].tab
  BY <1>1, OneKind
<1>2. /\ q \in Authenticated' <=> q \in Authenticated
      /\ q \in Made({"login"})' <=> q \in Made({"login"})
      /\ q \in Made({"logout"})' <=> q \in Made({"logout"})
  BY <1>1 DEF Authenticated, Made
<1>3. Healthy(t)' <=> Healthy(t)
  BY <1>1, <1>t, HealthySame
<1>4. Fit(t)' <=> Fit(t)
  BY <1>1, FitSame
<1>5. Good(t)' <=> Good(t)
  BY <1>1, <1>t DEF Good
<1>6. ASSUME CallKept(q) PROVE CallKept(q)'
  <2>1. Kept(q) => Kept(q)'
    BY <1>5, <1>t, KeptSame
  <2> QED
    BY <1>3, <1>6, <1>t, <2>1 DEF CallKept
<1>7. ASSUME LogoutKept(q) PROVE LogoutKept(q)'
  BY <1>1, <1>4, <1>7, <1>t DEF LogoutKept, Gone
<1>8. ASSUME q \in Made({"login"}), LoginKept(q) PROVE LoginKept(q)'
  <2>1. ASSUME pc[q] \in {"reading", "done"}, NEW a \in (Open' \cap Of(t)') \ {q}, Current(a)'
        PROVE  Safe(q, a)'
    <3>1. a \in Calls /\ call'[a].tab = t /\ a \in Open'
      BY DEF Of
    <3>2. CASE a \in Open /\ call[a] # None /\ (Current(a) /\ Safe(q, a) => Safe(q, a)')
      <4>1. call[a].tab = t /\ a \in Of(t)
        BY <3>1, <3>2 DEF Of
      <4>2. Current(a)
        BY <1>t, <2>1, <3>1, <3>2, <4>1 DEF Current
      <4> QED
        BY <1>8, <1>t, <2>1, <3>2, <4>1, <4>2 DEF LoginKept
    <3> QED
      BY <1>8, <1>t, <2>1, <3>1, <3>2
  <2> QED
    BY <1>1, <1>3, <1>8, <1>t, <2>1 DEF LoginKept
<1> QED
  BY <1>2, <1>6, <1>7, <1>8 DEF Promise

\* The step of another call that leaves the tabs and the sessions alone.
LEMMA OtherPromise ==
  ASSUME Base, Moves, NEW p \in Calls, NEW q \in Calls, q # p, Promise(q),
         \A a \in Calls \ {p} : pc'[a] = pc[a] /\ call'[a] = call[a],
         UNCHANGED <<jar, session, expired, refresh, refreshInFlight, accessToken, sessionGeneration>>,
         /\ q \in Made({"login"}) /\ pc[q] \in {"reading", "done"}
         /\ p \in Open' /\ Current(p) /\ call[p].tab = call[q].tab /\ Safe(q, p)
         => Safe(q, p)'
  PROVE  Promise(q)'
<1>0. IInv /\ Alone(q) /\ pc'[q] = pc[q]
  BY DEF Base, Promise
<1>1. Alone(q)'
  BY <1>0, AloneKept
<1>2. /\ \A a \in Calls : call[a] # None =>
           /\ call'[a] # None /\ call'[a].fun = call[a].fun /\ call'[a].tab = call[a].tab
           /\ call'[a].generation = call[a].generation
      /\ Open' \subseteq Open
      /\ \A a \in Open : a \in Calls /\ call[a] # None /\ call[a].tab \in Tabs
  BY <1>0, OneKind DEF Moves, IInv, Started, Open
<1>3. \A u \in Tabs : Good(u) => Good(u)'
  BY DEF Good, Live
<1>4. ASSUME NEW a \in Calls \ {q}, q \in Made({"login"}), pc[q] \in {"reading", "done"},
             a \in Open', call'[a].tab = call[q].tab
      PROVE  a \in Open /\ call[a] # None /\ (Current(a) /\ Safe(q, a) => Safe(q, a)')
  <2>1. a \in Open /\ call[a] # None /\ call[a].tab = call[q].tab /\ call[a].tab \in Tabs
    BY <1>2, <1>4
  <2>2. CASE a = p
    BY <1>4, <2>1, <2>2
  <2>3. CASE a # p
    <3>1. Kept(a) => Kept(a)'
      BY <1>3, <2>1, <2>3, KeptSame
    <3> QED
      BY <1>0, <2>1, <2>3, <3>1 DEF Safe, Asks
  <2> QED
    BY <2>1, <2>2, <2>3
<1> QED
  BY <1>0, <1>1, <1>2, <1>4, PromiseSame

\* A call that is served is accepted, or may still be repeated.
LEMMA KeptServe ==
  ASSUME Base, NEW p \in Calls, ServeCall(p), p \in Authenticated, Kept(p)
  PROVE  pc'[p] = "accepted" \/ (session' = session /\ Kept(p)')
<1>0. IInv /\ Fresh /\ Kinds
  BY DEF Base
<1>1. CASE Accepted(p)
  BY <1>0, <1>1, ServeCallEffect DEF Authenticated, Made
<1>2. CASE ~Accepted(p)
  <2>1. pc'[p] = "denied" /\ End({}) /\ UNCHANGED <<expired, tab, call, refreshInFlight>>
    BY <1>0, <1>2, ServeCallEffect DEF Authenticated, Made, ServeCall
  <2>2. session' = session
    BY <1>0, <2>1 DEF End, IInv, TypeOK
  <2>3. Live' = Live
    BY <2>2 DEF Live
  <2>4. ~(Good(call[p].tab) /\ call[p].token = accessToken[call[p].tab])
    BY <1>2 DEF Good, Accepted
  <2> QED
    BY <2>1, <2>2, <2>3, <2>4 DEF Kept, Current, Good, tab
<1> QED
  BY <1>1, <1>2

\* After the end of a session nothing of its login is left.
LEMMA EndsLogin ==
  ASSUME Base, NEW s \in Live, End(Live \cap {s})
  PROVE  Gone(s)'
<1>0. IInv /\ OneLive
  BY DEF Base
<1>1. Live \cap {s} \in SUBSET Live /\ s \in Tokens /\ session[s] # None
  BY DEF Live
<1>2. \A u \in Tokens : /\ session[u] # None => session'[u].origin = session[u].origin
                        /\ u \in Live' => u \in Live /\ u # s /\ session[u] # None
  BY <1>0, <1>1, EndEffect DEF Live
<1>3. \A u \in Live' : u \in Tokens
  BY DEF Live
<1> QED
  BY <1>0, <1>1, <1>2, <1>3 DEF Gone, OneLive

\* The server answers a call.
LEMMA ServeCallPromise ==
  ASSUME Base, Moves, NEW p \in Calls, ServeCall(p), NEW q \in Calls, Promise(q)
  PROVE  Promise(q)'
<1>0. /\ IInv /\ Fresh /\ Kinds /\ Alone(q) /\ Alone(q)' /\ call[q] # None
      /\ pc[p] = "sent" /\ p \in Open /\ call[p] # None
      /\ UNCHANGED <<expired, jar, accessToken, sessionGeneration, refreshInFlight, call, refresh>>
  BY AloneKept DEF Base, Promise, ServeCall, tab, Open, IInv, Started, Alone, Ended
<1>1. CASE p # q
  <2>1. p \in Authenticated /\ p \notin Changing
    BY <1>0, <1>1, OneChange, OneKind
  <2>2. End({})
    BY <1>0, <2>1, ServeCallEffect DEF Authenticated, Changing, Made
  <2>3. session' = session
    BY <1>0, <2>2 DEF End, IInv, TypeOK
  <2>5. \A a \in Calls \ {p} : pc'[a] = pc[a] /\ call'[a] = call[a]
    BY <1>0, OneMoves
  <2>4. Safe(q, p) => Safe(q, p)'
    <3>1. Kept(p) => pc'[p] = "accepted" \/ Kept(p)'
      BY <1>0, <2>1, KeptServe
    <3>2. pc'[p] \in {"accepted", "denied"}
      BY <1>0, ServeCallEffect
    <3> QED
      BY <1>0, <1>1, <2>5, <3>1, <3>2 DEF Safe, Asks
  <2>6. UNCHANGED <<jar, session, expired, refresh, refreshInFlight, accessToken, sessionGeneration>>
    BY <1>0, <2>3
  <2> QED
    BY <1>0, <1>1, <2>4, <2>5, <2>6, OtherPromise
<1>2. CASE p = q /\ q \in Authenticated
  <2>1. pc'[q] = "accepted" \/ (session' = session /\ Kept(q)' /\ Healthy(call[q].tab))
    BY <1>0, <1>2, KeptServe DEF Promise, CallKept
  <2>2. session' = session => (Healthy(call[q].tab) => Healthy(call[q].tab)')
    BY <1>0 DEF Healthy, Live, Stale
  <2>3. CallKept(q)'
    BY <1>0, <2>1, <2>2 DEF CallKept
  <2> QED
    BY <1>0, <1>2, <2>3, OneKind DEF Promise, Made, Authenticated
<1>3. CASE p = q /\ q \in Made({"login"})
  <2>1. pc'[q] = "accepted" /\ q \in Live'
    BY <1>0, <1>3, ServeCallEffect DEF SignsIn, Authenticated, Made
  <2>2. LoginKept(q)
    BY <1>3 DEF Promise
  <2>3. LoginKept(q)'
    BY <1>0, <1>3, <2>1, <2>2 DEF LoginKept
  <2> QED
    BY <1>0, <1>3, <2>3, OneKind DEF Promise, Made, Authenticated
<1>4. CASE p = q /\ q \in Made({"logout"})
  <2>1. pc'[q] = "accepted" /\ End(Live \cap {call[q].token})
    BY <1>0, <1>4, ServeCallEffect DEF Authenticated, Made
  <2>2. LogoutKept(q) /\ call[q].token \in Live /\ refreshInFlight[call[q].tab] = None
    BY <1>0, <1>4 DEF Promise, LogoutKept
  <2>3. Gone(call[q].token)'
    BY <1>0, <2>1, <2>2, EndsLogin DEF Gone
  <2>4. LogoutKept(q)'
    BY <1>0, <1>4, <2>1, <2>2, <2>3 DEF LogoutKept
  <2> QED
    BY <1>0, <1>4, <2>4, OneKind DEF Promise, Made, Authenticated
<1> QED
  BY <1>0, <1>1, <1>2, <1>3, <1>4, OneKind

\* A call that is repeated has the token that its tab has got in between.
LEMMA ReusePromise ==
  ASSUME Base, Moves, NEW p \in Calls, Reuse(p), NEW q \in Calls, Promise(q)
  PROVE  Promise(q)'
<1>0. /\ IInv /\ Kinds /\ Alone(q) /\ Alone(q)' /\ call[q] # None
      /\ pc[p] = "denied" /\ p \in Authenticated /\ call[p] \in Call /\ call[p].tab \in Tabs
      /\ UNCHANGED <<session, expired, jar, accessToken, sessionGeneration, screen, refreshInFlight, refresh>>
  BY AloneKept, OneMoves DEF Base, Promise, Reuse, Retries, Kinds, tab, server, Alone
<1>1. \A a \in Calls \ {p} : pc'[a] = pc[a] /\ call'[a] = call[a]
  BY <1>0, OneMoves
<1>2. Kept(p) => Kept(p)'
  <2> SUFFICES ASSUME Kept(p) PROVE Kept(p)'
    OBVIOUS
  <2>t. PICK t \in Tabs : t = call[p].tab
    BY <1>0
  <2>1. Good(t) /\ Good(t)' /\ accessToken[t] # None
    BY <1>0, <2>t, TokensAssumption DEF Kept, Reuse, Retries, Reuses, Good, Live
  <2>2. pc'[p] = "sent" /\ call'[p] = [call[p] EXCEPT !.token = accessToken[t], !.attempt = 2]
    BY <1>0, <2>t, <2>1 DEF Reuse, Goto, IInv, TypeOK
  <2>3. call'[p].token = accessToken[t] /\ call'[p].tab = t /\ call'[p].generation = call[p].generation
    <3>1. accessToken[t] \in Tokens \cup {None}
      BY <1>0 DEF IInv, TypeOK
    <3> QED
      BY <1>0, <2>2, <2>t, <3>1 DEF Call
  <2> QED
    BY <1>0, <2>t, <2>1, <2>2, <2>3 DEF Kept, Current
<1>3. CASE p # q
  <2>1. ~Asks(p)
    BY DEF Asks, Reuse, Reuses
  <2>2. Safe(q, p) => Safe(q, p)'
    BY <1>0, <1>1, <1>2, <1>3, <2>1 DEF Safe
  <2> QED
    BY <1>0, <1>1, <1>3, <2>2, OtherPromise
<1>4. CASE p = q
  <2>1. Healthy(call[q].tab) /\ Kept(q)
    BY <1>0, <1>4 DEF Promise, CallKept
  <2>2. call'[q].tab = call[q].tab /\ call'[q] # None /\ q \in Authenticated'
    BY <1>0, <1>4, NoRecordAssumption DEF Moves, Authenticated, Made
  <2>t. PICK t \in Tabs : t = call[q].tab
    BY <1>0, <1>4
  <2>3. Healthy(t)'
    <3>1. \A r \in Calls : call[r] # None => call'[r].tab = call[r].tab
      BY DEF Moves
    <3> QED
      BY <1>0, <2>1, <2>t, <3>1, HealthySame DEF Live
  <2>4. CallKept(q)'
    BY <1>2, <1>4, <2>1, <2>2, <2>3, <2>t DEF CallKept
  <2> QED
    BY <1>0, <2>2, <2>4 DEF Promise, Made, Authenticated
<1> QED
  BY <1>3, <1>4

\* A call gets the answer that was hoped for.
LEMMA SucceedPromise ==
  ASSUME Base, Moves, NEW p \in Calls, Succeed(p), NEW q \in Calls, Promise(q)
  PROVE  Promise(q)'
<1>a. /\ IInv /\ Alone(q) /\ call[q] # None
      /\ pc[p] = "accepted" /\ p \in Open /\ p \in Authenticated /\ call[p] # None
      /\ UNCHANGED <<session, expired, refreshInFlight, refresh, call>>
      /\ pc'[p] = "done"
  BY DEF Base, Promise, Succeed, Goto, server, Alone, Open, Ended, IInv, TypeOK, Started
<1>0. /\ IInv /\ Alone(q) /\ Alone(q)' /\ call[q] # None
      /\ pc[p] = "accepted" /\ p \in Open /\ p \in Authenticated /\ call[p] # None
      /\ call[p] \in Call /\ call[p].tab \in Tabs
      /\ UNCHANGED <<session, expired, refreshInFlight, refresh, call>>
      /\ pc'[p] = "done" /\ \A a \in Calls \ {p} : pc'[a] = pc[a]
  BY <1>a, AloneKept, OneMoves
<1>1. CASE p = q
  BY <1>0, <1>1 DEF Promise, CallKept, Authenticated, Made
<1>2. CASE p # q
  <2>1. call[p].fun # "logoutAll"
    BY <1>0, <1>2, OneChange DEF Authenticated, Changing, Made
  <2>2. UNCHANGED <<jar, accessToken, sessionGeneration>>
    BY <2>1 DEF Succeed
  <2>3. p \notin Open'
    BY <1>0 DEF Open, Ended
  <2> QED
    BY <1>0, <1>2, <2>2, <2>3, OtherPromise
<1> QED
  BY <1>1, <1>2

\* The answer to a sign-in arrives, with its cookie.
LEMMA ArriveLoginPromise ==
  ASSUME Base, Moves, NEW p \in Calls, ArriveLogin(p), NEW q \in Calls, Promise(q)
  PROVE  Promise(q)'
<1>0. /\ IInv /\ Generations /\ Alone(q) /\ Alone(q)' /\ call[q] # None
      /\ pc[p] = "accepted" /\ p \in Open /\ call[p].fun = "login" /\ call[p] # None
      /\ pc'[p] = "reading" /\ jar' = p
      /\ UNCHANGED <<session, refreshInFlight, refresh, call>>
  BY AloneKept DEF Base, Promise, ArriveLogin, Goto, server, Alone, Open, Ended, IInv, TypeOK, Started
<1>1. p = q /\ q \in Made({"login"}) /\ q \in Made({"login"})'
  BY <1>0, OneChange DEF Changing, Made
<1>t. PICK t \in Tabs : t = call[q].tab
  BY <1>0, OneKind
<1>2. LoginKept(q)
  BY <1>1 DEF Promise
<1>3. \A a \in Open' : /\ a \in Open /\ a \in Calls
                       /\ call[a].tab = t => call[a].generation # sessionGeneration'[t]
  <2>1. sessionGeneration'[t] = sessionGeneration[t] + 1 /\ sessionGeneration[t] \in Nat
    BY <1>1, <1>t DEF ArriveLogin, IInv, TypeOK, Base
  <2>2. \A a \in Open : a \in Calls /\ call[a].generation \in Nat
    BY <1>0, OneKind DEF Open, IInv, Started, Call
  <2>3. Open' \subseteq Open
    BY <1>0 DEF Moves
  <2> QED
    BY <1>0, <2>1, <2>2, <2>3 DEF Generations
<1>4. \A a \in Open' \cap Of(t)' : ~Current(a)'
  BY <1>0, <1>3 DEF Of, Current
<1>5. LoginKept(q)'
  BY <1>0, <1>1, <1>t, <1>2, <1>4 DEF LoginKept, Live
<1> QED
  BY <1>0, <1>1, <1>5 DEF Promise, Authenticated, Made

\* The rest of it: the tab has its token.
LEMMA ReadLoginPromise ==
  ASSUME Base, Moves, NEW p \in Calls, ReadLogin(p), NEW q \in Calls, Promise(q)
  PROVE  Promise(q)'
<1>0. /\ IInv /\ Kinds /\ Fresh /\ Alone(q) /\ Alone(q)' /\ call[q] # None
      /\ pc[p] = "reading" /\ p \in Open /\ call[p].fun = "login" /\ call[p] # None
      /\ pc'[p] = "done" /\ \A a \in Calls \ {p} : pc'[a] = pc[a]
      /\ UNCHANGED <<session, expired, refreshInFlight, refresh, call, jar, sessionGeneration>>
  BY AloneKept
  DEF Base, Promise, ReadLogin, Goto, server, Alone, Open, Ended, IInv, TypeOK, Started, Reading
<1>1. p = q /\ q \in Made({"login"}) /\ q \in Made({"login"})'
  BY <1>0, OneChange DEF Changing, Made
<1>t. PICK t \in Tabs : t = call[q].tab
  BY <1>0, OneKind
<1>2. LoginKept(q) /\ q \in Live /\ jar = q /\ refreshInFlight[t] = None
  BY <1>0, <1>1, <1>t DEF Promise, LoginKept
<1>3. accessToken'[t] = q /\ q # None
  BY <1>0, <1>1, <1>t, TokensAssumption DEF ReadLogin, storeAccessToken, IInv, TypeOK
<1>4. Healthy(t)' /\ Good(t)'
  <2>1. q \notin expired
    BY <1>0, <1>1, Getting DEF Fresh
  <2> QED
    BY <1>0, <1>2, <1>3, <2>1 DEF Healthy, Good, Live
<1>5. ASSUME NEW a \in (Open' \cap Of(t)') \ {q}, Current(a)' PROVE Safe(q, a)'
  <2>1. a \in Open \cap Of(t) /\ Current(a) /\ pc'[a] = pc[a] /\ call[a].tab = t
    BY <1>0, <1>1, <1>5 DEF Of, Moves, Current
  <2>2. pc[a] = "accepted" \/ Asks(a)
    BY <1>0, <1>1, <1>2, <1>5, <1>t, <2>1 DEF LoginKept, Safe
  <2>3. Asks(a) => Kept(a)'
    BY <1>0, <1>4, <1>5, <2>1 DEF Asks, Kept
  <2> QED
    BY <1>0, <1>1, <2>1, <2>2, <2>3 DEF Safe
<1>6. LoginKept(q)'
  BY <1>0, <1>1, <1>t, <1>3, <1>4, <1>5 DEF LoginKept
<1> QED
  BY <1>0, <1>1, <1>6 DEF Promise, Authenticated, Made

\* The answer to a sign-out arrives.
LEMMA ArriveLogoutPromise ==
  ASSUME Base, Moves, NEW p \in Calls, ArriveLogout(p), NEW q \in Calls, Promise(q)
  PROVE  Promise(q)'
<1>0. /\ IInv /\ Alone(q) /\ Alone(q)' /\ call[q] # None
      /\ pc[p] = "accepted" /\ p \in Open /\ call[p].fun = "logout" /\ call[p] # None
      /\ pc'[p] = "done" /\ jar' = None
      /\ UNCHANGED <<session, refreshInFlight, refresh, call>>
  BY AloneKept DEF Base, Promise, ArriveLogout, Goto, server, Alone, Open, Ended, IInv, TypeOK, Started
<1>1. p = q /\ q \in Made({"logout"}) /\ q \in Made({"logout"})'
  BY <1>0, OneChange DEF Changing, Made
<1>t. PICK t \in Tabs : t = call[q].tab
  BY <1>0, OneKind
<1>2. LogoutKept(q)
  BY <1>1 DEF Promise
<1>3. accessToken'[t] = None
  BY <1>0, <1>1, <1>t, ClearEffect DEF ArriveLogout
<1>4. Gone(call[q].token)'
  BY <1>0, <1>1, <1>2 DEF LogoutKept, Gone, Live
<1>5. LogoutKept(q)'
  BY <1>0, <1>1, <1>t, <1>2, <1>3, <1>4 DEF LogoutKept
<1> QED
  BY <1>0, <1>1, <1>5 DEF Promise, Authenticated, Made

\* A token expires: who has it may ask for another.
LEMMA ExpirePromise ==
  ASSUME Base, NEW s \in Tokens, Expire(s), NEW q \in undisturbed', q \in Calls, Promise(q)
  PROVE  Promise(q)'
<1> DEFINE helpless == {a \in Open : call[a].token # s \/ call[a].attempt = 2}
<1>0. /\ IInv /\ Alone(q) /\ call[q] # None
      /\ UNCHANGED <<session, jar, accessToken, sessionGeneration, refreshInFlight, call, pc, refresh>>
      /\ expired' = expired \cup {s}
      /\ q \notin helpless /\ (q \in Made({"login"}) => helpless \cap Of(call[q].tab) = {})
  BY DEF Base, Promise, Expire, Disturb, Alone, tab
<1>t. PICK t \in Tabs : t = call[q].tab
  BY <1>0, OneKind
<1>1. /\ Open' = Open /\ Live' = Live /\ Of(t)' = Of(t) /\ Changing' = Changing
      /\ Authenticated' = Authenticated /\ Made({"login"})' = Made({"login"})
      /\ Made({"logout"})' = Made({"logout"})
  BY <1>0 DEF Open, Live, Of, Changing, Authenticated, Made
<1>2. Alone(q)'
  BY <1>0, <1>1 DEF Alone
<1>3. Fit(t)' <=> Fit(t)
  BY <1>0, <1>1 DEF Fit
<1>4. Healthy(t)' <=> Healthy(t)
  BY <1>0, <1>1 DEF Healthy, Stale
<1>5. ASSUME NEW a \in Open, a \notin helpless, call[a].tab = t, Kept(a) PROVE Kept(a)'
  <2>1. call[a].token = s /\ call[a].attempt = 1
    <3>1. a \in Calls /\ call[a] \in Call
      BY <1>0, OneKind DEF Open, IInv, Started
    <3> QED
      BY <1>5, <3>1 DEF Call
  <2>2. Good(t) /\ accessToken[t] # s => Good(t)'
    BY <1>0, <1>1 DEF Good
  <2> QED
    BY <1>0, <1>5, <2>1, <2>2 DEF Kept, Current
<1>6. Kept(q) => q \in Open
  BY DEF Kept, Open, Ended
<1> HIDE DEF helpless
<1>7. CallKept(q) => CallKept(q)'
  BY <1>0, <1>t, <1>4, <1>5, <1>6 DEF CallKept
<1>8. LogoutKept(q) => LogoutKept(q)'
  BY <1>0, <1>t, <1>1, <1>3 DEF LogoutKept, Gone
<1>9. q \in Made({"login"}) /\ LoginKept(q) => LoginKept(q)'
  <2> SUFFICES ASSUME q \in Made({"login"}), LoginKept(q) PROVE LoginKept(q)'
    OBVIOUS
  <2>1. \A a \in Open \cap Of(t) : a \notin helpless /\ call[a].tab = t /\ (Current(a)' <=> Current(a))
    BY <1>0, <1>t DEF Of, Current
  <2>2. \A a \in Open \cap Of(t) : Safe(q, a) => Safe(q, a)'
    BY <1>0, <1>5, <2>1 DEF Safe, Asks
  <2> QED
    BY <1>0, <1>t, <1>1, <1>4, <2>1, <2>2 DEF LoginKept
<1> QED
  BY <1>1, <1>2, <1>7, <1>8, <1>9 DEF Promise

\* Who may still be repeated is not rejected, and who is rejected signs nobody out.
LEMMA RejectPromise ==
  ASSUME Base, Moves, NEW p \in Calls, Reject(p), NEW q \in undisturbed', q \in Calls, Promise(q)
  PROVE  Promise(q)'
<1>0. /\ IInv /\ Kinds /\ Generations /\ Alone(q) /\ Alone(q)' /\ call[q] # None
      /\ pc[p] \in {"denied", "refused"} /\ p \in Authenticated /\ p \in Open
      /\ call[p] # None /\ call[p] \in Call /\ call[p].tab \in Tabs
      /\ UNCHANGED <<session, expired, jar, refreshInFlight, refresh, call>>
  BY AloneKept, OneMoves DEF Base, Promise, Reject, Kinds, server, Alone, Open, Ended, IInv, Started
<1>1. pc'[p] = "unauthorized" /\ \A a \in Calls \ {p} : pc'[a] = pc[a] /\ call'[a] = call[a]
  BY <1>0, OneMoves DEF Reject, Goto, IInv, TypeOK
<1>2. ~Kept(p) /\ pc[p] # "accepted"
  <2>1. call[p].attempt \in {1, 2}
    BY <1>0 DEF Call
  <2> QED
    BY <1>0, <2>1 DEF Kept, Reject, Retries
<1>3. p # q
  BY <1>0, <1>2 DEF Promise, CallKept
<1>4. p \notin Open'
  BY <1>1 DEF Open, Ended
<1>5. CASE UNCHANGED <<accessToken, sessionGeneration>>
  BY <1>0, <1>1, <1>3, <1>4, <1>5, OtherPromise
<1>t. PICK t \in Tabs : t = call[q].tab
  BY <1>0, OneKind
<1>6. CASE clearTokens(call[p].tab) /\ call[p].tab # t
  <2>1. accessToken'[t] = accessToken[t] /\ sessionGeneration'[t] = sessionGeneration[t]
    BY <1>0, <1>6, ClearEffect
  <2>2. Good(t) => Good(t)'
    BY <1>0, <2>1 DEF Good, Live
  <2>3. \A a \in Calls : call[a] # None =>
          /\ call'[a] # None /\ call'[a].fun = call[a].fun /\ call'[a].tab = call[a].tab
          /\ call'[a].generation = call[a].generation
    BY <1>0
  <2>4. ASSUME NEW a \in Calls \ {q}, a \in Open', call'[a].tab = call[q].tab
        PROVE  a \in Open /\ call[a] # None /\ (Safe(q, a) => Safe(q, a)')
    <3>1. a \in Open /\ a # p /\ call[a].tab = t /\ call[a] # None
      BY <1>0, <1>4, <1>t, <2>4 DEF Moves, Open, IInv, Started
    <3>2. Kept(a) => Kept(a)'
      BY <1>1, <1>t, <2>1, <2>2, <3>1, KeptSame
    <3> QED
      BY <1>0, <1>1, <1>3, <2>1, <3>1, <3>2 DEF Safe, Asks
  <2> QED
    BY <1>0, <1>1, <1>3, <1>t, <2>1, <2>3, <2>4, PromiseSame
<1>7. CASE /\ clearTokens(call[p].tab) /\ call[p].tab = t
           /\ q \notin (Open \cap Of(t) \cap Authenticated) \ {p}
           /\ Current(p) \/ ~(q \in Of(t) \cap Made({"login"}) /\ pc[q] = "done")
  <2>1. q \notin Open \cap Of(t) \cap Authenticated
    BY <1>3, <1>7
  <2>2. q \in Of(t) /\ p \in Of(t)
    BY <1>0, <1>t, <1>7 DEF Of
  <2>3. /\ q \in Authenticated' <=> q \in Authenticated
        /\ q \in Made({"login"})' <=> q \in Made({"login"})
        /\ q \in Made({"logout"})' <=> q \in Made({"logout"})
    BY <1>0 DEF Authenticated, Made
  <2>4. pc'[q] = pc[q]
    BY <1>1, <1>3
  <2>5. CASE q \in Authenticated
    <3>1. CallKept(q) /\ q \notin Open
      BY <2>1, <2>2, <2>5 DEF Promise
    <3>2. pc[q] = "done"
      BY <3>1 DEF CallKept, Kept, Open, Ended
    <3> QED
      BY <1>0, <2>3, <2>4, <2>5, <3>2, OneKind DEF Promise, CallKept
  <2>6. CASE q \in Made({"login"})
    <3>1. LoginKept(q)
      BY <2>6 DEF Promise
    <3>2. pc[q] # "done"
      <4>1. pc[q] = "done" /\ Current(p) => Safe(q, p)
        BY <1>0, <1>3, <1>t, <2>2, <3>1 DEF LoginKept
      <4> QED
        BY <1>2, <1>7, <2>2, <2>6, <4>1 DEF Safe
    <3>3. \A a \in Open' \cap Of(t)' : ~Current(a)'
      <4>1. sessionGeneration'[t] = sessionGeneration[t] + 1 /\ sessionGeneration[t] \in Nat
        BY <1>0, <1>7, ClearEffect DEF IInv, TypeOK
      <4>2. \A a \in Open : a \in Calls /\ call[a].generation \in Nat
        BY <1>0, OneKind DEF Open, IInv, Started, Call
      <4>3. Open' \subseteq Open /\ Of(t)' = Of(t)
        BY <1>0 DEF Moves, Of
      <4> QED
        BY <1>0, <4>1, <4>2, <4>3 DEF Generations, Of, Current
    <3>4. LoginKept(q)'
      BY <1>0, <1>t, <2>4, <3>1, <3>2, <3>3 DEF LoginKept, Live
    <3> QED
      BY <1>0, <2>3, <2>6, <3>4, OneKind DEF Promise
  <2>7. CASE q \in Made({"logout"})
    <3>1. LogoutKept(q)
      BY <2>7 DEF Promise
    <3>2. accessToken'[t] = None /\ Live' = Live
      BY <1>0, <1>7, ClearEffect DEF Live
    <3>3. Fit(t)' <=> Fit(t)
      BY <1>0, <3>2, FitSame
    <3>4. LogoutKept(q)'
      BY <1>0, <1>t, <2>4, <3>1, <3>2, <3>3 DEF LogoutKept, Gone
    <3> QED
      BY <1>0, <2>3, <2>7, <3>4, OneKind DEF Promise
  <2> QED
    BY <1>0, <2>5, <2>6, <2>7, OneKind
<1>8. \/ UNCHANGED <<accessToken, sessionGeneration>>
      \/ /\ clearTokens(call[p].tab)
         /\ LET u == call[p].tab IN
            /\ q \notin (Open \cap Of(u) \cap Authenticated) \ {p}
            /\ Current(p) \/ ~(q \in Of(u) \cap Made({"login"}) /\ pc[q] = "done")
  BY DEF Reject, Clears, SignChange, Disturb
<1> QED
  BY <1>5, <1>6, <1>7, <1>8

\* A call joins the refresh of its tab, or starts it.
LEMMA RefreshPromise ==
  ASSUME Base, Moves, NEW p \in Calls, refreshSession(p), NEW q \in undisturbed', q \in Calls, Promise(q)
  PROVE  Promise(q)'
<1>0. /\ IInv /\ Kinds /\ Denials /\ Alone(q) /\ call[q] # None
      /\ pc[p] = "denied" /\ p \in Authenticated /\ p \in Open /\ call[p] # None
      /\ call[p].attempt = 1 /\ Current(p) /\ accessToken[call[p].tab] = call[p].token
      /\ UNCHANGED <<session, expired, jar, accessToken, sessionGeneration, call>>
  BY DEF Base, Promise, refreshSession, Retries, Reuses, Kinds, server, tab, Alone, Open, Ended,
         IInv, Started
<1>p. PICK u \in Tabs : u = call[p].tab
  BY <1>0, OneKind
<1>t. PICK t \in Tabs : t = call[q].tab
  BY <1>0, OneKind
<1>1. pc'[p] = "refreshing" /\ \A a \in Calls \ {p} : pc'[a] = pc[a] /\ call'[a] = call[a]
  BY <1>0, OneMoves DEF refreshSession, Goto, IInv, TypeOK
<1>2. Live' = Live
  BY <1>0 DEF Live
<1>3. CASE refreshInFlight[u] # None
  <2>1. UNCHANGED <<refreshInFlight, refresh>>
    BY <1>3, <1>p DEF refreshSession
  <2>2. Alone(q)'
    BY <1>0, <2>1, AloneKept
  <2>3. Kept(p) => Kept(p)'
    BY <1>0, <1>1, <1>2, <2>1 DEF Kept, Current, Good
  <2>4. CASE p # q
    <3>1. ASSUME q \in Made({"login"}), u = t PROVE pc[q] # "reading"
      BY <1>3, <1>t, <3>1 DEF Promise, LoginKept
    <3>2. ASSUME q \in Made({"login"}), u = t, Safe(q, p) PROVE Safe(q, p)'
      BY <1>0, <1>1, <2>3, <2>4, <3>1, <3>2 DEF Safe
    <3> QED
      BY <1>0, <1>1, <1>p, <1>t, <2>1, <2>4, <3>2, OtherPromise
  <2>5. CASE p = q
    <3>1. Healthy(t)' <=> Healthy(t)
      BY <1>0, <1>2, <2>1 DEF Healthy, Stale
    <3>2. CallKept(q)'
      BY <1>0, <1>t, <2>3, <2>5, <3>1 DEF Promise, CallKept
    <3> QED
      BY <1>0, <2>2, <2>5, <3>2, OneKind DEF Promise, Authenticated, Made
  <2> QED
    BY <2>4, <2>5
<1>4. CASE refreshInFlight[u] = None
  <2>1. /\ refreshInFlight' = [refreshInFlight EXCEPT ![u] = p]
        /\ refresh' = [refresh EXCEPT ![p] = [cookie |-> jar, stage |-> "sent",
                         generation |-> sessionGeneration[u]]]
        /\ q \in Of(u) /\ q \notin Open \cap Changing
    BY <1>4, <1>p DEF refreshSession, Disturb
  <2>2. t = u
    BY <1>t, <2>1 DEF Of
  <2>3. /\ refreshInFlight'[t] = p /\ \A v \in Tabs \ {t} : refreshInFlight'[v] = refreshInFlight[v]
        /\ refresh'[p].cookie = jar /\ refresh'[p].stage = "sent"
        /\ refresh'[p].generation = sessionGeneration[t]
    BY <2>1, <2>2, <1>0 DEF IInv, TypeOK
  <2>4. Alone(q)'
    BY <1>0, <1>t, <2>3, AloneKept
  <2>5. jar \in Live => Healthy(t)'
    BY <1>0, <1>2, <1>p, <2>2, <2>3, TokensAssumption DEF Healthy, Stale
  <2>6. Healthy(t) => jar \in Live
    BY <1>4, <2>2 DEF Healthy
  <2>7. ~Good(t)
    BY <1>0, <1>p, <2>2 DEF Good, Denials
  <2>8. \A a \in Calls : call[a].tab = t /\ Kept(a) => Kept(a)'
    BY <1>0, <1>1, <1>p, <2>2, <2>7 DEF Kept, Current
  <2>9. /\ Of(t)' = Of(t) /\ Open' \subseteq Open /\ Authenticated' = Authenticated
        /\ Made({"login"})' = Made({"login"}) /\ Made({"logout"})' = Made({"logout"})
    BY <1>0 DEF Of, Moves, Authenticated, Made
  <2>10. CASE q \in Authenticated
    <3>1. CallKept(q)'
      BY <1>0, <1>1, <1>t, <2>5, <2>6, <2>8, <2>10 DEF Promise, CallKept
    <3> QED
      BY <1>0, <2>4, <2>9, <2>10, <3>1, OneKind DEF Promise
  <2>11. CASE q \in Made({"login"})
    <3>1. LoginKept(q) /\ q \notin Open /\ q # p
      BY <1>0, <2>1, <2>11, OneKind DEF Promise
    <3>2. pc[q] = "done" /\ pc'[q] = "done"
      BY <1>1, <3>1 DEF LoginKept, Open, Ended
    <3>3. Healthy(t)'
      BY <1>t, <2>5, <2>6, <3>1, <3>2 DEF LoginKept
    <3>4. \A a \in (Open' \cap Of(t)') \ {q} : Current(a)' => Safe(q, a)'
      <4>1. \A a \in Open' \cap Of(t)' :
              /\ a \in Open \cap Of(t) /\ a \in Calls /\ call[a].tab = t
              /\ Current(a)' <=> Current(a)
        BY <1>0, <2>9 DEF Of, Current
      <4>2. \A a \in (Open \cap Of(t)) \ {q} : Current(a) => pc[a] = "accepted" \/ Kept(a)
        BY <1>t, <3>1, <3>2 DEF LoginKept, Safe
      <4> QED
        BY <1>0, <1>1, <2>8, <3>2, <4>1, <4>2 DEF Safe
    <3>5. LoginKept(q)'
      BY <1>0, <1>t, <3>1, <3>2, <3>3, <3>4 DEF LoginKept
    <3> QED
      BY <1>0, <2>4, <2>9, <2>11, <3>5, OneKind DEF Promise
  <2>12. CASE q \in Made({"logout"})
    <3>1. LogoutKept(q) /\ q \notin Open /\ q # p
      BY <1>0, <2>1, <2>12, OneKind DEF Promise
    <3>2. pc[q] = "done" /\ pc'[q] = "done"
      BY <1>1, <3>1 DEF LogoutKept, Open, Ended
    <3>3. LogoutKept(q)'
      BY <1>0, <1>t, <1>2, <2>3, <3>1, <3>2 DEF LogoutKept, Gone
    <3> QED
      BY <1>0, <2>4, <2>9, <2>12, <3>3, OneKind DEF Promise
  <2> QED
    BY <1>0, <2>10, <2>11, <2>12, OneKind
<1> QED
  BY <1>3, <1>4

\* The kinds of an undisturbed call whose tab has a refresh under way.
LEMMA Refreshing ==
  ASSUME IInv, Kinds, Fresh, NEW r \in Calls, refresh[r] # None, NEW q \in Calls, Promise(q),
         NEW t \in Tabs, t = call[q].tab
  PROVE  /\ call[q] # None /\ refreshInFlight[t] = r /\ r # None /\ call[r].tab = t /\ refresh[r] \in Refresh
         /\ \A a \in Calls : call[a].tab = t /\ Kept(a) => call[a].attempt = 1 /\ call[a].token = accessToken[t]
         /\ \/ q \in Authenticated /\ pc[q] \in {"accepted", "done"}
            \/ q \in Authenticated /\ Healthy(t) /\ Kept(q)
            \/ q \in Made({"login"}) /\ LoginKept(q) /\ pc[q] = "waiting"
            \/ q \in Made({"login"}) /\ LoginKept(q) /\ pc[q] = "done" /\ Healthy(t)
            \/ q \in Made({"logout"}) /\ LogoutKept(q) /\ pc[q] = "waiting" /\ Fit(t)
            \/ /\ q \in Made({"logout"}) /\ LogoutKept(q) /\ pc[q] = "done"
               /\ refresh[r].cookie = None /\ refresh[r].stage \in {"sent", "denied"}
<1>1. /\ call[q] # None /\ refreshInFlight[t] = r /\ r # None /\ call[r].tab = t
      /\ refresh[r] \in Refresh
  BY OneRefresh, Records, TokensAssumption DEF Promise, Alone, IInv
<1>2. ~Good(t)
  BY <1>1 DEF Good
<1>3. \A a \in Calls : call[a].tab = t /\ Kept(a) => call[a].attempt = 1 /\ call[a].token = accessToken[t]
  BY <1>2 DEF Kept
<1>4. CASE q \in Authenticated
  BY <1>1, <1>3, <1>4 DEF Promise, CallKept
<1>5. CASE q \in Made({"login"})
  BY <1>1, <1>3, <1>5 DEF Promise, LoginKept
<1>6. CASE q \in Made({"logout"})
  BY <1>1, <1>3, <1>6 DEF Promise, LogoutKept
<1> QED
  BY <1>1, <1>4, <1>5, <1>6, OneKind

\* The server answers a refresh.
LEMMA ServeRefreshPromise ==
  ASSUME Base, Moves, NEW r \in Calls, ServeRefresh(r), NEW q \in Calls, Promise(q)
  PROVE  Promise(q)'
<1>0. /\ IInv /\ Kinds /\ Fresh /\ Alone(q) /\ Alone(q)' /\ call[q] # None /\ refresh[r] # None
      /\ UNCHANGED <<expired, jar, accessToken, sessionGeneration, refreshInFlight, call, pc>>
  BY AloneKept DEF Base, Promise, ServeRefresh, Alone, tab
<1>t. PICK t \in Tabs : t = call[q].tab
  BY <1>0, OneKind
<1>1. /\ refreshInFlight[t] = r /\ r # None /\ call[r].tab = t /\ refresh[r] \in Refresh
      /\ \A a \in Calls : call[a].tab = t /\ Kept(a) => call[a].attempt = 1 /\ call[a].token = accessToken[t]
  BY <1>0, <1>t, Refreshing
<1>2. /\ refresh[r].stage = "sent" /\ refresh'[r].cookie = refresh[r].cookie
      /\ refresh'[r].generation = refresh[r].generation
  BY <1>0, ServeRefreshEffect
<1>3. /\ Of(t)' = Of(t) /\ Open' = Open /\ Authenticated' = Authenticated
      /\ Made({"login"})' = Made({"login"}) /\ Made({"logout"})' = Made({"logout"})
  BY <1>0 DEF Of, Open, Authenticated, Made
<1>4. Fit(t) => Fit(t)'
  <2> SUFFICES ASSUME Fit(t) PROVE Fit(t)'
    OBVIOUS
  <2>1. jar = refresh[r].cookie /\ jar \in Live
    BY <1>1, <1>2 DEF Fit
  <2>2. refresh'[r].stage = "accepted" /\ r \in Live'
    BY <1>0, <2>1, ServeRefreshEffect DEF Rotates
  <2> QED
    BY <1>0, <1>1, <1>2, <2>1, <2>2 DEF Fit
<1>5. Healthy(t) => Healthy(t)'
  <2>1. Stale(r)' <=> Stale(r)
    BY <1>0, <1>2 DEF Stale
  <2> QED
    BY <1>0, <1>1, <1>4, <2>1 DEF Healthy, Fit
<1>6. \A a \in Calls : call[a].tab = t /\ Kept(a) => Kept(a)'
  BY <1>0, <1>1 DEF Kept, Current
<1>7. CASE q \in Authenticated /\ CallKept(q)
  BY <1>0, <1>t, <1>3, <1>5, <1>6, <1>7, OneKind DEF Promise, CallKept
<1>8. CASE q \in Made({"login"}) /\ LoginKept(q) /\ pc[q] \in {"waiting", "done"}
  <2>1. \A a \in Open \cap Of(t) : /\ a \in Calls /\ call[a].tab = t
                                   /\ Current(a)' <=> Current(a)
    BY <1>0 DEF Of, Current
  <2>2. LoginKept(q)'
    BY <1>0, <1>t, <1>3, <1>5, <1>6, <1>8, <2>1 DEF LoginKept, Safe
  <2> QED
    BY <1>0, <1>3, <1>8, <2>2, OneKind DEF Promise
<1>9. CASE q \in Made({"logout"}) /\ LogoutKept(q) /\ pc[q] = "waiting" /\ Fit(t)
  <2>1. LogoutKept(q)'
    BY <1>0, <1>t, <1>4, <1>9 DEF LogoutKept
  <2> QED
    BY <1>0, <1>3, <1>9, <2>1, OneKind DEF Promise
<1>10. CASE /\ q \in Made({"logout"}) /\ LogoutKept(q) /\ pc[q] = "done"
            /\ refresh[r].cookie = None
  <2>1. refresh'[r].stage = "denied" /\ End({})
    <3>1. refresh[r].cookie \notin Live
      BY <1>10, TokensAssumption DEF Live
    <3> QED
      BY <1>0, <1>10, <3>1, ServeRefreshEffect
  <2>2. session' = session
    BY <1>0, <2>1 DEF End, IInv, TypeOK
  <2>3. LogoutKept(q)'
    BY <1>0, <1>t, <1>1, <1>2, <1>10, <2>1, <2>2 DEF LogoutKept, Gone, Live
  <2> QED
    BY <1>0, <1>3, <1>10, <2>3, OneKind DEF Promise
<1> QED
  BY <1>0, <1>t, <1>7, <1>8, <1>9, <1>10, Refreshing DEF CallKept

\* The end of a refresh that has brought no token: who waits to sign in or out goes on.
LEMMA SettlePromise ==
  ASSUME Base, Moves, NEW r \in Calls, refresh[r] # None, Settle(r, jar', None), jar' \in Tokens \cup {None},
         NEW q \in Calls, Promise(q), UNCHANGED <<session, expired>>,
         NEW t \in Tabs, t = call[q].tab, ~Healthy(t),
         Fit(t) => jar' \in Live, refresh[r].stage # "accepted" => jar' = jar,
         accessToken'[t] \in {accessToken[t], None}
  PROVE  Promise(q)'
<1>0. /\ IInv /\ Kinds /\ Fresh /\ Alone(q) /\ call[q] # None
      /\ refreshInFlight[t] = r /\ call[r].tab = t
  BY Refreshing DEF Base, Promise, Alone
<1>1. /\ \A u \in Tabs : refreshInFlight'[u] = IF u = t THEN None ELSE refreshInFlight[u]
      /\ \A a \in Calls \ Waiters(r) : pc'[a] = pc[a] /\ call'[a] = call[a]
      /\ \A a \in Waiters(r) :
              /\ a \in Calls /\ call[a] \in Call /\ call'[a] \in Call
              /\ pc[a] \in {"waiting", "refreshing"}
              /\ call'[a].fun = call[a].fun /\ call'[a].tab = call[a].tab
              /\ pc[a] = "waiting" =>
                   /\ pc'[a] = "sent"
                   /\ call'[a].token = IF call[a].fun = "logout" THEN jar' ELSE None
  <2>1. None \in Tokens \cup {None}
    OBVIOUS
  <2> QED
    BY <1>0, <2>1, SettleEffect
<1>2. Alone(q)'
  BY <1>0, <1>1, AloneKept
<1>3. /\ call'[q] # None /\ call'[q].tab = t /\ call'[q].fun = call[q].fun
      /\ Live' = Live /\ Open' \subseteq Open
  BY <1>0 DEF Moves, Live
<1>4. /\ q \in Authenticated' <=> q \in Authenticated
      /\ q \in Made({"login"})' <=> q \in Made({"login"})
      /\ q \in Made({"logout"})' <=> q \in Made({"logout"})
  BY <1>0, <1>3 DEF Authenticated, Made
<1>5. pc[q] = "waiting" => q \in Waiters(r)
  BY <1>0 DEF Waiters, Of
<1>6. pc[q] \in {"accepted", "done"} => q \notin Waiters(r)
  BY DEF Waiters
<1>7. CASE q \in Authenticated /\ pc[q] \in {"accepted", "done"}
  BY <1>1, <1>2, <1>3, <1>4, <1>6, <1>7, <1>0, OneKind DEF Promise, CallKept
<1>8. CASE q \in Made({"login"}) /\ LoginKept(q) /\ pc[q] = "waiting"
  <2>1. pc'[q] = "sent" /\ refreshInFlight'[t] = None
    BY <1>1, <1>5, <1>8
  <2>2. LoginKept(q)'
    BY <1>3, <1>8, <2>1 DEF LoginKept
  <2> QED
    BY <1>0, <1>2, <1>4, <1>8, <2>2, OneKind DEF Promise
<1>9. CASE q \in Made({"logout"}) /\ LogoutKept(q) /\ pc[q] = "waiting" /\ Fit(t)
  <2>1. pc'[q] = "sent" /\ refreshInFlight'[t] = None /\ call'[q].token = jar' /\ jar' \in Live'
    BY <1>1, <1>3, <1>5, <1>9 DEF Made
  <2>2. LogoutKept(q)'
    BY <1>3, <2>1 DEF LogoutKept
  <2> QED
    BY <1>0, <1>2, <1>4, <1>9, <2>2, OneKind DEF Promise
<1>10. CASE q \in Made({"logout"}) /\ LogoutKept(q) /\ pc[q] = "done" /\ refresh[r].stage # "accepted"
  <2>1. /\ pc'[q] = "done" /\ refreshInFlight'[t] = None /\ jar' = None /\ accessToken'[t] = None
        /\ call'[q] = call[q]
    BY <1>1, <1>6, <1>10 DEF LogoutKept
  <2>2. LogoutKept(q)'
    BY <1>3, <1>10, <2>1 DEF LogoutKept, Gone
  <2> QED
    BY <1>0, <1>2, <1>4, <1>10, <2>2, OneKind DEF Promise
<1> QED
  BY <1>0, <1>7, <1>8, <1>9, <1>10, Refreshing

\* The answer to a refresh arrives.
LEMMA ArriveRefreshPromise ==
  ASSUME Base, Moves, NEW r \in Calls, ArriveRefresh(r), NEW q \in Calls, Promise(q)
  PROVE  Promise(q)'
<1>0. /\ IInv /\ Kinds /\ Fresh /\ Alone(q) /\ call[q] # None /\ refresh[r] # None
      /\ refresh[r].stage \in {"accepted", "denied"}
      /\ UNCHANGED <<session, expired>>
  BY DEF Base, Promise, ArriveRefresh, Alone, server
<1>t. PICK t \in Tabs : t = call[q].tab
  BY <1>0, OneKind
<1>1. /\ refreshInFlight[t] = r /\ r # None /\ call[r].tab = t /\ refresh[r] \in Refresh
      /\ \A a \in Calls : call[a].tab = t /\ Kept(a) => call[a].attempt = 1 /\ call[a].token = accessToken[t]
  BY <1>0, <1>t, Refreshing
<1>2. Fit(t) => /\ jar = refresh[r].cookie /\ r \in Live /\ refresh[r].stage = "accepted"
  <2>1. refresh[r].stage = "denied" => r \notin Live
    BY <1>0, Getting DEF Live
  <2> QED
    BY <1>0, <1>1, <2>1 DEF Fit
<1>3. jar' = IF refresh[r].stage = "accepted" THEN r ELSE jar
  BY DEF ArriveRefresh
<1>4. CASE Stale(r) \/ refresh[r].stage = "denied"
  <2>1. Settle(r, jar', None) /\ jar' \in Tokens \cup {None}
    BY <1>0, <1>3, <1>4 DEF ArriveRefresh, IInv, TypeOK, Tokens
  <2>2. ~Healthy(t)
    BY <1>0, <1>1, <1>2, <1>4, HealthyParts
  <2>3. accessToken'[t] \in {accessToken[t], None}
    BY <1>0, <1>1, <1>4, ClearEffect DEF ArriveRefresh
  <2>4. refresh[r].stage # "accepted" => jar' = jar
    BY <1>3
  <2> QED
    BY <1>0, <1>2, <1>3, <1>t, <2>1, <2>2, <2>3, <2>4, SettlePromise
<1>5. CASE ~Stale(r) /\ refresh[r].stage = "accepted"
  <2>1. /\ refresh' = [refresh EXCEPT ![r].stage = "reading"] /\ jar' = r
        /\ UNCHANGED <<accessToken, sessionGeneration, refreshInFlight, call, pc>>
    BY <1>3, <1>5 DEF ArriveRefresh
  <2>2. /\ refresh'[r].stage = "reading" /\ refresh'[r].generation = refresh[r].generation
        /\ refresh'[r].cookie = refresh[r].cookie
    <3>1. refresh'[r] = [refresh[r] EXCEPT !.stage = "reading"]
      BY <1>0, <2>1 DEF IInv, TypeOK
    <3> QED
      BY <1>1, <3>1 DEF Refresh
  <2>3. /\ Of(t)' = Of(t) /\ Open' = Open /\ Authenticated' = Authenticated /\ Live' = Live
        /\ Made({"login"})' = Made({"login"}) /\ Made({"logout"})' = Made({"logout"})
    BY <1>0, <2>1 DEF Of, Open, Authenticated, Made, Live
  <2>4. Alone(q)'
    BY <1>0, <2>1, AloneKept
  <2>5. Fit(t) => Fit(t)' /\ Healthy(t)'
    BY <1>1, <1>2, <1>5, <2>1, <2>2, <2>3 DEF Fit, Healthy, Stale
  <2>6. Healthy(t) => Healthy(t)'
    BY <2>5, HealthyParts
  <2>7. \A a \in Calls : call[a].tab = t /\ Kept(a) => Kept(a)'
    BY <1>1, <2>1 DEF Kept, Current
  <2>8. CASE q \in Authenticated /\ CallKept(q)
    BY <1>0, <1>t, <2>1, <2>3, <2>4, <2>6, <2>7, <2>8, OneKind DEF Promise, CallKept
  <2>9. CASE q \in Made({"login"}) /\ LoginKept(q) /\ pc[q] \in {"waiting", "done"}
    <3>1. \A a \in Open \cap Of(t) : /\ a \in Calls /\ call[a].tab = t
                                     /\ Current(a)' <=> Current(a)
      BY <2>1 DEF Of, Current
    <3>2. LoginKept(q)'
      BY <1>0, <1>t, <2>1, <2>3, <2>6, <2>7, <2>9, <3>1 DEF LoginKept, Safe
    <3> QED
      BY <1>0, <2>3, <2>4, <2>9, <3>2, OneKind DEF Promise
  <2>10. CASE q \in Made({"logout"}) /\ LogoutKept(q) /\ pc[q] = "waiting" /\ Fit(t)
    <3>1. LogoutKept(q)'
      BY <1>t, <2>1, <2>5, <2>10 DEF LogoutKept
    <3> QED
      BY <1>0, <2>3, <2>4, <2>10, <3>1, OneKind DEF Promise
  <2> QED
    BY <1>0, <1>t, <1>5, <2>8, <2>9, <2>10, Refreshing DEF CallKept
<1> QED
  BY <1>0, <1>4, <1>5

\* The rest of the answer to a refresh: the tab has the token, and all that waited go on.
LEMMA ReadRefreshPromise ==
  ASSUME Base, Moves, NEW r \in Calls, ReadRefresh(r), NEW q \in Calls, Promise(q)
  PROVE  Promise(q)'
<1>0. /\ IInv /\ Kinds /\ Fresh /\ Alone(q) /\ call[q] # None /\ refresh[r] # None
      /\ refresh[r].stage = "reading" /\ Settle(r, jar, r)
      /\ UNCHANGED <<session, expired, jar, sessionGeneration>>
  BY DEF Base, Promise, ReadRefresh, Alone, server
<1>t. PICK t \in Tabs : t = call[q].tab
  BY <1>0, OneKind
<1>1. /\ refreshInFlight[t] = r /\ r # None /\ call[r].tab = t
      /\ \A a \in Calls : call[a].tab = t /\ Kept(a) => call[a].attempt = 1 /\ call[a].token = accessToken[t]
  BY <1>0, <1>t, Refreshing
<1>2. /\ \A u \in Tabs : refreshInFlight'[u] = IF u = t THEN None ELSE refreshInFlight[u]
      /\ \A a \in Calls \ Waiters(r) : pc'[a] = pc[a] /\ call'[a] = call[a]
      /\ \A a \in Waiters(r) :
              /\ a \in Calls /\ call[a] # None /\ pc[a] \in {"waiting", "refreshing"}
              /\ call'[a].fun = call[a].fun /\ call'[a].tab = call[a].tab
              /\ call'[a].generation = call[a].generation /\ pc'[a] = "sent"
              /\ pc[a] = "waiting" => call'[a].token = IF call[a].fun = "logout" THEN jar ELSE None
              /\ pc[a] = "refreshing" => call'[a].token = r
  <2>1. r \in Tokens \cup {None} /\ jar \in Tokens \cup {None}
    BY <1>0 DEF IInv, TypeOK, Tokens
  <2> QED
    BY <1>0, <1>1, <2>1, SettleEffect, NoRecordAssumption
<1>3. Alone(q)' /\ accessToken'[t] = r /\ Live' = Live /\ Open' \subseteq Open
  <2>1. accessToken'[t] = r
    BY <1>0, <1>1 DEF ReadRefresh, storeAccessToken, IInv, TypeOK
  <2> QED
    BY <1>0, <1>2, <1>t, <2>1, AloneKept DEF Live, Moves
<1>4. \A a \in Calls : call'[a] # None =>
        call[a] # None /\ call[a].tab = call'[a].tab /\ call[a].fun = call'[a].fun
          /\ call[a].generation = call'[a].generation
  BY DEF Moves
<1>5. /\ call'[q] # None /\ call'[q].tab = t
      /\ q \in Authenticated' <=> q \in Authenticated
      /\ q \in Made({"login"})' <=> q \in Made({"login"})
      /\ q \in Made({"logout"})' <=> q \in Made({"logout"})
  BY <1>0, <1>t DEF Moves, Authenticated, Made
<1>6. Fit(t) => Good(t)' /\ Healthy(t)' /\ jar = r
  <2>1. r \notin expired
    BY <1>0, Getting DEF Fresh
  <2> QED
    BY <1>0, <1>1, <1>2, <1>3, <2>1 DEF Fit, Good, Healthy
<1>7. ASSUME Good(t)', NEW a \in Calls, call[a] # None, call[a].tab = t, Kept(a) PROVE Kept(a)'
  <2>1. CASE a \in Waiters(r)
    <3>1. pc[a] = "refreshing"
      BY <1>2, <1>7, <2>1 DEF Kept
    <3> QED
      BY <1>0, <1>2, <1>3, <1>7, <2>1, <3>1 DEF Kept, Current
  <2>2. CASE a \notin Waiters(r)
    <3>1. pc'[a] = pc[a] /\ call'[a] = call[a] /\ call[a].attempt = 1
      BY <1>1, <1>2, <1>7, <2>2
    <3> QED
      BY <1>0, <1>7, <3>1 DEF Kept, Current
  <2> QED
    BY <2>1, <2>2
<1>8. pc[q] = "waiting" => q \in Waiters(r)
  BY <1>0, <1>1, <1>t DEF Waiters, Of
<1>9. \A a \in Calls : pc[a] \in {"accepted", "done"} => pc'[a] = pc[a]
  BY <1>2 DEF Waiters
<1>10. CASE q \in Authenticated /\ pc[q] \in {"accepted", "done"}
  BY <1>0, <1>3, <1>5, <1>9, <1>10, OneKind DEF Promise, CallKept
<1>11. CASE q \in Authenticated /\ Healthy(t) /\ Kept(q)
  <2>1. CallKept(q)'
    BY <1>0, <1>t, <1>5, <1>6, <1>7, <1>11, HealthyParts DEF CallKept
  <2> QED
    BY <1>0, <1>3, <1>5, <1>11, <2>1, OneKind DEF Promise
<1>12. CASE q \in Made({"login"}) /\ LoginKept(q) /\ pc[q] = "waiting"
  <2>1. pc'[q] = "sent" /\ refreshInFlight'[t] = None
    BY <1>2, <1>8, <1>12
  <2>2. LoginKept(q)'
    BY <1>0, <1>t, <1>5, <1>12, <2>1 DEF LoginKept
  <2> QED
    BY <1>0, <1>3, <1>5, <1>12, <2>2, OneKind DEF Promise
<1>13. CASE q \in Made({"login"}) /\ LoginKept(q) /\ pc[q] = "done" /\ Healthy(t)
  <2>1. Good(t)' /\ Healthy(t)'
    BY <1>6, <1>13, HealthyParts
  <2>2. \A a \in Open' \cap Of(t)' : /\ a \in Open \cap Of(t) /\ a \in Calls /\ call[a] # None
                                     /\ call[a].tab = t /\ (Current(a)' <=> Current(a))
    <3>1. \A a \in Open' \cap Of(t)' : a \in Calls /\ call'[a] # None /\ call'[a].tab = t
      BY DEF Of
    <3> QED
      BY <1>0, <1>3, <1>4, <3>1 DEF Of, Current
  <2>3. \A a \in (Open \cap Of(t)) \ {q} : Current(a) => pc[a] = "accepted" \/ Kept(a)
    BY <1>13, <1>t DEF LoginKept, Safe
  <2>4. \A a \in (Open' \cap Of(t)') \ {q} : Current(a)' => Safe(q, a)'
    BY <1>7, <1>9, <1>13, <2>1, <2>2, <2>3 DEF Safe
  <2>5. LoginKept(q)'
    BY <1>1, <1>3, <1>5, <1>9, <1>13, <2>1, <2>4 DEF LoginKept
  <2> QED
    BY <1>0, <1>3, <1>5, <1>13, <2>5, OneKind DEF Promise
<1>14. CASE q \in Made({"logout"}) /\ LogoutKept(q) /\ pc[q] = "waiting" /\ Fit(t)
  <2>1. pc'[q] = "sent" /\ refreshInFlight'[t] = None /\ call'[q].token = jar' /\ jar' \in Live'
    BY <1>0, <1>2, <1>3, <1>6, <1>8, <1>14 DEF Made, Good
  <2>2. LogoutKept(q)'
    BY <1>5, <2>1 DEF LogoutKept
  <2> QED
    BY <1>0, <1>3, <1>5, <1>14, <2>2, OneKind DEF Promise
<1> QED
  BY <1>0, <1>t, <1>10, <1>11, <1>12, <1>13, <1>14, Refreshing

\* A call that nothing is under way for starts undisturbed; a sign-in or a sign-out
\* disturbs all others.
LEMMA StartPromise ==
  ASSUME Base, Undisturbed, NEW p \in Calls, NEW u \in Tabs, NEW fun \in Functions, Start(p, u, fun),
         NEW q \in undisturbed'
  PROVE  Promise(q)'
<1>0. /\ IInv /\ pc[p] = "idle" /\ call[p] = None /\ p \notin undisturbed
      /\ q \in undisturbed \/ (q = p /\ Quiet(u, fun))
      /\ fun \in {"login", "logout", "logoutAll"} => q \notin undisturbed \/ q = p
      /\ UNCHANGED <<session, expired, jar, accessToken, sessionGeneration, refreshInFlight, refresh>>
  <2>1. IInv /\ call[p] = None
    BY StartEffect DEF Base
  <2>2. p \notin undisturbed
    BY <2>1 DEF Undisturbed, Promise, Alone
  <2> QED
    BY <2>1, <2>2 DEF Start, server
<1>1. /\ \A a \in Calls \ {p} : pc'[a] = pc[a] /\ call'[a] = call[a]
      /\ pc'[p] = (IF MustWait(u, fun) THEN "waiting" ELSE "sent")
      /\ call'[p] # None /\ call'[p].fun = fun /\ call'[p].tab = u
      /\ call'[p].token = Bearer(u, fun) /\ call'[p].generation = sessionGeneration[u]
      /\ call'[p].attempt = 1
  BY <1>0, StartEffect, NoRecordAssumption
<1>2. Live' = Live
  BY <1>0 DEF Live
<1>3. CASE q = p /\ Quiet(u, fun)
  <2>1. Alone(p)'
    <3>1. Open' \subseteq Open \cup {p} /\ Changing' \subseteq Changing \cup {p}
      BY <1>1 DEF Open, Changing, Made
    <3> QED
      BY <1>0, <1>1, <1>3, <3>1 DEF Quiet, Alone
  <2>2. CASE fun \in {"bootstrap", "api", "dashboard", "logoutAll"}
    <3>1. Healthy(u)'
      <4>1. refreshInFlight[u] # None => call'[refreshInFlight[u]] = call[refreshInFlight[u]]
        BY <1>0, <1>1, InFlight
      <4> QED
        BY <1>0, <1>2, <1>3, <2>2, <4>1 DEF Quiet, Healthy, Stale
    <3>2. Kept(p)'
      BY <1>0, <1>1, <2>2 DEF Kept, Current, MustWait, Bearer
    <3> QED
      BY <1>1, <1>3, <2>1, <2>2, <3>1, <3>2 DEF Promise, CallKept, Made
  <2>3. CASE fun = "login"
    <3>1. LoginKept(p)'
      BY <1>0, <1>1, <2>3 DEF LoginKept, MustWait
    <3> QED
      BY <1>1, <1>3, <2>1, <2>3, <3>1 DEF Promise, Made, Authenticated
  <2>4. CASE fun = "logout"
    <3>1. Fit(u) /\ Fit(u)'
      BY <1>0, <1>2, <1>3, <2>4, HealthyParts, FitSame DEF Quiet
    <3>2. LogoutKept(p)'
      BY <1>0, <1>1, <1>2, <2>4, <3>1 DEF LogoutKept, MustWait, Bearer, Fit
    <3> QED
      BY <1>1, <1>3, <2>1, <2>4, <3>2 DEF Promise, Made, Authenticated
  <2> QED
    BY <2>2, <2>3, <2>4 DEF Functions
<1>4. CASE q \in undisturbed
  <2>1. /\ q \in Calls \ {p} /\ Promise(q) /\ Alone(q) /\ call[q] # None
        /\ fun \in {"bootstrap", "api", "dashboard"}
    BY <1>0, <1>4 DEF Undisturbed, IInv, TypeOK, Functions, Promise, Alone
  <2>2. pc'[q] = pc[q] /\ call'[q] = call[q]
    BY <1>1, <2>1
  <2>3. Alone(q)'
    BY <1>0, <1>1, <2>1, <2>2 DEF Alone, Open, Changing, Made
  <2>4. \A a \in Calls : call[a] # None =>
          /\ call'[a] # None /\ call'[a].fun = call[a].fun /\ call'[a].tab = call[a].tab
          /\ call'[a].generation = call[a].generation
    BY <1>0, <1>1
  <2>5. u = call[q].tab => Kept(p)' /\ Asks(p)'
    BY <1>0, <1>1, <2>1 DEF Kept, Asks, Current, MustWait, Bearer
  <2>6. ASSUME NEW a \in Calls \ {q}, q \in Made({"login"}), pc[q] \in {"reading", "done"},
               a \in Open', call'[a].tab = call[q].tab
        PROVE  \/ a \in Open /\ call[a] # None /\ (Current(a) /\ Safe(q, a) => Safe(q, a)')
               \/ Safe(q, a)'
    <3>1. CASE a = p
      BY <1>1, <2>2, <2>5, <2>6, <3>1 DEF Safe
    <3>2. CASE a # p
      <4>1. a \in Open /\ call[a] # None /\ pc'[a] = pc[a] /\ call'[a] = call[a]
        BY <1>0, <1>1, <2>6, <3>2 DEF Open, IInv, Started
      <4>2. Good(call[a].tab) => Good(call[a].tab)'
        BY <1>0, <1>2, <4>1 DEF Good
      <4>3. Kept(a) => Kept(a)'
        BY <1>0, <4>1, <4>2, KeptSame
      <4> QED
        BY <1>0, <2>2, <4>1, <4>3 DEF Safe, Asks
    <3> QED
      BY <3>1, <3>2
  <2> QED
    BY <1>0, <2>1, <2>2, <2>3, <2>4, <2>6, PromiseSame
<1> QED
  BY <1>0, <1>3, <1>4

-----------------------------------------------------------------------------
(* The invariant of the undisturbed calls and what it implies. *)

\* Every step keeps the promise to the calls that it does not disturb.
LEMMA StepUndisturbed == Base /\ Undisturbed /\ [Next]_vars => Undisturbed'
<1> SUFFICES ASSUME Base, Undisturbed, [Next]_vars, NEW q \in undisturbed' PROVE Promise(q)'
  BY DEF Undisturbed
<1>1. ASSUME NEW p \in Calls, NEW t \in Tabs, NEW fun \in Functions, Start(p, t, fun)
      PROVE  Promise(q)'
  BY <1>1, StartPromise
<1>2. CASE \A p \in Calls, t \in Tabs, fun \in Functions : ~Start(p, t, fun)
  <2>1. IInv /\ Moves /\ undisturbed \subseteq Calls
    BY <1>2, StepMoves DEF Base, IInv, TypeOK
  <2>2. undisturbed' \subseteq undisturbed
    <3>1. ASSUME NEW p \in Calls,
           ServeCall(p) \/ Succeed(p) \/ Reuse(p) \/ Reject(p) \/ refreshSession(p)
             \/ ArriveLogin(p) \/ ReadLogin(p) \/ ArriveLogout(p) \/ LoseCall(p)
          PROVE  undisturbed' \subseteq undisturbed
      BY <3>1 DEF ServeCall, Succeed, Reuse, refreshSession, Reject, ArriveLogin, ReadLogin,
         ArriveLogout, LoseCall, SignChange, Disturb
    <3>2. ASSUME NEW r \in Calls,
                 ServeRefresh(r) \/ ArriveRefresh(r) \/ ReadRefresh(r) \/ LoseRefresh(r)
          PROVE  undisturbed' \subseteq undisturbed
      BY <3>2 DEF ServeRefresh, ArriveRefresh, ReadRefresh, LoseRefresh, SignChange, Disturb
    <3>3. ASSUME \/ \E t \in Tabs : Reload(t)
                 \/ \E s \in Tokens : Expire(s) \/ EndElsewhere(s)
                 \/ \E p \in Calls : ServeLateCall(p) \/ ServeLateRefresh(p)
                 \/ UNCHANGED vars
          PROVE  undisturbed' \subseteq undisturbed
      BY <3>3 DEF Expire, EndElsewhere, ServeLateCall, ServeLateRefresh, Reload, vars, Disturb
    <3> QED
      BY <1>2, <3>1, <3>2, <3>3, NextCases
  <2>3. q \in Calls /\ Promise(q)
    BY <2>1, <2>2 DEF Undisturbed
  <2>4. ASSUME NEW p \in Calls,
               \/ ServeCall(p) \/ Succeed(p) \/ Reuse(p) \/ Reject(p) \/ refreshSession(p)
               \/ ArriveLogin(p) \/ ReadLogin(p) \/ ArriveLogout(p)
               \/ ServeRefresh(p) \/ ArriveRefresh(p) \/ ReadRefresh(p)
        PROVE  Promise(q)'
    BY <2>1, <2>3, <2>4, ServeCallPromise, SucceedPromise, ReusePromise, RejectPromise, RefreshPromise,
       ArriveLoginPromise, ReadLoginPromise, ArriveLogoutPromise, ServeRefreshPromise,
       ArriveRefreshPromise, ReadRefreshPromise
  <2>5. ASSUME \/ \E p \in Calls : LoseCall(p) \/ LoseRefresh(p)
               \/ \E p \in Calls : ServeLateCall(p) \/ ServeLateRefresh(p)
               \/ \E t \in Tabs : Reload(t)
               \/ \E s \in Tokens : EndElsewhere(s)
        PROVE  FALSE
    BY <2>1, <2>5
    DEF LoseCall, LoseRefresh, ServeLateCall, ServeLateRefresh, Reload, EndElsewhere, Disturb
  <2>6. ASSUME NEW s \in Tokens, Expire(s) PROVE Promise(q)'
    BY <2>3, <2>6, ExpirePromise
  <2>7. CASE UNCHANGED vars
    <3>1. /\ UNCHANGED <<session, expired, jar, accessToken, sessionGeneration>>
          /\ UNCHANGED <<refreshInFlight, call, pc, refresh>>
      BY <2>7 DEF vars, server, tab
    <3>2. Alone(q)' /\ Open' = Open
      BY <2>1, <2>3, <3>1, AloneKept DEF Promise, Open
    <3>3. \A a \in Calls : Safe(q, a) => Safe(q, a)'
      BY <3>1 DEF Safe, Asks, Kept, Current, Good, Live
    <3>4. \A a \in Open : a \in Calls /\ call[a] # None
      BY <2>1 DEF Open, IInv, Started
    <3> QED
      BY <2>1, <2>3, <3>1, <3>2, <3>3, <3>4, PromiseSame
  <2> QED
    BY <1>2, <2>4, <2>5, <2>6, <2>7, NextCases
<1> QED
  BY <1>1, <1>2

\* At the start there is no call.
LEMMA InitUndisturbed == Init => Undisturbed
BY DEF Init, Undisturbed

\* The inductive invariant of the calls that nothing has come in between of: until such
\* a call ends, its tab, its token and the cookie are such that it can (api.ts:92-188).
THEOREM UndisturbedInvariance == Spec => [](Base /\ Undisturbed)
BY InitBase, StepBase, InitUndisturbed, StepUndisturbed, PTL DEF Spec

\* A call fails with 401 only if something came in between: the calls of a tab share one
\* refresh and its token (api.ts:114-142).
THEOREM CallsSucceed == Spec => []UndisturbedCallsSucceed
<1>1. Base /\ Undisturbed => UndisturbedCallsSucceed
  <2> SUFFICES ASSUME Base, Undisturbed, NEW q \in undisturbed, pc[q] = "unauthorized" PROVE FALSE
    BY DEF UndisturbedCallsSucceed
  <2>1. IInv /\ q \in Calls /\ Promise(q) /\ call[q] # None
    BY DEF Base, Undisturbed, Promise, Alone, IInv, TypeOK
  <2> QED
    BY <2>1, OneKind DEF Promise, CallKept, LoginKept, LogoutKept, Kept
<1> QED
  BY <1>1, UndisturbedInvariance, PTL

\* A logout that no refresh overtakes leaves no cookie, no token and no live session of
\* its login, although a refresh was under way when it was asked for (api.ts:181-188,
\* auth.py:251-267).
THEOREM LogoutLeavesNothing == Spec => []LogoutIsComplete
<1>1. Base /\ Undisturbed => LogoutIsComplete
  <2> SUFFICES ASSUME Base, Undisturbed, NEW q \in undisturbed, call[q].fun = "logout", pc[q] = "done"
               PROVE  /\ jar = None /\ accessToken[call[q].tab] = None
                      /\ \A s \in Live : session[s].origin # session[call[q].token].origin
    BY DEF LogoutIsComplete
  <2>1. IInv /\ q \in Calls /\ Promise(q) /\ call[q] # None
    BY DEF Base, Undisturbed, Promise, Alone, IInv, TypeOK
  <2> QED
    BY <2>1 DEF Promise, LogoutKept, Made, Gone
<1> QED
  BY <1>1, UndisturbedInvariance, PTL

\* Who has signed in stays signed in, whatever api and the refresh still learn of what the
\* tab had asked for before, a 401 included.  A late 401 that bootstrap or the dashboard
\* gets to see is not covered: it signs the user out (api.ts:101-109, 147, 154-165;
\* page.tsx:40, 60-63).
THEOREM LoginsHold == Spec => []LoginHolds
<1>1. Base /\ Undisturbed => LoginHolds
  <2> SUFFICES ASSUME Base, Undisturbed, NEW q \in undisturbed, call[q].fun = "login", pc[q] = "done"
               PROVE  accessToken[call[q].tab] # None
    BY DEF LoginHolds
  <2>1. IInv /\ q \in Calls /\ Promise(q) /\ call[q] # None
    BY DEF Base, Undisturbed, Promise, Alone, IInv, TypeOK
  <2> QED
    BY <2>1 DEF Promise, LoginKept, Made
<1> QED
  BY <1>1, UndisturbedInvariance, PTL

-----------------------------------------------------------------------------
(* The server keeps the session book. *)

\* The live token of a login is the one that continues it.
LEMMA TokenIs ==
  ASSUME OneLive, NEW l \in Tokens
  PROVE  /\ \A s \in Live : session[s].origin = l => CurrentToken(l) = s
         /\ (\A s \in Live : session[s].origin # l) => CurrentToken(l) = None
<1>1. ASSUME NEW s \in Live, session[s].origin = l PROVE CurrentToken(l) = s
  <2>1. \A u \in Live : session[u].origin = l => u = s
    BY <1>1 DEF OneLive
  <2> QED
    BY <1>1, <2>1 DEF CurrentToken
<1> QED
  BY <1>1 DEF CurrentToken

\* The same after a step.
LEMMA TokenIsNext ==
  ASSUME OneLive', NEW l \in Tokens
  PROVE  /\ \A s \in Live' : session'[s].origin = l => CurrentToken(l)' = s
         /\ (\A s \in Live' : session'[s].origin # l) => CurrentToken(l)' = None
<1>1. ASSUME NEW s \in Live', session'[s].origin = l PROVE CurrentToken(l)' = s
  <2>1. \A u \in Live' : session'[u].origin = l => u = s
    BY <1>1 DEF OneLive
  <2> QED
    BY <1>1, <2>1 DEF CurrentToken
<1> QED
  BY <1>1 DEF CurrentToken

\* A login whose live token stays is continued by that token.
LEMMA SameToken ==
  ASSUME OneLive, OneLive', NEW l \in Tokens,
         \A s \in Tokens : (s \in Live /\ session[s].origin = l)
                             <=> (s \in Live' /\ session'[s].origin = l)
  PROVE  CurrentToken(l)' = CurrentToken(l)
<1>1. Live \subseteq Tokens /\ Live' \subseteq Tokens
  BY DEF Live
<1>2. CASE \E s \in Live : session[s].origin = l
  BY <1>1, <1>2, TokenIs, TokenIsNext
<1>3. CASE \A s \in Live : session[s].origin # l
  <2>1. \A s \in Live' : session'[s].origin # l
    BY <1>1, <1>3
  <2> QED
    BY <1>3, <2>1, TokenIs, TokenIsNext
<1> QED
  BY <1>2, <1>3

\* At the start the login of the browser is all there is.
LEMMA BookInit == Init => Book!Init
<1> SUFFICES ASSUME Init PROVE Book!Init
  OBVIOUS
<1>0. IInv /\ OneLive
  BY InitBase DEF Base
<1>1. /\ \A s \in Tokens \ {first} : session[s] = None
      /\ session[first] = [live |-> TRUE, origin |-> first] /\ first \in Tokens
  BY DEF Init, Tokens
<1>2. session[first] # None /\ session[first].origin = first /\ first \in Live
  <2>1. /\ [live |-> TRUE, origin |-> first] \in Session
        /\ [live |-> TRUE, origin |-> first].origin = first /\ [live |-> TRUE, origin |-> first].live
    BY DEF Session, Tokens
  <2> QED
    BY <1>1, <2>1, NoRecordAssumption DEF Live
<1>3. Live = {first} /\ {s \in Tokens : session[s] # None} = {first}
  BY <1>1, <1>2 DEF Live
<1>4. \A l \in Tokens : CurrentToken(l) = IF l \in {first} THEN l ELSE None
  BY <1>0, <1>2, <1>3, TokenIs
<1> QED
  BY <1>3, <1>4 DEF Book!Init

\* What the book tells of a state.
Issues == {s \in Tokens : session[s] # None}
Continues == [l \in Tokens |-> CurrentToken(l)]

\* Every step makes an entry in the book, or none.
LEMMA BookStep == Base /\ [Next]_vars => [Book!Next]_(Book!vars)
<1> SUFFICES ASSUME Base, [Next]_vars PROVE [Book!Next]_(Book!vars)
  OBVIOUS
<1>0. /\ IInv /\ Kinds /\ Fresh /\ OneLive /\ OneLive' /\ Live \subseteq Tokens /\ Live' \subseteq Tokens
      /\ None \notin Tokens
      /\ \A s \in Live : session[s] # None /\ session[s].origin \in Tokens
  BY StepGrows, TokensAssumption DEF Base, Live, IInv, TypeOK, Session, Tokens
<1>1. ASSUME NEW q \in Calls, SignsIn(q)
      PROVE  Book!SignIn(q)
  <2>1. q \in Tokens /\ q \in Live' /\ q \notin Live
    BY <1>1 DEF Tokens, Live, SignsIn
  <2>2. CurrentToken(q)' = q
    BY <1>0, <1>1, <2>1, TokenIsNext DEF SignsIn
  <2>3. \A l \in Tokens \ {q} : CurrentToken(l)' = CurrentToken(l)
    <3> TAKE l \in Tokens \ {q}
    <3>1. \A s \in Tokens : (s \in Live /\ session[s].origin = l)
                              <=> (s \in Live' /\ session'[s].origin = l)
      BY <1>1, <2>1 DEF SignsIn
    <3> QED
      BY <1>0, <3>1, SameToken
  <2>4. q \notin Issues /\ Issues' = Issues \cup {q}
    BY <1>1, <2>1 DEF Issues, SignsIn
  <2>5. Continues' = [Continues EXCEPT ![q] = q]
    BY <2>2, <2>3 DEF Continues
  <2> QED
    BY <2>4, <2>5 DEF Book!SignIn, Issues, Continues
<1>2. ASSUME NEW r \in Calls, NEW c \in Live, Rotates(c, r)
      PROVE  Book!Rotate(session[c].origin, r)
  <2>1. PICK k \in Tokens : k = session[c].origin
    BY <1>0
  <2>2. r \in Tokens /\ r \in Live' /\ r \notin Live
    BY <1>2 DEF Tokens, Live, Rotates
  <2>3. CurrentToken(k) = c /\ c # None /\ CurrentToken(k)' = r
    BY <1>0, <1>2, <2>1, <2>2, TokenIs, TokenIsNext DEF Rotates
  <2>4. \A l \in Tokens \ {k} : CurrentToken(l)' = CurrentToken(l)
    <3> TAKE l \in Tokens \ {k}
    <3>1. \A s \in Tokens : (s \in Live /\ session[s].origin = l)
                              <=> (s \in Live' /\ session'[s].origin = l)
      BY <1>0, <1>2, <2>1, <2>2 DEF Rotates
    <3> QED
      BY <1>0, <3>1, SameToken
  <2>5. r \notin Issues /\ Issues' = Issues \cup {r}
    BY <1>2, <2>2 DEF Issues, Rotates
  <2>6. Continues[k] # None /\ Continues' = [Continues EXCEPT ![k] = r]
    BY <2>1, <2>3, <2>4 DEF Continues
  <2> QED
    BY <2>1, <2>5, <2>6 DEF Book!Rotate, Book!Open, Issues, Continues
<1>3. ASSUME NEW S \in SUBSET Live, End(S)
      PROVE  \E L \in SUBSET Book!Open : Book!End(L)
  <2> DEFINE L == {session[s].origin : s \in S}
  <2>1. \A s \in Tokens : /\ session[s] # None <=> session'[s] # None
                          /\ session[s] # None => session'[s].origin = session[s].origin
                          /\ s \in Live' <=> s \in Live \ S
    BY <1>0, <1>3, EndEffect
  <2>2. \A l \in L : l \in Tokens /\ CurrentToken(l) # None /\ CurrentToken(l)' = None
    <3> SUFFICES ASSUME NEW s \in S, NEW l \in Tokens, l = session[s].origin
                 PROVE  CurrentToken(l) # None /\ CurrentToken(l)' = None
      BY <1>0
    <3>1. CurrentToken(l) = s /\ s # None
      BY <1>0, TokenIs
    <3>2. \A u \in Live' : session'[u].origin # l
      BY <1>0, <2>1 DEF OneLive
    <3> QED
      BY <1>0, <3>1, <3>2, TokenIsNext
  <2>3. \A l \in Tokens \ L : CurrentToken(l)' = CurrentToken(l)
    <3> TAKE l \in Tokens \ L
    <3>1. \A s \in Tokens : (s \in Live /\ session[s].origin = l)
                              <=> (s \in Live' /\ session'[s].origin = l)
      BY <1>0, <2>1
    <3> QED
      BY <1>0, <3>1, SameToken
  <2>4. Issues' = Issues
    BY <2>1 DEF Issues
  <2> HIDE DEF L
  <2>5. L \subseteq {l \in Tokens : Continues[l] # None}
    BY <2>2 DEF Continues
  <2>6. Continues' = [l \in Tokens |-> IF l \in L THEN None ELSE Continues[l]]
    BY <2>2, <2>3 DEF Continues
  <2>7. L \in SUBSET Book!Open /\ Book!End(L)
    BY <2>4, <2>5, <2>6 DEF Book!Open, Book!End, Issues, Continues
  <2> QED
    BY <2>7
<1>4. ASSUME NEW S \in SUBSET Live, End(S) PROVE Book!Next
  BY <1>3, <1>4 DEF Book!Next
<1>5. CASE UNCHANGED session
  BY <1>5 DEF Book!vars, CurrentToken, Live
<1>6. Calls \subseteq Tokens /\ \A c \in Live : session[c].origin \in Tokens
  BY <1>0 DEF Tokens
<1> QED
  BY <1>1, <1>2, <1>4, <1>5, <1>6, SessionsTouched DEF Book!Next

\* Whatever the tabs ask for, in whatever order and with whatever lost, the server of the
\* browser's model keeps the book that the handlers keep: a login is continued by one
\* token at a time, by tokens never seen before, and never again once it has ended
\* (auth.py:150-267).
THEOREM ServerKeepsTheBook == Spec => BookSpec
<1>1. Init => Base
  BY InitBase
<1> QED
  BY <1>1, StepBase, BookInit, BookStep, PTL DEF Spec, BookSpec, Book!Spec
=============================================================================
