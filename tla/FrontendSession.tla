-------------------------- MODULE FrontendSession --------------------------
(***************************************************************************)
(* The session in the browser: the tabs of one browser, each with the      *)
(* module lib/api.ts of its own, the cookie jar they share, and what the   *)
(* API answers.                                                            *)
(*                                                                         *)
(* A tab runs one thing at a time, up to the next await.  A request goes   *)
(* out with the cookie and the token of that time; what it does at the     *)
(* server, the arrival of its answer, with the cookie that comes with it,  *)
(* and the end of the body are steps of their own; each may fail.  A       *)
(* request that its tab has given up may still reach the server.  At the   *)
(* server every request is one step: AuthSessions tells what is in it.     *)
(***************************************************************************)
EXTENDS Naturals

CONSTANTS
  Tabs,
  Calls,       \* of the functions of lib/api.ts, numbered in the order they start
  first,       \* the session that the browser may have at the start
  Offered,     \* bound: tab -> the functions that its pages call in an instance
  ShortLived,  \* bound: the sessions whose access token may expire
  Revocable,   \* bound: the sessions that are ended from other devices
  Late,        \* bound: the calls whose requests may reach the server after they
               \* were given up
  None

\* bootstrap, api and dashboard are calls of api: what starts a page, what is asked for
\* beside it, and what the page that is shown asks for.
Functions == {"bootstrap", "api", "dashboard", "login", "logout", "logoutAll"}

\* A session is named after the call that got it, by a login or by a refresh.
Tokens == Calls \cup {first}

ASSUME OfferedAssumption == Offered \in [Tabs -> SUBSET Functions]
ASSUME TokensAssumption ==
  /\ first \notin Calls /\ ShortLived \subseteq Tokens /\ Revocable \subseteq Tokens
  /\ None \notin Tokens \cup Calls
ASSUME CallsAssumption == Calls \subseteq Nat /\ Late \subseteq Calls

VARIABLES
  session,            \* the server's: token -> [live, origin], or None
  expired,            \* the access tokens whose time is over
  jar,                \* the refresh cookie, or None
  accessToken,        \* tab -> the token in its memory, or None
  sessionGeneration,  \* tab -> its sign-ins and sign-outs so far
  refreshInFlight,    \* tab -> the call that has started its refresh, or None
  screen,             \* tab -> what the page shows
  call,               \* call -> what it was given and has read
  pc,                 \* call -> where it stands
  refresh,            \* call -> the refresh that it has started, if under way
  lateCall,           \* the calls that were given up on the way to the server
  lateRefresh,        \* call -> the cookie of its refresh that was, or None
  undisturbed         \* the calls that nothing has come in between of (history)

server == <<session, expired>>
tab == <<accessToken, sessionGeneration, screen>>
late == <<lateCall, lateRefresh>>
vars == <<server, jar, tab, refreshInFlight, call, pc, refresh, late, undisturbed>>

-----------------------------------------------------------------------------
(* Calls, and what disturbs them. *)

\* token: the bearer token, or the cookie of a logout; origin: the login.
Session == [live : BOOLEAN, origin : Tokens]
Call == [fun : Functions, tab : Tabs, token : Tokens \cup {None},
         generation : Nat, attempt : {1, 2}]
Refresh == [cookie : Tokens \cup {None}, generation : Nat,
            stage : {"sent", "accepted", "denied", "reading"}]

ASSUME NoRecordAssumption == None \notin Session \cup Call \cup Refresh

Ended == {"done", "unauthorized", "failed"}
Open == {q \in Calls : pc[q] \notin {"idle"} \cup Ended}
Of(t) == {q \in Calls : call[q] # None /\ call[q].tab = t}
Made(funs) == {q \in Calls : call[q] # None /\ call[q].fun \in funs}
Authenticated == Made({"bootstrap", "api", "dashboard", "logoutAll"})
Changing == Made({"login", "logout", "logoutAll"})

Live == {s \in Tokens : session[s] # None /\ session[s].live}

\* The tab has signed in or out since its refresh started.
Stale(r) == refresh[r].generation # sessionGeneration[call[r].tab]

\* The cookie is good, and so is the one that a refresh of the tab brings.
Healthy(t) ==
  LET r == refreshInFlight[t] IN
  IF r = None THEN jar \in Live
  ELSE /\ ~Stale(r) /\ jar = (IF refresh[r].stage = "reading" THEN r ELSE refresh[r].cookie)
       /\ (IF refresh[r].stage = "sent" THEN jar ELSE r) \in Live

\* Nothing is under way that could come in between of a call that starts.
Quiet(t, fun) ==
  /\ Open \cap Changing = {}
  /\ \A u \in Tabs \ {t} : refreshInFlight[u] = None
  /\ fun = "login" \/ Healthy(t)

Disturb(Q) == undisturbed' = undisturbed \ Q

\* Sign-ins and sign-outs of a tab disturb what it has asked for before, but for
\* the calls that they come from.
SignChange(t, Q) == Disturb((Open \cap Of(t) \cap Authenticated) \ Q)

Goto(q, label) == pc' = [pc EXCEPT ![q] = label]

storeAccessToken(t, s) == accessToken' = [accessToken EXCEPT ![t] = s]

clearTokens(t) ==
  /\ accessToken' = [accessToken EXCEPT ![t] = None]
  /\ sessionGeneration' = [sessionGeneration EXCEPT ![t] = @ + 1]

Show(t, what) == screen' = [screen EXCEPT ![t] = what]

Init ==
  /\ jar \in {first, None}
  /\ session = [s \in Tokens |->
       IF s = first THEN [live |-> TRUE, origin |-> first] ELSE None]
  /\ expired = {}
  /\ accessToken = [t \in Tabs |-> None]
  /\ sessionGeneration = [t \in Tabs |-> 0]
  /\ refreshInFlight = [t \in Tabs |-> None]
  /\ screen = [t \in Tabs |-> "loading"]
  /\ call = [q \in Calls |-> None]
  /\ pc = [q \in Calls |-> "idle"]
  /\ refresh = [q \in Calls |-> None]
  /\ lateCall = {}
  /\ lateRefresh = [q \in Calls |-> None]
  /\ undisturbed = {}

-----------------------------------------------------------------------------
(* The pages. *)

\* What the page of a tab asks for and lets its user do.  A page that loads asks for more
\* than bootstrap waits for.  The form offers to retry a bootstrap that was lost; who has
\* signed in with it gets another one.
Allowed(t, fun) ==
  \/ fun = "bootstrap" /\ screen[t] \in {"loading", "retry"}
  \/ fun = "bootstrap" /\ screen[t] = "form" /\ accessToken[t] # None
  \/ fun = "api" /\ screen[t] = "loading"
  \/ /\ fun = "login" /\ screen[t] \in {"form", "retry"}
     /\ Open \cap Of(t) \cap Made({"login"}) = {}
  \/ fun \in {"dashboard", "logout", "logoutAll"} /\ screen[t] = "shell"

\* A fault: a sign-out does not wait for the refresh that is under way.
MustWaitNot(t, fun) == fun = "login" /\ refreshInFlight[t] # None

\* Sign-ins and sign-outs wait for the refresh that is under way.
MustWait(t, fun) == fun \in {"login", "logout"} /\ refreshInFlight[t] # None

\* What a request takes with it.
Bearer(t, fun) ==
  IF fun = "login" THEN None ELSE IF fun = "logout" THEN jar ELSE accessToken[t]

Start(q, t, fun) ==
  /\ pc[q] = "idle" /\ \A p \in Calls : p < q => pc[p] # "idle"
  /\ fun \in Offered[t] /\ Allowed(t, fun)
  /\ call' = [call EXCEPT ![q] = [fun |-> fun, tab |-> t, token |-> Bearer(t, fun),
                generation |-> sessionGeneration[t], attempt |-> 1]]
  /\ Goto(q, IF MustWait(t, fun) THEN "waiting" ELSE "sent")
  /\ undisturbed' =
       (IF fun \in {"login", "logout", "logoutAll"} THEN {} ELSE undisturbed)
       \cup (IF Quiet(t, fun) THEN {q} ELSE {})
  /\ IF fun = "login" THEN Show(t, "form") ELSE UNCHANGED screen
  /\ UNCHANGED <<server, jar, accessToken, sessionGeneration, refreshInFlight, refresh, late>>

-----------------------------------------------------------------------------
(* The server. *)

End(S) == session' = [s \in Tokens |->
  IF s \in S THEN [session[s] EXCEPT !.live = FALSE] ELSE session[s]]

\* An access token is good while its session is.
Accepted(q) == call[q].token \in Live \ expired

\* What the request of a call does to the sessions.
CallEffect(q) ==
  \/ /\ call[q].fun = "login"
     /\ session' = [session EXCEPT ![q] = [live |-> TRUE, origin |-> q]]
  \/ /\ call[q].fun = "logout"
     /\ End(Live \cap {call[q].token})
  \/ /\ q \in Authenticated
     /\ End(IF call[q].fun = "logoutAll" /\ Accepted(q) THEN Live ELSE {})

ServeCall(q) ==
  /\ pc[q] = "sent"
  /\ CallEffect(q)
  /\ Goto(q, IF q \in Authenticated /\ ~Accepted(q) THEN "denied" ELSE "accepted")
  /\ UNCHANGED <<expired, jar, tab, refreshInFlight, call, refresh, late, undisturbed>>

\* A cookie is good until it is used, and as long as its session is.
GoodCookie(c) == c \in Live

\* A cookie that was used before is a replay and ends all sessions.
RefreshEffect(r, c) ==
  \/ /\ GoodCookie(c)
     /\ session' = [session EXCEPT ![c].live = FALSE,
                                   ![r] = [live |-> TRUE, origin |-> session[c].origin]]
  \/ ~GoodCookie(c) /\ End(IF c = None THEN {} ELSE Live)

ServeRefresh(r) ==
  /\ refresh[r] # None /\ refresh[r].stage = "sent"
  /\ LET c == refresh[r].cookie IN
     /\ RefreshEffect(r, c)
     /\ refresh' = [refresh EXCEPT ![r].stage = IF GoodCookie(c) THEN "accepted" ELSE "denied"]
  /\ UNCHANGED <<expired, jar, tab, refreshInFlight, call, pc, late, undisturbed>>

\* A request that was given up reaches the server after all; nobody takes the answer,
\* nor the cookie that comes with it.
ServeLateCall(q) ==
  /\ q \in lateCall
  /\ CallEffect(q)
  /\ lateCall' = lateCall \ {q}
  /\ Disturb(Calls)
  /\ UNCHANGED <<expired, jar, tab, refreshInFlight, call, pc, refresh, lateRefresh>>

ServeLateRefresh(r) ==
  /\ lateRefresh[r] # None
  /\ RefreshEffect(r, lateRefresh[r])
  /\ lateRefresh' = [lateRefresh EXCEPT ![r] = None]
  /\ Disturb(Calls)
  /\ UNCHANGED <<expired, jar, tab, refreshInFlight, call, pc, refresh, lateCall>>

\* An access token expires, at the earliest when a tab has it.  A call that was
\* made with it knows what to do; one that is too late for that fails, and with it
\* the sign-in of its tab.
Expire(s) ==
  LET helpless == {q \in Open : call[q].token # s \/ call[q].attempt = 2} IN
  /\ s \in Live \ expired /\ \E t \in Tabs : accessToken[t] = s
  /\ expired' = expired \cup {s}
  /\ Disturb(helpless \cup {q \in Made({"login"}) : helpless \cap Of(call[q].tab) # {}})
  /\ UNCHANGED <<session, jar, tab, refreshInFlight, call, pc, refresh, late>>

\* Another device revokes the session, or all of them, or changes the password.
EndElsewhere(s) ==
  /\ s \in Live
  /\ \E S \in {{s}, Live} : End(S)
  /\ Disturb(Calls)
  /\ UNCHANGED <<expired, jar, tab, refreshInFlight, call, pc, refresh, late>>

-----------------------------------------------------------------------------
(* api, and the functions that are made of it. *)

\* The answer that was hoped for; logoutAll takes the cookie and clears the tab.
Succeed(q) ==
  LET t == call[q].tab IN
  /\ pc[q] = "accepted" /\ q \in Authenticated
  /\ Goto(q, "done")
  /\ IF call[q].fun = "logoutAll"
     THEN jar' = None /\ clearTokens(t) /\ SignChange(t, {q})
     ELSE UNCHANGED <<jar, accessToken, sessionGeneration, undisturbed>>
  /\ CASE call[q].fun = "logoutAll" -> Show(t, "form")
       [] call[q].fun = "bootstrap" -> Show(t, "shell")
       [] OTHER -> UNCHANGED screen
  /\ UNCHANGED <<server, refreshInFlight, call, refresh, late>>

Current(q) == call[q].generation = sessionGeneration[call[q].tab]

\* The first 401 of a call that is still about the session of its tab.
Retries(q) == pc[q] = "denied" /\ call[q].attempt = 1 /\ Current(q)

\* A fault: a token that another call has got in between is not used.
ReuseNever(q) == FALSE

\* Another call has got a token in between, or has lost it.
Reuses(q) == accessToken[call[q].tab] # call[q].token

Reuse(q) ==
  LET t == call[q].tab IN
  /\ Retries(q) /\ Reuses(q)
  /\ IF accessToken[t] # None
     THEN /\ call' = [call EXCEPT ![q].token = accessToken[t], ![q].attempt = 2]
          /\ Goto(q, "sent")
     ELSE Goto(q, "refused") /\ UNCHANGED call
  /\ UNCHANGED <<server, jar, tab, refreshInFlight, refresh, late, undisturbed>>

\* The call waits for the refresh of its tab, and starts one if there is none.
refreshSession(q) ==
  LET t == call[q].tab IN
  /\ Retries(q) /\ ~Reuses(q)
  /\ Goto(q, "refreshing")
  /\ IF refreshInFlight[t] = None
     THEN /\ refreshInFlight' = [refreshInFlight EXCEPT ![t] = q]
          /\ refresh' = [refresh EXCEPT ![q] = [cookie |-> jar, stage |-> "sent",
                           generation |-> sessionGeneration[t]]]
          /\ Disturb((Calls \ Of(t)) \cup (Open \cap Changing))
     ELSE UNCHANGED <<refreshInFlight, refresh, undisturbed>>
  /\ UNCHANGED <<server, jar, tab, call, late>>

\* A fault: the tab is cleared whatever session the call was about.
ClearsAnyway(q) == TRUE

\* The second check in api.
Clears(q) == Current(q)

\* The call fails with 401, and api clears the tab if that is still about its session.
\* Two callers clear it whatever the session is by now: bootstrap, and the dashboard unless
\* another one has followed; it need not be what the tab shows any more.  They undo a
\* sign-in that came in between.
Reject(q) ==
  LET t == call[q].tab
      undone == IF Current(q) THEN {}
                ELSE {p \in Of(t) \cap Made({"login"}) : pc[p] = "done"} IN
  /\ pc[q] \in {"refused", "denied"} /\ ~Retries(q)
  /\ Goto(q, "unauthorized")
  /\ \/ /\ call[q].fun # "bootstrap"
        /\ IF Clears(q)
           THEN clearTokens(t) /\ SignChange(t, {q})
           ELSE UNCHANGED <<accessToken, sessionGeneration, undisturbed>>
        /\ UNCHANGED screen
     \/ /\ call[q].fun \in {"bootstrap", "dashboard"}
        /\ clearTokens(t)
        /\ Disturb(((Open \cap Of(t) \cap Authenticated) \ {q}) \cup undone)
        /\ \/ (call[q].fun = "bootstrap" \/ screen[t] = "shell") /\ Show(t, "form")
           \/ call[q].fun = "dashboard" /\ UNCHANGED screen
  /\ UNCHANGED <<server, jar, refreshInFlight, call, refresh, late>>

-----------------------------------------------------------------------------
(* The refresh of a tab. *)

\* A fault: only the call that has started the refresh goes on.
WaitersAlone(r) == {r}

Waiters(r) == {q \in Of(call[r].tab) : pc[q] \in {"waiting", "refreshing"}}

\* A fault: the promise of a refresh that is over is kept.
KeepPromise(t) == refreshInFlight

\* The next call that needs one starts another refresh.
DropPromise(t) == [refreshInFlight EXCEPT ![t] = None]

\* The refresh is over and all that waited for it in the tab go on: with the cookie
\* there is now, and the token it got, if it got one.
Settle(r, cookie, token) ==
  LET t == call[r].tab
      Going(q) ==
        IF pc[q] = "waiting"
        THEN [call[q] EXCEPT !.token = IF call[q].fun = "logout" THEN cookie ELSE None]
        ELSE IF token # None THEN [call[q] EXCEPT !.token = token, !.attempt = 2]
        ELSE call[q] IN
  /\ refresh' = [refresh EXCEPT ![r] = None]
  /\ refreshInFlight' = DropPromise(t)
  /\ call' = [q \in Calls |-> IF q \in Waiters(r) THEN Going(q) ELSE call[q]]
  /\ pc' = [q \in Calls |->
       IF q \notin Waiters(r) THEN pc[q]
       ELSE IF pc[q] = "waiting" \/ token # None THEN "sent" ELSE "refused"]

\* The answer arrives; the cookie is taken whoever is signed in.
ArriveRefresh(r) ==
  LET t == call[r].tab
      cookie == IF refresh[r].stage = "accepted" THEN r ELSE jar IN
  /\ refresh[r] # None /\ refresh[r].stage \in {"accepted", "denied"}
  /\ jar' = cookie
  /\ \/ /\ Stale(r)
        /\ Settle(r, cookie, None)
        /\ UNCHANGED <<accessToken, sessionGeneration, undisturbed>>
     \/ /\ ~Stale(r) /\ refresh[r].stage = "denied"
        /\ clearTokens(t) /\ SignChange(t, Waiters(r))
        /\ Settle(r, cookie, None)
     \/ /\ ~Stale(r) /\ refresh[r].stage = "accepted"
        /\ refresh' = [refresh EXCEPT ![r].stage = "reading"]
        /\ UNCHANGED <<accessToken, sessionGeneration, refreshInFlight, call, pc, undisturbed>>
  /\ UNCHANGED <<server, screen, late>>

\* The rest of the body: the tab may have signed in or out since it was checked.
ReadRefresh(r) ==
  /\ refresh[r] # None /\ refresh[r].stage = "reading"
  /\ storeAccessToken(call[r].tab, r)
  /\ Settle(r, jar, r)
  /\ UNCHANGED <<server, jar, sessionGeneration, screen, late, undisturbed>>

\* The refreshes of Q are given up, as far as they matter if they reach the server.
GiveUpRefreshes(Q) ==
  lateRefresh' = [q \in Calls |->
    IF q \in Q \cap Late /\ refresh[q] # None /\ refresh[q].stage = "sent"
    THEN refresh[q].cookie ELSE lateRefresh[q]]

\* The request, its answer or the rest of the body is lost.
LoseRefresh(r) ==
  /\ refresh[r] # None
  /\ IF Stale(r) THEN UNCHANGED <<accessToken, sessionGeneration>>
     ELSE clearTokens(call[r].tab)
  /\ Settle(r, jar, None)
  /\ GiveUpRefreshes({r})
  /\ Disturb(Calls)
  /\ UNCHANGED <<server, jar, screen, lateCall>>

-----------------------------------------------------------------------------
(* login and logout. *)

ArriveLogin(q) ==
  LET t == call[q].tab IN
  /\ pc[q] = "accepted" /\ call[q].fun = "login"
  /\ jar' = q
  /\ sessionGeneration' = [sessionGeneration EXCEPT ![t] = @ + 1]
  /\ SignChange(t, {q})
  /\ Goto(q, "reading")
  /\ UNCHANGED <<server, accessToken, screen, refreshInFlight, call, refresh, late>>

ReadLogin(q) ==
  /\ pc[q] = "reading"
  /\ storeAccessToken(call[q].tab, q)
  /\ Goto(q, "done")
  /\ UNCHANGED <<server, jar, sessionGeneration, screen, refreshInFlight, call, refresh, late,
                 undisturbed>>

ArriveLogout(q) ==
  LET t == call[q].tab IN
  /\ pc[q] = "accepted" /\ call[q].fun = "logout"
  /\ jar' = None
  /\ clearTokens(t) /\ SignChange(t, {q})
  /\ Show(t, "form")
  /\ Goto(q, "done")
  /\ UNCHANGED <<server, refreshInFlight, call, refresh, late>>

\* The requests of Q are given up, as far as they matter if they reach the server.
GiveUpCalls(Q) ==
  lateCall' = lateCall \cup {q \in Q \cap Late \cap Changing : pc[q] = "sent"}

\* The request of a call, its answer or the rest of it is lost: logout clears the
\* tab all the same; the form offers a retry after a bootstrap, and none after a login.
LoseCall(q) ==
  LET t == call[q].tab IN
  /\ pc[q] \in {"sent", "accepted", "denied", "reading"}
  /\ Goto(q, "failed")
  /\ IF call[q].fun = "logout" THEN clearTokens(t) ELSE UNCHANGED <<accessToken, sessionGeneration>>
  /\ CASE call[q].fun = "bootstrap" -> Show(t, "retry")
       [] call[q].fun \in {"login", "logout"} -> Show(t, "form")
       [] OTHER -> UNCHANGED screen
  /\ GiveUpCalls({q})
  /\ Disturb(Calls)
  /\ UNCHANGED <<server, jar, refreshInFlight, call, refresh, lateRefresh>>

\* The user reloads a page that is busy: its memory is new, its answers are lost.
Reload(t) ==
  LET lost == Open \cap Of(t) IN
  /\ lost # {}
  /\ pc' = [q \in Calls |-> IF q \in lost THEN "failed" ELSE pc[q]]
  /\ refresh' = [q \in Calls |-> IF q \in lost THEN None ELSE refresh[q]]
  /\ refreshInFlight' = [refreshInFlight EXCEPT ![t] = None]
  /\ storeAccessToken(t, None)
  /\ sessionGeneration' = [sessionGeneration EXCEPT ![t] = 0]
  /\ Show(t, "loading")
  /\ GiveUpCalls(lost) /\ GiveUpRefreshes(lost)
  /\ Disturb(Calls)
  /\ UNCHANGED <<server, jar, call>>

-----------------------------------------------------------------------------
Handle(q) ==
  \/ ServeCall(q) \/ Succeed(q) \/ Reuse(q) \/ refreshSession(q) \/ Reject(q)
  \/ ServeRefresh(q) \/ ArriveRefresh(q) \/ ReadRefresh(q)
  \/ ArriveLogin(q) \/ ReadLogin(q) \/ ArriveLogout(q)

\* The tabs are left alone.
Rest == Open = {} /\ UNCHANGED vars

Next ==
  \/ \E q \in Calls : \/ \E t \in Tabs, fun \in Functions : Start(q, t, fun)
                      \/ Handle(q) \/ LoseCall(q) \/ LoseRefresh(q)
                      \/ ServeLateCall(q) \/ ServeLateRefresh(q)
  \/ \E t \in Tabs : Reload(t)
  \/ \E s \in ShortLived : Expire(s)
  \/ \E s \in Revocable : EndElsewhere(s)
  \/ Rest

\* As long as a server can answer, an answer can arrive or a tab can go on, one of them
\* does.  No call needs more, since none takes steps without end.
Fairness == WF_vars(\E q \in Calls : Handle(q))

Spec == Init /\ [][Next]_vars /\ Fairness

-----------------------------------------------------------------------------
(* Properties. *)

\* Every variable keeps its type, and a refresh is under way exactly in the tabs
\* that wait for it (api.ts:54-56, 92-121).
TypeOK ==
  /\ session \in [Tokens -> Session \cup {None}]
  /\ expired \subseteq Tokens
  /\ jar \in Tokens \cup {None}
  /\ accessToken \in [Tabs -> Tokens \cup {None}]
  /\ sessionGeneration \in [Tabs -> Nat]
  /\ refreshInFlight \in [Tabs -> Calls \cup {None}]
  /\ screen \in [Tabs -> {"loading", "form", "retry", "shell"}]
  /\ call \in [Calls -> Call \cup {None}]
  /\ pc \in [Calls -> {"idle", "waiting", "sent", "accepted", "denied", "refreshing",
                       "refused", "reading"} \cup Ended]
  /\ refresh \in [Calls -> Refresh \cup {None}]
  /\ lateCall \subseteq Calls
  /\ lateRefresh \in [Calls -> Tokens \cup {None}]
  /\ undisturbed \subseteq Calls
  /\ \A q \in Calls : refresh[q] # None <=> \E t \in Tabs : refreshInFlight[t] = q

\* A call fails with 401 only if something came in between: concurrent calls of a
\* tab share one refresh and its token, and a token that another tab has rotated
\* away is replaced (api.ts:114-142).
UndisturbedCallsSucceed ==
  \A q \in undisturbed : pc[q] # "unauthorized"

\* A logout that no refresh overtakes leaves nothing of the session, although a
\* refresh was under way when the user asked for it (api.ts:181-188, auth.py:251-267).
LogoutIsComplete ==
  \A q \in undisturbed : (call[q].fun = "logout" /\ pc[q] = "done") =>
    /\ jar = None /\ accessToken[call[q].tab] = None
    /\ \A s \in Live : session[s].origin # session[call[q].token].origin

\* Who has signed in stays signed in, whatever api and the refresh still learn of what the
\* tab had asked for before, a 401 included.  It does not hold against a late 401 that
\* bootstrap or the dashboard gets to see: they sign the user out (api.ts:101-109, 147,
\* 154-165; page.tsx:40, 60-63).
LoginHolds ==
  \A q \in undisturbed : (call[q].fun = "login" /\ pc[q] = "done") =>
    accessToken[call[q].tab] # None

\* The token that continues a login.
CurrentToken(l) == IF \E s \in Live : session[s].origin = l
                   THEN CHOOSE s \in Live : session[s].origin = l ELSE None

Book == INSTANCE SessionBook WITH
  Devices <- {first},
  issued <- {s \in Tokens : session[s] # None},
  current <- [l \in Tokens |-> CurrentToken(l)]

\* The server of this module, one step to a request, keeps the book that the handlers
\* of AuthSessions keep, whatever the tabs ask for in whatever order (auth.py:150-267).
BookSpec == Book!Spec

\* Every call comes to an end, although it may wait for the refresh of another: again and
\* again no call is open (api.ts:94-188).
EveryCallSettles == []<>(Open = {})
=============================================================================
