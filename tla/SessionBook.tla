----------------------------- MODULE SessionBook -----------------------------
(***************************************************************************)
(* What a user of the sessions API may rely on, without its transactions:  *)
(* a sign-in opens a login, which one token at a time continues; a refresh *)
(* replaces that token by one never issued before; a login that has ended  *)
(* is never continued.  A login is named after its first token.            *)
(***************************************************************************)
CONSTANTS
  Tokens,    \* refresh tokens, each issued at most once
  Devices,   \* the logins open at the start
  None       \* no token

VARIABLES
  issued,    \* the tokens issued so far
  current    \* login -> the token that continues it, or None

vars == <<issued, current>>

Open == {l \in Tokens : current[l] # None}

Init ==
  /\ issued \in {{}, Devices}
  /\ current = [l \in Tokens |-> IF l \in issued THEN l ELSE None]

SignIn(t) ==
  /\ t \notin issued
  /\ issued' = issued \cup {t}
  /\ current' = [current EXCEPT ![t] = t]

Rotate(l, t) ==
  /\ l \in Open
  /\ t \notin issued
  /\ issued' = issued \cup {t}
  /\ current' = [current EXCEPT ![l] = t]

\* Logins end alone or together.
End(L) ==
  /\ current' = [l \in Tokens |-> IF l \in L THEN None ELSE current[l]]
  /\ UNCHANGED issued

Next ==
  \/ \E L \in SUBSET Open : End(L)
  \/ \E t \in Tokens : SignIn(t)
  \/ \E l, t \in Tokens : Rotate(l, t)

Spec == Init /\ [][Next]_vars
=============================================================================
