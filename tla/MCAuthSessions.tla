--------------------------- MODULE MCAuthSessions ---------------------------
(* Small instances of AuthSessions for TLC. *)
EXTENDS AuthSessions, TLC

CONSTANTS q1, q2, q3, d1, d2, m1, p1, p2

SessionSymmetry == Permutations({q1, q2, q3}) \cup Permutations({p1, p2})
=============================================================================
