---------------------------- MODULE MCRateLimiter ----------------------------
(* A small instance of RateLimiter for TLC: two policies, three ticks at most. *)
EXTENDS RateLimiter, TLC

CONSTANTS login, register, t1, t2

MCLimit == (login :> 2) @@ (register :> 1)
MCWindow == (login :> 3) @@ (register :> 2)

ThreadSymmetry == Permutations({t1, t2})
=============================================================================
