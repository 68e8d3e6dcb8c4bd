------------------------- MODULE MCFrontendSession -------------------------
(* A small instance of FrontendSession for TLC: two tabs, three calls. *)
EXTENDS FrontendSession, TLC

CONSTANTS home, incidents

MCOffered == (home :> Functions) @@ (incidents :> {"api"})
=============================================================================
