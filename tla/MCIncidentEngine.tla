--------------------------- MODULE MCIncidentEngine ---------------------------
(* Small instances of IncidentEngine for TLC: deliveries and spellings. *)
EXTENDS IncidentEngine, TLC

CONSTANTS r1, r2, r3, r4, k1, k2, k3, svc1, svc2, c1, c2

\* Two spellings of one identifier, as strip() and upper() make them.
MCStrip == [x |-> "x", x_padded |-> "x", y |-> "y", z |-> "z"]
MCNormalize == [timeout |-> "TIMEOUT", Timeout_padded |-> "TIMEOUT", disk |-> "DISK"]

\* Failures within, at the edge of and outside a window of 1; a redelivery of
\* x with other contents; another type; a level that does not count.
RacePayloads ==
  { [id |-> "x",        type |-> "timeout",        level |-> "ERROR",    at |-> 1],
    [id |-> "x_padded", type |-> "disk",           level |-> "ERROR",    at |-> 1],
    [id |-> "y",        type |-> "Timeout_padded", level |-> "CRITICAL", at |-> 2],
    [id |-> "z",        type |-> "timeout",        level |-> "ERROR",    at |-> 3],
    [id |-> "z",        type |-> "timeout",        level |-> "WARNING",  at |-> 2] }

\* Failures of one kind: what matters is who acknowledges and resolves when.
BoardPayloads ==
  { [id |-> "x", type |-> "timeout", level |-> "ERROR",    at |-> 1],
    [id |-> "y", type |-> "timeout", level |-> "CRITICAL", at |-> 1],
    [id |-> "z", type |-> "timeout", level |-> "ERROR",    at |-> 1] }

\* Failures of one type within a window of 2; two deliveries of one payload are
\* a redelivery.
KeyPayloads ==
  { [id |-> "x", type |-> "timeout",        level |-> "ERROR",    at |-> 1],
    [id |-> "y", type |-> "Timeout_padded", level |-> "CRITICAL", at |-> 2],
    [id |-> "z", type |-> "timeout",        level |-> "ERROR",    at |-> 3] }

OneService == [k \in {k1, k2} |-> svc1]

\* svc1 has a key to itself, svc2 is reached with two.
OneKeyOrTwo == (k1 :> svc1) @@ (k2 :> svc2) @@ (k3 :> svc2)

RaceSymmetry == Permutations({r1, r2, r3, r4}) \cup Permutations({k1, k2})
BoardSymmetry == Permutations({r1, r2, r3}) \cup Permutations({c1, c2})
=============================================================================
