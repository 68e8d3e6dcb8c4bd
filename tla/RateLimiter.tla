---------------------------- MODULE RateLimiter ----------------------------
(***************************************************************************)
(* The sliding-window rate limiter of one process: check, which threads of *)
(* the server run at once, and reset.                                      *)
(*                                                                         *)
(* The clock is read before the lock is taken, so that a bucket holds      *)
(* readings in the order of the lock and not of time.  How long a thread   *)
(* may stall in between is no business of the limiter: what it promises is *)
(* stated for any bound on that.                                           *)
(***************************************************************************)
EXTENDS Integers, Sequences

CONSTANTS
  Threads,   \* of the server
  Keys,      \* the keys of buckets: a scope and a client or an API key
  limit,     \* key -> the limit of the policy of its scope
  window,    \* key -> the window of that policy, in ticks
  MaxWindow, \* the longest window of all policies
  Period,    \* the idle buckets are removed at every Period-th check
  Patience,  \* the longest stall between the clock and the lock, in ticks
  Horizon,   \* bound: the clock of an instance
  None

Second == 2  \* ticks: answers count in seconds, the clock is finer

ASSUME PolicyAssumption ==
  /\ limit \in [Keys -> Nat \ {0}]
  /\ window \in [Keys -> Nat]
  /\ MaxWindow \in Nat /\ \A k \in Keys : window[k] <= MaxWindow
  /\ Period \in Nat \ {0} /\ Patience \in Nat /\ Horizon \in Nat

VARIABLES
  clock,
  buckets,     \* key -> the readings that it holds, none if there is no bucket
  checks,      \* the number of checks, modulo Period
  call,        \* thread -> the key that it checks and the clock as it read it, or None
  admitted,    \* key -> the reading and the time of each check that let through (history)
  rejected     \* key -> of the checks that did not since the last that did, the latest
               \* reading and the earliest time one was told to retry at, or None (history)

vars == <<clock, buckets, checks, call, admitted, rejected>>

Call == [key : Keys, now : Nat]
Admission == [read : Nat, at : Nat]
Rejection == [latest : Nat, retry : Nat]

ASSUME NoRecordAssumption == None \notin Call \cup Rejection

Init ==
  /\ clock = 0
  /\ buckets = [k \in Keys |-> <<>>]
  /\ checks = 0
  /\ call = [t \in Threads |-> None]
  /\ admitted = [k \in Keys |-> <<>>]
  /\ rejected = [k \in Keys |-> None]

\* Time passes, but not while a thread stalls longer than is assumed.
Tick ==
  /\ clock < Horizon
  /\ \A t \in Threads : call[t] # None => clock - call[t].now < Patience
  /\ clock' = clock + 1
  /\ UNCHANGED <<buckets, checks, call, admitted, rejected>>

\* The first statement of check.
ReadClock(t) ==
  /\ call[t] = None
  /\ \E k \in Keys : call' = [call EXCEPT ![t] = [key |-> k, now |-> clock]]
  /\ UNCHANGED <<clock, buckets, checks, admitted, rejected>>

-----------------------------------------------------------------------------
(* What check does while it holds the lock. *)

\* A fault: the idle buckets are told by the window of the key that is checked.
IdleByOwnWindow(bucket, t) ==
  bucket = <<>> \/ bucket[Len(bucket)] <= call[t].now - window[call[t].key]

\* Idle as the check of a thread tells it, by the last reading alone.
Idle(bucket, t) ==
  bucket = <<>> \/ bucket[Len(bucket)] <= call[t].now - MaxWindow

remove_idle_buckets(t) ==
  [k \in Keys |-> IF Idle(buckets[k], t) THEN <<>> ELSE buckets[k]]

\* The readings at the left that are out of the window are `gone' many.
OutOfWindow(bucket, cutoff, gone) ==
  /\ \A i \in 1..gone : bucket[i] <= cutoff
  /\ gone < Len(bucket) => bucket[gone + 1] > cutoff

\* A fault: one too many is let through.
FullTooLate(bucket, k) == Len(bucket) > limit[k]

Full(bucket, k) == Len(bucket) >= limit[k]

\* A fault: the seconds are rounded down.
RetryTooSoon(wait) == IF wait < 2 * Second THEN 1 ELSE wait \div Second

\* max(1, ceil(wait)), of ticks in seconds.
RetryAfter(wait) == IF wait <= Second THEN 1 ELSE (wait + Second - 1) \div Second

\* The history of a rejection.
Rejecting(t, bucket) ==
  LET k == call[t].key
      now == call[t].now
      retry == now + Second * RetryAfter(bucket[1] + window[k] - now) IN
  rejected' = [rejected EXCEPT ![k] =
    IF @ = None THEN [latest |-> now, retry |-> retry]
    ELSE [latest |-> IF now > @.latest THEN now ELSE @.latest,
          retry |-> IF retry < @.retry THEN retry ELSE @.retry]]

\* A fault: a check that is rejected counts as well.
RejectAndCount(t, kept, bucket) ==
  LET k == call[t].key
      now == call[t].now IN
  /\ Full(bucket, k)
  /\ buckets' = [kept EXCEPT ![k] = Append(Tail(bucket), now)]
  /\ Rejecting(t, bucket)
  /\ UNCHANGED admitted

\* kept: the buckets without the idle ones; bucket: without what is out of the window.
Reject(t, kept, bucket) ==
  LET k == call[t].key IN
  /\ Full(bucket, k)
  /\ buckets' = [kept EXCEPT ![k] = bucket]
  /\ Rejecting(t, bucket)
  /\ UNCHANGED admitted

Admit(t, kept, bucket) ==
  LET k == call[t].key
      now == call[t].now IN
  /\ ~Full(bucket, k)
  /\ buckets' = [kept EXCEPT ![k] = Append(bucket, now)]
  /\ admitted' = [admitted EXCEPT ![k] = Append(@, [read |-> now, at |-> clock])]
  /\ rejected' = [rejected EXCEPT ![k] = None]

\* The section of check under the lock.
check(t) ==
  LET k == call[t].key
      kept == IF (checks + 1) % Period = 0 THEN remove_idle_buckets(t) ELSE buckets IN
  /\ call[t] # None
  /\ \E gone \in 0..Len(kept[k]) :
       /\ OutOfWindow(kept[k], call[t].now - window[k], gone)
       /\ LET bucket == SubSeq(kept[k], gone + 1, Len(kept[k])) IN
          Reject(t, kept, bucket) \/ Admit(t, kept, bucket)
  /\ checks' = (checks + 1) % Period
  /\ call' = [call EXCEPT ![t] = None]
  /\ UNCHANGED clock

\* The history starts anew; a thread that has read the clock checks after it.
reset ==
  /\ buckets' = [k \in Keys |-> <<>>]
  /\ checks' = 0
  /\ admitted' = [k \in Keys |-> <<>>]
  /\ rejected' = [k \in Keys |-> None]
  /\ UNCHANGED <<clock, call>>

Next ==
  \/ Tick
  \/ \E t \in Threads : ReadClock(t) \/ check(t)
  \/ reset

Spec == Init /\ [][Next]_vars

-----------------------------------------------------------------------------
(* Properties. *)

\* Every variable keeps its type, and no bucket outgrows its limit (rate_limit.py:58).
TypeOK ==
  /\ clock \in Nat
  /\ buckets \in [Keys -> Seq(Nat)]
  /\ \A k \in Keys : Len(buckets[k]) <= limit[k]
  /\ checks \in 0..(Period - 1)
  /\ call \in [Threads -> Call \cup {None}]
  /\ admitted \in [Keys -> Seq(Admission)]
  /\ rejected \in [Keys -> Rejection \cup {None}]

\* Of a key, any limit + 1 checks that were let through take a whole window, less
\* what a thread may stall: the removal of idle buckets goes by the last reading,
\* which need not be the latest (rate_limit.py:48-61, 69).
LimitUpToStall ==
  \A k \in Keys : \A i, j \in DOMAIN admitted[k] :
    j >= i + limit[k] => admitted[k][j].at - admitted[k][i].read >= window[k] - Patience

\* A check is rejected only if as many others as the limit were let through within
\* the window before it, up to a stall: rejected checks do not count, nor do those
\* of other keys (rate_limit.py:56-61).
NoSpuriousRejection ==
  \A k \in Keys : rejected[k] # None =>
    LET n == Len(admitted[k]) IN
    /\ limit[k] <= n
    /\ \A i \in (n - limit[k] + 1)..n :
         admitted[k][i].read > rejected[k].latest - window[k] - Patience

\* Who waits as long as he is told is not rejected again unless others came first:
\* not even if the checks take the lock in another order than they read the clock
\* (rate_limit.py:59).
RetryIsHonest ==
  \A k \in Keys : rejected[k] # None => rejected[k].latest < rejected[k].retry
=============================================================================
