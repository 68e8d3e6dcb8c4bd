------------------------- MODULE RateLimiter_proofs -------------------------
(***************************************************************************)
(* Proofs about RateLimiter: its properties hold for all policies, any     *)
(* number of threads and keys, and a clock without end.                    *)
(*                                                                         *)
(* The bucket of a key is the tail of the checks that were let through     *)
(* (Held), what it no longer holds is a window old, up to a stall          *)
(* (Forgotten), and it holds what the last rejection went by as long as it *)
(* is full (Binding).                                                      *)
(***************************************************************************)
EXTENDS RateLimiter, SequenceTheorems, TLAPS

\* A thread under way has read the clock a short while ago.
Waiting ==
  \A t \in Threads : call[t] # None =>
    call[t].now <= clock /\ clock <= call[t].now + Patience

\* Checks are let through one after the other, each shortly after its reading.
Times(k) ==
  \A i \in 1..Len(admitted[k]) :
    /\ admitted[k][i].read <= admitted[k][i].at
    /\ admitted[k][i].at <= admitted[k][i].read + Patience
    /\ admitted[k][i].at <= clock
    /\ \A j \in 1..Len(admitted[k]) : i < j => admitted[k][i].at <= admitted[k][j].at

\* b, as the bucket of k, holds the readings of the last checks that were let through.
Held(k, b) ==
  /\ Len(b) <= limit[k] /\ Len(b) <= Len(admitted[k])
  /\ \A i \in 1..Len(b) : b[i] = admitted[k][Len(admitted[k]) - Len(b) + i].read

\* What b does not hold is out of the window, up to a stall.
Forgotten(k, b) ==
  \A i \in 1..(Len(admitted[k]) - Len(b)) :
    admitted[k][i].read + window[k] <= clock + Patience

\* While b is full, nobody was told to come back before its first reading is out.
Binding(k, b) ==
  rejected[k] # None /\ limit[k] <= Len(b) =>
    rejected[k].latest < b[1] + window[k] /\ b[1] + window[k] <= rejected[k].retry

Good(k, b) ==
  b \in Seq(Nat) /\ Held(k, b) /\ Forgotten(k, b) /\ Binding(k, b)

IInv ==
  /\ TypeOK
  /\ Waiting
  /\ \A k \in Keys : Times(k) /\ Good(k, buckets[k])
  /\ LimitUpToStall
  /\ NoSpuriousRejection
  /\ RetryIsHonest

-----------------------------------------------------------------------------
(* The helpers of check. *)

\* No wait is announced shorter than it is, and every wait lasts a second.
LEMMA RetryAfterEnough ==
  ASSUME NEW wait \in Nat
  PROVE  /\ RetryAfter(wait) \in Nat
         /\ Second * RetryAfter(wait) >= wait
         /\ Second * RetryAfter(wait) >= 1
  BY DEF RetryAfter, Second

\* An empty bucket is good if all that was let through is out of the window.
LEMMA EmptyIsGood ==
  ASSUME NEW k \in Keys, limit[k] \in Nat \ {0}, admitted[k] \in Seq(Admission),
         \A i \in 1..Len(admitted[k]) : admitted[k][i].read + window[k] <= clock + Patience
  PROVE  Good(k, <<>>)
  BY EmptySeq DEF Good, Held, Forgotten, Binding

\* The removal of idle buckets forgets nothing that is still in a window.
LEMMA KeptIsGood ==
  ASSUME IInv, NEW t \in Threads, call[t] # None, NEW k \in Keys
  PROVE  /\ Good(k, buckets[k])
         /\ Good(k, remove_idle_buckets(t)[k])
<1> DEFINE b == buckets[k]
           A == admitted[k]
           n == Len(A)
<1>1. /\ b \in Seq(Nat) /\ Len(b) \in Nat /\ A \in Seq(Admission) /\ n \in Nat
      /\ limit[k] \in Nat \ {0} /\ window[k] \in Nat /\ window[k] <= MaxWindow
      /\ MaxWindow \in Nat /\ Patience \in Nat /\ clock \in Nat
      /\ call[t].now \in Nat /\ call[t].now <= clock
  BY PolicyAssumption DEF IInv, TypeOK, Waiting, Call
<1>2. \A i \in 1..n : A[i] \in Admission
  BY <1>1, ElementOfSeq
<1>3. Good(k, b)
  BY DEF IInv
<1>4. ASSUME Idle(b, t)
      PROVE  Good(k, <<>>)
  <2>1. CASE b = <<>>
    BY <1>3, <2>1
  <2>2. CASE b # <<>>
    <3>1. Len(b) >= 1 /\ b[Len(b)] \in Nat /\ b[Len(b)] <= call[t].now - MaxWindow
      BY <1>1, <1>4, <2>2, EmptySeq, ElementOfSeq DEF Idle
    <3>2. n >= 1 /\ b[Len(b)] = A[n].read
      <4>1. Len(b) <= n /\ \A i \in 1..Len(b) : b[i] = A[n - Len(b) + i].read
        BY <1>3 DEF Good, Held
      <4>2. Len(b) \in 1..Len(b) /\ n - Len(b) + Len(b) = n
        BY <1>1, <3>1
      <4>3. b[Len(b)] = A[n - Len(b) + Len(b)].read /\ Len(b) <= n
        BY <4>1, <4>2
      <4>4. n >= 1
        BY <1>1, <3>1, <4>3
      <4> QED
        BY <4>2, <4>3, <4>4
    <3>3. \A i \in 1..n : A[i].read <= A[i].at /\ A[i].at <= A[n].at
      <4>1. \A i \in 1..n : A[i].read <= A[i].at /\ \A j \in 1..n : i < j => A[i].at <= A[j].at
        BY DEF IInv, Times
      <4>2. \A i \in 1..n : A[i].at \in Nat
        BY <1>2 DEF Admission
      <4>3. n \in Nat /\ n >= 1 /\ n \in 1..n
        BY <1>1, <3>2
      <4>4. \A i \in 1..n : i < n => A[i].at <= A[n].at
        BY <4>1, <4>3
      <4>5. \A i \in 1..n : i < n \/ i = n
        BY <4>3
      <4> QED
        BY <4>1, <4>2, <4>3, <4>4, <4>5
    <3>4. A[n].at <= A[n].read + Patience
      BY <1>1, <3>2 DEF IInv, Times
    <3>5. \A i \in 1..n : A[i].read + window[k] <= clock + Patience
      <4> SUFFICES ASSUME NEW i \in 1..n
                   PROVE  A[i].read + window[k] <= clock + Patience
        OBVIOUS
      <4>1. n \in 1..n
        BY <1>1, <3>2
      <4>2. /\ A[i].read \in Nat /\ A[i].at \in Nat
            /\ A[n].read \in Nat /\ A[n].at \in Nat
        BY <1>2, <4>1 DEF Admission
      <4>3. A[i].read <= A[i].at /\ A[i].at <= A[n].at
        BY <3>3
      <4>4. A[n].read <= call[t].now - MaxWindow
        BY <3>1, <3>2
      <4>0. /\ window[k] \in Nat /\ window[k] <= MaxWindow /\ MaxWindow \in Nat
            /\ Patience \in Nat /\ clock \in Nat
            /\ call[t].now \in Nat /\ call[t].now <= clock
        BY <1>1
      <4> HIDE DEF A, n, b
      <4>5. A[i].read <= A[n].at
        BY <4>2, <4>3
      <4>6. A[i].read <= A[n].read + Patience
        BY <4>0, <3>4, <4>2, <4>5
      <4>7. A[n].read + window[k] <= clock
        BY <4>0, <4>2, <4>4
      <4> QED
        BY <4>0, <4>2, <4>6, <4>7
    <3> QED
      BY <1>1, <3>5, EmptyIsGood
  <2> QED
    BY <2>1, <2>2
<1> QED
  BY <1>3, <1>4 DEF remove_idle_buckets

\* So does what leaves the bucket at the left.
LEMMA TrimmedIsGood ==
  ASSUME IInv, NEW t \in Threads, call[t] # None, NEW k \in Keys, NEW b, Good(k, b),
         NEW gone \in 0..Len(b), OutOfWindow(b, call[t].now - window[k], gone)
  PROVE  LET c == SubSeq(b, gone + 1, Len(b)) IN
         /\ Good(k, c)
         /\ Len(c) = Len(b) - gone
         /\ Len(c) >= 1 => c[1] > call[t].now - window[k]
<1> DEFINE A == admitted[k]
           n == Len(A)
           c == SubSeq(b, gone + 1, Len(b))
<1>1. /\ b \in Seq(Nat) /\ Len(b) \in Nat /\ A \in Seq(Admission) /\ n \in Nat
      /\ limit[k] \in Nat \ {0} /\ window[k] \in Nat
      /\ Patience \in Nat /\ clock \in Nat
      /\ call[t].now \in Nat /\ call[t].now <= clock
  BY PolicyAssumption DEF IInv, TypeOK, Waiting, Call, Good
<1>2. \A i \in 1..n : A[i] \in Admission
  BY <1>1, ElementOfSeq
<1>3. /\ c \in Seq(Nat) /\ Len(c) = Len(b) - gone
      /\ \A i \in 1..Len(c) : c[i] = b[gone + i]
  <2>1. \A i \in (gone + 1)..Len(b) : b[i] \in Nat
    BY <1>1, ElementOfSeq
  <2>2. /\ c \in Seq(Nat)
        /\ Len(c) = IF gone + 1 <= Len(b) THEN Len(b) - (gone + 1) + 1 ELSE 0
        /\ \A i \in 1..(Len(b) - (gone + 1) + 1) : c[i] = b[(gone + 1) + i - 1]
    <3> HIDE DEF c
    <3> QED
      BY <1>1, <2>1, SubSeqProperties, gone + 1 \in Int, Len(b) \in Int DEF c
  <2> QED
    BY <1>1, <2>2
<1>0. gone \in Nat /\ gone <= Len(b)
  BY <1>1
<1> HIDE DEF c, A, n
<1>4. Held(k, c)
  <2>1. /\ Len(b) <= limit[k] /\ Len(b) <= n
        /\ \A i \in 1..Len(b) : b[i] = A[n - Len(b) + i].read
    BY DEF Good, Held, A, n
  <2>2. ASSUME NEW i \in 1..Len(c)
        PROVE  c[i] = A[n - Len(c) + i].read
    <3>1. gone + i \in 1..Len(b) /\ n - Len(b) + (gone + i) = n - Len(c) + i
      BY <1>1, <1>3
    <3>2. b[gone + i] = A[n - Len(b) + (gone + i)].read
      BY <2>1, <3>1
    <3> QED
      BY <1>3, <3>1, <3>2
  <2>3. Len(c) <= limit[k] /\ Len(c) <= n
    <3>1. Len(b) \in Nat /\ n \in Nat /\ limit[k] \in Nat /\ Len(c) = Len(b) - gone
      BY <1>1, <1>3
    <3> QED
      BY <1>0, <2>1, <3>1
  <2> QED
    BY <2>2, <2>3 DEF Held, A, n
<1>5. Forgotten(k, c)
  <2> SUFFICES ASSUME NEW i \in 1..(n - Len(c))
               PROVE  A[i].read + window[k] <= clock + Patience
    BY DEF Forgotten, A, n
  <2>1. CASE i <= n - Len(b)
    BY <1>1, <1>3, <2>1 DEF Good, Forgotten, A, n
  <2>2. CASE i > n - Len(b)
    <3>0. i - (n - Len(b)) \in 1..gone
      BY <1>0, <1>1, <1>3, <2>2
    <3>1. PICK j \in 1..gone : j = i - (n - Len(b))
      BY <3>0
    <3>2. b[j] = A[n - Len(b) + j].read /\ n - Len(b) + j = i
      <4>1. \A x \in 1..Len(b) : b[x] = A[n - Len(b) + x].read
        BY DEF Good, Held, A, n
      <4>2. j \in 1..Len(b) /\ n - Len(b) + j = i
        BY <1>0, <1>1, <1>3, <3>1
      <4> QED
        BY <4>1, <4>2
    <3>3. b[j] <= call[t].now - window[k] /\ b[j] \in Nat
      <4>1. j \in 1..Len(b)
        BY <1>0, <1>1, <3>1
      <4>2. b[j] \in Nat
        BY <1>1, <4>1, ElementOfSeq
      <4> QED
        BY <3>1, <4>2 DEF OutOfWindow
    <3>4. A[i].read \in Nat
      <4>1. i \in 1..n
        BY <1>0, <1>1, <1>3
      <4> QED
        BY <1>2, <4>1 DEF Admission
    <3>5. A[i].read <= call[t].now - window[k]
      BY <3>2, <3>3
    <3>6. /\ call[t].now \in Nat /\ call[t].now <= clock /\ clock \in Nat
          /\ window[k] \in Nat /\ Patience \in Nat
      BY <1>1
    <3> QED
      BY <3>4, <3>5, <3>6
  <2> QED
    BY <1>1, <1>3, <2>1, <2>2
<1>6. Binding(k, c)
  <2> SUFFICES ASSUME rejected[k] # None, limit[k] <= Len(c)
               PROVE  /\ rejected[k].latest < c[1] + window[k]
                      /\ c[1] + window[k] <= rejected[k].retry
    BY DEF Binding
  <2>1. gone = 0 /\ Len(c) = Len(b) /\ Len(b) >= 1
    BY <1>1, <1>3 DEF Good, Held
  <2>2. c[1] = b[1]
    <3>1. 1 \in 1..Len(c) /\ gone + 1 = 1
      BY <1>1, <2>1
    <3> QED
      BY <1>3, <3>1
  <2> QED
    BY <2>1, <2>2 DEF Good, Binding
<1>7. ASSUME Len(c) >= 1
      PROVE  c[1] > call[t].now - window[k]
  <2>1. gone < Len(b)
    BY <1>1, <1>3, <1>7
  <2>2. c[1] = b[gone + 1]
    <3>1. 1 \in 1..Len(c)
      BY <1>1, <1>3, <1>7
    <3> QED
      BY <1>3, <3>1
  <2> QED
    BY <2>1, <2>2 DEF OutOfWindow
<1> QED
  BY <1>3, <1>4, <1>5, <1>6, <1>7 DEF Good, c

-----------------------------------------------------------------------------
(* The steps. *)

\* A bucket stays good while its history stays and time passes.
LEMMA StaysGood ==
  ASSUME IInv, NEW k \in Keys, NEW b, Good(k, b), buckets'[k] = b,
         admitted'[k] = admitted[k], rejected'[k] = rejected[k],
         clock' \in Nat, clock' >= clock
  PROVE  Good(k, buckets[k])' /\ Times(k)'
<1>1. /\ admitted[k] \in Seq(Admission) /\ window[k] \in Nat
      /\ Patience \in Nat /\ clock \in Nat
  BY PolicyAssumption DEF IInv, TypeOK
<1>2. \A i \in 1..Len(admitted[k]) :
        admitted[k][i].read \in Nat /\ admitted[k][i].at \in Nat
  <2>1. \A i \in 1..Len(admitted[k]) : admitted[k][i] \in Admission
    BY <1>1, ElementOfSeq
  <2> QED
    BY <2>1 DEF Admission
<1>3. Forgotten(k, b)'
  <2> SUFFICES ASSUME NEW i \in 1..(Len(admitted[k]) - Len(b))
               PROVE  admitted[k][i].read + window[k] <= clock' + Patience
    BY DEF Forgotten
  <2>1. admitted[k][i].read + window[k] <= clock + Patience
    BY DEF Good, Forgotten
  <2>2. i \in 1..Len(admitted[k])
    BY <1>1, EmptySeq DEF Good
  <2>3. window[k] \in Nat /\ Patience \in Nat /\ clock \in Nat /\ admitted[k][i].read \in Nat
    BY <1>1, <1>2, <2>2
  <2> QED
    BY <2>1, <2>3
<1>4. Times(k)'
  <2> SUFFICES ASSUME NEW i \in 1..Len(admitted[k])
               PROVE  admitted[k][i].at <= clock'
    BY DEF IInv, Times
  <2>1. admitted[k][i].at <= clock /\ admitted[k][i].at \in Nat /\ clock \in Nat
    BY <1>1, <1>2 DEF IInv, Times
  <2> QED
    BY <2>1
<1> QED
  BY <1>3, <1>4 DEF Good, Held, Forgotten, Binding

\* Time passes.
LEMMA TickStep ==
  ASSUME IInv, Tick
  PROVE  IInv'
<1>1. clock' \in Nat /\ clock' >= clock /\ clock' = clock + 1 /\ clock \in Nat
  BY DEF IInv, TypeOK, Tick
<1>2. TypeOK'
  BY <1>1 DEF IInv, TypeOK, Tick
<1>3. Waiting'
  <2> SUFFICES ASSUME NEW t \in Threads, call[t] # None
               PROVE  call[t].now <= clock' /\ clock' <= call[t].now + Patience
    BY DEF Waiting, Tick
  <2>1. call[t].now \in Nat /\ Patience \in Nat
    BY PolicyAssumption DEF IInv, TypeOK, Call
  <2>2. call[t].now <= clock /\ clock - call[t].now < Patience
    BY DEF IInv, Waiting, Tick
  <2> QED
    BY <1>1, <2>1, <2>2
<1>4. ASSUME NEW k \in Keys
      PROVE  Good(k, buckets[k])' /\ Times(k)'
  BY <1>1, StaysGood DEF IInv, Tick
<1>5. LimitUpToStall' /\ NoSpuriousRejection' /\ RetryIsHonest'
  BY DEF IInv, Tick, LimitUpToStall, NoSpuriousRejection, RetryIsHonest
<1> QED
  BY <1>2, <1>3, <1>4, <1>5 DEF IInv

\* A thread reads the clock.
LEMMA ReadClockStep ==
  ASSUME IInv, NEW t \in Threads, ReadClock(t)
  PROVE  IInv'
<1>1. PICK k \in Keys : call' = [call EXCEPT ![t] = [key |-> k, now |-> clock]]
  BY DEF ReadClock
<1>2. clock \in Nat /\ Patience \in Nat /\ clock <= clock + Patience
  BY PolicyAssumption DEF IInv, TypeOK
<1>3. TypeOK'
  BY <1>1, <1>2 DEF IInv, TypeOK, ReadClock, Call
<1>4. Waiting'
  <2> SUFFICES ASSUME NEW u \in Threads, call'[u] # None
               PROVE  call'[u].now <= clock /\ clock <= call'[u].now + Patience
    BY DEF Waiting, ReadClock
  <2>1. CASE u = t
    BY <1>1, <1>2, <2>1 DEF IInv, TypeOK
  <2>2. CASE u # t
    BY <1>1, <2>2 DEF IInv, TypeOK, Waiting
  <2> QED
    BY <2>1, <2>2
<1>5. ASSUME NEW x \in Keys
      PROVE  Good(x, buckets[x])' /\ Times(x)'
  BY <1>2, StaysGood DEF IInv, ReadClock
<1>6. LimitUpToStall' /\ NoSpuriousRejection' /\ RetryIsHonest'
  BY DEF IInv, ReadClock, LimitUpToStall, NoSpuriousRejection, RetryIsHonest
<1> QED
  BY <1>3, <1>4, <1>5, <1>6 DEF IInv

\* What every check does beside its decision.
Checking(t) ==
  /\ checks' \in 0..(Period - 1)
  /\ call' = [call EXCEPT ![t] = None]
  /\ clock' = clock

\* What a check decides on.
Deciding(t, kept, b) ==
  /\ call[t] # None
  /\ kept \in [Keys -> Seq(Nat)]
  /\ \A x \in Keys : Good(x, kept[x])
  /\ Good(call[t].key, b)
  /\ Len(b) >= 1 => b[1] > call[t].now - window[call[t].key]

\* A check that is rejected: whatever it found in the window is in the bucket.
LEMMA RejectStep ==
  ASSUME IInv, NEW t \in Threads, NEW kept, NEW b, Deciding(t, kept, b),
         Checking(t), Reject(t, kept, b), NEW k, k = call[t].key
  PROVE  IInv'
<1> DEFINE now == call[t].now
           A == admitted[k]
           n == Len(A)
           wait == b[1] + window[k] - now
           retry == now + Second * RetryAfter(wait)
<1>1. /\ k \in Keys /\ now \in Nat /\ now <= clock /\ clock \in Nat
      /\ limit[k] \in Nat \ {0} /\ window[k] \in Nat /\ Patience \in Nat
  BY PolicyAssumption DEF IInv, TypeOK, Waiting, Call, Deciding
<1>2. /\ Good(k, b) /\ b \in Seq(Nat) /\ Len(b) \in Nat /\ A \in Seq(Admission) /\ n \in Nat
      /\ Len(b) = limit[k]
  BY <1>1 DEF IInv, TypeOK, Deciding, Good, Held, Reject, Full
<1>3. Len(b) >= 1 /\ b[1] \in Nat /\ b[1] > now - window[k]
  BY <1>1, <1>2, ElementOfSeq DEF Deciding
<1>4. /\ wait \in Nat /\ retry \in Nat /\ retry >= b[1] + window[k] /\ retry > now
  <2>1. wait \in Nat
    BY <1>1, <1>3
  <2>2. RetryAfter(wait) \in Nat /\ Second * RetryAfter(wait) >= wait /\ Second * RetryAfter(wait) >= 1
    BY <2>1, RetryAfterEnough
  <2>3. Second * RetryAfter(wait) \in Nat
    BY <2>2 DEF Second
  <2>4. b[1] + window[k] = now + wait
    BY <1>1, <1>3
  <2>5. b[1] + window[k] > now
    BY <1>1, <1>3
  <2>6. window[k] \in Nat /\ now \in Nat /\ b[1] \in Nat
    BY <1>1, <1>3
  <2> HIDE DEF now, wait
  <2> QED
    BY <2>1, <2>2, <2>3, <2>4, <2>5, <2>6
<1>5. /\ buckets' = [kept EXCEPT ![k] = b] /\ admitted' = admitted /\ clock' = clock
      /\ kept \in [Keys -> Seq(Nat)] /\ rejected' \in [Keys -> Rejection \cup {None}]
      /\ \A x \in Keys \ {k} : rejected'[x] = rejected[x] /\ buckets'[x] = kept[x]
      /\ buckets'[k] = b
      /\ rejected'[k] = IF rejected[k] = None THEN [latest |-> now, retry |-> retry]
           ELSE [latest |-> IF now > rejected[k].latest THEN now ELSE rejected[k].latest,
                 retry |-> IF retry < rejected[k].retry THEN retry ELSE rejected[k].retry]
  <2>1. rejected \in [Keys -> Rejection \cup {None}]
    BY DEF IInv, TypeOK
  <2>2. rejected' = [rejected EXCEPT ![k] =
           IF rejected[k] = None THEN [latest |-> now, retry |-> retry]
           ELSE [latest |-> IF now > rejected[k].latest THEN now ELSE rejected[k].latest,
                 retry |-> IF retry < rejected[k].retry THEN retry ELSE rejected[k].retry]]
    BY <1>1, <2>1 DEF Reject, Rejecting
  <2> HIDE DEF now, retry
  <2> QED
    BY <1>1, <1>4, <2>1, <2>2 DEF Reject, Checking, Deciding, Rejection
<1>6. /\ rejected'[k] # None /\ rejected'[k].latest \in Nat /\ rejected'[k].retry \in Nat
      /\ \/ rejected'[k].latest = now
         \/ rejected[k] # None /\ rejected'[k].latest = rejected[k].latest
      /\ \/ rejected'[k].retry = retry
         \/ rejected[k] # None /\ rejected'[k].retry = rejected[k].retry
  <2> HIDE DEF now, retry
  <2> QED
    BY <1>1, <1>4, <1>5, NoRecordAssumption DEF Rejection, IInv, TypeOK
<1>7. rejected'[k].latest < b[1] + window[k] /\ b[1] + window[k] <= rejected'[k].retry
  <2>1. rejected[k] # None =>
          rejected[k].latest < b[1] + window[k] /\ b[1] + window[k] <= rejected[k].retry
    BY <1>1, <1>2 DEF Good, Binding
  <2>2. now < b[1] + window[k]
    BY <1>1, <1>3
  <2> QED
    BY <1>4, <1>6, <2>1, <2>2
<1>8. ASSUME NEW x \in Keys
      PROVE  Good(x, buckets[x])' /\ Times(x)'
  <2>1. CASE x # k
    <3>1. Good(x, kept[x])
      BY DEF Deciding
    <3>2. /\ buckets'[x] = kept[x] /\ admitted'[x] = admitted[x] /\ rejected'[x] = rejected[x]
          /\ clock' \in Nat /\ clock' >= clock
      BY <1>1, <1>5, <2>1
    <3> QED
      BY <3>1, <3>2, StaysGood
  <2>2. CASE x = k
    <3>1. Times(k)'
      <4>1. admitted'[k] = admitted[k] /\ clock' = clock /\ Times(k)
        BY <1>1, <1>5 DEF IInv
      <4> QED
        BY <4>1 DEF Times
    <3>2. Held(k, b)' /\ Forgotten(k, b)' /\ Binding(k, b)'
      BY <1>2, <1>5, <1>7 DEF Good, Held, Forgotten, Binding
    <3> QED
      BY <1>2, <1>5, <2>2, <3>1, <3>2 DEF Good, Held, Forgotten, Binding
  <2> QED
    BY <2>1, <2>2
<1>9. TypeOK'
  <2>1. \A x \in Keys : Len(buckets'[x]) <= limit[x]
    BY <1>8 DEF Good, Held
  <2>2. buckets' \in [Keys -> Seq(Nat)]
    BY <1>2, <1>5
  <2>3. call' \in [Threads -> Call \cup {None}]
    BY DEF IInv, TypeOK, Checking
  <2> QED
    BY <1>5, <2>1, <2>2, <2>3 DEF IInv, TypeOK, Checking
<1>10. Waiting'
  BY <1>5 DEF IInv, TypeOK, Waiting, Checking
<1>11. NoSpuriousRejection'
  <2> SUFFICES ASSUME NEW x \in Keys, rejected'[x] # None
               PROVE  /\ limit[x] <= Len(admitted[x])
                      /\ \A i \in (Len(admitted[x]) - limit[x] + 1)..Len(admitted[x]) :
                           admitted[x][i].read > rejected'[x].latest - window[x] - Patience
    BY <1>5 DEF NoSpuriousRejection
  <2>1. CASE x # k
    BY <1>5, <2>1 DEF IInv, NoSpuriousRejection
  <2>2. CASE x = k
    <3>1. limit[k] <= n
      BY <1>2 DEF Good, Held
    <3>2. ASSUME NEW i \in (n - limit[k] + 1)..n
          PROVE  A[i].read > rejected'[k].latest - window[k] - Patience
      <4>1. CASE rejected[k] # None /\ rejected'[k].latest = rejected[k].latest
        BY <1>1, <4>1 DEF IInv, NoSpuriousRejection
      <4>2. CASE rejected'[k].latest = now
        <5>1. /\ i \in 1..n /\ n - limit[k] + 1 \in 1..n /\ i >= n - limit[k] + 1
              /\ n - limit[k] + 1 = n - Len(b) + 1
          BY <1>1, <1>2, <3>1
        <5> DEFINE f == A[n - limit[k] + 1]
        <5>2. b[1] = f.read
          <6>1. \A j \in 1..Len(b) : b[j] = A[n - Len(b) + j].read
            BY <1>2 DEF Good, Held
          <6>2. 1 \in 1..Len(b)
            BY <1>2, <1>3
          <6> QED
            BY <5>1, <6>1, <6>2
        <5>3. f.read <= f.at /\ f.at <= A[i].at /\ A[i].at <= A[i].read + Patience
          <6>1. \A j \in 1..n : /\ A[j].read <= A[j].at /\ A[j].at <= A[j].read + Patience
                                /\ \A l \in 1..n : j < l => A[j].at <= A[l].at
            BY <1>1 DEF IInv, Times
          <6>2. f.at \in Nat
            <7>1. f \in Admission
              BY <1>2, <5>1, ElementOfSeq
            <7> QED
              BY <7>1 DEF Admission
          <6>3. CASE i = n - limit[k] + 1
            <7>1. A[i] = f
              BY <6>3
            <7>2. f.read <= f.at /\ f.at <= f.read + Patience
              BY <5>1, <6>1
            <7> HIDE DEF f
            <7> QED
              BY <6>2, <7>1, <7>2
          <6>4. CASE i # n - limit[k] + 1
            BY <5>1, <6>1, <6>4
          <6> QED
            BY <6>3, <6>4
        <5>4. /\ A[i].read \in Nat /\ A[i].at \in Nat /\ f.read \in Nat /\ f.at \in Nat
              /\ now \in Nat /\ window[k] \in Nat /\ Patience \in Nat
          <6>1. A[i] \in Admission /\ f \in Admission
            BY <1>2, <5>1, ElementOfSeq
          <6> QED
            BY <1>1, <6>1 DEF Admission
        <5> HIDE DEF f, A, now, n
        <5>5. f.read <= A[i].read + Patience
          BY <5>3, <5>4
        <5>6. f.read > now - window[k]
          BY <1>3, <5>2
        <5> QED
          BY <4>2, <5>4, <5>5, <5>6
      <4> QED
        BY <1>6, <4>1, <4>2
    <3> QED
      BY <2>2, <3>1, <3>2
  <2> QED
    BY <2>1, <2>2
<1>12. RetryIsHonest'
  <2>1. rejected'[k].latest < rejected'[k].retry
    <3>1. b[1] + window[k] \in Nat
      BY <1>1, <1>3
    <3> QED
      BY <1>6, <1>7, <3>1
  <2> QED
    BY <1>5, <2>1 DEF IInv, RetryIsHonest
<1>13. LimitUpToStall'
  BY <1>5 DEF IInv, LimitUpToStall
<1> QED
  BY <1>8, <1>9, <1>10, <1>11, <1>12, <1>13 DEF IInv

\* A check that is let through, after all that is in the window.
LEMMA AdmitStep ==
  ASSUME IInv, NEW t \in Threads, NEW kept, NEW b, Deciding(t, kept, b),
         Checking(t), Admit(t, kept, b), NEW k, k = call[t].key,
         NEW now, now = call[t].now
  PROVE  IInv'
<1> DEFINE A == admitted[k]
           n == Len(A)
           m == Len(b)
           e == [read |-> now, at |-> clock]
<1>1. /\ k \in Keys /\ now \in Nat /\ now <= clock /\ clock <= now + Patience /\ clock \in Nat
      /\ limit[k] \in Nat \ {0} /\ window[k] \in Nat /\ Patience \in Nat
  BY PolicyAssumption DEF IInv, TypeOK, Waiting, Call, Deciding
<1>2. /\ Good(k, b) /\ b \in Seq(Nat) /\ m \in Nat /\ A \in Seq(Admission) /\ n \in Nat
      /\ m < limit[k] /\ m <= n /\ e \in Admission
  <2>1. Good(k, b) /\ b \in Seq(Nat) /\ A \in Seq(Admission)
    BY <1>1 DEF IInv, TypeOK, Deciding, Good
  <2>2. m \in Nat /\ n \in Nat
    BY <2>1
  <2>3. m < limit[k] /\ m <= n
    BY <1>1, <2>1, <2>2 DEF Good, Held, Admit, Full
  <2>4. e \in Admission
    BY <1>1 DEF Admission
  <2> QED
    BY <2>1, <2>2, <2>3, <2>4
<1>3. /\ buckets' = [kept EXCEPT ![k] = Append(b, now)] /\ clock' = clock
      /\ admitted' = [admitted EXCEPT ![k] = Append(A, e)]
      /\ rejected' = [rejected EXCEPT ![k] = None]
      /\ kept \in [Keys -> Seq(Nat)]
  BY DEF Admit, Checking, Deciding
<1>4. /\ admitted'[k] = Append(A, e) /\ buckets'[k] = Append(b, now) /\ rejected'[k] = None
      /\ \A x \in Keys \ {k} : /\ rejected'[x] = rejected[x] /\ buckets'[x] = kept[x]
                               /\ admitted'[x] = admitted[x]
  <2>1. /\ rejected \in [Keys -> Rejection \cup {None}]
        /\ admitted \in [Keys -> Seq(Admission)]
    BY DEF IInv, TypeOK
  <2> HIDE DEF A, e
  <2> QED
    BY <1>1, <1>3, <2>1
<1>5. /\ admitted'[k] \in Seq(Admission) /\ Len(admitted'[k]) = n + 1
      /\ \A i \in 1..n : admitted'[k][i] = A[i]
      /\ admitted'[k][n + 1] = e
  <2> HIDE DEF e, A
  <2> QED
    BY <1>2, <1>4, AppendProperties
<1>6. /\ buckets'[k] \in Seq(Nat) /\ Len(buckets'[k]) = m + 1
      /\ \A i \in 1..m : buckets'[k][i] = b[i]
      /\ buckets'[k][m + 1] = now
  BY <1>1, <1>2, <1>4, AppendProperties
<1>7. \A i \in 1..n : /\ A[i].read \in Nat /\ A[i].at \in Nat
                      /\ A[i].read <= A[i].at /\ A[i].at <= A[i].read + Patience
                      /\ A[i].at <= clock
                      /\ \A j \in 1..n : i < j => A[i].at <= A[j].at
  <2>1. \A i \in 1..n : A[i] \in Admission
    BY <1>2, ElementOfSeq
  <2>2. \A i \in 1..n : A[i].read \in Nat /\ A[i].at \in Nat
    BY <2>1 DEF Admission
  <2> QED
    BY <1>1, <2>2 DEF IInv, Times
<1>8. \A i \in 1..(n - m) : A[i].read + window[k] <= clock + Patience
  BY <1>2 DEF Good, Forgotten
<1>9. \A i \in 1..m : b[i] = A[n - m + i].read
  BY <1>2 DEF Good, Held
<1>10. Times(k)'
  <2> SUFFICES ASSUME NEW i \in 1..(n + 1)
               PROVE  /\ admitted'[k][i].read <= admitted'[k][i].at
                      /\ admitted'[k][i].at <= admitted'[k][i].read + Patience
                      /\ admitted'[k][i].at <= clock
                      /\ \A j \in 1..(n + 1) : i < j => admitted'[k][i].at <= admitted'[k][j].at
    BY <1>3, <1>5 DEF Times
  <2> HIDE DEF A, n
  <2>1. CASE i = n + 1
    <3>1. admitted'[k][i].read = now /\ admitted'[k][i].at = clock
      BY <1>5, <2>1
    <3>2. \A j \in 1..(n + 1) : ~(i < j)
      BY <1>2, <2>1
    <3> QED
      BY <1>1, <3>1, <3>2
  <2>2. CASE i # n + 1
    <3>1. i \in 1..n
      BY <1>2, <2>2
    <3>2. admitted'[k][i] = A[i]
      BY <1>5, <3>1
    <3>3. ASSUME NEW j \in 1..(n + 1), i < j
          PROVE  A[i].at <= admitted'[k][j].at
      <4>1. CASE j = n + 1
        BY <1>5, <1>7, <3>1, <4>1
      <4>2. CASE j # n + 1
        <5>1. j \in 1..n
          BY <1>2, <4>2
        <5> QED
          BY <1>5, <1>7, <3>1, <3>3, <5>1
      <4> QED
        BY <4>1, <4>2
    <3> QED
      BY <1>7, <3>1, <3>2, <3>3
  <2> QED
    BY <2>1, <2>2
<1>11. Held(k, buckets[k])'
  <2> HIDE DEF A, n, e, m
  <2>1. ASSUME NEW i \in 1..(m + 1)
        PROVE  buckets'[k][i] = admitted'[k][(n + 1) - (m + 1) + i].read
    <3>1. CASE i = m + 1
      <4>1. (n + 1) - (m + 1) + i = n + 1
        BY <1>2, <3>1
      <4> QED
        BY <1>5, <1>6, <3>1, <4>1 DEF e
    <3>2. CASE i # m + 1
      <4>1. i \in 1..m /\ n - m + i \in 1..n /\ (n + 1) - (m + 1) + i = n - m + i
        BY <1>2, <3>2
      <4> QED
        BY <1>5, <1>6, <1>9, <4>1
    <3> QED
      BY <3>1, <3>2
  <2>2. m + 1 <= limit[k] /\ m + 1 <= n + 1
    BY <1>1, <1>2
  <2> QED
    BY <1>5, <1>6, <2>1, <2>2 DEF Held
<1>12. Forgotten(k, buckets[k])'
  <2> HIDE DEF A, n, m
  <2> SUFFICES ASSUME NEW i \in 1..(n - m)
               PROVE  admitted'[k][i].read + window[k] <= clock + Patience
    <3>1. (n + 1) - (m + 1) = n - m
      BY <1>2
    <3> QED
      BY <1>3, <1>5, <1>6, <3>1 DEF Forgotten
  <2>1. i \in 1..n
    BY <1>2
  <2> QED
    BY <1>5, <1>8, <2>1
<1>13. ASSUME NEW x \in Keys
       PROVE  Good(x, buckets[x])' /\ Times(x)'
  <2>1. CASE x # k
    <3>1. Good(x, kept[x])
      BY DEF Deciding
    <3>2. /\ buckets'[x] = kept[x] /\ admitted'[x] = admitted[x] /\ rejected'[x] = rejected[x]
          /\ clock' \in Nat /\ clock' >= clock
      BY <1>1, <1>3, <1>4, <2>1
    <3> QED
      BY <3>1, <3>2, StaysGood
  <2>2. CASE x = k
    <3>1. Binding(k, buckets[k])'
      BY <1>4 DEF Binding
    <3> QED
      BY <1>6, <1>10, <1>11, <1>12, <2>2, <3>1 DEF Good
  <2> QED
    BY <2>1, <2>2
<1>14. TypeOK'
  <2>1. \A x \in Keys : Len(buckets'[x]) <= limit[x]
    BY <1>13 DEF Good, Held
  <2>2. buckets' \in [Keys -> Seq(Nat)]
    BY <1>3, <1>6, <1>4
  <2>3. call' \in [Threads -> Call \cup {None}]
    BY DEF IInv, TypeOK, Checking
  <2>4. admitted' \in [Keys -> Seq(Admission)] /\ rejected' \in [Keys -> Rejection \cup {None}]
    BY <1>3, <1>4, <1>5 DEF IInv, TypeOK
  <2> QED
    BY <2>1, <2>2, <2>3, <2>4 DEF IInv, TypeOK, Checking
<1>15. Waiting'
  BY <1>3 DEF IInv, TypeOK, Waiting, Checking
<1>16. NoSpuriousRejection' /\ RetryIsHonest'
  BY <1>4 DEF IInv, NoSpuriousRejection, RetryIsHonest
<1>17. LimitUpToStall'
  <2> SUFFICES ASSUME NEW x \in Keys, NEW i \in DOMAIN admitted'[x], NEW j \in DOMAIN admitted'[x],
                      j >= i + limit[x]
               PROVE  admitted'[x][j].at - admitted'[x][i].read >= window[x] - Patience
    BY DEF LimitUpToStall
  <2>1. CASE x # k
    BY <1>4, <2>1 DEF IInv, LimitUpToStall
  <2>2. CASE x = k
    <3>1. i \in 1..(n + 1) /\ j \in 1..(n + 1) /\ DOMAIN A = 1..n
      BY <1>2, <1>5, <2>2, LenProperties
    <3> HIDE DEF n, m
    <3>2. i \in 1..(n - m) /\ i \in 1..n
      BY <1>1, <1>2, <2>2, <3>1
    <3>3. CASE j = n + 1
      <4>1. admitted'[k][j].at = clock /\ admitted'[k][i] = A[i]
        BY <1>5, <3>2, <3>3
      <4>2. A[i].read + window[k] <= clock + Patience /\ A[i].read \in Nat
        BY <1>7, <1>8, <3>2
      <4> HIDE DEF A
      <4> QED
        BY <1>1, <2>2, <4>1, <4>2
    <3>4. CASE j # n + 1
      <4>1. j \in 1..n
        BY <1>2, <3>1, <3>4
      <4> QED
        BY <1>5, <2>2, <3>1, <3>2, <4>1 DEF IInv, LimitUpToStall
    <3> QED
      BY <3>3, <3>4
  <2> QED
    BY <2>1, <2>2
<1> QED
  BY <1>13, <1>14, <1>15, <1>16, <1>17 DEF IInv

LEMMA CheckStep ==
  ASSUME IInv, NEW t \in Threads, check(t)
  PROVE  IInv'
<1> DEFINE k == call[t].key
           kept == IF (checks + 1) % Period = 0 THEN remove_idle_buckets(t) ELSE buckets
<1>1. PICK gone \in 0..Len(kept[k]) :
        /\ OutOfWindow(kept[k], call[t].now - window[k], gone)
        /\ LET bucket == SubSeq(kept[k], gone + 1, Len(kept[k])) IN
           Reject(t, kept, bucket) \/ Admit(t, kept, bucket)
  BY DEF check
<1> DEFINE b == SubSeq(kept[k], gone + 1, Len(kept[k]))
<1>2. call[t] # None /\ k \in Keys
  BY DEF check, IInv, TypeOK, Call
<1>3. \A x \in Keys : Good(x, kept[x])
  BY <1>2, KeptIsGood
<1>4. kept \in [Keys -> Seq(Nat)]
  BY EmptySeq DEF IInv, TypeOK, remove_idle_buckets
<1>5. Deciding(t, kept, b)
  <2>1. Good(k, b) /\ (Len(b) >= 1 => b[1] > call[t].now - window[k])
    <3> HIDE DEF kept
    <3> QED
      BY <1>1, <1>2, <1>3, TrimmedIsGood
  <2> QED
    BY <1>2, <1>3, <1>4, <2>1 DEF Deciding
<1>6. Checking(t)
  BY PolicyAssumption DEF check, Checking, IInv, TypeOK
<1>7. Reject(t, kept, b) \/ Admit(t, kept, b)
  BY <1>1
<1> HIDE DEF kept, b
<1> QED
  BY <1>5, <1>6, <1>7, RejectStep, AdmitStep

LEMMA ResetStep ==
  ASSUME IInv, reset
  PROVE  IInv'
<1>1. \A k \in Keys : /\ buckets'[k] = <<>> /\ admitted'[k] = <<>> /\ rejected'[k] = None
                      /\ limit[k] \in Nat \ {0} /\ window[k] \in Nat
  BY PolicyAssumption DEF reset
<1>2. TypeOK'
  <2>1. \A k \in Keys : Len(buckets'[k]) <= limit[k]
    BY <1>1, EmptySeq
  <2> QED
    BY <2>1, PolicyAssumption, EmptySeq DEF IInv, TypeOK, reset
<1>3. Waiting'
  BY DEF IInv, Waiting, reset
<1>4. ASSUME NEW k \in Keys
      PROVE  Good(k, buckets[k])' /\ Times(k)'
  <2>1. /\ Len(<<>>) = 0 /\ <<>> \in Seq(Nat) /\ 1..0 = {} /\ 0 - 0 = 0
        /\ limit[k] \in Nat \ {0}
    BY <1>1, EmptySeq
  <2>2. <<>> \in Seq(Nat) /\ Times(k)'
    BY <1>1, <2>1 DEF Times
  <2>3. Held(k, buckets[k])'
    <3>1. Len(buckets'[k]) = 0 /\ Len(admitted'[k]) = 0 /\ limit[k] \in Nat
      BY <1>1, <2>1
    <3>2. 0 <= limit[k] /\ 0 <= 0 /\ \A i \in 1..0 : FALSE
      BY <3>1
    <3> QED
      BY <3>1, <3>2 DEF Held
  <2>4. Forgotten(k, buckets[k])'
    BY <1>1, <2>1 DEF Forgotten
  <2>5. Binding(k, buckets[k])'
    BY <1>1 DEF Binding
  <2> QED
    BY <1>1, <2>2, <2>3, <2>4, <2>5 DEF Good
<1>5. LimitUpToStall' /\ NoSpuriousRejection' /\ RetryIsHonest'
  BY <1>1, EmptySeq, LenProperties DEF LimitUpToStall, NoSpuriousRejection, RetryIsHonest
<1> QED
  BY <1>2, <1>3, <1>4, <1>5 DEF IInv

\* A step that changes nothing.
LEMMA StutterStep ==
  ASSUME IInv, UNCHANGED vars
  PROVE  IInv'
  BY DEF vars, IInv, TypeOK, Waiting, Times, Good, Held, Forgotten, Binding,
         LimitUpToStall, NoSpuriousRejection, RetryIsHonest

LEMMA InitIInv ==
  ASSUME Init
  PROVE  IInv
<1>1. \A k \in Keys : /\ buckets[k] = <<>> /\ admitted[k] = <<>> /\ rejected[k] = None
                      /\ limit[k] \in Nat \ {0} /\ window[k] \in Nat
  BY PolicyAssumption DEF Init
<1>2. TypeOK
  <2>1. \A k \in Keys : Len(buckets[k]) <= limit[k]
    BY <1>1, EmptySeq
  <2> QED
    BY <2>1, PolicyAssumption, EmptySeq DEF Init, TypeOK
<1>3. Waiting
  BY DEF Init, Waiting
<1>4. ASSUME NEW k \in Keys
      PROVE  Good(k, buckets[k]) /\ Times(k)
  <2>1. /\ Len(<<>>) = 0 /\ <<>> \in Seq(Nat) /\ 1..0 = {} /\ 0 - 0 = 0
        /\ limit[k] \in Nat \ {0}
    BY <1>1, EmptySeq
  <2>2. <<>> \in Seq(Nat) /\ Times(k)
    BY <1>1, <2>1 DEF Times
  <2>3. Held(k, buckets[k])
    <3>1. Len(buckets[k]) = 0 /\ Len(admitted[k]) = 0 /\ limit[k] \in Nat
      BY <1>1, <2>1
    <3>2. 0 <= limit[k] /\ 0 <= 0 /\ \A i \in 1..0 : FALSE
      BY <3>1
    <3> QED
      BY <3>1, <3>2 DEF Held
  <2>4. Forgotten(k, buckets[k])
    BY <1>1, <2>1 DEF Forgotten
  <2>5. Binding(k, buckets[k])
    BY <1>1 DEF Binding
  <2> QED
    BY <1>1, <2>2, <2>3, <2>4, <2>5 DEF Good
<1>5. LimitUpToStall /\ NoSpuriousRejection /\ RetryIsHonest
  BY <1>1, EmptySeq, LenProperties DEF LimitUpToStall, NoSpuriousRejection, RetryIsHonest
<1> QED
  BY <1>2, <1>3, <1>4, <1>5 DEF IInv

-----------------------------------------------------------------------------
(* The theorems. *)

\* The inductive invariant of the limiter holds throughout (rate_limit.py:47-71).
THEOREM LimiterInvariance == Spec => []IInv
<1>1. IInv /\ [Next]_vars => IInv'
  <2> SUFFICES ASSUME IInv, [Next]_vars
               PROVE  IInv'
    OBVIOUS
  <2> QED
    BY TickStep, ReadClockStep, CheckStep, ResetStep, StutterStep DEF Next
<1> QED
  BY <1>1, InitIInv, PTL DEF Spec

\* Every variable keeps its type and no bucket outgrows its limit (rate_limit.py:58).
THEOREM TypeCorrectness == Spec => []TypeOK
<1>1. IInv => TypeOK
  BY DEF IInv
<1> QED
  BY <1>1, LimiterInvariance, PTL

\* The checks of a key that are let through keep to its limit, up to a stall
\* (rate_limit.py:48-61).
THEOREM LimitHolds == Spec => []LimitUpToStall
<1>1. IInv => LimitUpToStall
  BY DEF IInv
<1> QED
  BY <1>1, LimiterInvariance, PTL

\* Nobody is rejected whose key has room, up to a stall (rate_limit.py:56-61).
THEOREM RejectionsAreDue == Spec => []NoSpuriousRejection
<1>1. IInv => NoSpuriousRejection
  BY DEF IInv
<1> QED
  BY <1>1, LimiterInvariance, PTL

\* The announced wait is long enough (rate_limit.py:59).
THEOREM RetriesAreHonest == Spec => []RetryIsHonest
<1>1. IInv => RetryIsHonest
  BY DEF IInv
<1> QED
  BY <1>1, LimiterInvariance, PTL
=============================================================================
