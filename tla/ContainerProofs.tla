--------------------------- MODULE ContainerProofs ---------------------------
(***************************************************************************)
(* Proofs about ContainerResolver, for any cgroups, any capacity of the    *)
(* cache and of the lookup channel and any times.                          *)
(***************************************************************************)
EXTENDS ContainerResolver, SequenceTheorems, FiniteSetTheorems, TLAPS

(* The minimum and the maximum of two numbers.                             *)
LEMMA MinOfTwo ==
  ASSUME NEW a \in Int, NEW b \in Int
  PROVE  Min({a, b}) = IF a <= b THEN a ELSE b
  <1>1. \E x \in {a, b} : \A y \in {a, b} : x <= y
    OBVIOUS
  <1> QED
    BY <1>1 DEF Min

(* The larger of two numbers, as FiniteSetsExt chooses it.                 *)
LEMMA MaxOfTwo ==
  ASSUME NEW a \in Int, NEW b \in Int
  PROVE  Max({a, b}) = IF a <= b THEN b ELSE a
  <1>1. \E x \in {a, b} : \A y \in {a, b} : x >= y
    OBVIOUS
  <1> QED
    BY <1>1 DEF Max

(* lookup_backoff keeps to LOOKUP_RETRY_MAX, and the attempts saturate.    *)
LEMMA BackoffType ==
  ASSUME NEW n \in 0..MaxAttempts
  PROVE  Backoff(n) \in 0..MaxBackoff /\ Again(n) \in 0..MaxAttempts
  <1> USE ResolverAssumption
  <1>1. Min({n, 6}) \in 0..6
    BY MinOfTwo
  <1>2. Doubled[Min({n, 6}) + 1] \in Nat
    BY <1>1 DEF Doubled
  <1>3. Backoff(n) \in 0..MaxBackoff
    BY <1>2, MinOfTwo DEF Backoff
  <1>4. Again(n) \in 0..MaxAttempts
    BY MinOfTwo DEF Again
  <1> QED
    BY <1>3, <1>4

(* No element of the cache is mistaken for a missing one, and neither is a *)
(* call or a job.                                                          *)
LEMMA Absent ==
  /\ NoEntry \notin Entry
  /\ NoCall.step = "none"
  /\ NoJob.step = "idle"
  BY DEF NoEntry, Entry, NoCall, NoJob

(* The resolver starts empty.                                              *)
LEMMA TypeInit == Init => TypeOK
  BY ResolverAssumption DEF Init, TypeOK

(* A step keeps the type.                                                  *)
LEMMA TypeStep == TypeOK /\ [Next]_vars => TypeOK'
  <1> SUFFICES ASSUME TypeOK, [Next]_vars PROVE TypeOK'
    OBVIOUS
  <1> USE ResolverAssumption, Absent
  <1>1. ASSUME NEW c \in Cgroups, Hit(c) PROVE TypeOK'
    <2> DEFINE e == cache[c]
    <2> HIDE DEF e
    <2>1. e \in Entry /\ e.attempts \in 0..MaxAttempts
      BY <1>1 DEF TypeOK, Hit, Fresh, Entry, e
    <2>2. Again(e.attempts) \in 0..MaxAttempts
          /\ Backoff(Again(e.attempts)) \in 0..MaxBackoff
      BY <2>1, BackoffType
    <2>3. [e EXCEPT !.idle = 0] \in Entry
      BY <2>1 DEF Entry
    <2> DEFINE n == Again(e.attempts)
               r == Backoff(n)
    <2>4. [e EXCEPT !.idle = 0, !.attempts = n, !.retry = r] \in Entry
      <3> HIDE DEF n, r
      <3>1. n \in 0..MaxAttempts /\ r \in 0..MaxBackoff
        BY <2>2 DEF n, r
      <3>2. [[e EXCEPT !.idle = 0] EXCEPT !.attempts = n] \in Entry
        BY <2>3, <3>1 DEF Entry
      <3>3. [[[e EXCEPT !.idle = 0] EXCEPT !.attempts = n] EXCEPT !.retry = r] \in Entry
        BY <3>2, <3>1 DEF Entry
      <3> QED
        BY <3>3, Zenon
    <2>5. cache' \in [Cgroups -> Entry \cup {NoEntry}]
      BY <1>1, <2>3, <2>4 DEF TypeOK, Hit, e
    <2>6. call' = NoCall \/ call' \in [step : {"ask"}, cg : Cgroups, id : Containers]
      BY <1>1, <2>1 DEF Hit, Retries, Entry, Ids, e
    <2> QED
      BY <1>1, <2>5, <2>6 DEF TypeOK, Hit
  <1>2. ASSUME NEW c \in Cgroups, Miss(c) PROVE TypeOK'
    <2>1. \A known : InfoFor(c, known) \subseteq Ids
      BY DEF InfoFor, ProcNames, PathNames, Ids
    <2>2. cache' \in [Cgroups -> Entry \cup {NoEntry}]
      BY <1>2 DEF TypeOK, Miss
    <2> QED
      BY <1>2, <2>1, <2>2 DEF TypeOK, Miss, ScanCgroupTree
  <1>3. CASE Insert
    <2>1. call \in [step : {"insert"}, cg : Cgroups, id : Ids]
      BY <1>3 DEF TypeOK, Insert
    <2>2. [idle |-> 0, unresolved |-> call.id, ns |-> Nowhere,
           retry |-> Backoff(0), attempts |-> 0] \in Entry
      BY <2>1, BackoffType DEF Entry, Ids
    <2>3. cache' \in [Cgroups -> Entry \cup {NoEntry}]
      BY <1>3, <2>1, <2>2 DEF TypeOK, Insert
    <2>4. call' = NoCall \/ call' \in [step : {"ask"}, cg : Cgroups, id : Containers]
      BY <1>3, <2>1 DEF Insert, Ids
    <2> QED
      BY <1>3, <2>1, <2>3, <2>4 DEF TypeOK, Insert
  <1>4. ASSUME NEW c \in Cgroups, NEW accepted \in BOOLEAN, RequestLookup(c, accepted)
        PROVE  TypeOK'
    <2>1. call \in [step : {"ask"}, cg : Cgroups, id : Containers]
      BY <1>4 DEF TypeOK, RequestLookup
    <2>2. [cg |-> c, id |-> call.id] \in Job
      BY <2>1 DEF Job
    <2>3. queue \in Seq(Job) /\ Len(queue) \in Nat
      BY LenProperties DEF TypeOK
    <2>4. /\ queue' \in Seq(Job) /\ Len(queue') <= QueueCap
      <3>1. CASE UNCHANGED queue
        BY <3>1 DEF TypeOK
      <3>2. CASE queue' = Append(queue, [cg |-> c, id |-> call.id]) /\ Len(queue) < QueueCap
        <4>1. queue' \in Seq(Job) /\ Len(queue') = Len(queue) + 1
          BY <2>2, <2>3, <3>2, AppendProperties
        <4> QED
          BY <2>3, <3>2, <4>1
      <3> QED
        BY <1>4, <3>1, <3>2 DEF RequestLookup
    <2>5. pending' \subseteq Cgroups
      BY <1>4 DEF TypeOK, RequestLookup, Refused
    <2> QED
      BY <1>4, <2>4, <2>5 DEF TypeOK, RequestLookup
  <1>5. CASE Receive
    <2>1. /\ Head(queue) \in Job /\ Tail(queue) \in Seq(Job)
          /\ Len(Tail(queue)) = Len(queue) - 1 /\ Len(queue) \in Nat
      BY <1>5, HeadTailProperties, LenProperties DEF TypeOK, Receive
    <2> QED
      BY <1>5, <2>1 DEF TypeOK, Receive, Job
  <1>6. ASSUME NEW c \in Cgroups, UpdateFromCri(c) PROVE TypeOK'
    <2>1. worker \in [step : {"fetch", "unmark"}, cg : Cgroups, id : Containers]
      BY <1>6 DEF TypeOK, UpdateFromCri
    <2>2. cache' \in [Cgroups -> Entry \cup {NoEntry}]
      <3>1. CASE cache[c] = NoEntry
        BY <1>6, <3>1 DEF TypeOK, UpdateFromCri
      <3>2. CASE cache[c] # NoEntry
        <4> DEFINE e == [cache[c] EXCEPT !.ns = worker.id, !.idle = 0, !.unresolved = Nowhere]
        <4>1. cache[c] \in Entry
          BY <3>2 DEF TypeOK
        <4>2. e \in Entry
          <5>1. [cache[c] EXCEPT !.ns = worker.id] \in Entry
            BY <2>1, <4>1 DEF Entry, Ids
          <5>2. [[cache[c] EXCEPT !.ns = worker.id] EXCEPT !.idle = 0] \in Entry
            <6> DEFINE f == [cache[c] EXCEPT !.ns = worker.id]
            <6> HIDE DEF f
            <6>1. f \in Entry
              BY <5>1 DEF f
            <6>2. [f EXCEPT !.idle = 0] \in Entry
              BY <6>1 DEF Entry
            <6> QED
              BY <6>2 DEF f
          <5>3. [[[cache[c] EXCEPT !.ns = worker.id] EXCEPT !.idle = 0]
                    EXCEPT !.unresolved = Nowhere] \in Entry
            BY <5>2 DEF Entry, Ids
          <5> QED
            BY <5>3, Zenon
        <4>3. cache' = [cache EXCEPT ![c] = e]
          BY <1>6, <3>2 DEF UpdateFromCri, PodNamespace
        <4> HIDE DEF e
        <4> QED
          BY <4>2, <4>3 DEF TypeOK
      <3> QED
        BY <3>1, <3>2
    <2>3. worker' \in [step : {"fetch", "unmark"}, cg : Cgroups, id : Containers]
      BY <1>6, <2>1 DEF UpdateFromCri
    <2> QED
      BY <1>6, <2>2, <2>3 DEF TypeOK, UpdateFromCri
  <1>7. CASE Unmark \/ MarkLookupFailed
    BY <1>7 DEF TypeOK, Unmark, MarkLookupFailed
  <1>8. ASSUME NEW c \in Cgroups, StartCgroup(c) PROVE TypeOK'
    BY <1>8 DEF TypeOK, StartCgroup
  <1>9. CASE Tick
    <2>1. scanned' \in 0..Cooldown
      <3>1. /\ scanned \in Nat /\ scanned + 1 \in Int
            /\ Cooldown \in Int /\ 0 <= Cooldown
        BY DEF TypeOK
      <3>2. Min({scanned + 1, Cooldown})
              = IF scanned + 1 <= Cooldown THEN scanned + 1 ELSE Cooldown
        BY <3>1, MinOfTwo
      <3>3. scanned' = Min({scanned + 1, Cooldown})
        BY <1>9 DEF Tick
      <3> QED
        BY <3>1, <3>2, <3>3
    <2>2. ASSUME NEW e \in Entry
          PROVE  [e EXCEPT !.idle = Min({@ + 1, TTL}), !.retry = Max({@ - 1, 0})] \in Entry
      <3>1. Min({e.idle + 1, TTL}) \in 0..TTL /\ Max({e.retry - 1, 0}) \in 0..MaxBackoff
        <4>1. e.idle \in 0..TTL /\ e.retry \in 0..MaxBackoff
          BY DEF Entry
        <4>2. e.idle + 1 \in Int /\ TTL \in Int /\ e.retry - 1 \in Int /\ 0 \in Int
          BY <4>1
        <4>3. Min({e.idle + 1, TTL}) = IF e.idle + 1 <= TTL THEN e.idle + 1 ELSE TTL
          BY <4>2, MinOfTwo
        <4>4. Max({e.retry - 1, 0}) = IF e.retry - 1 <= 0 THEN 0 ELSE e.retry - 1
          BY <4>2, MaxOfTwo
        <4> QED
          BY <4>1, <4>3, <4>4
      <3> DEFINE i == Min({e.idle + 1, TTL})
                 r == Max({e.retry - 1, 0})
      <3> HIDE DEF i, r
      <3>2. [e EXCEPT !.idle = i, !.retry = r] \in Entry
        BY <3>1 DEF Entry, i, r
      <3> QED
        BY <3>2 DEF i, r
    <2>3. cache' \in [Cgroups -> Entry \cup {NoEntry}]
      BY <1>9, <2>2 DEF TypeOK, Tick
    <2> QED
      BY <1>9, <2>1, <2>3 DEF TypeOK, Tick
  <1>10. CASE UNCHANGED vars
    BY <1>10 DEF TypeOK, vars
  <1> QED
    BY <1>1, <1>2, <1>3, <1>4, <1>5, <1>6, <1>7, <1>8, <1>9, <1>10 DEF Next

(* Cache, marks, channel and the two threads keep their types; the channel *)
(* keeps its capacity, back-off and ages their limits.                     *)
THEOREM TypeCorrect == Spec => []TypeOK
  BY TypeInit, TypeStep, PTL DEF Spec

-----------------------------------------------------------------------------
(* Marks and lookups.                                                      *)

(* No cgroup is queued twice, nor queued while the worker is at it.        *)
LookedUpOnce ==
  /\ \A i, j \in 1..Len(queue) : queue[i].cg = queue[j].cg => i = j
  /\ worker # NoJob => \A i \in 1..Len(queue) : queue[i].cg # worker.cg

MarksInv == pending = Working /\ LookedUpOnce

(* As many cgroups are being looked up as there are lookups.               *)
LEMMA LookupsAreCounted ==
  ASSUME TypeOK, LookedUpOnce
  PROVE  /\ IsFiniteSet(Working)
         /\ Cardinality(Working) = Len(queue) + (IF worker = NoJob THEN 0 ELSE 1)
  <1> DEFINE n == Len(queue)
             f == [i \in 1..n |-> queue[i].cg]
             Q == {queue[i].cg : i \in 1..n}
  <1>1. n \in Nat /\ DOMAIN queue = 1..n
    BY LenProperties DEF TypeOK
  <1>2. f \in Bijection(1..n, Q)
    BY DEF LookedUpOnce, Bijection, Injection, Surjection, IsInjective
  <1>3. IsFiniteSet(Q) /\ Cardinality(Q) = n
    <2>1. ExistsBijection(1..n, Q)
      BY <1>2 DEF ExistsBijection
    <2> QED
      BY <1>1, <2>1, FS_CountingElements, FS_NatBijection
  <1>4. CASE worker = NoJob
    <2>1. Working = Q
      BY <1>1, <1>4 DEF Working
    <2> HIDE DEF Q
    <2> QED
      BY <1>1, <1>3, <1>4, <2>1
  <1>5. CASE worker # NoJob
    <2>1. Working = Q \cup {worker.cg}
      BY <1>1, <1>5 DEF Working
    <2>2. worker.cg \notin Q
      BY <1>5 DEF LookedUpOnce
    <2> HIDE DEF Q
    <2> QED
      BY <1>1, <1>3, <1>5, <2>1, <2>2, FS_AddElement
  <1> QED
    BY <1>4, <1>5

(* The limit on pending lookups is out of reach of the lookup channel.     *)
LEMMA LimitUnreached ==
  ASSUME TypeOK, MarksInv
  PROVE  ~(Cardinality(pending) >= MaxPending)
  <1>1. /\ Cardinality(pending) = Len(queue) + (IF worker = NoJob THEN 0 ELSE 1)
    BY LookupsAreCounted DEF MarksInv
  <1>2. Len(queue) \in Nat /\ Len(queue) <= QueueCap
    BY LenProperties DEF TypeOK
  <1> QED
    BY <1>1, <1>2, ResolverAssumption

(* Nothing is marked and nothing is looked up at first.                    *)
LEMMA MarksInit == Init => MarksInv
  <1> SUFFICES ASSUME Init PROVE MarksInv
    OBVIOUS
  <1>1. queue = <<>> /\ Len(queue) = 0 /\ DOMAIN queue = {} /\ worker = NoJob /\ pending = {}
    BY DEF Init
  <1> QED
    BY <1>1 DEF MarksInv, LookedUpOnce, Working

(* A step keeps marks and lookups together.                                *)
LEMMA MarksStep == TypeOK /\ MarksInv /\ [Next]_vars => MarksInv'
  <1> SUFFICES ASSUME TypeOK, MarksInv, [Next]_vars PROVE MarksInv'
    OBVIOUS
  <1> USE Absent
  <1> DEFINE n == Len(queue)
  <1>0. n \in Nat /\ DOMAIN queue = 1..n /\ queue \in Seq(Job)
    BY LenProperties DEF TypeOK
  <1>1. ASSUME UNCHANGED <<pending, queue, worker>> PROVE MarksInv'
    BY <1>1 DEF MarksInv, LookedUpOnce, Working
  <1>2. ASSUME NEW c \in Cgroups, NEW accepted \in BOOLEAN, RequestLookup(c, accepted)
        PROVE  MarksInv'
    <2>1. UNCHANGED worker
      BY <1>2 DEF RequestLookup
    <2>2. \/ UNCHANGED <<pending, queue>>
          \/ /\ c \notin pending /\ pending' = pending \cup {c}
             /\ queue' = Append(queue, [cg |-> c, id |-> call.id])
          \/ c \notin pending /\ pending' = (pending \cup {c}) \ {c} /\ UNCHANGED queue
      BY <1>2, LimitUnreached DEF RequestLookup, Refused
    <2>3. CASE UNCHANGED <<pending, queue>>
      BY <1>1, <2>1, <2>3
    <2>4. CASE /\ c \notin pending /\ pending' = pending \cup {c}
               /\ queue' = Append(queue, [cg |-> c, id |-> call.id])
      <3> DEFINE new == [cg |-> c, id |-> call.id]
      <3>1. new \in Job
        BY <1>2 DEF TypeOK, RequestLookup, Job
      <3>2. /\ Len(queue') = n + 1
            /\ DOMAIN queue' = 1..(n + 1)
            /\ \A i \in 1..n : queue'[i] = queue[i]
            /\ queue'[n + 1].cg = c
        BY <1>0, <2>4, <3>1, AppendProperties, LenProperties
      <3>3. \A i \in 1..n : queue[i].cg # c
        BY <1>0, <2>4 DEF MarksInv, Working
      <3>4. worker # NoJob => worker.cg # c
        BY <2>4 DEF MarksInv, Working
      <3>5. Working' = Working \cup {c}
        <4>1. {queue'[i].cg : i \in 1..(n + 1)} = {queue[i].cg : i \in 1..n} \cup {c}
          <5>1. ASSUME NEW i \in 1..(n + 1)
                PROVE  queue'[i].cg \in {queue[j].cg : j \in 1..n} \cup {c}
            <6>1. CASE i = n + 1
              BY <3>2, <6>1
            <6>2. CASE i # n + 1
              <7>1. i \in 1..n
                BY <1>0, <6>2
              <7> QED
                BY <3>2, <7>1
            <6> QED
              BY <6>1, <6>2
          <5>2. ASSUME NEW j \in 1..n PROVE j \in 1..(n + 1) /\ queue'[j].cg = queue[j].cg
            BY <1>0, <3>2
          <5>3. n + 1 \in 1..(n + 1)
            BY <1>0
          <5> QED
            BY <3>2, <5>1, <5>2, <5>3
        <4> QED
          BY <1>0, <2>1, <3>2, <4>1 DEF Working
      <3>6. ASSUME NEW i \in 1..(n + 1), NEW j \in 1..(n + 1), queue'[i].cg = queue'[j].cg
            PROVE  i = j
        <4>1. CASE i \in 1..n /\ j \in 1..n
          BY <3>2, <3>6, <4>1 DEF MarksInv, LookedUpOnce
        <4>2. CASE i = n + 1 /\ j \in 1..n
          BY <3>2, <3>3, <3>6, <4>2
        <4>3. CASE i \in 1..n /\ j = n + 1
          BY <3>2, <3>3, <3>6, <4>3
        <4> QED
          BY <1>0, <4>1, <4>2, <4>3
      <3>7. ASSUME worker # NoJob, NEW i \in 1..(n + 1) PROVE queue'[i].cg # worker.cg
        <4>1. CASE i \in 1..n
          BY <3>2, <3>7, <4>1 DEF MarksInv, LookedUpOnce
        <4>2. CASE i = n + 1
          BY <3>2, <3>4, <3>7, <4>2
        <4> QED
          BY <1>0, <4>1, <4>2
      <3> QED
        BY <2>1, <2>4, <3>2, <3>5, <3>6, <3>7 DEF MarksInv, LookedUpOnce
    <2>5. CASE c \notin pending /\ pending' = (pending \cup {c}) \ {c} /\ UNCHANGED queue
      <3>1. pending' = pending
        BY <2>5
      <3> QED
        BY <1>1, <2>1, <2>5, <3>1
    <2> QED
      BY <2>2, <2>3, <2>4, <2>5
  <1>3. CASE Receive
    <2>1. /\ Len(queue') = n - 1 /\ n > 0
          /\ DOMAIN queue' = 1..(n - 1)
          /\ \A i \in 1..(n - 1) : queue'[i] = queue[i + 1]
      <3>1. queue # <<>> /\ queue' = Tail(queue)
        BY <1>3 DEF Receive
      <3>2. queue' \in Seq(Job) /\ Len(queue') = n - 1 /\ n > 0
            /\ \A i \in 1..Len(queue') : queue'[i] = queue[i + 1]
        BY <1>0, <3>1, HeadTailProperties, EmptySeq
      <3> QED
        BY <3>2, LenProperties
    <2>2. /\ worker' # NoJob /\ worker'.cg = queue[1].cg
          /\ worker = NoJob /\ UNCHANGED pending
      BY <1>3 DEF Receive
    <2>3. {queue[i + 1].cg : i \in 1..(n - 1)} \cup {queue[1].cg} = {queue[i].cg : i \in 1..n}
      <3>1. ASSUME NEW i \in 1..(n - 1) PROVE i + 1 \in 1..n
        BY <1>0
      <3>2. ASSUME NEW i \in 1..n PROVE i = 1 \/ (i - 1 \in 1..(n - 1) /\ (i - 1) + 1 = i)
        BY <1>0
      <3>3. 1 \in 1..n
        BY <1>0, <2>1
      <3>4. ASSUME NEW i \in 1..n
            PROVE  queue[i].cg \in {queue[j + 1].cg : j \in 1..(n - 1)} \cup {queue[1].cg}
        <4>1. CASE i = 1
          BY <4>1
        <4>2. CASE i - 1 \in 1..(n - 1) /\ (i - 1) + 1 = i
          <5>1. queue[(i - 1) + 1].cg \in {queue[j + 1].cg : j \in 1..(n - 1)}
            BY <4>2
          <5> QED
            BY <4>2, <5>1
        <4> QED
          BY <3>2, <4>1, <4>2
      <3> QED
        BY <3>1, <3>3, <3>4
    <2>4. Working' = Working
      <3>1. {queue'[i].cg : i \in 1..(n - 1)} = {queue[i + 1].cg : i \in 1..(n - 1)}
        BY <2>1
      <3>2. Working' = {queue'[i].cg : i \in 1..(n - 1)} \cup {queue[1].cg}
        BY <2>1, <2>2 DEF Working
      <3>3. Working = {queue[i].cg : i \in 1..n}
        BY <1>0, <2>2 DEF Working
      <3> QED
        BY <2>3, <3>1, <3>2, <3>3
    <2>5. ASSUME NEW i \in 1..(n - 1), NEW j \in 1..(n - 1), queue'[i].cg = queue'[j].cg
          PROVE  i = j
      <3>1. i + 1 \in 1..n /\ j + 1 \in 1..n /\ queue[i + 1].cg = queue[j + 1].cg
        BY <1>0, <2>1, <2>5
      <3>2. i + 1 = j + 1
        BY <3>1 DEF MarksInv, LookedUpOnce
      <3> QED
        BY <3>2
    <2>6. ASSUME NEW i \in 1..(n - 1) PROVE queue'[i].cg # worker'.cg
      <3>1. i + 1 \in 1..n /\ 1 \in 1..n /\ i + 1 # 1
        BY <1>0, <2>1
      <3>2. queue[i + 1].cg # queue[1].cg
        BY <3>1 DEF MarksInv, LookedUpOnce
      <3> QED
        BY <2>1, <2>2, <3>2
    <2> QED
      BY <2>1, <2>2, <2>4, <2>5, <2>6 DEF MarksInv, LookedUpOnce
  <1>4. ASSUME NEW c \in Cgroups, UpdateFromCri(c) PROVE MarksInv'
    <2>1. /\ worker # NoJob /\ worker' # NoJob /\ worker'.cg = worker.cg
          /\ UNCHANGED <<pending, queue>>
      BY <1>4 DEF UpdateFromCri, TypeOK
    <2> QED
      BY <2>1 DEF MarksInv, LookedUpOnce, Working
  <1>5. CASE Unmark \/ MarkLookupFailed
    <2>1. /\ worker # NoJob /\ worker' = NoJob /\ UNCHANGED queue
          /\ pending' = pending \ {worker.cg}
      BY <1>5 DEF Unmark, MarkLookupFailed
    <2>2. \A i \in 1..n : queue[i].cg # worker.cg
      BY <2>1 DEF MarksInv, LookedUpOnce
    <2>3. Working' = Working \ {worker.cg}
      BY <1>0, <2>1, <2>2 DEF Working
    <2> QED
      BY <2>1, <2>3 DEF MarksInv, LookedUpOnce
  <1>6. ASSUME NEW c \in Cgroups, Hit(c) \/ Miss(c) \/ StartCgroup(c) PROVE MarksInv'
    BY <1>1, <1>6 DEF Hit, Miss, StartCgroup
  <1>7. CASE Insert \/ Tick
    BY <1>1, <1>7 DEF Insert, Tick
  <1>8. CASE UNCHANGED vars
    BY <1>1, <1>8 DEF vars
  <1> QED
    BY <1>2, <1>3, <1>4, <1>5, <1>6, <1>7, <1>8 DEF Next

(* What PendingExact says, from the marks and the single lookups.          *)
LEMMA MarksImply == TypeOK /\ MarksInv => PendingExact
  BY LookupsAreCounted DEF MarksInv, PendingExact

(* request_lookup and the worker: a cgroup is marked pending while exactly *)
(* one lookup of it is queued or running.  The size check of               *)
(* request_lookup, which would drop the mark of a running lookup, never    *)
(* bites as long as MAX_PENDING_LOOKUPS exceeds the channel by two.        *)
THEOREM PendingIsExact == Spec => []PendingExact
  BY TypeInit, TypeStep, MarksInit, MarksStep, MarksImply, PTL DEF Spec

-----------------------------------------------------------------------------
(* The namespace scope.                                                    *)

(* Container id is cgroup c's own, or c is among the cgroups m that were   *)
(* mistaken for another.                                                   *)
Right(m, c, id) == c \in m \/ id \in {Nowhere, c}

(* What is known of a cgroup, wherever it is kept, is its own, unless it   *)
(* was mistaken.                                                           *)
RightCache(f, m) ==
  \A c \in Cgroups : f[c] # NoEntry => Right(m, c, f[c].ns) /\ Right(m, c, f[c].unresolved)
RightQueue(q, m) == \A i \in 1..Len(q) : Right(m, q[i].cg, q[i].id)
RightCall(x, m) == x # NoCall => Right(m, x.cg, x.id)
RightJob(x, m) == x # NoJob => Right(m, x.cg, x.id)

OwnMetadata ==
  /\ RightCache(cache, mistaken)
  /\ RightCall(call, mistaken)
  /\ RightQueue(queue, mistaken)
  /\ RightJob(worker, mistaken)

ScopeInv == OwnMetadata /\ ScopeFailsClosed

(* Nothing is known and nothing was admitted at first.                     *)
LEMMA ScopeInit == Init => ScopeInv
  <1> SUFFICES ASSUME Init PROVE ScopeInv
    OBVIOUS
  <1>1. Len(queue) = 0
    BY DEF Init
  <1>2. RightCache(cache, mistaken) /\ RightQueue(queue, mistaken)
    BY <1>1 DEF Init, RightCache, RightQueue
  <1>3. RightCall(call, mistaken) /\ RightJob(worker, mistaken)
    BY DEF Init, RightCall, RightJob
  <1>4. admitted = {}
    BY DEF Init
  <1> QED
    BY <1>2, <1>3, <1>4 DEF ScopeInv, OwnMetadata, ScopeFailsClosed

(* A step mixes up no metadata and lets no other event pass.               *)
LEMMA ScopeStep == TypeOK /\ ScopeInv /\ [Next]_vars => ScopeInv'
  <1> SUFFICES ASSUME TypeOK, ScopeInv, [Next]_vars PROVE ScopeInv'
    OBVIOUS
  <1> USE ResolverAssumption, Absent
  <1>0. /\ ~ScopeAllows(Nowhere)
        /\ \A c \in Cgroups, id \in Ids :
              ScopeAllows(id) /\ Right(mistaken, c, id) => c \in Allowed \cup mistaken
    BY DEF ScopeAllows, Right, Ids
  <1>a. /\ RightCache(cache, mistaken) /\ RightCall(call, mistaken)
        /\ RightQueue(queue, mistaken) /\ RightJob(worker, mistaken)
        /\ admitted \subseteq Allowed \cup mistaken
    BY DEF ScopeInv, OwnMetadata, ScopeFailsClosed
  <1>b. ASSUME RightCache(cache', mistaken'), RightCall(call', mistaken'),
               RightQueue(queue', mistaken'), RightJob(worker', mistaken'),
               admitted' \subseteq Allowed \cup mistaken'
        PROVE  ScopeInv'
    BY <1>b DEF ScopeInv, OwnMetadata, ScopeFailsClosed
  <1>1. ASSUME NEW c \in Cgroups, Hit(c) PROVE ScopeInv'
    <2>1. /\ cache[c] \in Entry /\ Right(mistaken, c, cache[c].ns)
          /\ Right(mistaken, c, cache[c].unresolved) /\ cache[c].ns \in Ids
      BY <1>1, <1>a DEF TypeOK, Hit, Fresh, RightCache, Entry
    <2>2. /\ cache'[c].ns = cache[c].ns /\ cache'[c].unresolved = cache[c].unresolved
          /\ \A d \in Cgroups : d # c => cache'[d] = cache[d]
      BY <1>1, <2>1 DEF Hit, TypeOK, Entry
    <2>3. RightCache(cache', mistaken)
      BY <1>a, <2>1, <2>2 DEF RightCache
    <2>4. RightCall(call', mistaken)
      BY <1>1, <2>1 DEF Hit, RightCall
    <2>5. admitted' \subseteq Allowed \cup mistaken
      BY <1>0, <1>1, <1>a, <2>1 DEF Hit
    <2>6. mistaken' = mistaken /\ queue' = queue /\ worker' = worker
      BY <1>1 DEF Hit
    <2> QED
      BY <1>a, <1>b, <2>3, <2>4, <2>5, <2>6
  <1>2. ASSUME NEW c \in Cgroups, Miss(c) PROVE ScopeInv'
    <2>1. \A d \in Cgroups : cache'[d] \in {cache[d], NoEntry}
      BY <1>2 DEF Miss
    <2>2. mistaken \subseteq mistaken' /\ queue' = queue /\ worker' = worker
          /\ admitted' = admitted
      BY <1>2 DEF Miss
    <2>3. PICK id \in InfoFor(c, index') :
            /\ call' = [step |-> "insert", cg |-> c, id |-> id]
            /\ mistaken' = mistaken \cup (IF id \in {Nowhere, PathNames(c)} THEN {} ELSE {c})
      BY <1>2 DEF Miss
    <2>4. id \in {Nowhere, c} \/ c \in mistaken'
      BY <2>3 DEF PathNames
    <2>5. RightCall(call', mistaken')
      BY <2>3, <2>4 DEF RightCall, Right
    <2>6. RightCache(cache', mistaken')
      BY <1>a, <2>1, <2>2 DEF RightCache, Right
    <2>7. RightQueue(queue', mistaken')
      BY <1>a, <2>2 DEF RightQueue, Right
    <2>8. RightJob(worker', mistaken')
      BY <1>a, <2>2 DEF RightJob, Right
    <2> QED
      BY <1>a, <1>b, <2>2, <2>5, <2>6, <2>7, <2>8
  <1>3. CASE Insert
    <2>1. call \in [step : {"insert"}, cg : Cgroups, id : Ids] /\ call # NoCall
      BY <1>3 DEF TypeOK, Insert
    <2>2. call.cg \in Cgroups /\ Right(mistaken, call.cg, call.id)
      BY <1>a, <2>1 DEF RightCall
    <2>3. /\ cache'[call.cg].ns = Nowhere /\ cache'[call.cg].unresolved = call.id
          /\ \A d \in Cgroups : d # call.cg => cache'[d] = cache[d]
      BY <1>3, <2>2 DEF Insert, TypeOK
    <2>4. RightCache(cache', mistaken)
      BY <1>a, <2>2, <2>3 DEF RightCache, Right
    <2>5. RightCall(call', mistaken)
      BY <1>3, <2>1, <2>2 DEF Insert, RightCall
    <2>6. admitted' = admitted
      BY <1>0, <1>3 DEF Insert
    <2>7. mistaken' = mistaken /\ queue' = queue /\ worker' = worker
      BY <1>3 DEF Insert
    <2> QED
      BY <1>a, <1>b, <2>4, <2>5, <2>6, <2>7
  <1>4. ASSUME NEW c \in Cgroups, NEW accepted \in BOOLEAN, RequestLookup(c, accepted)
        PROVE  ScopeInv'
    <2>1. call \in [step : {"ask"}, cg : Cgroups, id : Containers] /\ call.cg = c
      BY <1>4 DEF TypeOK, RequestLookup
    <2>2. Right(mistaken, c, call.id)
      BY <1>a, <2>1 DEF RightCall
    <2>3. RightQueue(queue', mistaken)
      <3>1. CASE UNCHANGED queue
        BY <1>a, <3>1
      <3>2. CASE queue' = Append(queue, [cg |-> c, id |-> call.id])
        <4>1. queue \in Seq(Job) /\ Len(queue) \in Nat /\ [cg |-> c, id |-> call.id] \in Job
          BY <2>1, LenProperties DEF TypeOK, Job
        <4>2. /\ Len(queue') = Len(queue) + 1
              /\ \A i \in 1..Len(queue) : queue'[i] = queue[i]
              /\ queue'[Len(queue) + 1] = [cg |-> c, id |-> call.id]
          BY <3>2, <4>1, AppendProperties
        <4>3. \A i \in 1..Len(queue') : i \in 1..Len(queue) \/ i = Len(queue) + 1
          BY <4>1, <4>2
        <4> QED
          BY <1>a, <2>2, <4>2, <4>3 DEF RightQueue
      <3> QED
        BY <1>4, <3>1, <3>2 DEF RequestLookup
    <2>4. call' = NoCall /\ cache' = cache /\ mistaken' = mistaken /\ worker' = worker
          /\ admitted' = admitted
      BY <1>4 DEF RequestLookup
    <2>5. RightCall(call', mistaken)
      BY <2>4 DEF RightCall
    <2> QED
      BY <1>a, <1>b, <2>3, <2>4, <2>5
  <1>5. CASE Receive
    <2>1. queue \in Seq(Job) /\ Len(queue) \in Nat /\ queue # <<>>
      BY <1>5, LenProperties DEF TypeOK, Receive
    <2>2. /\ Len(queue) > 0 /\ Len(Tail(queue)) = Len(queue) - 1
          /\ \A i \in 1..Len(Tail(queue)) : Tail(queue)[i] = queue[i + 1]
      BY <2>1, HeadTailProperties, EmptySeq
    <2>3. \A i \in 1..Len(Tail(queue)) : i + 1 \in 1..Len(queue)
      BY <2>1, <2>2
    <2>4. RightQueue(queue', mistaken)
      BY <1>5, <1>a, <2>2, <2>3 DEF Receive, RightQueue
    <2>5. 1 \in 1..Len(queue) /\ Head(queue) = queue[1]
      BY <2>1, <2>2
    <2>6. RightJob(worker', mistaken)
      BY <1>5, <1>a, <2>5 DEF Receive, RightQueue, RightJob
    <2>7. call' = call /\ cache' = cache /\ mistaken' = mistaken /\ admitted' = admitted
      BY <1>5 DEF Receive
    <2> QED
      BY <1>a, <1>b, <2>4, <2>6, <2>7
  <1>6. ASSUME NEW c \in Cgroups, UpdateFromCri(c) PROVE ScopeInv'
    <2>1. /\ worker \in [step : {"fetch", "unmark"}, cg : Cgroups, id : Containers]
          /\ worker # NoJob /\ worker.cg = c
      BY <1>6 DEF TypeOK, UpdateFromCri
    <2>2. Right(mistaken, c, worker.id)
      BY <1>a, <2>1 DEF RightJob
    <2>3. \A d \in Cgroups : d # c => cache'[d] = cache[d]
      BY <1>6 DEF UpdateFromCri, TypeOK
    <2>4. cache'[c] # NoEntry => cache'[c].ns = worker.id /\ cache'[c].unresolved = Nowhere
      <3>1. CASE cache[c] = NoEntry
        BY <1>6, <3>1 DEF UpdateFromCri
      <3>2. CASE cache[c] # NoEntry
        <4>1. cache[c] \in Entry
          BY <3>2 DEF TypeOK
        <4> QED
          BY <1>6, <2>1, <3>2, <4>1 DEF UpdateFromCri, PodNamespace, TypeOK, Entry
      <3> QED
        BY <3>1, <3>2
    <2>5. RightCache(cache', mistaken)
      BY <1>a, <2>2, <2>3, <2>4 DEF RightCache, Right
    <2>6. RightJob(worker', mistaken)
      BY <1>6, <2>1, <2>2 DEF UpdateFromCri, RightJob
    <2>7. call' = call /\ queue' = queue /\ mistaken' = mistaken /\ admitted' = admitted
      BY <1>6 DEF UpdateFromCri
    <2> QED
      BY <1>a, <1>b, <2>5, <2>6, <2>7
  <1>7. CASE Unmark \/ MarkLookupFailed
    <2>1. /\ call' = call /\ queue' = queue /\ mistaken' = mistaken /\ admitted' = admitted
          /\ cache' = cache /\ worker' = NoJob
      BY <1>7 DEF Unmark, MarkLookupFailed
    <2>2. RightJob(worker', mistaken)
      BY <2>1 DEF RightJob
    <2> QED
      BY <1>a, <1>b, <2>1, <2>2
  <1>8. ASSUME NEW c \in Cgroups, StartCgroup(c) PROVE ScopeInv'
    BY <1>8, <1>a, <1>b DEF StartCgroup
  <1>9. CASE Tick
    <2>1. ASSUME NEW d \in Cgroups, cache'[d] # NoEntry
          PROVE  Right(mistaken, d, cache'[d].ns) /\ Right(mistaken, d, cache'[d].unresolved)
      <3>1. cache[d] # NoEntry /\ cache[d] \in Entry
        BY <1>9, <2>1 DEF Tick, TypeOK
      <3>2. cache'[d].ns = cache[d].ns /\ cache'[d].unresolved = cache[d].unresolved
        BY <1>9, <3>1 DEF Tick, Entry
      <3> QED
        BY <1>a, <3>1, <3>2 DEF RightCache
    <2>2. RightCache(cache', mistaken)
      BY <2>1 DEF RightCache
    <2> QED
      BY <1>9, <1>a, <1>b, <2>2 DEF Tick
  <1>10. CASE UNCHANGED vars
    BY <1>10, <1>a, <1>b DEF vars
  <1> QED
    BY <1>1, <1>2, <1>3, <1>4, <1>5, <1>6, <1>7, <1>8, <1>9, <1>10 DEF Next

(* The scope is a part of its inductive invariant.                         *)
LEMMA ScopeImplies == ScopeInv => ScopeFailsClosed
  BY DEF ScopeInv

(* scope_allows fails closed: whatever /proc names and whatever update of  *)
(* the worker falls between two steps of resolve, an event of a container  *)
(* outside the scope passes only if the path of its cgroup was not known   *)
(* and /proc named another process for it.                                 *)
THEOREM ScopeIsClosed == Spec => []ScopeFailsClosed
  BY TypeInit, TypeStep, ScopeInit, ScopeStep, ScopeImplies, PTL DEF Spec

=============================================================================
