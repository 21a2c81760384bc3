-------------------------- MODULE ContainerResolver --------------------------
(***************************************************************************)
(* userspace/src/container.rs, the CRI worker of userspace/src/main.rs and *)
(* the namespace scope of userspace/src/stream.rs.                         *)
(*                                                                         *)
(* The ring buffer thread resolves the cgroup of every event: from the     *)
(* cache, or from the cgroup tree and /proc with a lookup queued for the   *)
(* worker, which asks the container runtime (CRI) and fills the cache in.  *)
(* The cache and the set of pending lookups have a lock each, and both     *)
(* threads release one before they take the other, so a call has several   *)
(* steps.  A container stands for its id and for its pod's namespace, and  *)
(* a namespace scope is configured.                                        *)
(*                                                                         *)
(* Time is kept as ages that stop at the limit they are compared with, so  *)
(* that runs of any length are finite-state.                               *)
(***************************************************************************)
EXTENDS Integers, Sequences, FiniteSets, FiniteSetsExt

CONSTANTS
    Cgroups,      \* cgroup ids
    Containers,   \* those whose path names a container
    Allowed,      \* those in a namespace of the scope
    Busy,         \* workloads that send events again and again
    Nowhere,      \* no container, no namespace
    WrongPids,    \* those whose /proc/<kernel pid> may be another process
    TTL,          \* ContainerResolver::ttl, in ticks
    Cooldown,     \* CGROUP_RESCAN_COOLDOWN, in ticks
    MaxBackoff,   \* LOOKUP_RETRY_MAX, in ticks of LOOKUP_RETRY_BASE
    MaxAttempts,  \* the attempts that lookup_backoff tells apart
    MaxCache,     \* MAX_CACHE_ENTRIES
    MaxPending,   \* MAX_PENDING_LOOKUPS
    QueueCap      \* capacity of the lookup channel

ASSUME ResolverAssumption ==
    /\ Allowed \subseteq Containers /\ Containers \subseteq Cgroups
    /\ Busy \subseteq Containers
    /\ Nowhere \notin Cgroups
    /\ WrongPids \subseteq Cgroups
    /\ {TTL, Cooldown, MaxBackoff, QueueCap} \subseteq Nat \ {0}
    /\ {MaxAttempts, MaxCache, MaxPending} \subseteq Nat
    /\ MaxPending > QueueCap + 1      \* 4096 and 1024 in the code

VARIABLES
    tree,      \* cgroups that exist
    index,     \* CgroupIndex::by_id
    scanned,   \* ticks since the last scan, at most Cooldown
    cache,     \* ContainerResolver::cache
    pending,   \* ContainerResolver::pending
    queue,     \* the lookup channel
    call,      \* the ring buffer thread inside resolve
    worker,    \* the CRI worker
    admitted,  \* cgroups whose events passed the scope (history)
    mistaken   \* cgroups for which /proc named another process (history)

vars == <<tree, index, scanned, cache, pending, queue, call, worker, admitted, mistaken>>

NoEntry == [idle |-> -1]
NoCall == [step |-> "none"]
NoJob == [step |-> "idle"]

Init ==
    /\ tree = {}
    /\ index = {}
    /\ scanned = Cooldown
    /\ cache = [c \in Cgroups |-> NoEntry]
    /\ pending = {}
    /\ queue = <<>>
    /\ call = NoCall
    /\ worker = NoJob
    /\ admitted = {}
    /\ mistaken = {}

-----------------------------------------------------------------------------
(* Mutant: the attempts, and with them the shift, grow without bound. *)
Again_Unbounded(attempts) == attempts + 1

(* One more attempt, saturating                                            *)
Again(attempts) == Min({attempts + 1, MaxAttempts})

(* 1 << n, for n up to 6                                                   *)
Doubled == <<1, 2, 4, 8, 16, 32, 64>>

(* lookup_backoff *)
Backoff(attempts) == Min({Doubled[Min({attempts, 6}) + 1], MaxBackoff})

(* What parse_cgroup_path makes of a cgroup's path.                        *)
PathNames(c) == IF c \in Containers THEN c ELSE Nowhere

(* parse_cgroup_info: the process may be gone, or in nested PID namespaces *)
(* be another one.                                                         *)
ProcNames(c) ==
    {Nowhere, PathNames(c)} \cup (IF c \in WrongPids THEN Containers ELSE {})

(* scan_cgroup_tree *)
ScanCgroupTree == tree

(* cgroup_path_for_id: an unknown id is looked for, but not at every event *)
Rescans(c) == c \notin index /\ scanned >= Cooldown

(* cgroup_info_for, with the index that cgroup_path_for_id leaves          *)
InfoFor(c, known) ==
    IF c \in known /\ PathNames(c) # Nowhere THEN {PathNames(c)} ELSE ProcNames(c)

(* Mutant: an unknown namespace is let through. *)
ScopeAllows_Open(ns) == ns \in Allowed \cup {Nowhere}

(* scope_allows *)
ScopeAllows(ns) == ns \in Allowed

(* Mutant: a cache hit never asks again. *)
Retries_Never(e) == FALSE

(* The retry of a cached element that has no metadata yet.                 *)
Retries(e) == e.unresolved # Nowhere /\ e.retry = 0

Fresh(c) == cache[c] # NoEntry /\ cache[c].idle < TTL

(* resolve, under the cache lock: a hit                                    *)
Hit(c) ==
    LET e == cache[c]
        again == Again(e.attempts)
    IN /\ call = NoCall
       /\ c \in tree
       /\ Fresh(c)
       /\ cache' = [cache EXCEPT ![c] =
                      IF Retries(e) THEN [e EXCEPT !.idle = 0, !.attempts = again,
                                                   !.retry = Backoff(again)]
                      ELSE [e EXCEPT !.idle = 0]]
       /\ call' = IF Retries(e) THEN [step |-> "ask", cg |-> c, id |-> e.unresolved]
                  ELSE NoCall
       /\ admitted' = admitted \cup (IF ScopeAllows(e.ns) THEN {c} ELSE {})
       /\ UNCHANGED <<tree, index, scanned, pending, queue, worker, mistaken>>

(* resolve: a miss, with the eviction of stale elements and the rescan     *)
Miss(c) ==
    LET stale == {d \in Cgroups : cache[d] # NoEntry /\ ~Fresh(d)}
        full == Cardinality({d \in Cgroups : cache[d] # NoEntry}) > MaxCache
    IN /\ call = NoCall
       /\ c \in tree
       /\ ~Fresh(c)
       /\ cache' = [d \in Cgroups |-> IF full /\ d \in stale THEN NoEntry ELSE cache[d]]
       /\ index' = IF Rescans(c) THEN ScanCgroupTree ELSE index
       /\ scanned' = IF Rescans(c) THEN 0 ELSE scanned
       /\ \E id \in InfoFor(c, index') :
             /\ call' = [step |-> "insert", cg |-> c, id |-> id]
             /\ mistaken' = mistaken \cup (IF id \in {Nowhere, PathNames(c)} THEN {} ELSE {c})
       /\ UNCHANGED <<tree, pending, queue, worker, admitted>>

(* resolve, under the cache lock again: the new element                    *)
Insert ==
    /\ call.step = "insert"
    /\ cache' = [cache EXCEPT ![call.cg] =
                   [idle |-> 0, unresolved |-> call.id, ns |-> Nowhere,
                    retry |-> Backoff(0), attempts |-> 0]]
    /\ call' = IF call.id = Nowhere THEN NoCall ELSE [call EXCEPT !.step = "ask"]
    /\ admitted' = admitted \cup (IF ScopeAllows(Nowhere) THEN {call.cg} ELSE {})
    /\ UNCHANGED <<tree, index, scanned, pending, queue, worker, mistaken>>

(* Mutant: a lookup that does not fit stays marked. *)
Refused_Marked(marked, c) == marked

(* A full queue undoes the mark.                                           *)
Refused(marked, c) == marked \ {c}

(* request_lookup, under the pending lock.  The channel may also be full   *)
(* of lookups of cgroups that are not modelled.                            *)
RequestLookup(c, accepted) ==
    LET asked == c \in pending
        kept == IF Cardinality(pending) >= MaxPending
                THEN {pending \ {v} : v \in pending} ELSE {pending}
    IN /\ call.step = "ask"
       /\ call.cg = c
       /\ call' = NoCall
       /\ \/ /\ asked /\ accepted
             /\ UNCHANGED <<pending, queue>>
          \/ /\ ~asked /\ accepted
             /\ Len(queue) < QueueCap
             /\ \E marked \in kept : pending' = marked \cup {c}
             /\ queue' = Append(queue, [cg |-> c, id |-> call.id])
          \/ /\ ~asked /\ ~accepted
             /\ \E marked \in kept : pending' = Refused(marked \cup {c}, c)
             /\ UNCHANGED queue
       /\ UNCHANGED <<tree, index, scanned, cache, worker, admitted, mistaken>>

-----------------------------------------------------------------------------
(* The CRI worker.                                                         *)

Receive ==
    /\ worker = NoJob
    /\ queue # <<>>
    /\ worker' = [step |-> "fetch", cg |-> Head(queue).cg, id |-> Head(queue).id]
    /\ queue' = Tail(queue)
    /\ UNCHANGED <<tree, index, scanned, cache, pending, call, admitted, mistaken>>

(* fetch_container_metadata: the namespace among the labels, which the     *)
(* kubelet gives to every container of a pod                               *)
PodNamespace(id) == id

(* update_from_cri, under the cache lock                                   *)
UpdateFromCri(c) ==
    /\ worker.step = "fetch"
    /\ worker.cg = c
    /\ cache' = IF cache[c] = NoEntry THEN cache
                ELSE [cache EXCEPT ![c].ns = PodNamespace(worker.id), ![c].idle = 0,
                                   ![c].unresolved = Nowhere]
    /\ worker' = [worker EXCEPT !.step = "unmark"]
    /\ UNCHANGED <<tree, index, scanned, pending, queue, call, admitted, mistaken>>

(* update_from_cri, under the pending lock                                 *)
Unmark ==
    /\ worker.step = "unmark"
    /\ pending' = pending \ {worker.cg}
    /\ worker' = NoJob
    /\ UNCHANGED <<tree, index, scanned, cache, queue, call, admitted, mistaken>>

(* The CRI call fails or takes more than five seconds: mark_lookup_failed. *)
MarkLookupFailed ==
    /\ worker.step = "fetch"
    /\ pending' = pending \ {worker.cg}
    /\ worker' = NoJob
    /\ UNCHANGED <<tree, index, scanned, cache, queue, call, admitted, mistaken>>

-----------------------------------------------------------------------------
(* A workload starts.                                                      *)
StartCgroup(c) ==
    /\ c \notin tree
    /\ tree' = tree \cup {c}
    /\ UNCHANGED <<index, scanned, cache, pending, queue, call, worker, admitted, mistaken>>

(* Time passes, but not while the ring buffer thread is inside resolve.  A *)
(* busy workload sends its next event within the TTL (ten minutes).        *)
Tick ==
    /\ call = NoCall
    /\ \A c \in Busy : Fresh(c) => cache[c].idle + 1 < TTL
    /\ scanned' = Min({scanned + 1, Cooldown})
    /\ cache' = [c \in Cgroups |->
                   IF cache[c] = NoEntry THEN NoEntry
                   ELSE [cache[c] EXCEPT !.idle = Min({@ + 1, TTL}),
                                         !.retry = Max({@ - 1, 0})]]
    /\ UNCHANGED <<tree, index, pending, queue, call, worker, admitted, mistaken>>

Resolve(c) == Hit(c) \/ Miss(c)

Next ==
    \/ \E c \in Cgroups : Hit(c) \/ Miss(c) \/ StartCgroup(c)
    \/ \E c \in Cgroups, accepted \in BOOLEAN : RequestLookup(c, accepted)
    \/ \E c \in Cgroups : UpdateFromCri(c)
    \/ Insert \/ Receive \/ Unmark \/ MarkLookupFailed \/ Tick

(* The two threads run, time passes, a busy workload keeps sending events, *)
(* the channel does not refuse it and the runtime does not fail it every   *)
(* time.                                                                   *)
Fairness ==
    /\ WF_vars(Insert \/ \E c \in Cgroups, accepted \in BOOLEAN : RequestLookup(c, accepted))
    /\ WF_vars(Receive \/ Unmark \/ MarkLookupFailed \/ \E c \in Cgroups : UpdateFromCri(c))
    /\ SF_vars(Tick)
    /\ \A c \in Busy : /\ SF_vars(Resolve(c))
                       /\ SF_vars(RequestLookup(c, TRUE))
                       /\ SF_vars(UpdateFromCri(c))

Spec == Init /\ [][Next]_vars /\ Fairness

-----------------------------------------------------------------------------
(* Properties.                                                             *)

Ids == Containers \cup {Nowhere}
Entry == [idle : 0..TTL, unresolved : Ids, ns : Ids, retry : 0..MaxBackoff,
          attempts : 0..MaxAttempts]
Job == [cg : Cgroups, id : Containers]

(* Type invariant of the resolver. *)
TypeOK ==
    /\ tree \subseteq Cgroups /\ index \subseteq tree
    /\ scanned \in 0..Cooldown
    /\ cache \in [Cgroups -> Entry \cup {NoEntry}]
    /\ pending \subseteq Cgroups
    /\ queue \in Seq(Job) /\ Len(queue) <= QueueCap
    /\ \/ call = NoCall
       \/ call \in [step : {"insert"}, cg : Cgroups, id : Ids]
       \/ call \in [step : {"ask"}, cg : Cgroups, id : Containers]
    /\ worker = NoJob \/ worker \in [step : {"fetch", "unmark"}, cg : Cgroups, id : Containers]
    /\ admitted \subseteq Cgroups /\ mistaken \subseteq Cgroups

(* The cgroups whose lookup is queued or running.                          *)
Working == {queue[i].cg : i \in DOMAIN queue}
           \cup (IF worker = NoJob THEN {} ELSE {worker.cg})

(* request_lookup, update_from_cri, mark_lookup_failed: a cgroup is marked *)
(* pending while exactly one lookup of it is queued or running: a mark     *)
(* without a lookup would keep the cgroup unresolved for ever, a lookup    *)
(* without a mark would be repeated.  It follows that the limit on pending *)
(* lookups, which breaks this, is never reached.                           *)
PendingExact ==
    /\ pending = Working
    /\ Cardinality(Working) = Len(queue) + (IF worker = NoJob THEN 0 ELSE 1)

(* scope_allows, "Fails closed": an event passes only if its own container *)
(* is in the scope, whatever update of the worker falls between two steps  *)
(* of resolve.  One case is excepted, and no other: the cgroup's path was  *)
(* not known and cgroup_info_for fell back to a /proc that, in nested PID  *)
(* namespaces, named another process.                                      *)
ScopeFailsClosed == admitted \subseteq Allowed \cup mistaken

(* resolve, "A busy workload keeps hitting the cache": once its element    *)
(* has a container id, a busy workload gets the namespace of that          *)
(* container, whatever lookups were refused or failed before.              *)
BusyIsResolved ==
    \A c \in Busy, id \in Containers :
        (cache[c] # NoEntry /\ cache[c].unresolved = id)
            ~> (cache[c] # NoEntry /\ cache[c].ns = id)
=============================================================================
