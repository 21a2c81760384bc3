------------------------------ MODULE TlsProbes ------------------------------
(***************************************************************************)
(* The TLS call probes of bpf/http_trace.bpf.c: the entry and exit probe   *)
(* of every TLS call, the args maps that pair them, the generation and the *)
(* sequence numbers of ssl_state_map, the events ring with its             *)
(* reserve / submit / discard protocol, the producer_stats counters and    *)
(* SSL_free with the close_events ring.                                    *)
(*                                                                         *)
(* A context is whatever a TLS call runs in: a thread, or a goroutine that *)
(* may change thread between entry and exit.  Exit programs run on several *)
(* CPUs at once, so emit_event is split where another CPU can see its      *)
(* effects.  A map that drops an element (they are LRU maps) is an action  *)
(* of the environment, bounded by MaxEvictions.                            *)
(***************************************************************************)
EXTENDS Integers, Sequences, FiniteSets, FiniteSetsExt

CONSTANTS
    Threads,       \* OS threads (pid_tgid)
    Goroutines,    \* goroutines (the g register)
    Procs,         \* processes (tgid)
    ProcOf,        \* the process of every context
    Ptrs,          \* addresses a TLS object may have
    Apis,          \* the probed calls the processes make
    RingSlots,     \* records the events ring holds
    CloseSlots,    \* records the close_events ring holds
    Sampling,      \* whether sampling_config has a rate below 100
    MaxDepth,      \* bound: calls one context has open (TLS inside TLS)
    MaxLives,      \* bound: objects allocated
    MaxAttempts,   \* bound: records the exit probes attempt
    MaxEvictions   \* bound: elements of ssl_state_map that are dropped

OpenSSL == {"SSL_write", "SSL_read", "SSL_write_ex", "SSL_read_ex"}
GnuTLS  == {"gnutls_record_send", "gnutls_record_recv"}
NSS     == {"PR_Write", "PR_Read"}
QUIC    == {"quic_stream_send", "quic_stream_recv"}
KTLS    == {"tls_sw_sendmsg", "tls_sw_recvmsg"}
GoTLS   == {"go_tls_write", "go_tls_read"}
AllApis == UNION {OpenSSL, GnuTLS, NSS, QUIC, KTLS, GoTLS}
Writes  == {"SSL_write", "SSL_write_ex", "gnutls_record_send", "PR_Write",
            "quic_stream_send", "tls_sw_sendmsg", "go_tls_write"}
Libraries == {OpenSSL, GnuTLS, NSS, QUIC, KTLS, GoTLS}

Contexts == Threads \cup Goroutines
Keys == [tgid : Procs, ptr : Ptrs]
Dirs == 0..1

ASSUME ProbesAssumption ==
    /\ Threads \cap Goroutines = {}
    /\ IsFiniteSet(Contexts)
    /\ ProcOf \in [Contexts -> Procs]
    /\ 0 \notin Ptrs
    /\ Apis \subseteq AllApis
    /\ RingSlots \in Nat \ {0}
    /\ CloseSlots \in Nat
    /\ Sampling \in BOOLEAN
    /\ MaxDepth \in Nat
    /\ MaxLives \in Nat
    /\ MaxAttempts \in Nat
    /\ MaxEvictions \in Nat

VARIABLES
    object,     \* the library of the object at each address ({}: none)
    life,       \* objects allocated at each address so far (history)
    tried,      \* records attempted per live object and direction (history)
    stack,      \* the open TLS calls of each context
    args,       \* the args maps
    state,      \* ssl_state_map
    step,       \* how far the exit program of each context is
    rec,        \* the record it is producing
    ring,       \* events
    closes,     \* close_events
    stats,      \* producer_stats, summed over the CPUs
    read,       \* the records userspace consumed from events (history)
    closed,     \* the records userspace consumed from close_events (history)
    evictions,  \* elements dropped so far
    lapses      \* addresses whose state was dropped, whose object was freed
                \* unseen, or whose exit programs overlapped (history)

appVars == <<object, life, tried, stack>>
progVars == <<step, rec>>
userVars == <<read, closed>>
kernVars == <<evictions, lapses>>
vars == <<appVars, args, state, progVars, ring, closes, stats, userVars, kernVars>>

NoPtr == 0
NoKey == [tgid |-> "none", ptr |-> NoPtr]
NoState == [gen |-> 0, seq |-> <<>>]
ZeroState == [gen |-> 0, seq |-> [d \in Dirs |-> 0]]
NoRecord == [key |-> NoKey, of |-> NoKey, map |-> "none", slot |-> "none",
             dir |-> 0, gen |-> 0, seq |-> 0, life |-> 0, nth |-> 0]

(* The counters of producer_stats: attempted, submitted, reserve failure,  *)
(* copy failure, sampled out, map failure.                                 *)
Stats == 0..5

Direction(api) == IF api \in Writes THEN 1 ELSE 0

(* PR_Read and PR_Write share the args maps of SSL_read and SSL_write.     *)
ArgsMap(api) ==
    CASE api = "PR_Write" -> "SSL_write"
      [] api = "PR_Read"  -> "SSL_read"
      [] OTHER            -> api

(* The args maps there are; the ones of Go are keyed by goroutine.         *)
ArgsMaps == {ArgsMap(api) : api \in Apis}

(* tls_event_hdr, as far as the properties tell records apart: key, dir,   *)
(* gen and seq; the rest is the history of the call and its object.        *)
Record ==
    [key : Keys, of : Keys, map : ArgsMaps, slot : Contexts, dir : Dirs,
     gen : Nat, seq : Nat, life : Nat, nth : Nat]

(* A reserved record of the events ring.                                   *)
Slot == [by : Contexts, status : {"busy", "ready", "discarded"}, rec : Record]

(* close_event, with the object it is about.                               *)
Close == [key : Keys, gen : Nat, life : Nat, used : BOOLEAN]

(* The threads a context may run on. *)
Runs(c) ==
    IF c \in Threads THEN {c} ELSE {t \in Threads : ProcOf[t] = ProcOf[c]}

(* ssl_key_for: the object at ptr in the process of the caller *)
SslKey(c, ptr) == [tgid |-> ProcOf[c], ptr |-> ptr]

(* Mutant: Go calls are paired by thread as well. *)
CallKey_Thread(api, c, t) == t

(* pid_tgid, or (tgid, g) for a Go call *)
CallKey(api, c, t) == IF api \in GoTLS THEN c ELSE t

Init ==
    /\ object = [k \in Keys |-> {}]
    /\ life = [k \in Keys |-> 0]
    /\ tried = [k \in Keys |-> [d \in Dirs |-> 0]]
    /\ stack = [c \in Contexts |-> <<>>]
    /\ args = [m \in ArgsMaps |-> [c \in Contexts |-> NoPtr]]
    /\ state = [k \in Keys |-> NoState]
    /\ step = [c \in Contexts |-> "idle"]
    /\ rec = [c \in Contexts |-> NoRecord]
    /\ ring = <<>>
    /\ closes = <<>>
    /\ stats = [i \in Stats |-> 0]
    /\ read = <<>>
    /\ closed = {}
    /\ evictions = 0
    /\ lapses = {}

-----------------------------------------------------------------------------
(* The traced processes.                                                   *)

InCall(k) == {c \in Contexts : \E i \in DOMAIN stack[c] : stack[c][i].key = k}

(* An allocation puts an object of some library at a free address.  It is  *)
(* not probed.                                                             *)
Allocate(k, library) ==
    /\ object[k] = {}
    /\ library \cap Apis # {}
    /\ MapThenSumSet(LAMBDA x : life[x], Keys) < MaxLives
    /\ object' = [object EXCEPT ![k] = library]
    /\ life' = [life EXCEPT ![k] = @ + 1]
    /\ tried' = [tried EXCEPT ![k] = [d \in Dirs |-> 0]]
    /\ UNCHANGED <<stack, args, state, progVars, ring, closes, stats, userVars,
                   kernVars>>

(* The entry probes save the call's arguments, over whatever is there.     *)
(* Calls on one object may overlap: Go's Conn, NSS and kTLS lock inside    *)
(* the call and have unlocked when its return probe runs, and nothing      *)
(* holds the callers of the other libraries to one call at a time.  TLS    *)
(* runs inside TLS on another object only.                                 *)
Entry(c, t, api, k) ==
    /\ step[c] = "idle"
    /\ Len(stack[c]) < MaxDepth
    /\ api \in object[k] \cap Apis
    /\ (api \in GoTLS) <=> (c \in Goroutines)
    /\ ProcOf[c] = k.tgid
    /\ c \notin InCall(k)
    /\ stack' = [stack EXCEPT ![c] = Append(@, [api |-> api, key |-> k])]
    /\ args' = [args EXCEPT ![ArgsMap(api)][CallKey(api, c, t)] = k.ptr]
    /\ UNCHANGED <<object, life, tried, state, progVars, ring, closes, stats,
                   userVars, kernVars>>

-----------------------------------------------------------------------------
(* The exit probes.                                                        *)

Top(c) == stack[c][Len(stack[c])]
Return(c) == [stack EXCEPT ![c] = SubSeq(@, 1, Len(@) - 1)]
Count(i) == [stats EXCEPT ![i] = @ + 1]

(* Mutant: the exit probe leaves the arguments in the map. *)
Forget_Kept(m, key) == args

Forget(m, key) == [args EXCEPT ![m][key] = NoPtr]

(* No saved arguments: the probe returns.                                  *)
ExitUnpaired(c, t) ==
    /\ step[c] = "idle"
    /\ stack[c] # <<>>
    /\ args[ArgsMap(Top(c).api)][CallKey(Top(c).api, c, t)] = NoPtr
    /\ stack' = Return(c)
    /\ UNCHANGED <<object, life, tried, args, state, progVars, ring, closes,
                   stats, userVars, kernVars>>

(* The call returned no bytes (or none that can be read): nothing to emit. *)
ExitEmpty(c, t) ==
    LET m == ArgsMap(Top(c).api)
        key == CallKey(Top(c).api, c, t)
    IN
    /\ step[c] = "idle"
    /\ stack[c] # <<>>
    /\ args[m][key] # NoPtr
    /\ stack' = Return(c)
    /\ args' = Forget(m, key)
    /\ UNCHANGED <<object, life, tried, state, progVars, ring, closes, stats,
                   userVars, kernVars>>

(* An exit program is running for the object and direction.                *)
Racing(k, d) ==
    \E c \in Contexts : step[c] # "idle" /\ rec[c].key = k /\ rec[c].dir = d

(* emit_event begins: the attempt is counted and next_seq finds or makes   *)
(* the object's state and reads the generation and the sequence number.    *)
ExitEmit(c, t) ==
    LET api == Top(c).api
        m == ArgsMap(api)
        ptr == args[m][CallKey(api, c, t)]
        k == SslKey(c, ptr)
        d == Direction(api)
        st == IF state[k] = NoState THEN ZeroState ELSE state[k]
    IN
    /\ step[c] = "idle"
    /\ stack[c] # <<>>
    /\ ptr # NoPtr
    /\ stats[0] < MaxAttempts
    /\ stats' = Count(0)
    /\ state' = [state EXCEPT ![k] = st]
    /\ tried' = [tried EXCEPT ![Top(c).key][d] = @ + 1]
    /\ step' = [step EXCEPT ![c] = "counted"]
    /\ rec' = [rec EXCEPT ![c] =
                 [key |-> [tgid |-> ProcOf[c], ptr |-> ptr], of |-> Top(c).key,
                  map |-> m, slot |-> CallKey(api, c, t), dir |-> d, gen |-> st.gen,
                  seq |-> st.seq[d], life |-> life[Top(c).key],
                  nth |-> tried[Top(c).key][d]]]
    /\ lapses' = IF Racing(k, d) THEN lapses \cup {[key |-> k, why |-> "raced"]}
                 ELSE lapses
    /\ UNCHANGED <<object, life, stack, args, ring, closes, userVars,
                   evictions>>

(* ssl_state_map takes no new element: generation and sequence stay zero.  *)
ExitEmitMapFull(c, t) ==
    LET api == Top(c).api
        m == ArgsMap(api)
        ptr == args[m][CallKey(api, c, t)]
        k == SslKey(c, ptr)
        d == Direction(api)
    IN
    /\ step[c] = "idle"
    /\ stack[c] # <<>>
    /\ ptr # NoPtr
    /\ state[k] = NoState
    /\ evictions < MaxEvictions
    /\ stats[0] < MaxAttempts
    /\ stats' = [stats EXCEPT ![0] = @ + 1, ![5] = @ + 1]
    /\ tried' = [tried EXCEPT ![Top(c).key][d] = @ + 1]
    /\ step' = [step EXCEPT ![c] = "numbered"]
    /\ rec' = [rec EXCEPT ![c] =
                 [key |-> [tgid |-> ProcOf[c], ptr |-> ptr], of |-> Top(c).key,
                  map |-> m, slot |-> CallKey(api, c, t), dir |-> d, gen |-> 0,
                  seq |-> 0, life |-> life[Top(c).key],
                  nth |-> tried[Top(c).key][d]]]
    /\ evictions' = evictions + 1
    /\ lapses' = lapses \cup {[key |-> k, why |-> "dropped"]}
    /\ UNCHANGED <<object, life, stack, args, state, ring, closes, userVars>>

(* Mutant: the number is not stored. *)
Advance_None(c) == state

(* next_seq stores the number it read plus one, unless the element is gone. *)
Advance(c) ==
    LET k == SslKey(c, rec[c].key.ptr) IN
    IF state[k] = NoState THEN state
    ELSE [state EXCEPT ![k].seq[rec[c].dir] = rec[c].seq + 1]

(* The program ends: the exit probe deletes the arguments and returns.     *)
Finish(c) ==
    /\ step' = [step EXCEPT ![c] = "idle"]
    /\ rec' = [rec EXCEPT ![c] = NoRecord]
    /\ args' = Forget(rec[c].map, rec[c].slot)
    /\ stack' = Return(c)

Number(c) ==
    /\ step[c] = "counted"
    /\ state' = Advance(c)
    /\ step' = [step EXCEPT ![c] = "numbered"]
    /\ UNCHANGED <<appVars, args, rec, ring, closes, stats, userVars, kernVars>>

SampleOut(c) ==
    /\ Sampling
    /\ step[c] = "numbered"
    /\ stats' = Count(4)
    /\ Finish(c)
    /\ UNCHANGED <<object, life, tried, state, ring, closes, userVars, kernVars>>

(* Mutant: one slot more than the ring has. *)
HasRoom_OffByOne == Len(ring) <= RingSlots

HasRoom == Len(ring) < RingSlots

Reserve(c) ==
    /\ step[c] = "numbered"
    /\ HasRoom
    /\ ring' = Append(ring, [by |-> c, status |-> "busy", rec |-> rec[c]])
    /\ step' = [step EXCEPT ![c] = "reserved"]
    /\ UNCHANGED <<appVars, args, state, rec, closes, stats, userVars, kernVars>>

(* Mutant: a refused reservation is not counted. *)
Failed_Uncounted(why) == IF why = 2 THEN stats ELSE Count(why)

(* Mutant: a record is counted as submitted before its payload is copied. *)
Failed_Submitted(why) == IF why = 3 THEN Count(1) ELSE Count(why)

(* A record is lost: 2 for want of a slot or its header, 3 for want of the *)
(* payload.                                                                *)
Failed(why) == Count(why)

ReserveFail(c) ==
    /\ step[c] = "numbered"
    /\ ~HasRoom
    /\ stats' = Failed(2)
    /\ Finish(c)
    /\ UNCHANGED <<object, life, tried, state, ring, closes, userVars, kernVars>>

(* Mutant: an early return that forgets the reserved slot. *)
Release_Leak(c, status) ==
    [i \in DOMAIN ring |->
        IF ring[i].by = c /\ ring[i].status = "busy" /\ status = "ready"
        THEN [ring[i] EXCEPT !.status = status] ELSE ring[i]]

(* The slot a context reserved becomes readable or is skipped.             *)
Release(c, status) ==
    [i \in DOMAIN ring |->
        IF ring[i].by = c /\ ring[i].status = "busy"
        THEN [ring[i] EXCEPT !.status = status] ELSE ring[i]]

Submit(c) ==
    /\ step[c] = "reserved"
    /\ stats' = Count(1)
    /\ ring' = Release(c, "ready")
    /\ Finish(c)
    /\ UNCHANGED <<object, life, tried, state, closes, userVars, kernVars>>

(* No header in the slot (counted as 2), or the payload cannot be copied   *)
(* (counted as 3).                                                         *)
Discard(c, why) ==
    /\ step[c] = "reserved"
    /\ stats' = Failed(why)
    /\ ring' = Release(c, "discarded")
    /\ Finish(c)
    /\ UNCHANGED <<object, life, tried, state, closes, userVars, kernVars>>

-----------------------------------------------------------------------------
(* SSL_free, and the release of objects whose library has no such probe.   *)

(* Mutant: the generation is not bumped. *)
NextGeneration_Same(st) == [gen |-> st.gen, seq |-> [d \in Dirs |-> 0]]

NextGeneration(st) == [gen |-> st.gen + 1, seq |-> [d \in Dirs |-> 0]]

Free(c, ptr) ==
    LET k == SslKey(c, ptr)
        used == \E d \in Dirs : tried[k][d] > 0
        close == [key |-> k, gen |-> state[k].gen, life |-> life[k], used |-> used]
    IN
    /\ step[c] = "idle"
    /\ object[k] = OpenSSL
    /\ InCall(k) = {}
    /\ object' = [object EXCEPT ![k] = {}]
    /\ state' = IF state[k] = NoState THEN state
                ELSE [state EXCEPT ![k] = NextGeneration(@)]
    /\ closes' = IF Len(closes) < CloseSlots THEN Append(closes, close) ELSE closes
    /\ UNCHANGED <<life, tried, stack, args, progVars, ring, stats, userVars,
                   kernVars>>

FreeUnprobed(k) ==
    /\ object[k] \notin {{}, OpenSSL}
    /\ InCall(k) = {}
    /\ object' = [object EXCEPT ![k] = {}]
    /\ lapses' = lapses \cup {[key |-> k, why |-> "freed"]}
    /\ UNCHANGED <<life, tried, stack, args, state, progVars, ring, closes,
                   stats, userVars, evictions>>

-----------------------------------------------------------------------------
(* Userspace and the kernel's maps.                                        *)

(* ringbuf.poll takes records in the order of their reservation, waits at  *)
(* a busy one and skips a discarded one.                                   *)
Consume ==
    /\ ring # <<>>
    /\ Head(ring).status # "busy"
    /\ ring' = Tail(ring)
    /\ read' = IF Head(ring).status = "ready" THEN Append(read, Head(ring).rec)
               ELSE read
    /\ UNCHANGED <<appVars, args, state, progVars, closes, stats, closed,
                   kernVars>>

ConsumeClose ==
    /\ closes # <<>>
    /\ closes' = Tail(closes)
    /\ closed' = closed \cup {Head(closes)}
    /\ UNCHANGED <<appVars, args, state, progVars, ring, stats, read, kernVars>>

EvictState(k) ==
    /\ evictions < MaxEvictions
    /\ state[k] # NoState
    /\ state' = [state EXCEPT ![k] = NoState]
    /\ evictions' = evictions + 1
    /\ lapses' = lapses \cup {[key |-> k, why |-> "dropped"]}
    /\ UNCHANGED <<appVars, args, progVars, ring, closes, stats, userVars>>

EvictArgs(m, c) ==
    /\ evictions < MaxEvictions
    /\ args[m][c] # NoPtr
    /\ args' = [args EXCEPT ![m][c] = NoPtr]
    /\ evictions' = evictions + 1
    /\ UNCHANGED <<appVars, state, progVars, ring, closes, stats, userVars, lapses>>

Next ==
    \/ \E k \in Keys, l \in Libraries : Allocate(k, l)
    \/ \E c \in Contexts : \E t \in Runs(c) :
          \/ \E api \in Apis, k \in Keys : Entry(c, t, api, k)
          \/ ExitUnpaired(c, t)
          \/ ExitEmpty(c, t)
          \/ ExitEmit(c, t)
          \/ ExitEmitMapFull(c, t)
    \/ \E c \in Contexts :
          \/ Number(c)
          \/ SampleOut(c)
          \/ Reserve(c)
          \/ ReserveFail(c)
          \/ Submit(c)
          \/ \E why \in {2, 3} : Discard(c, why)
          \/ \E ptr \in Ptrs : Free(c, ptr)
          \/ \E m \in ArgsMaps : EvictArgs(m, c)
    \/ \E k \in Keys : FreeUnprobed(k) \/ EvictState(k)
    \/ Consume
    \/ ConsumeClose

Spec == Init /\ [][Next]_vars

-----------------------------------------------------------------------------
(* Properties.                                                             *)

(* Type invariant of the probe programs' maps, rings and counters. *)
TypeOK ==
    /\ object \in [Keys -> Libraries \cup {{}}]
    /\ life \in [Keys -> Nat]
    /\ tried \in [Keys -> [Dirs -> Nat]]
    /\ stack \in [Contexts -> Seq([api : Apis, key : Keys])]
    /\ args \in [ArgsMaps -> [Contexts -> Ptrs \cup {NoPtr}]]
    /\ state \in [Keys -> [gen : Nat, seq : [Dirs -> Nat]] \cup {NoState}]
    /\ step \in [Contexts -> {"idle", "counted", "numbered", "reserved"}]
    /\ rec \in [Contexts -> Record \cup {NoRecord}]
    /\ ring \in Seq(Slot)
    /\ Len(ring) <= RingSlots
    /\ closes \in Seq(Close)
    /\ stats \in [Stats -> Nat]
    /\ read \in Seq(Record)
    /\ closed \subseteq Close
    /\ evictions \in 0..MaxEvictions
    /\ lapses \subseteq [key : Keys, why : {"dropped", "freed", "raced"}]

Busy == {c \in Contexts : step[c] # "idle"}
Ready == {i \in DOMAIN ring : ring[i].status = "ready"}

(* producer_stats loses nothing: every attempted record was submitted, was *)
(* counted under one reason of loss, or is still in an exit program, and   *)
(* the records counted as submitted are the ones userspace reads or will   *)
(* read.                                                                   *)
LossIsCounted ==
    /\ stats[0] = stats[1] + stats[2] + stats[3] + stats[4] + Cardinality(Busy)
    /\ stats[1] = Len(read) + Cardinality(Ready)

(* A reserved slot of the events ring is busy exactly while one exit       *)
(* program holds it: a slot nobody submits or discards would stop          *)
(* ringbuf.poll for good.                                                  *)
SlotsAreHeld ==
    \A i \in DOMAIN ring : ring[i].status = "busy" =>
        /\ step[ring[i].by] = "reserved"
        /\ \A j \in DOMAIN ring :
              ring[j].status = "busy" /\ ring[j].by = ring[i].by => i = j

Seen == {read[i] : i \in DOMAIN read} \cup {ring[i].rec : i \in DOMAIN ring}

(* A record is about the object and direction of the call that returned,   *)
(* however calls nest, goroutines move and args maps drop elements: an     *)
(* exit probe never takes another call's arguments.                        *)
PairedCall == \A r \in Seen : r.key = r.of

Lapsed(k, whys) == \E why \in whys : [key |-> k, why |-> why] \in lapses

(* The number of the attempt is the sequence number, records of one        *)
(* generation and direction are read in that order, so a gap between two   *)
(* of them is exactly the records lost between them, sampled out ones      *)
(* included.  This holds of every library while ssl_state_map keeps the    *)
(* object's element and until two exit programs of the object run at once  *)
(* in one direction: next_seq reads and stores without a lock, so they may *)
(* take the same number, or submit in the other order.                     *)
GapsAreLoss ==
    \A i, j \in DOMAIN read :
        /\ i < j
        /\ read[i].key = read[j].key
        /\ read[i].gen = read[j].gen
        /\ read[i].dir = read[j].dir
        /\ ~Lapsed(read[i].key, {"dropped", "raced"})
        => /\ read[i].seq < read[j].seq
           /\ read[i].life = read[j].life =>
                 read[j].seq - read[i].seq = read[j].nth - read[i].nth

(* The generation names one object: records of two objects at the same     *)
(* address never carry the same generation, nor does the close of an       *)
(* object that was used carry the generation of another object's records,  *)
(* as long as ssl_state_map keeps the element and no object at the address *)
(* was freed by a library that has no free probe.                          *)
GenerationNamesObject ==
    /\ \A r, s \in Seen :
          r.key = s.key /\ r.gen = s.gen /\ ~Lapsed(r.key, {"dropped", "freed"})
          => r.life = s.life
    /\ \A r \in Seen, x \in closed :
          x.used /\ r.key = x.key /\ r.gen = x.gen /\ ~Lapsed(r.key, {"dropped", "freed"})
          => r.life = x.life

(* What ssl_free_entry's comment says of every close: one that is still    *)
(* waiting when userspace has read records of a later object at the        *)
(* address does not carry that object's generation.                        *)
LateCloseIsHarmless ==
    \A i \in DOMAIN closes, j \in DOMAIN read :
        closes[i].key = read[j].key /\ closes[i].gen = read[j].gen
        => read[j].life <= closes[i].life
=============================================================================
