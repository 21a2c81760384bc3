----------------------------- MODULE StreamState -----------------------------
(***************************************************************************)
(* One shard of the stream state, for one TLS object address: the HTTP/1   *)
(* path of userspace/src/stream.rs.  TLS chunks are reassembled per        *)
(* connection generation and direction, requests wait in a FIFO for their  *)
(* response, and state leaves by a close, by age, at shutdown or because a *)
(* limit is met.                                                           *)
(*                                                                         *)
(* StreamState is sequential code, so it is one record, st, and every      *)
(* handler an operator from states to states; the actions choose what      *)
(* arrives.  A message is its number on the connection, and reaches the    *)
(* sensor as one chunk, as a start and a tail split inside the header, or  *)
(* as a start and a tail split inside the body.  A chunk is made of its    *)
(* part, the number of its message and, for a response, its kind.  A chunk *)
(* and a queued request take one unit of memory each.                      *)
(***************************************************************************)
EXTENDS Integers, Sequences, FiniteSets, FiniteSetsExt, SequencesExt

CONSTANTS
    MaxGen,       \* bound: the last generation of the address
    MaxMsgs,      \* bound: requests per generation
    MaxTime,      \* bound: clock ticks
    TTL,          \* STREAM_TTL_MS, in ticks
    Throttle,     \* ticks between two evictions
    MaxTotal,     \* max_total_buffer_bytes, in units
    MaxBuffer,    \* max_buffer, in units
    MaxPending,   \* MAX_PENDING_PER_CONN
    MaxEntries,   \* MAX_STREAM_ENTRIES
    MaxReports,   \* MAX_INCOMPLETE_PER_SWEEP
    Parts,        \* how messages may be split over chunks
    Kinds,        \* responses sent besides final ones
    Hints,        \* whether a record may carry a role hint, may lack one
    Fates,        \* what may happen to a chunk before it is handled
    MaxFaults,    \* bound: chunks of a generation lost or truncated
    Pipelined,    \* whether clients send a request before the last is answered
    LateEvents    \* whether a close may be handled before chunks sent before it

ASSUME StreamAssumption ==
    /\ {MaxGen, MaxMsgs, MaxTime, TTL, Throttle, MaxTotal, MaxBuffer, MaxPending,
        MaxEntries, MaxReports, MaxFaults} \subseteq Nat
    /\ TTL > 0
    /\ Hints \cup {Pipelined, LateEvents} \subseteq BOOLEAN
    /\ Parts \subseteq {"whole", "head", "body"}
    /\ Kinds \subseteq {"interim", "upgrade"}
    /\ Fates \subseteq {"captured", "truncated", "lost"}

VARIABLES
    st,       \* the StreamState
    now,      \* the wall clock
    gen,      \* generation of the object the process uses
    sent,     \* what the peers have sent on each generation (environment)
    closes,   \* close records not handled yet
    closed,   \* generations whose close was handled (history)
    running   \* whether the main loop runs

vars == <<st, now, gen, sent, closes, closed, running>>

Gens == 0..MaxGen
Times == 0..MaxTime
Msgs == 1..MaxMsgs
Dirs == {"request", "response"}
Conns == [gen : Gens, born : Times]           \* ConnKey
Streams == [gen : Gens, dir : Dirs]           \* StreamKey

Unborn == -1
NoMsg == [msg |-> 0, torn |-> FALSE]
NoBuffer == [msg |-> 0, torn |-> FALSE, len |-> -1, seen |-> 0]

Init ==
    /\ st = [buffers  |-> [s \in Streams |-> NoBuffer],
             decoders |-> [s \in Streams |-> NoMsg],
             pending  |-> [c \in Conns |-> <<>>],
             known    |-> {},
             born     |-> [g \in Gens |-> Unborn],
             roles    |-> {},
             ws       |-> {},
             gapped   |-> {},
             last     |-> 0,
             total    |-> 0,      \* TOTAL_BUFFER_BYTES
             active   |-> 0,      \* ACTIVE_CONNECTIONS
             parsed   |-> 0,      \* requests handed to PendingQueue::push (history)
             refused  |-> 0,      \* requests in EVENTS_DROPPED
             out      |-> <<>>,   \* events returned to the caller (history)
             gone     |-> {}]     \* what was given up, by generation (history)
    /\ now = 0
    /\ gen = 0
    /\ sent = [g \in Gens |-> [reqs |-> 0, resps |-> 0, open |-> {}, ws |-> FALSE,
                           hurt |-> {}, faults |-> 0]]
    /\ closes = {}
    /\ closed = {}
    /\ running = TRUE

-----------------------------------------------------------------------------
(* evict_stale, evict_connection_by_ptr and take_all_incomplete.           *)

Reset(f, keys, v) == [k \in DOMAIN f |-> IF k \in keys THEN v ELSE f[k]]

(* The message a stream is in the middle of.                               *)
Current(s, x) ==
    IF s.decoders[x] # NoMsg THEN s.decoders[x]
    ELSE [msg |-> s.buffers[x].msg, torn |-> s.buffers[x].torn]

Sizes(s) == [x \in Streams |-> IF s.buffers[x] = NoBuffer THEN 0 ELSE s.buffers[x].len]

Held(s, streams) == SumFunctionOnSet(Sizes(s), streams)

(* Requests that leave without a response, in events or, beyond the limit, *)
(* in EVENTS_DROPPED.                                                      *)
Incomplete(s, reqs, outcome) ==
    LET n == IF Len(reqs) < MaxReports THEN Len(reqs) ELSE MaxReports IN
    [s EXCEPT !.out = @ \o [i \in 1..n |-> [gen |-> reqs[i].gen, req |-> reqs[i].msg,
                                            torn |-> reqs[i].torn, resp |-> 0,
                                            outcome |-> outcome]],
              !.gone = @ \cup {[gen |-> reqs[i].gen, what |-> "unanswered"] :
                                 i \in DOMAIN reqs},
              !.refused = @ + Len(reqs) - n,
              !.total = @ - Len(reqs)]

(* The queues of some connections, one after the other.                    *)
Queued(s, conns) ==
    FoldSet(LAMBDA c, acc : acc \o s.pending[c], <<>>, conns)

(* The requests at the head of a queue that are TTL old.                   *)
Expired(q, t) ==
    LET fresh == {i \in DOMAIN q : t - q[i].ts < TTL} IN
    IF fresh = {} THEN Len(q) ELSE Min(fresh) - 1

(* Mutant: the buffers stay charged. *)
DropBuffers_Charged(s, streams) ==
    [s EXCEPT !.buffers = Reset(@, streams, NoBuffer)]

DropBuffers(s, streams) ==
    [s EXCEPT !.buffers = Reset(@, streams, NoBuffer),
              !.total = @ - Held(s, streams),
              !.gone = @ \cup {[gen |-> x.gen, what |-> "partial"] :
                               x \in {x \in streams : Current(s, x) # NoMsg}}]

(* Mutant: a buffer is dropped once the sweep is past its age. *)
IdleBuffers_Late(s, t) == {x \in Streams : t - s.buffers[x].seen > TTL}

IdleBuffers(s, t) == {x \in Streams : t - s.buffers[x].seen >= TTL}

(* Mutant: the gauge keeps the forgotten connections. *)
Forget_Counted(s, conns) ==
    [s EXCEPT !.known = @ \ conns, !.ws = @ \ conns, !.roles = @ \ conns]

Forget(s, conns) ==
    [s EXCEPT !.known = @ \ conns,
              !.active = @ - Cardinality(s.known \cap conns),
              !.ws = @ \ conns,
              !.roles = @ \ conns]

(* A connection stays known while a request waits or it is a WebSocket.    *)
ForgetQuiet(s) ==
    LET quiet == {c \in s.known : s.pending[c] = <<>> /\ c \notin s.ws} IN
    [Forget(s, quiet) EXCEPT
       !.born = Reset(@, {c.gen : c \in quiet}, Unborn),
       !.decoders = Reset(@, {x \in Streams : s.buffers[x] = NoBuffer}, NoMsg),
       !.gone = @ \cup {[gen |-> c.gen, what |-> "forgotten"] : c \in quiet}]

(* Above MAX_STREAM_ENTRIES: the buffers seen longest ago are dropped, in  *)
(* any order among equals, and every gap mark is.                          *)
Excess(s) ==
    LET kept == {x \in Streams : s.buffers[x] # NoBuffer}
        n == Cardinality(kept)
    IN {d \in SUBSET kept :
          /\ Cardinality(d) = IF n > MaxEntries THEN n - MaxEntries ELSE 0
          /\ \A x \in d, y \in kept \ d : s.buffers[x].seen <= s.buffers[y].seen}

ClearGaps(s) == [s EXCEPT !.gapped = IF Cardinality(@) > MaxEntries THEN {} ELSE @]

EvictStale(s, t) ==
    IF t - s.last < Throttle THEN {s}
    ELSE LET old == [c \in Conns |-> SubSeq(s.pending[c], 1, Expired(s.pending[c], t))]
             kept == [s EXCEPT !.last = t,
                        !.pending = [c \in Conns |->
                           SubSeq(@[c], Len(old[c]) + 1, Len(@[c]))]]
             reqs == FoldSet(LAMBDA c, acc : acc \o old[c], <<>>, Conns)
             left == Incomplete(DropBuffers(kept, IdleBuffers(kept, t)), reqs,
                                "no_response_observed")
         IN {ForgetQuiet(ClearGaps(DropBuffers(left, d))) : d \in Excess(left)}

(* Mutant: the queued requests disappear with their connection. *)
Evict_Silent(s, conns, outcome) ==
    [s EXCEPT !.total = @ - Len(Queued(s, conns)),
              !.pending = Reset(@, conns, <<>>)]

(* PendingQueue::take_all on some connections                              *)
Evict(s, conns, outcome) ==
    [Incomplete(s, Queued(s, conns), outcome) EXCEPT
       !.pending = Reset(@, conns, <<>>)]

(* evict_connection_by_ptr: everything kept for one generation             *)
EvictConnection(s, g) ==
    LET conns == {c \in Conns : c.gen = g}
        streams == {x \in Streams : x.gen = g}
    IN [DropBuffers(Forget(Evict(s, conns, "connection_closed"), conns), streams) EXCEPT
          !.gapped = @ \ streams,
          !.decoders = Reset(@, streams, NoMsg),
          !.born[g] = Unborn]

(* take_all_incomplete, at shutdown                                        *)
TakeAll(s) == Evict(s, Conns, "sensor_shutdown")

-----------------------------------------------------------------------------
(* handle_event.                                                           *)

Starts(c) == c.part \in {"whole", "head", "body"}   \* starts_http1_message

(* Mutant: a full queue drops its oldest request instead of the new one. *)
Push_Replace(s, conn, req) ==
    IF s.pending[conn] # <<>>
    THEN [s EXCEPT !.parsed = @ + 1, !.refused = @ + 1,
                   !.pending[conn] = Append(Tail(@), req)]
    ELSE IF s.total + 1 > MaxTotal
    THEN [s EXCEPT !.parsed = @ + 1, !.refused = @ + 1,
                   !.gone = @ \cup {[gen |-> conn.gen, what |-> "request"]}]
    ELSE [s EXCEPT !.parsed = @ + 1, !.total = @ + 1,
                   !.pending[conn] = Append(@, req)]

(* PendingQueue::push *)
Push(s, conn, req) ==
    IF Len(s.pending[conn]) >= MaxPending \/ s.total + 1 > MaxTotal
    THEN [s EXCEPT !.parsed = @ + 1, !.refused = @ + 1,
                   !.gone = @ \cup {[gen |-> conn.gen, what |-> "request"]}]
    ELSE [s EXCEPT !.parsed = @ + 1, !.total = @ + 1,
                   !.pending[conn] = Append(@, req)]

(* A response takes the oldest request (PendingQueue::pop_usable); without *)
(* one it is only counted.                                                 *)
Pair(s, conn, resp) ==
    LET q == s.pending[conn] IN
    IF q = <<>> THEN s
    ELSE [s EXCEPT !.pending[conn] = Tail(q),
                   !.total = @ - 1,
                   !.out = Append(@, [gen |-> conn.gen, req |-> Head(q).msg,
                                      torn |-> Head(q).torn \/ resp.torn,
                                      resp |-> resp.msg, outcome |-> "paired"])]

(* What becomes of a decoded message.                                      *)
Deliver(s, conn, dir, kind, m, t) ==
    IF dir = "request"
    THEN Push(s, conn, [gen |-> conn.gen, msg |-> m.msg, torn |-> m.torn, ts |-> t])
    ELSE CASE kind = "interim" -> s
           [] kind = "upgrade" -> Pair([s EXCEPT !.ws = @ \cup {conn}], conn, m)
           [] OTHER -> Pair(s, conn, m)

(* The bytes of the stream are given up and it is marked gapped.           *)
Gap(s, x, buffer) ==
    [s EXCEPT !.total = @ - Held(s, {x}),
              !.buffers[x] = buffer,
              !.decoders[x] = NoMsg,
              !.gapped = @ \cup {x}]

Empty(t) == [msg |-> 0, torn |-> FALSE, len |-> 0, seen |-> t]

(* Http1Decoder::feed on the buffered bytes and the chunk.  A chunk that   *)
(* continues the stream has one outcome.  One that does not (bytes between *)
(* were never handed to the decoder) is joined to what is there, and its   *)
(* bytes decide whether that is invalid, still incomplete or, if what is   *)
(* there began with a start line, a message.                               *)
Feed(s, conn, x, c, t) ==
    LET cur == Current(s, x)
        inBody == s.decoders[x] # NoMsg
        joined == [msg |-> cur.msg, torn |-> TRUE]
        drained == [s EXCEPT !.total = @ - s.buffers[x].len,
                             !.buffers[x] = Empty(t)]
        message(m) == Deliver([drained EXCEPT !.decoders[x] = NoMsg],
                              conn, x.dir, c.kind, m, t)
        body(m) == [drained EXCEPT !.decoders[x] = m]
        head(m) == [s EXCEPT !.buffers[x].msg = m.msg, !.buffers[x].torn = m.torn]
        clean == [msg |-> c.msg, torn |-> FALSE]
        continues == CASE c.part = "tail"  -> cur = clean
                       [] c.part = "frame" -> FALSE
                       [] OTHER            -> cur = NoMsg
    IN IF continues
       THEN {CASE c.part = "head" -> head(clean)
               [] c.part = "body" -> body(clean)
               [] OTHER -> message(clean)}
       ELSE {Gap(s, x, Empty(t)), IF inBody THEN body(joined) ELSE head(joined)}
            \cup (IF cur.msg = 0 THEN {} ELSE {message(joined)})

(* A chunk is dropped; x remembers why (history).                          *)
Lose(s, x, why) == [s EXCEPT !.gone = @ \cup {[gen |-> x.gen, what |-> why]}]

(* The HTTP/1 tail of handle_event: reserve, append, decode.               *)
Buffer(s, conn, x, c, t) ==
    LET e == IF s.buffers[x] = NoBuffer THEN Empty(t)
             ELSE [s.buffers[x] EXCEPT !.seen = t]
        grown == [s EXCEPT !.buffers[x] = [e EXCEPT !.len = @ + 1],
                           !.total = @ + 1]
    IN IF s.total + 1 > MaxTotal THEN {Lose([s EXCEPT !.buffers[x] = e], x, "chunk")}
       ELSE IF e.len + 1 > MaxBuffer THEN {Lose(Gap(grown, x, Empty(t)), x, "buffer")}
       ELSE Feed(grown, conn, x, c, t)

(* Mutant: the stream is marked and what it was in the middle of is kept. *)
Truncate_Kept(s, x) == [s EXCEPT !.gapped = @ \cup {x}]

(* A truncated chunk: nothing is joined across it.                         *)
Truncate(s, x) == Gap(s, x, NoBuffer)

HandleEvent(s, g, dir, c, truncated, hint, t) ==
    LET born == IF s.born[g] = Unborn THEN t ELSE s.born[g]
        conn == [gen |-> g, born |-> born]
        x == [gen |-> g, dir |-> dir]
        handle(swept) ==
            LET met == [swept EXCEPT
                          !.known = @ \cup {conn},
                          !.active = @ + (IF conn \in swept.known THEN 0 ELSE 1)]
                role == conn \in met.roles \/ Starts(c) \/ hint
                placed == [met EXCEPT !.roles = @ \cup {conn}]
                cut == IF truncated THEN Truncate(placed, x) ELSE placed
            IN IF ~role THEN {Lose(met, x, "ambiguous")}   \* ROLE_AMBIGUOUS
               ELSE IF conn \in cut.ws THEN {cut}
               ELSE IF x \in cut.gapped /\ (~Starts(c) \/ truncated) THEN {cut}
               ELSE Buffer([cut EXCEPT !.gapped = @ \ {x}], conn, x, c, t)
    IN UNION {handle(swept) : swept \in EvictStale([s EXCEPT !.born[g] = born], t)}

-----------------------------------------------------------------------------
(* The peers, the capture and the sensor's main loop.                      *)

(* What may be sent next on a generation: the rest of a message, or a new  *)
(* one.  A response follows its request; the last one may upgrade to a     *)
(* WebSocket, which carries frames.                                        *)
NextChunk(g, dir) ==
    LET p == sent[g]
        n == IF dir = "request" THEN p.reqs ELSE p.resps
        fresh == IF dir = "request"
                 THEN /\ p.reqs < MaxMsgs
                      /\ Pipelined \/ (p.resps = p.reqs /\ "response" \notin p.open)
                 ELSE p.resps < p.reqs
        last == p.reqs = p.resps + 1 /\ "request" \notin p.open
        final(part, m) == [part |-> part, kind |-> "final", msg |-> m]
    IN IF p.ws THEN {final("frame", 0)}
       ELSE IF dir \in p.open THEN {final("tail", n + 1)}
       ELSE IF ~fresh THEN {}
       ELSE {final(part, n + 1) : part \in Parts}
            \cup {[part |-> "whole", kind |-> k, msg |-> n + 1] :
                    k \in {k \in Kinds : dir = "response" /\ (k = "upgrade" => last)}}

Progress(p, dir, c, fate) ==
    LET done == c.part \in {"whole", "tail"} /\ c.kind # "interim" IN
    [reqs  |-> IF dir = "request" /\ done THEN p.reqs + 1 ELSE p.reqs,
     resps |-> IF dir = "response" /\ done THEN p.resps + 1 ELSE p.resps,
     open  |-> IF c.part \in {"head", "body"} THEN p.open \cup {dir}
               ELSE p.open \ {dir},
     ws    |-> p.ws \/ c.kind = "upgrade",
     hurt  |-> p.hurt \cup ({fate} \ {"captured"})
               \cup (IF dir = "request" /\ p.resps < p.reqs THEN {"pipelined"} ELSE {}),
     faults |-> IF fate = "captured" THEN p.faults ELSE p.faults + 1]

(* A chunk passes the TLS library.  It is handled, handled with its tail   *)
(* missing, or lost before it reaches userspace.                           *)
Receive(g, dir, fate) ==
    /\ running
    /\ fate # "captured" => sent[g].faults < MaxFaults
    /\ g = gen \/ (LateEvents /\ g \in closed)
    /\ \E c \in NextChunk(g, dir) :
        /\ sent' = [sent EXCEPT ![g] = Progress(@, dir, c, fate)]
        /\ IF fate = "lost" THEN st' = st
           ELSE \E hint \in Hints :
                  st' \in HandleEvent(st, g, dir, c, fate = "truncated", hint, now)
    /\ UNCHANGED <<now, gen, closes, closed, running>>

(* The process frees the object; the next one at the address, if there is  *)
(* one, has the next generation.                                           *)
Reuse ==
    /\ running
    /\ gen <= MaxGen
    /\ gen' = gen + 1
    /\ closes' = closes \cup {gen}
    /\ UNCHANGED <<st, now, sent, closed, running>>

(* The close record of a generation is read, whenever that is.             *)
HandleClose(g) ==
    /\ running
    /\ g \in closes
    /\ closes' = closes \ {g}
    /\ closed' = closed \cup {g}
    /\ st' = EvictConnection(st, g)
    /\ UNCHANGED <<now, gen, sent, running>>

(* The sweep of the main loop, which needs no traffic.                     *)
Sweep ==
    /\ running
    /\ now - st.last >= Throttle
    /\ st' \in EvictStale(st, now)
    /\ UNCHANGED <<now, gen, sent, closes, closed, running>>

Shutdown ==
    /\ running
    /\ running' = FALSE
    /\ st' = TakeAll(st)
    /\ UNCHANGED <<now, gen, sent, closes, closed>>

Tick ==
    /\ running
    /\ now < MaxTime
    /\ now' = now + 1
    /\ UNCHANGED <<st, gen, sent, closes, closed, running>>

Next ==
    \/ \E g \in Gens, dir \in Dirs, fate \in Fates : Receive(g, dir, fate)
    \/ Reuse
    \/ \E g \in Gens : HandleClose(g)
    \/ Sweep
    \/ Shutdown
    \/ Tick

Spec == Init /\ [][Next]_vars

-----------------------------------------------------------------------------
(* Properties.                                                             *)

Waiting == Len(Queued(st, Conns))

(* handle_event, evict_stale, evict_connection_by_ptr: on every path that  *)
(* drops a buffer, a request or a connection, TOTAL_BUFFER_BYTES is what   *)
(* buffers and queued requests hold, within its ceiling (a byte never      *)
(* given back would lower it until nothing is captured), and               *)
(* ACTIVE_CONNECTIONS counts the known connections.                        *)
GaugesExact ==
    /\ st.total = Held(st, Streams) + Waiting
    /\ st.total <= MaxTotal
    /\ st.active = Cardinality(st.known)

(* Every request that was parsed waits, left in exactly one event, or is   *)
(* counted as dropped: no close, expiry or shutdown loses one silently.    *)
RequestsAccounted == st.parsed = Waiting + Len(st.out) + st.refused

(* What happened to a generation, in the peers and in the sensor.          *)
Troubles(g) == sent[g].hurt \cup {l.what : l \in {l \in st.gone : l.gen = g}}

(* handle_event, the pairing on the wire: an event pairs a request with    *)
(* the response that answers it when no chunk of the connection was lost,  *)
(* truncated or dropped and no message was given up half read, over close, *)
(* late chunks, expiry and shutdown; if requests are pipelined, only as    *)
(* long as no request was given up and the connection was not forgotten.   *)
CleanPairs ==
    \A i \in DOMAIN st.out :
        /\ st.out[i].outcome = "paired"
        /\ \/ Troubles(st.out[i].gen) \subseteq {"unanswered", "forgotten"}
           \/ Troubles(st.out[i].gen) = {"pipelined"}
        => st.out[i].req = st.out[i].resp

(* handle_event, on a truncated chunk and on a full buffer: no message is  *)
(* put together across the bytes that are missing.  (Across a chunk that   *)
(* was lost, was refused at the memory ceiling or came when the role was   *)
(* not known, one may be.)                                                 *)
NeverJoined ==
    LET sound(g) == Troubles(g) \cap {"lost", "chunk", "ambiguous"} = {} IN
    /\ \A i \in DOMAIN st.out : sound(st.out[i].gen) => ~st.out[i].torn
    /\ \A c \in Conns : sound(c.gen) =>
          \A i \in DOMAIN st.pending[c] : ~st.pending[c][i].torn

(* evict_stale, and the sweep of the main loop: whether or not the close   *)
(* of a connection is ever read, no buffer and no request outlives a sweep *)
(* that finds it idle for STREAM_TTL_MS.                                   *)
SweptIsFresh ==
    /\ \A x \in Streams : st.buffers[x] # NoBuffer => st.last - st.buffers[x].seen < TTL
    /\ \A c \in Conns : \A i \in DOMAIN st.pending[c] :
          st.last - st.pending[c][i].ts < TTL

(* A request reported as one whose response was not observed is not one    *)
(* whose whole response the sensor was given before.                       *)
NoFalseSilence ==
    [][\A i \in DOMAIN st'.out \ DOMAIN st.out :
          LET e == st'.out[i] IN
          e.outcome = "no_response_observed" /\ sent[e.gen].hurt = {}
          => e.req > sent[e.gen].resps]_vars
=============================================================================
