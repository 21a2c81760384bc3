------------------------------ MODULE Http2Conn ------------------------------
(***************************************************************************)
(* The HTTP/2 path of userspace/src/stream.rs for one TLS connection, with *)
(* the frame parser of userspace/src/http2.rs: the connection preface that *)
(* may be split, server frames that arrive before it, one parser per       *)
(* direction, requests and responses kept by stream id, and their ways     *)
(* out: END_STREAM, reset, GOAWAY, expiry, close, truncation and shutdown. *)
(*                                                                         *)
(* A chunk holds one frame or a piece of one, and takes one unit of        *)
(* memory, as do a request, a response, a piece of a body and the          *)
(* trailers.  A request chunk may be handled after the peer has answered   *)
(* it, since the exit probe of the call runs late.  (A response handled    *)
(* late is one sent late.)                                                 *)
(* The role is configured, so the request direction is always known.       *)
(***************************************************************************)
EXTENDS Integers, Sequences, FiniteSets, FiniteSetsExt

CONSTANTS
    Streams,      \* stream ids
    MaxPending,   \* MAX_H2_PENDING_STREAMS
    MaxTotal,     \* max_total_buffer_bytes, in units
    MaxBody,      \* MAX_BODY_CAPTURE_BYTES, in units
    MaxEarly,     \* MAX_H2_EARLY_BYTES, in units
    MaxFrame,     \* the longest frame a direction waits for, in units
    MaxReports,   \* MAX_INCOMPLETE_PER_SWEEP
    TTL,          \* STREAM_TTL_MS, in ticks
    Throttle,     \* ticks between two evictions
    MaxTime,      \* bound: clock ticks
    MaxWire,      \* bound: request chunks not handled yet
    MaxChunks,    \* bound: chunks the peers send
    FaultCost,    \* bound: what a lost or truncated chunk takes off MaxChunks
    Pieces,       \* how chunks may be split
    Extras,       \* frames the peers send besides HEADERS
    Fates         \* what may happen to a chunk before it is handled

ASSUME Http2Assumption ==
    /\ Streams \subseteq Nat \ {0} /\ IsFiniteSet(Streams)
    /\ {MaxPending, MaxTotal, MaxBody, MaxEarly, MaxFrame, MaxReports, TTL,
        Throttle, MaxTime, MaxWire, MaxChunks, FaultCost} \subseteq Nat
    /\ Pieces \subseteq {"req_frame", "req_block", "resp_frame", "resp_block",
                         "magic", "token", "settings"}
    /\ Extras \subseteq {"data", "trailers", "interim", "promise", "reset",
                         "goaway", "settings"}
    /\ Fates \subseteq {"captured", "truncated", "lost", "oversized", "undecoded"}

VARIABLES
    st,       \* the HTTP/2 part of StreamState
    now,      \* the wall clock
    running,  \* whether the main loop runs
    wire,     \* request chunks whose probe has not run yet
    rest,     \* the piece a direction must send next (environment)
    sent,     \* what the peers have sent on each stream (environment)
    opened,   \* the client has begun to send the preface (environment)
    budget,   \* chunks the peers may still send (bound)
    late      \* streams answered before their request was handled (history)

envVars == <<wire, rest, sent, opened, budget>>
vars == <<st, now, running, envVars, late>>

Times == 0..MaxTime
Dirs == {"req", "resp"}
Slots == Times \X Streams      \* a stream of a connection, by birth and id
Unborn == -1

NoReq == [ts |-> -1, body |-> 0]
NoResp == [body |-> -1, trailers |-> 0]
NoBlock == [sid |-> 0, kind |-> "none", end |-> FALSE]
NoItem == [what |-> "none", sid |-> 0, kind |-> "none", end |-> FALSE]
NoRest == [d \in Dirs |-> NoItem]
NoEarly == [len |-> -1, seen |-> 0, part |-> FALSE]

(* Http2Direction::new *)
NewDir(expects) == [expects |-> expects, buf |-> 0, open |-> NoBlock, broken |-> FALSE]

(* Http2Conn::default *)
NewConn == [dirs |-> [d \in Dirs |-> NewDir(d = "req")],
            pending |-> [i \in Streams |-> NoReq],
            responses |-> [i \in Streams |-> NoResp],
            last |-> 0, buffered |-> 0]
NoConn == [NewConn EXCEPT !.last = -1]

Init ==
    /\ st = [conns   |-> [k \in Times |-> NoConn],    \* http2_state, by birth
             early   |-> [k \in Times |-> NoEarly],   \* h2_early_resp
             prefix  |-> {},                          \* h2_prefix
             known   |-> {},
             born    |-> Unborn,
             last    |-> 0,
             total   |-> 0,
             missing |-> {},      \* directions whose parser missed a frame (history)
             short   |-> FALSE,   \* the memory ceiling was met (history)
             parsed  |-> 0,       \* requests handed to PendingStreams (history)
             refused |-> 0,       \* requests in EVENTS_DROPPED
             cancelled |-> 0,     \* requests reset or beyond a GOAWAY (history)
             silent  |-> 0,       \* requests gone with their connection (history)
             out     |-> {}]      \* events returned to the caller (history)
    /\ now = 0
    /\ running = TRUE
    /\ wire = <<>>
    /\ rest = NoRest
    /\ sent = [i \in Streams |-> [req |-> "none", resp |-> "none", data |-> 0,
                                  trailers |-> FALSE]]
    /\ opened = FALSE
    /\ budget = MaxChunks
    /\ late = {}

-----------------------------------------------------------------------------
(* What a connection holds.                                                *)

ReqSize(r) == IF r = NoReq THEN 0 ELSE 1 + r.body
RespSize(r) == IF r = NoResp THEN 0 ELSE 1 + r.body + r.trailers
Waiting(conn) == {i \in Streams : conn.pending[i] # NoReq}
Answering(conn) == {i \in Streams : conn.responses[i] # NoResp}

(* Mutant: the open header block is not counted. *)
Buffered_TrailingOnly(d) == d.buf

(* Http2Direction::buffered *)
Buffered(d) == d.buf + (IF d.open = NoBlock THEN 0 ELSE 1)

EarlySize(e) == IF e = NoEarly THEN 0 ELSE e.len

(* What is charged for each stream, each connection's parsers and the      *)
(* bytes held for it.                                                      *)
ReqSizes(s) == [p \in Slots |-> ReqSize(s.conns[p[1]].pending[p[2]])]
Sizes(s) == [p \in Slots |-> ReqSize(s.conns[p[1]].pending[p[2]])
                             + RespSize(s.conns[p[1]].responses[p[2]])]
Parsing(s) == [k \in Times |-> s.conns[k].buffered]
Earlies(s) == [k \in Times |-> EarlySize(s.early[k])]

Reset(f, keys, v) == [k \in DOMAIN f |-> IF k \in keys THEN v ELSE f[k]]

-----------------------------------------------------------------------------
(* PendingStreams and InflightResponses, on connection k of state s.       *)

(* Connection k, or one of its streams, gets another value.                *)
SetConn(s, k, conn) == [s EXCEPT !.conns = [s.conns EXCEPT ![k] = conn]]
SetReq(s, k, id, r) ==
    LET conn == s.conns[k] IN
    SetConn(s, k, [conn EXCEPT !.pending = [conn.pending EXCEPT ![id] = r]])
SetResp(s, k, id, r) ==
    LET conn == s.conns[k] IN
    SetConn(s, k, [conn EXCEPT !.responses = [conn.responses EXCEPT ![id] = r]])

(* InflightResponses::take, with the PendingStreams::remove that goes with *)
(* it.                                                                     *)
Take(s, k, ids) ==
    LET conn == s.conns[k] IN
    [SetConn(s, k, [conn EXCEPT !.pending = Reset(conn.pending, ids, NoReq),
                                !.responses = Reset(conn.responses, ids, NoResp)])
       EXCEPT !.total = @ - SumFunctionOnSet(Sizes(s), {k} \X ids)]

(* PendingBytes::add refuses a piece.                                      *)
Full(s, n) == s.total + n > MaxTotal

Refuse(s) == [s EXCEPT !.short = TRUE]

(* The request that PendingStreams::insert replaces on its stream goes.    *)
Replaced(s, k, id) ==
    LET old == s.conns[k].pending[id] IN
    [SetReq(s, k, id, NoReq) EXCEPT
       !.total = @ - ReqSize(old),
       !.parsed = @ + 1,
       !.silent = @ + (IF old = NoReq THEN 0 ELSE 1)]

(* PendingStreams::insert *)
Insert(s, k, id, t) ==
    LET s1 == Replaced(s, k, id) IN
    IF Cardinality(Waiting(s1.conns[k])) >= MaxPending \/ Full(s1, 1)
    THEN [Refuse(s1) EXCEPT !.refused = @ + 1]
    ELSE [SetReq(s1, k, id, [ts |-> t, body |-> 0]) EXCEPT !.total = @ + 1]

(* PendingStreams::append_body *)
AppendBody(s, k, id) ==
    LET r == s.conns[k].pending[id] IN
    IF r = NoReq \/ r.body >= MaxBody THEN s
    ELSE IF Full(s, 1) THEN Refuse(s)
    ELSE [SetReq(s, k, id, [r EXCEPT !.body = @ + 1]) EXCEPT !.total = @ + 1]

(* InflightResponses::start *)
Start(s, k, id) ==
    LET old == s.conns[k].responses[id]
        s1 == [SetResp(s, k, id, NoResp) EXCEPT !.total = @ - RespSize(old)]
    IN IF Cardinality(Answering(s1.conns[k])) >= MaxPending \/ Full(s1, 1)
       THEN Refuse(s1)
       ELSE [SetResp(s1, k, id, [body |-> 0, trailers |-> 0]) EXCEPT !.total = @ + 1]

(* InflightResponses::append *)
AppendData(s, k, id) ==
    LET r == s.conns[k].responses[id] IN
    IF r.body >= MaxBody THEN s
    ELSE IF Full(s, 1) THEN Refuse(s)
    ELSE [SetResp(s, k, id, [r EXCEPT !.body = @ + 1]) EXCEPT !.total = @ + 1]

(* InflightResponses::merge_trailers, charged each time                    *)
MergeTrailers(s, k, id) ==
    LET r == s.conns[k].responses[id] IN
    IF Full(s, 1) THEN Refuse(s)
    ELSE [SetResp(s, k, id, [r EXCEPT !.trailers = @ + 1]) EXCEPT !.total = @ + 1]

Event(n, id, outcome, resp) ==
    [nth |-> n, sid |-> id, outcome |-> outcome, body |-> resp.body,
     trailers |-> resp.trailers]

(* Mutant: the request stays queued. *)
Finish_Peek(s, k, id) ==
    LET resp == s.conns[k].responses[id] IN
    IF resp = NoResp \/ s.conns[k].pending[id] = NoReq THEN s
    ELSE [SetResp(s, k, id, NoResp) EXCEPT
                   !.total = @ - RespSize(resp),
                   !.out = @ \cup {Event(Cardinality(@), id, "paired", resp)}]

(* finish_h2_response *)
Finish(s, k, id) ==
    LET resp == s.conns[k].responses[id]
        taken == Take(s, k, {id})
    IN IF resp = NoResp THEN s
       ELSE IF s.conns[k].pending[id] = NoReq THEN taken
       ELSE [taken EXCEPT !.out = @ \cup {Event(Cardinality(@), id, "paired", resp)}]

(* Mutant: a full body preview ends the stream. *)
Complete_FullBody(s, k, item) ==
    item.end \/ (item.what = "data" /\ s.conns[k].responses[item.sid].body >= MaxBody)

(* Completion is END_STREAM only.                                          *)
Complete(s, k, item) == item.end

Answer(s, k, item) == IF Complete(s, k, item) THEN Finish(s, k, item.sid) ELSE s

(* Mutant: a reset forgets only the response. *)
Cancel_ResponseOnly(s, k, ids) ==
    LET conn == s.conns[k] IN
    [SetConn(s, k, [conn EXCEPT !.responses = Reset(conn.responses, ids, NoResp)])
       EXCEPT !.total = @ - MapThenSumSet(LAMBDA i : RespSize(conn.responses[i]), ids)]

(* RST_STREAM, and GOAWAY for the streams its sender never processed       *)
Cancel(s, k, ids) ==
    [Take(s, k, ids) EXCEPT
       !.cancelled = @ + Cardinality(ids \cap Waiting(s.conns[k]))]

(* The item loop of process_http2_event                                    *)
OnItem(s, k, dir, item, t) ==
    LET id == item.sid IN
    CASE item.what = "none" -> s
      [] item.what = "reset" -> Cancel(s, k, {id})
      [] item.what = "goaway" ->
            Cancel(s, k, {i \in Waiting(s.conns[k]) : i > id})
      [] item.what = "headers" /\ dir = "req" ->
            IF item.kind = "method" THEN Insert(s, k, id, t) ELSE s
      [] item.what = "data" /\ dir = "req" -> AppendBody(s, k, id)
      [] item.what = "headers" /\ dir = "resp" ->
            CASE item.kind = "interim" -> s
              [] item.kind = "status" ->
                    IF id \notin Waiting(s.conns[k]) THEN s
                    ELSE Answer(Start(s, k, id), k, item)
              [] OTHER ->
                    IF id \notin Answering(s.conns[k]) THEN s
                    ELSE Answer(MergeTrailers(s, k, id), k, item)
      [] item.what = "data" /\ dir = "resp" ->
            IF id \notin Answering(s.conns[k]) THEN s
            ELSE Answer(AppendData(s, k, id), k, item)

-----------------------------------------------------------------------------
(* Http2Direction::feed and on_frame.                                      *)

(* Http2Direction::fail *)
Fail(d) == [d EXCEPT !.broken = TRUE, !.buf = 0, !.open = NoBlock]

Outcome(d, item) == [dir |-> d, item |-> item]

(* Http2Direction::on_frame for a whole frame: an open block must be       *)
(* continued, and only an open one can be, up to H2_MAX_HEADER_BLOCK_BYTES *)
(* for all its frames.  A piece of a preface is longer than max_frame,     *)
(* SETTINGS yields no item, nor does a header block that HPACK does not    *)
(* decode or that of a PUSH_PROMISE (finish_block).                        *)
OnFrame(d, c, fate) ==
    LET item == [what |-> c.what, sid |-> c.sid, kind |-> c.kind, end |-> c.end]
        shown == IF c.kind = "promise" \/ fate = "undecoded" THEN NoItem ELSE item
        block == [sid |-> c.sid, kind |-> c.kind, end |-> c.end]
        violation == \/ c.what = "preface" \/ fate = "oversized"
                     \/ d.open # NoBlock /\ c.piece # "block2"
                     \/ d.open = NoBlock /\ c.piece = "block2"
    IN IF violation THEN Outcome(Fail(d), NoItem)
       ELSE CASE c.piece = "block2" -> Outcome([d EXCEPT !.open = NoBlock], shown)
              [] c.piece = "block1" -> Outcome([d EXCEPT !.open = block], NoItem)
              [] c.what = "settings" -> Outcome(d, NoItem)
              [] OTHER -> Outcome(d, shown)

Items ==
    [what : {"headers"}, sid : Streams, kind : {"method", "status", "plain"},
     end : BOOLEAN]
    \cup [what : {"data"}, sid : Streams, kind : {"plain"}, end : BOOLEAN]
    \cup [what : {"reset", "goaway"}, sid : Streams, kind : {"plain"}, end : {FALSE}]
    \cup {NoItem}

(* The parser missed bytes of the direction, or its HPACK table missed a   *)
(* block: what it makes of the next bytes is a violation, an incomplete    *)
(* frame, or any item.                                                     *)
Garbled(d) ==
    {Outcome(Fail(d), NoItem)}
    \cup {Outcome([d EXCEPT !.buf = n], NoItem) : n \in {n \in 1..MaxFrame : n <= d.buf + 1}}
    \cup {Outcome([d EXCEPT !.buf = 0, !.open = NoBlock], i) : i \in Items}

(* Http2Direction::feed *)
Feed(s, d, dir, c, fate) ==
    CASE d.broken -> {Outcome(d, NoItem)}
      [] ~d.broken /\ d.expects ->
            CASE c.piece = "token1" -> {Outcome([d EXCEPT !.buf = 1], NoItem)}
              [] c.what = "preface" /\ c.piece # "token1" /\ (c.piece = "token2" => d.buf = 1) ->
                    {Outcome([d EXCEPT !.buf = 0, !.expects = FALSE], NoItem)}
              [] OTHER -> {Outcome(Fail(d), NoItem)}
      [] ~d.broken /\ ~d.expects /\ dir \in s.missing -> Garbled(d)
      [] OTHER ->
            CASE c.piece \in {"frame1", "tail1"} /\ fate # "oversized" ->
                    {Outcome([d EXCEPT !.buf = 1], NoItem)}
              [] OTHER -> {OnFrame([d EXCEPT !.buf = 0], c, fate)}

(* process_http2_event for n units of bytes                                *)
Process(s, k, dir, c, fate, n, t) ==
    LET conn == IF s.conns[k] = NoConn THEN NewConn ELSE s.conns[k]
        met == [conn EXCEPT !.last = t]
        parse(o) ==
            LET back == n + Buffered(conn.dirs[dir]) - Buffered(o.dir)
                fed == [met EXCEPT !.dirs = [conn.dirs EXCEPT ![dir] = o.dir],
                                   !.buffered = @ + n - back]
            IN OnItem([SetConn(s, k, fed) EXCEPT !.total = @ + n - back],
                      k, dir, o.item, t)
    IN IF Full(s, n) THEN {[Refuse(SetConn(s, k, met)) EXCEPT !.missing = @ \cup {dir}]}
       ELSE {parse(o) : o \in Feed(s, conn.dirs[dir], dir, c, fate)}

-----------------------------------------------------------------------------
(* evict_stale, evict_connection_by_ptr, take_all_incomplete.              *)

(* Requests waiting anywhere, as pairs of a birth and a stream id.         *)
Waits(s) == {p \in Slots : s.conns[p[1]].pending[p[2]] # NoReq}

(* incomplete_events: requests leave in events, beyond the limit only in   *)
(* EVENTS_DROPPED.                                                         *)
Report(s, due, outcome) ==
    LET before(p) == {q \in due : q[1] < p[1] \/ (q[1] = p[1] /\ q[2] < p[2])}
        shown == {p \in due : Cardinality(before(p)) < MaxReports}
    IN [s EXCEPT
          !.total = @ - SumFunctionOnSet(ReqSizes(s), due),
          !.conns = [k \in Times |->
                       [s.conns[k] EXCEPT !.pending =
                          [i \in Streams |-> IF <<k, i>> \in due THEN NoReq
                                             ELSE s.conns[k].pending[i]]]],
          !.refused = @ + Cardinality(due \ shown),
          !.out = @ \cup {Event(Cardinality(@) + Cardinality(before(p)), p[2], outcome,
                                NoResp) : p \in shown}]

(* InflightResponses::expire on every connection: responses without a      *)
(* request go.                                                             *)
ExpireResponses(s) ==
    LET stale == {p \in Slots : /\ s.conns[p[1]].responses[p[2]] # NoResp
                                /\ s.conns[p[1]].pending[p[2]] = NoReq}
    IN [s EXCEPT
          !.total = @ - SumFunctionOnSet(Sizes(s), stale),
          !.conns = [k \in Times |->
                       [s.conns[k] EXCEPT !.responses =
                          [i \in Streams |-> IF <<k, i>> \in stale THEN NoResp
                                             ELSE s.conns[k].responses[i]]]]]

(* Http2Conn is dropped, and PendingBytes gives its bytes back.            *)
Drop(s, ks) ==
    [s EXCEPT !.total = @ - SumFunctionOnSet(Parsing(s), ks)
                          - SumFunctionOnSet(Sizes(s), ks \X Streams),
              !.conns = Reset(s.conns, ks, NoConn)]

ForgetEarly(s, ks) ==
    [s EXCEPT !.total = @ - SumFunctionOnSet(Earlies(s), ks),
              !.early = Reset(s.early, ks, NoEarly)]

(* The connection is dropped with its requests, neither reported nor       *)
(* counted.                                                                *)
Discard(s, k) ==
    [Drop(s, {k}) EXCEPT !.silent = @ + Cardinality(Waiting(s.conns[k]))]

(* http2_state holds the connections of a whole shard.  When they are more *)
(* than MAX_STREAM_ENTRIES the ones with the oldest chunks are dropped;    *)
(* whether this connection is among them depends on the others.            *)
Excess(s, t) ==
    {Unborn} \cup {k \in Times : s.conns[k] # NoConn /\ t - s.last >= Throttle}

Shed(s, k) == IF k = Unborn THEN s ELSE Discard(s, k)

(* What is known of a connection goes with its last state.                 *)
ForgetQuiet(s) ==
    LET quiet == {j \in s.known : s.conns[j] = NoConn} IN
    [s EXCEPT !.known = @ \ quiet,
              !.born = IF quiet = {} THEN @ ELSE Unborn,
              !.prefix = @ \ quiet]

(* Requests age out one by one, or all at once with an idle connection;    *)
(* then connection k may go because there are too many (k = Unborn: no).   *)
EvictStale(s, k, t) ==
    LET idle == {j \in Times : s.conns[j] # NoConn /\ t - s.conns[j].last >= TTL}
        due == {p \in Waits(s) : \/ p[1] \in idle
                                \/ t - s.conns[p[1]].pending[p[2]].ts >= TTL}
        aged == ExpireResponses(Report([s EXCEPT !.last = t], due, "no_response_observed"))
        kept == ForgetEarly(Drop(aged, idle), {j \in Times : t - s.early[j].seen >= TTL})
    IN IF t - s.last < Throttle THEN s ELSE ForgetQuiet(Shed(kept, k))

EvictConnection(s) ==
    LET gone == Drop(Report(s, Waits(s), "connection_closed"), Times) IN
    [ForgetEarly(gone, Times) EXCEPT !.prefix = {}, !.known = {}, !.born = Unborn]

-----------------------------------------------------------------------------
(* handle_event, up to the point where a chunk is not HTTP/2.              *)

(* Server frames are held until the preface opens the connection.  The     *)
(* chunk may end in part of another frame.                                 *)
HoldEarly(s, k, c, t) ==
    LET e == IF s.early[k] = NoEarly THEN [len |-> 0, seen |-> t, part |-> FALSE]
             ELSE s.early[k]
        n == IF e.len + 1 > MaxEarly \/ Full(s, 1) THEN 0 ELSE 1
        part == e.part \/ (n = 1 /\ c.piece = "tail1")
    IN [s EXCEPT !.early = [s.early EXCEPT ![k] =
                              [len |-> e.len + n, seen |-> t, part |-> part]],
                 !.total = @ + n]

(* The preface opens the connection: first the server frames held for it,  *)
(* which are still charged, then the chunk.                                *)
Open(s, k, c, t) ==
    LET held == s.early[k]
        settings == [c EXCEPT !.what = "settings",
                              !.piece = IF held.part THEN "tail1" ELSE "whole"]
        fed == IF EarlySize(held) = 0 THEN {s}
               ELSE Process(s, k, "resp", settings, "captured", held.len, t)
    IN UNION {Process(ForgetEarly(x, {k}), k, "req", c, "captured", 1, t) : x \in fed}

(* The chunk is the rest of a frame, and the parser has not got the        *)
(* beginning: the preface came too late, or what was held is gone.         *)
Severed(s, k, dir, c) == c.piece = "tail2" /\ s.conns[k].dirs[dir].buf = 0

Meet(s, k, dir, c) ==
    [s EXCEPT !.known = @ \cup {k},
              !.missing = @ \cup (IF Severed(s, k, dir, c) THEN {dir} ELSE {})]

(* What becomes of a chunk of connection k.                                *)
Route(s, k, dir, c, fate, t) ==
    LET isKnown == s.conns[k] # NoConn
        held == dir = "req" /\ k \in s.prefix
        free == IF dir = "req" THEN [s EXCEPT !.prefix = @ \ {k}] ELSE s
        starts == /\ ~isKnown /\ dir = "req"
                  /\ \/ c.what = "preface" /\ c.piece \in {"whole", "token1"}
                     \/ c.piece = "magic2" /\ held
        early == /\ ~isKnown /\ dir = "resp"
                 /\ c.what = "settings" /\ c.piece # "tail2" /\ fate # "oversized"
    IN CASE isKnown /\ fate = "truncated" -> {Discard(s, k)}
         [] isKnown /\ fate # "truncated" -> Process(free, k, dir, c, fate, 1, t)
         [] ~isKnown /\ c.piece = "magic1" /\ ~held ->
               {[free EXCEPT !.prefix = @ \cup {k}]}
         [] early -> {HoldEarly(free, k, c, t)}
         [] starts -> Open(free, k, c, t)
         [] OTHER -> {[free EXCEPT !.missing = @ \cup {dir}]}    \* not HTTP/2

HandleEvent(s, dir, c, fate, over, t) ==
    LET k == IF s.born = Unborn THEN t ELSE s.born
        swept == EvictStale([s EXCEPT !.born = k], over, t)
    IN Route(Meet(swept, k, dir, c), k, dir, c, fate, t)

-----------------------------------------------------------------------------
(* The peers.                                                              *)

Whole(what, id, kind, end) ==
    [what |-> what, sid |-> id, kind |-> kind, end |-> end, piece |-> "whole"]

(* A HEADERS frame may be split, or continued in a second frame.           *)
Split(c, frame, block) ==
    {c} \cup (IF frame \in Pieces THEN {[c EXCEPT !.piece = "frame1"]} ELSE {})
        \cup (IF block \in Pieces THEN {[c EXCEPT !.piece = "block1"]} ELSE {})

Second == [frame1 |-> "frame2", block1 |-> "block2", magic1 |-> "magic2",
           token1 |-> "token2", tail1 |-> "tail2"]

Extra(name, frames) == IF name \in Extras THEN frames ELSE {}

(* The preface may be split inside or after its first 14 bytes.            *)
Prefaces ==
    {Whole("preface", 0, "none", FALSE)}
    \cup {[Whole("preface", 0, "none", FALSE) EXCEPT !.piece = p] :
             p \in (IF "magic" \in Pieces THEN {"magic1"} ELSE {})
                   \cup (IF "token" \in Pieces THEN {"token1"} ELSE {})}

(* SETTINGS, alone or with the beginning of another such frame.            *)
Connecting ==
    LET c == Whole("settings", 0, "none", FALSE) IN
    {c} \cup (IF "settings" \in Pieces THEN {[c EXCEPT !.piece = "tail1"]} ELSE {})

Requests(i) ==
    CASE sent[i].req = "none" ->
            IF \E j \in Streams : j < i /\ sent[j].req = "none" THEN {}
            ELSE UNION {Split(Whole("headers", i, "method", e), "req_frame", "req_block") :
                          e \in BOOLEAN}
      [] sent[i].req = "open" ->
            Extra("data", {Whole("data", i, "plain", TRUE)})
            \cup Extra("trailers", {Whole("headers", i, "plain", TRUE)})
            \cup Extra("reset", {Whole("reset", i, "plain", FALSE)})
      [] OTHER -> {}

Responses(i) ==
    CASE sent[i].req = "none" -> {}
      [] sent[i].req # "none" /\ sent[i].resp \in {"none", "begun"} ->
            UNION {Split(Whole("headers", i, "status", e), "resp_frame", "resp_block") :
                     e \in BOOLEAN}
            \cup (IF sent[i].resp = "begun" THEN {}
                  ELSE Extra("interim", {Whole("headers", i, "interim", FALSE)})
                       \cup Extra("promise", {Whole("headers", i, "promise", FALSE)})
                       \cup Extra("goaway", {Whole("goaway", j, "plain", FALSE) :
                                                j \in {j \in Streams : j < i}}))
      [] sent[i].req # "none" /\ sent[i].resp = "open" ->
            Extra("data", {Whole("data", i, "plain", e) :
                              e \in IF sent[i].data < MaxBody THEN BOOLEAN ELSE {TRUE}})
            \cup Extra("trailers", {Whole("headers", i, "plain", TRUE)})
            \cup Extra("reset", {Whole("reset", i, "plain", FALSE)})
      [] OTHER -> {}

NextChunks(dir) ==
    CASE rest[dir] # NoItem -> {rest[dir]}
      [] rest[dir] = NoItem /\ dir = "req" ->
            IF opened THEN UNION {Requests(i) : i \in Streams} ELSE Prefaces
      [] OTHER ->
            (IF \A i \in Streams : sent[i].req = "none"
             THEN Extra("settings", Connecting) ELSE {})
            \cup UNION {Responses(i) : i \in Streams}

(* Where the peers are on each stream once chunk c is sent.                *)
Stage(dir, c) ==
    LET stage == IF c.end THEN "done" ELSE "open" IN
    CASE c.what \in {"preface", "settings"} -> sent
      [] c.what = "goaway" ->
            [i \in Streams |-> IF i > c.sid /\ sent[i].req # "none"
                               THEN [sent[i] EXCEPT !.resp = "done"] ELSE sent[i]]
      [] c.kind \in {"interim", "promise"} -> [sent EXCEPT ![c.sid].resp = "begun"]
      [] c.what = "reset" -> [sent EXCEPT ![c.sid].req = "done", ![c.sid].resp = "done"]
      [] c.what \in {"headers", "data"} /\ dir = "req" ->
            [sent EXCEPT ![c.sid].req = stage]
      [] OTHER ->
            [sent EXCEPT ![c.sid].resp = stage,
                         ![c.sid].data = @ + (IF c.what = "data" THEN 1 ELSE 0),
                         ![c.sid].trailers = @ \/ (c.what = "headers" /\ c.kind = "plain")]

(* A peer sends its next chunk, c.                                         *)
Emit(dir, c, cost) ==
    /\ budget' = budget - 1 - cost
    /\ rest' = [rest EXCEPT ![dir] = IF c.piece \in DOMAIN Second
                                     THEN [c EXCEPT !.piece = Second[c.piece]]
                                     ELSE NoItem]
    /\ sent' = IF c.piece \in DOMAIN Second THEN sent ELSE Stage(dir, c)
    /\ opened' = (opened \/ c.what = "preface")

Call ==
    /\ running /\ budget > 0
    /\ Len(wire) < MaxWire
    /\ \E c \in NextChunks("req") : Emit("req", c, 0) /\ wire' = Append(wire, c)
    /\ UNCHANGED <<st, now, running, late>>

Cost(fate) == IF fate = "captured" THEN 0 ELSE FaultCost

(* Any frame may be longer than max_frame or its header block than the     *)
(* limit, and HPACK may fail on a block that ends here.                    *)
Possible(c, fate) ==
    /\ fate = "oversized" => c.what # "preface"
    /\ fate = "undecoded" => c.what = "headers" /\ c.piece \notin {"frame1", "block1"}

(* A chunk's record reaches handle_event, whole or truncated, or is lost.  *)
Handle(dir, c, fate) ==
    IF fate = "lost" THEN st' = [st EXCEPT !.missing = @ \cup {dir}]
    ELSE /\ Possible(c, fate)
         /\ \E over \in Excess(st, now) : \E s \in HandleEvent(st, dir, c, fate, over, now) :
               st' = [s EXCEPT !.missing = @ \cup (IF fate = "captured" THEN {} ELSE {dir})]

ReceiveRequest(fate) ==
    /\ running
    /\ wire # <<>>
    /\ budget >= Cost(fate)
    /\ Handle("req", Head(wire), fate)
    /\ wire' = Tail(wire)
    /\ budget' = budget - Cost(fate)
    /\ UNCHANGED <<now, running, rest, sent, opened, late>>

(* The request of stream i has been handled or lost.                       *)
Received(i) ==
    \A j \in DOMAIN wire : wire[j].sid = i => wire[j].kind # "method"

ReceiveResponse(fate) ==
    /\ running /\ budget > Cost(fate)
    /\ \E c \in NextChunks("resp") :
        /\ Emit("resp", c, Cost(fate))
        /\ Handle("resp", c, fate)
        /\ late' = late \cup {i \in Streams : ~Received(i)
                                             /\ (i = c.sid \/ c.what = "goaway")}
    /\ UNCHANGED <<now, running, wire>>

(* The close record of the connection is read: the peers have stopped.     *)
HandleClose ==
    /\ running
    /\ st' = [EvictConnection(st) EXCEPT !.missing = Dirs]
    /\ budget' = 0
    /\ rest' = NoRest
    /\ UNCHANGED <<now, running, wire, sent, opened, late>>

Sweep ==
    /\ running
    /\ now - st.last >= Throttle
    /\ \E k \in Excess(st, now) : st' = EvictStale(st, k, now)
    /\ UNCHANGED <<now, running, envVars, late>>

(* What the peers still send is not captured.                              *)
Shutdown ==
    /\ running
    /\ running' = FALSE
    /\ st' = Report(st, Waits(st), "sensor_shutdown")
    /\ wire' = <<>>
    /\ rest' = NoRest
    /\ budget' = 0
    /\ UNCHANGED <<now, sent, opened, late>>

Tick ==
    /\ running
    /\ now < MaxTime
    /\ now' = now + 1
    /\ UNCHANGED <<st, running, envVars, late>>

Next ==
    \/ Call
    \/ \E fate \in Fates : ReceiveRequest(fate) \/ ReceiveResponse(fate)
    \/ HandleClose
    \/ Sweep
    \/ Shutdown
    \/ Tick

Spec == Init /\ [][Next]_vars

-----------------------------------------------------------------------------
(* Properties.                                                             *)

(* What the two parsers of each connection hold.                           *)
Framed(s) ==
    [k \in Times |-> LET req == s.conns[k].dirs["req"]
                         resp == s.conns[k].dirs["resp"]
                     IN req.buf + resp.buf + (IF req.open = NoBlock THEN 0 ELSE 1)
                                           + (IF resp.open = NoBlock THEN 0 ELSE 1)]

(* stream.rs, PendingBytes: what the HTTP/2 maps charge to the memory      *)
(* ceiling is what they hold, an open header block included, on every way  *)
(* out of a frame, a request, a response or a connection, and never more   *)
(* than the ceiling or, for a connection, than its limit of streams.       *)
MemoryExact ==
    /\ st.total <= MaxTotal
    /\ \A k \in Times : /\ Cardinality(Waiting(st.conns[k])) <= MaxPending
                        /\ Cardinality(Answering(st.conns[k])) <= MaxPending
    /\ st.total = SumFunctionOnSet(Sizes(st), Slots) + SumFunctionOnSet(Earlies(st), Times)
                  + SumFunctionOnSet(Framed(st), Times)

(* stream.rs: every request of an HTTP/2 connection waits, left in one     *)
(* event, is counted as dropped or was cancelled by the peers.  It         *)
(* disappears, neither reported nor counted (silent), in three ways only:  *)
(* a truncated chunk, a second request on its stream, and a shard with     *)
(* more connections than MAX_STREAM_ENTRIES.                               *)
RequestsAccounted ==
    st.parsed = Cardinality(Waits(st)) + Cardinality(st.out) + st.refused + st.cancelled + st.silent

(* No chunk was lost, truncated or refused, the memory ceiling was not     *)
(* met, and each parser took every frame: none was longer than max_frame   *)
(* or, as a header block, than its limit, HPACK decoded every block, and   *)
(* no server frame was cut by the preface (see Severed).                   *)
Unharmed == st.missing = {} /\ ~st.short

(* finish_h2_response, "Completion is END_STREAM only": the response of an *)
(* undamaged connection is reported once, with its body up to the capture  *)
(* limit and with its trailers.                                            *)
WholeResponses ==
    Unharmed => \A e, f \in st.out :
        /\ e.sid = f.sid => e = f
        /\ e.outcome = "paired" =>
              /\ e.trailers = (IF sent[e.sid].trailers THEN 1 ELSE 0)
              /\ e.body = Min({sent[e.sid].data, MaxBody})

(* process_http2_event: while a connection is undamaged in that sense, a   *)
(* request whose response was handled to its end does not wait any longer, *)
(* unless the response was handled before it.                              *)
AnsweredIsDone ==
    Unharmed => \A i \in Streams :
        /\ sent[i].resp = "done"
        /\ \A j \in DOMAIN wire : wire[j].sid # i
        /\ i \notin late
        => \A k \in Times : i \notin Waiting(st.conns[k])
=============================================================================
