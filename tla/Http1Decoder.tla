----------------------------- MODULE Http1Decoder -----------------------------
(***************************************************************************)
(* Http1Decoder of userspace/src/http.rs on one direction of a connection, *)
(* with the part of StreamState::handle_event that feeds it.  The peer's   *)
(* bytes are cut into TLS chunks anywhere; a chunk is appended to the      *)
(* buffer and feed() runs over it, one iteration of its loop per action.   *)
(*                                                                         *)
(* A byte is what the decoder can tell of it: a carriage return, a line    *)
(* feed, or a byte of a head, a chunk size line, a trailer field, a body   *)
(* or a tunnel.  A head or a size line is one byte that stands for its     *)
(* text, and padding.  A body may hold the text of a head, which the       *)
(* decoder cannot tell from one.  Every byte carries the number of its     *)
(* message, which the decoder does not read.                               *)
(***************************************************************************)
EXTENDS Integers, Sequences, FiniteSets, SequencesExt

CONSTANTS
    Requests,     \* the requests a peer may send
    Responses,    \* the responses a peer may send
    Methods,      \* the methods of the requests that are answered
    MaxMsgs,      \* bound: messages sent, and requests asked
    PreviewCap,   \* preview_cap
    MaxHead,      \* MAX_HTTP1_HEADER_BYTES
    MaxLine,      \* MAX_CHUNK_LINE
    MaxBuffer,    \* max_buffer
    Pipelined,    \* whether a request may be sent before the last is answered
    Sweeps        \* whether the stream may be idle for STREAM_TTL_MS

Dirs == {"request", "response"}
Absent == -1      \* no content-length
Bad == -2         \* a length or a size that does not parse
NoQuote == -3     \* a body that holds no head

(* What a head says (te, cl, status), what the peer sends after it (body   *)
(* bytes of each chunk or, without chunks, in all), its padding, and the   *)
(* content-length in the head that the text of its body holds.             *)
Shape == [status : {"none", "interim", "switch", "empty", "ok", "error"},
          te : {"absent", "chunked", "other"}, cl : Nat \cup {Absent, Bad},
          body : Seq(Nat \cup {Bad}), pad : Nat, quote : Nat \cup {Absent, NoQuote}]

ASSUME Http1Assumption ==
    /\ {MaxMsgs, PreviewCap, MaxHead, MaxLine, MaxBuffer} \subseteq Nat
    /\ {Pipelined, Sweeps} \subseteq BOOLEAN
    /\ Methods \subseteq {"GET", "HEAD", "CONNECT"}
    /\ \A s \in Requests \cup Responses : s \in Shape
    /\ \A s \in Requests : s.status = "none"
    /\ \A s \in Requests \cup Responses :
          s.quote # NoQuote => \A k \in DOMAIN s.body : s.body[k] >= 5

VARIABLES
    dir,      \* the direction that is decoded
    msgs,     \* the messages sent, with the method they answer (history)
    wire,     \* bytes sent and not captured yet
    tunnel,   \* whether the peers have left HTTP/1
    queue,    \* methods of the requests that wait (PendingQueue)
    asked,    \* requests sent (environment)
    state,    \* Http1State and its pending message
    buf, pos, \* feed's buffer and position
    pc,       \* idle, in the loop of feed, or returned
    hint,     \* response_to_head, response_to_connect
    items,    \* out, of feed
    gapped,   \* gapped_streams has the stream
    got,      \* messages handed to the caller (history)
    misled,   \* a head was framed with another request's hint (history)
    broken    \* how the decoder lost its place in the stream (history)

env == <<dir, msgs, wire, tunnel, asked>>
feed == <<state, buf, pos, pc, items, misled>>
vars == <<env, feed, queue, hint, gapped, got, broken>>

-----------------------------------------------------------------------------
(* The peers.                                                              *)

Byte(t, n, i) == [t |-> t, n |-> n, m |-> i]
Fill(t, k, i) == [j \in 1..k |-> Byte(t, 0, i)]
Crlf(i) == <<Byte("cr", 0, i), Byte("lf", 0, i)>>
Line(t, n, pad, i) == <<Byte(t, n, i)>> \o Fill("pad", pad, i) \o Crlf(i)

(* n bytes of a body: any text, or the text of a head and the blank line   *)
(* after it.                                                               *)
Quoted(i) == <<Byte("head", 1, i), Byte("cr", 1, i), Byte("lf", 1, i),
               Byte("cr", 1, i), Byte("lf", 1, i)>>
Text(s, n, i) ==
    IF s.quote = NoQuote THEN Fill("body", n, i)
    ELSE Quoted(i) \o Fill("body", n - Len(Quoted(i)), i)

Chunk(s, n, i) ==
    Line("size", n, s.pad, i) \o (IF n > 0 THEN Text(s, n, i) \o Crlf(i) ELSE <<>>)

Tunnels(s, method) ==
    s.status = "switch" \/ (method = "CONNECT" /\ s.status \in {"empty", "ok"})

(* A response to HEAD has no body whatever its head says.                  *)
Bodiless(s, method) ==
    Tunnels(s, method) \/ s.status \in {"interim", "empty"} \/ method = "HEAD"

Bytes(s, method, i) ==
    Line("head", 0, s.pad, i) \o Crlf(i) \o
    (IF Bodiless(s, method) THEN <<>>
     ELSE IF s.te = "chunked"
     THEN FlattenSeq([k \in DOMAIN s.body |-> Chunk(s, s.body[k], i)])
          \o Chunk(s, 0, i) \o (IF s.pad > 0 THEN Line("field", 0, s.pad, i) ELSE <<>>)
          \o Crlf(i)
     ELSE FlattenSeq([k \in DOMAIN s.body |-> Text(s, s.body[k], i)]))

Finals == {i \in DOMAIN msgs : msgs[i].status # "interim"}

(* A response that leaves HTTP/1, or lasts until the close, is the last.   *)
Leaves(s, method) ==
    \/ Tunnels(s, method)
    \/ ~Bodiless(s, method) /\ s.te # "chunked" /\ s.cl = Absent

Message(i) == [msg |-> i, total |-> 0, kept |-> 0, cut |-> FALSE]
At(where, left, m) == [at |-> where, left |-> left, pending |-> m]
Fresh == At("Head", 0, Message(0))

Init ==
    /\ dir \in Dirs
    /\ msgs = <<>>
    /\ wire = <<>>
    /\ tunnel = FALSE
    /\ queue = <<>>
    /\ asked = <<>>
    /\ state = Fresh
    /\ buf = <<>>
    /\ pos = 0
    /\ pc = "idle"
    /\ hint = [head |-> FALSE, connect |-> FALSE]
    /\ items = <<>>
    /\ gapped = FALSE
    /\ got = <<>>
    /\ misled = FALSE
    /\ broken = {}

(* A request of the other direction is parsed and queued.                  *)
Ask(method) ==
    /\ dir = "response" /\ pc = "idle"
    /\ ~tunnel
    /\ Len(asked) < MaxMsgs
    /\ asked # <<>> => Last(asked) # "CONNECT" \/ Cardinality(Finals) = Len(asked)
    /\ Pipelined \/ (wire = <<>> /\ Cardinality(Finals) = Len(asked))
    /\ asked' = Append(asked, method)
    /\ queue' = Append(queue, method)
    /\ UNCHANGED <<dir, msgs, wire, tunnel, feed, hint, gapped, got, broken>>

(* The peer sends a message: a request, or the answer to the oldest        *)
(* request that has none.                                                  *)
Send(s) ==
    LET n == Cardinality(Finals) + 1
        method == IF dir = "request" THEN "GET" ELSE asked[n]
        i == Len(msgs) + 1
    IN /\ pc = "idle"
       /\ ~tunnel
       /\ i <= MaxMsgs
       /\ dir = "response" => n <= Len(asked)
       /\ dir = "response" /\ Leaves(s, method) => n = Len(asked)
       /\ msgs' = Append(msgs, [method |-> method, status |-> s.status, te |-> s.te,
                                cl |-> s.cl, body |-> s.body, pad |-> s.pad,
                                quote |-> s.quote])
       /\ wire' = wire \o Bytes(s, method, i)
                  \o (IF Tunnels(s, method) THEN Fill("raw", 1, i) ELSE <<>>)
       /\ tunnel' = (dir = "response" /\ Leaves(s, method))
       /\ UNCHANGED <<dir, asked, feed, queue, hint, gapped, got, broken>>

-----------------------------------------------------------------------------
(* parse_head and body_framing.                                            *)

BodyFraming(s, isRequest) ==
    CASE s.te # "absent" /\ s.cl # Absent -> "error"
      [] s.te = "chunked" /\ s.cl = Absent -> "chunked"
      [] s.te = "other" /\ s.cl = Absent -> IF isRequest THEN "error" ELSE "close"
      [] s.te = "absent" /\ s.cl = Bad -> "error"
      [] s.te = "absent" /\ s.cl = Absent -> IF isRequest THEN "none" ELSE "close"
      [] OTHER -> "fixed"

Framing(s, h) ==
    CASE s.status = "none" -> BodyFraming(s, TRUE)
      [] s.status = "switch" \/ (h.connect /\ s.status \in {"empty", "ok"}) -> "upgrade"
      [] OTHER -> IF s.status \in {"interim", "empty"} \/ h.head THEN "none"
                  ELSE BodyFraming(s, FALSE)

HintOf(method) == [head |-> method = "HEAD", connect |-> method = "CONNECT"]

(* How a message is really framed.                                         *)
Proper(i) == Framing(msgs[i], HintOf(msgs[i].method))

(* What the text that begins with byte b says, if it is a head: its        *)
(* message, or the head that a body of the direction holds.                *)
IsOwn(b) == b.n = 0
HeadOf(b) ==
    IF IsOwn(b) THEN msgs[b.m]
    ELSE [msgs[b.m] EXCEPT !.status = IF dir = "request" THEN "none" ELSE "ok",
                           !.te = "absent", !.cl = msgs[b.m].quote]

(* Text that does not begin with a start line is not a head.               *)
ParseHead(first) ==
    IF first.t = "head" THEN Framing(HeadOf(first), hint) ELSE "error"

-----------------------------------------------------------------------------
(* feed: one action for each arm of its loop.                              *)

Rest == SubSeq(buf, pos + 1, Len(buf))
Least(a, b) == IF a < b THEN a ELSE b

(* Where the pattern of line ends begins, in windows over the bytes.       *)
Found(bytes, pattern) ==
    {k \in 1..(Len(bytes) - Len(pattern) + 1) :
        \A j \in DOMAIN pattern : bytes[k + j - 1].t = pattern[j]}

First(ks) == CHOOSE k \in ks : \A l \in ks : k <= l
BlankLine == <<"cr", "lf", "cr", "lf">>
LineEnd == <<"cr", "lf">>

Return(consumed, st) ==
    /\ pos' = consumed
    /\ state' = st
    /\ pc' = "done"
    /\ UNCHANGED <<buf, items>>

(* Invalid: everything is consumed, the state is left at its default.      *)
Invalid ==
    /\ pos' = Len(buf)
    /\ state' = Fresh
    /\ pc' = "done"
    /\ items' = Append(items, [ok |-> FALSE, message |-> Message(0)])
    /\ UNCHANGED buf

Emit(m) == items' = Append(items, [ok |-> TRUE, message |-> m])

(* The end of an iteration: out of bytes between two messages, feed        *)
(* returns.                                                                *)
Continue(p, st) ==
    /\ pos' = p
    /\ state' = st
    /\ pc' = IF p >= Len(buf) /\ st.at = "Head" THEN "done" ELSE "feed"
    /\ UNCHANGED buf

Enter(where) == pc = "feed" /\ state.at = where

Preview(m, n) ==
    LET take == Least(n, PreviewCap - m.kept) IN
    [m EXCEPT !.total = @ + n, !.kept = @ + take, !.cut = @ \/ take < n]

(* Mutant: a line of any length is waited for. *)
Endless_Never(limit) == FALSE

(* What is left without a line end is more than a line may have.           *)
Endless(limit) == Len(Rest) > limit

FeedHead ==
    LET ends == Found(Rest, BlankLine)
        p == pos + First(ends) + 3
        first == Rest[1]
        m == Message(IF IsOwn(first) THEN first.m ELSE 0)
        framing == ParseHead(first)
        left == Len(buf) - p
        size == HeadOf(first).cl
    IN /\ Enter("Head")
       /\ IF ends = {}
          THEN /\ IF Endless(MaxHead) THEN Invalid ELSE Return(pos, Fresh)
               /\ UNCHANGED misled
          ELSE /\ misled' = (misled \/ (first.t = "head" /\ IsOwn(first)
                                      /\ framing # Proper(first.m)))
               /\ \/ framing = "error" /\ Invalid
                  \/ /\ framing = "none" \/ (framing = "fixed" /\ size = 0)
                     /\ Emit(m) /\ Continue(p, Fresh)
                  \/ /\ framing = "fixed" /\ size > 0
                     /\ Continue(p, At("Fixed", size, m)) /\ UNCHANGED items
                  \/ /\ framing = "chunked"
                     /\ Continue(p, At("ChunkSize", 0, m)) /\ UNCHANGED items
                  \/ /\ framing \in {"upgrade", "close"}
                     /\ Emit(IF framing = "close" THEN Preview(m, left) ELSE m)
                     /\ pos' = Len(buf) /\ pc' = "done"
                     /\ state' = At(IF framing = "close" THEN "UntilClose" ELSE "Upgraded",
                                    0, Message(0))
                     /\ UNCHANGED buf
       /\ UNCHANGED <<env, queue, hint, gapped, got, broken>>

FeedFixed ==
    LET take == Least(Len(Rest), state.left)
        m == Preview(state.pending, take)
    IN /\ Enter("Fixed")
       /\ IF take = state.left THEN Emit(m) /\ Continue(pos + take, Fresh)
          ELSE Return(pos + take, At("Fixed", state.left - take, m))
       /\ UNCHANGED <<env, queue, hint, gapped, got, misled, broken>>

AfterSize(size) == At(IF size = 0 THEN "Trailers" ELSE "ChunkData", size, state.pending)

FeedChunkSize ==
    LET ends == Found(Rest, LineEnd)
        size == IF First(ends) > 1 /\ Rest[1].t = "size" THEN Rest[1].n ELSE Bad
    IN /\ Enter("ChunkSize")
       /\ IF ends = {} THEN IF Endless(MaxLine) THEN Invalid ELSE Return(pos, state)
          ELSE IF size = Bad THEN Invalid
          ELSE Continue(pos + First(ends) + 1, AfterSize(size)) /\ UNCHANGED items
       /\ UNCHANGED <<env, queue, hint, gapped, got, misled, broken>>

(* Mutant: feed does not stop where the chunk goes on. *)
FeedChunkData_NoStop ==
    LET take == Least(Len(Rest), state.left)
        m == Preview(state.pending, take)
    IN /\ Enter("ChunkData")
       /\ Continue(pos + take, IF take = state.left THEN At("ChunkCrlf", 0, m)
                               ELSE At("ChunkData", state.left - take, m))
       /\ UNCHANGED <<env, queue, hint, gapped, got, items, misled, broken>>

FeedChunkData ==
    LET take == Least(Len(Rest), state.left)
        m == Preview(state.pending, take)
    IN /\ Enter("ChunkData")
       /\ IF take = state.left
          THEN Continue(pos + take, At("ChunkCrlf", 0, m)) /\ UNCHANGED items
          ELSE Return(pos + take, At("ChunkData", state.left - take, m))
       /\ UNCHANGED <<env, queue, hint, gapped, got, misled, broken>>

(* Mutant: half a line end is not waited for. *)
FeedChunkCrlf_Eager ==
    /\ Enter("ChunkCrlf")
    /\ IF Rest = <<>> THEN Return(pos, state)
       ELSE IF 1 \notin Found(Rest, LineEnd) THEN Invalid
       ELSE Continue(pos + 2, At("ChunkSize", 0, state.pending)) /\ UNCHANGED items
    /\ UNCHANGED <<env, queue, hint, gapped, got, misled, broken>>

FeedChunkCrlf ==
    /\ Enter("ChunkCrlf")
    /\ IF Len(Rest) < 2 THEN Return(pos, state)
       ELSE IF 1 \notin Found(Rest, LineEnd) THEN Invalid
       ELSE Continue(pos + 2, At("ChunkSize", 0, state.pending)) /\ UNCHANGED items
    /\ UNCHANGED <<env, queue, hint, gapped, got, misled, broken>>

FeedTrailers ==
    LET ends == Found(Rest, LineEnd)
        p == pos + First(ends) + 1
    IN /\ Enter("Trailers")
       /\ IF ends = {} THEN IF Endless(MaxHead) THEN Invalid ELSE Return(pos, state)
          ELSE IF First(ends) = 1 THEN Emit(state.pending) /\ Continue(p, Fresh)
          ELSE Continue(p, state) /\ UNCHANGED items
       /\ UNCHANGED <<env, queue, hint, gapped, got, misled, broken>>

(* Mutant: the body that lasts until the close is parsed again. *)
FeedPassed_Again ==
    /\ Enter("Upgraded") \/ Enter("UntilClose")
    /\ Continue(pos, Fresh)
    /\ UNCHANGED <<env, queue, hint, gapped, got, items, misled, broken>>

(* Upgraded, UntilClose: the bytes are not HTTP/1.                         *)
FeedPassed ==
    /\ Enter("Upgraded") \/ Enter("UntilClose")
    /\ Return(Len(buf), state)
    /\ UNCHANGED <<env, queue, hint, gapped, got, misled, broken>>

Feed == \/ FeedHead \/ FeedFixed \/ FeedChunkSize \/ FeedChunkData
        \/ FeedChunkCrlf \/ FeedTrailers \/ FeedPassed

-----------------------------------------------------------------------------
(* handle_event around feed, and evict_stale.                              *)

(* A TLS chunk of k bytes is captured.  The hint is read once, before      *)
(* feed.                                                                   *)
Capture(k) ==
    LET chunk == SubSeq(wire, 1, k)
        full == Len(buf) + k > MaxBuffer
    IN /\ pc = "idle"
       /\ wire' = SubSeq(wire, k + 1, Len(wire))
       /\ IF gapped /\ chunk[1].t # "head"
          THEN UNCHANGED <<feed, hint, gapped, broken>>
          ELSE /\ gapped' = full
               /\ broken' = broken \cup (IF full THEN {"full"} ELSE {})
               /\ buf' = IF full THEN <<>> ELSE buf \o chunk
               /\ state' = IF full THEN Fresh ELSE state
               /\ pc' = IF full THEN "idle" ELSE "feed"
               /\ hint' = IF full \/ queue = <<>> THEN HintOf("GET") ELSE HintOf(Head(queue))
               /\ UNCHANGED <<pos, items, misled>>
       /\ UNCHANGED <<dir, msgs, tunnel, asked, queue, got>>

(* What feed returned is applied: the consumed bytes are drained, final    *)
(* responses take the oldest request, invalid framing marks a gap.         *)
Finish ==
    LET good == SelectSeq(items, LAMBDA x : x.ok)
        invalid == Len(good) < Len(items)
        status(i) == IF i # 0 THEN msgs[i].status
                     ELSE IF dir = "request" THEN "none" ELSE "ok"
        finals == SelectSeq(good, LAMBDA x : status(x.message.msg)
                                             \notin {"none", "interim"})
    IN /\ pc = "done"
       /\ pc' = "idle"
       /\ got' = got \o [j \in DOMAIN good |-> good[j].message]
       /\ queue' = SubSeq(queue, Least(Len(finals), Len(queue)) + 1, Len(queue))
       /\ buf' = IF invalid THEN <<>> ELSE SubSeq(buf, pos + 1, Len(buf))
       /\ state' = IF invalid THEN Fresh ELSE state
       /\ gapped' = (gapped \/ invalid)
       /\ items' = <<>>
       /\ pos' = 0
       /\ hint' = HintOf("GET")
       /\ broken' = broken \cup (IF invalid THEN {"invalid"} ELSE {})
       /\ UNCHANGED <<env, misled>>

(* The stream is idle for its TTL: its buffer and with it its decoder are  *)
(* dropped, and requests that waited as long leave the queue.              *)
Sweep ==
    /\ Sweeps
    /\ pc = "idle"
    /\ \E k \in 0..Len(queue) : queue' = SubSeq(queue, k + 1, Len(queue))
    /\ buf' = <<>>
    /\ state' = Fresh
    /\ broken' = broken \cup (IF buf # <<>> \/ state # Fresh THEN {"swept"} ELSE {})
    /\ UNCHANGED <<env, pos, pc, items, misled, hint, gapped, got>>

Next ==
    \/ \E method \in Methods : Ask(method)
    \/ \E s \in IF dir = "request" THEN Requests ELSE Responses : Send(s)
    \/ \E k \in DOMAIN wire : Capture(k)
    \/ Feed
    \/ Finish
    \/ Sweep

(* feed and the code after it run to their end.                            *)
Spec == Init /\ [][Next]_vars /\ WF_vars(Feed) /\ WF_vars(Finish)

-----------------------------------------------------------------------------
(* Properties.                                                             *)

Sum(seq) == FoldSeq(LAMBDA a, b : a + b, 0, seq)

(* The message the peer sent, as the decoder is to report it: its body     *)
(* counted in full and kept up to the cap.                                 *)
Sent(i) ==
    LET n == IF Proper(i) \in {"fixed", "chunked"} THEN Sum(msgs[i].body) ELSE 0 IN
    [msg |-> i, total |-> n, kept |-> Least(n, PreviewCap), cut |-> n > PreviewCap]

(* Of a close-delimited body, only what came in the chunk of its head is   *)
(* counted.                                                                *)
Reported(m) ==
    IF Proper(m.msg) = "close"
    THEN m.total <= Sum(msgs[m.msg].body) /\ m.kept = Least(m.total, PreviewCap)
         /\ m.cut = (m.total > m.kept)
    ELSE m = Sent(m.msg)

(* Http1Decoder::feed, over every way to cut the bytes, invalid framing,   *)
(* full buffers and sweeps: a message of the peer that is reported has its *)
(* body exactly counted and previewed, in order and at most once, and text *)
(* in a body is reported as a message only after the decoder lost its      *)
(* place: the sweep dropped it in the middle of a message, the buffer was  *)
(* full or the framing invalid, and a chunk or a stream then began with    *)
(* that text.  All this as long as no head was framed by another request's *)
(* method.                                                                 *)
ReportedIsSent ==
    ~misled => /\ \A j \in DOMAIN got : got[j].msg # 0 => Reported(got[j])
               /\ \A j, k \in DOMAIN got :
                     j < k /\ got[j].msg # 0 /\ got[k].msg # 0 => got[j].msg < got[k].msg
               /\ broken = {} => \A j \in DOMAIN got : got[j].msg # 0

(* The same where clients pipeline: the framing of each response is that   *)
(* of the request it answers.                                              *)
PipelinedFraming == \A j \in DOMAIN got : got[j].msg # 0 /\ Reported(got[j])

IsBody(b) == b.t = "body" \/ (b.t # "size" /\ b.n = 1)

(* Whether all the bytes that decide a message were captured.              *)
Captured(i) ==
    \A k \in DOMAIN wire : wire[k].m = i =>
        wire[k].t = "raw" \/ (IsBody(wire[k]) /\ Proper(i) = "close")

(* Whether a message is framed as RFC 9112 says, and within the limits.    *)
WellFormed(s) ==
    /\ Framing(s, HintOf(s.method)) # "error"
    /\ \A k \in DOMAIN s.body : s.body[k] # Bad
    /\ s.pad + 4 <= MaxHead /\ s.pad + 2 <= MaxLine

(* feed's result does not depend on how the bytes were cut into chunks:    *)
(* after a feed, exactly the messages whose bytes were captured have been  *)
(* reported, none was taken for invalid, and of the rest no body byte is   *)
(* retained.                                                               *)
SplitIndependent ==
    pc = "idle" /\ ~misled /\ broken \subseteq {"invalid"} /\ (\A i \in DOMAIN msgs : WellFormed(msgs[i])) =>
        /\ [j \in DOMAIN got |-> got[j].msg]
             = SelectSeq([i \in DOMAIN msgs |-> i], Captured)
        /\ \A k \in DOMAIN buf : ~IsBody(buf[k])

(* feed retains an incomplete line or block only up to its limit, a body   *)
(* only up to the preview, and waits inside a body only while bytes of it  *)
(* are to come.                                                            *)
RetainedBounded ==
    pc = "idle" => /\ Len(buf) <= IF state.at = "ChunkSize" THEN MaxLine ELSE MaxHead
                   /\ state.pending.kept <= PreviewCap
                   /\ state.at \in {"Fixed", "ChunkData"} <=> state.left > 0

(* The loop of feed returns: every iteration consumes bytes, leaves the    *)
(* state or returns.                                                       *)
FeedReturns == pc = "feed" ~> pc = "idle"
=============================================================================
