# A TLA+ model of the eBPF API sensor

The sensor captures the plaintext of TLS connections with eBPF probes, puts HTTP
transactions together in userspace and ships them to an ingest service. This
directory holds TLA+ modules that model its core, TLC configurations that check
them on small instances, and proofs that TLAPS checks for every value of the
constants. `PROJECT.json` maps every definition to the source lines it stands for,
lists what every run checks, and holds the hazards the properties were chosen for.

Paths below are relative to the repository (`src/` here): `bpf/http_trace.bpf.c`
is the kernel side, `userspace/src/*.rs` the sensor process.

## 1. Inventory

### Data flow

```
 traced processes        kernel (BPF programs)                  sensor process
 SSL_write, SSL_read --> entry probe: args map                  capture thread (main task)
 SSL_set_fd, SSL_free    exit probe: emit_event --- events ---> StreamState::handle_event
 connect, accept,        ssl_state_map (gen, seq)                 buffers, decoders, queues
   close, kTLS           attribution maps                              |  try_send
                         ssl_free_entry --- close_events ---> evict_connection_by_ptr
                         exec --- proc_events ---> rescan              v
                                                                bounded queue
                                                                batch task: Batch, attempts
                                                                       |
                                                                ingest service (external)
```

One capture thread polls three ring buffers and runs the callbacks. There is no
order between the rings. The other tasks are the batch task, the CRI worker, the
DNS workers, the library rescan, the metrics server and the signal handler.

### Components

| Component | State | Operations | Hard part | What makes it correct |
|---|---|---|---|---|
| TLS call probes (`http_trace.bpf.c`) | args maps, `ssl_state_map`, two rings, `producer_stats` | entry and exit probe per TLS call, `emit_event`, `SSL_free` | probes of several CPUs interleave, goroutines move between threads, calls nest, LRU maps drop elements, rings fill up | an exit probe uses its own call's arguments; loss is counted and shows in the numbers; a generation names one object; no slot stays busy |
| Connection attribution (`http_trace.bpf.c`) | `active_connections`, `ssl_ptr_to_conn`, `sock_role`, `sock_to_pid`, `ssl_ptr_to_pid` | connect, accept, close, kTLS entry, `SSL_set_fd`, `SSL_free` | kernel and heap addresses are reused, threads hand sockets to each other | an exact attribution is the object's own connection; roles are true; nothing stale is left |
| Stream state (`stream.rs`, `http.rs`, `types.rs`) | a dozen maps per shard, two global counters | `handle_event`, `evict_stale`, `evict_connection_by_ptr`, `take_all_incomplete` | a connection's state is spread over maps cleaned by different rules; chunks are truncated, lost, late; four limits | memory and gauge exact; every request reported or counted; a response is given to its request; nothing joined across a gap |
| Export queue, batch (`export.rs`, `main.rs`) | channel, byte budget, gauge, open batch | `try_send`, `recv`, `push`, interval flush, ordered shutdown | two threads share a budget with a compare-and-swap loop | both ceilings at every instant, no leak, order, no silent loss, ends on shutdown |
| Ingest client (`ingest.rs`) | attempt counter, delivery counters | one attempt per answer | unknown outcomes, late commits | nothing stored twice, every batch acknowledged or counted as lost |
| HTTP/2 (`http2.rs`, `stream.rs`) | per connection: preface, early frames, a parser per direction, requests and responses by stream id | headers, continuation, data, reset, GOAWAY, expiry, close | frames are split over chunks, streams interleave and are reset, server frames come before the preface | memory exact; every request accounted for; whole responses, given once, by stream id |
| Container resolver (`container.rs`) | cache, attempts, pending lookups | request, update, failure, expiry | a worker answers late, back-off, a bounded channel | scope fails closed; one lookup in flight per container |
| DNS resolver (`dns.rs`) | cache, pending set | lookup, answer, timeout | eight permits, two-second timeout | a pending name always leaves the set |
| HTTP/1 decoder (`http.rs`) | per direction: a state, a buffer, the message being read | `feed` on every chunk | chunks end anywhere, several messages share one, framing depends on the request | what is reported is what was sent, wherever the chunks were cut; `feed` returns and keeps little |
| Library discovery (`bpf.rs`, `http.rs`, part of `main.rs`) | links, the set of attached files, two channels | scan, `take_new`, `attach_tls_libs`, exec notification, rescan | processes exit and pids are reused under the scan, notifications are dropped, attachments fail one by one | pairs whole, files once, failures counted, a library that stays is found |
| Loader, other probe sets (`bpf.rs`, `go_tls.rs`, `boringssl.rs`) | links | load attempts, startup attachment | none after startup | out of the model, see section 8 |
| Metrics, health (`metrics.rs`) | atomics | scrape, health, readiness | counters are read one by one | counters and gauges agree with what happened |
| Redaction, identity, gRPC, MCP, WebSocket, QUIC headers, output | none between calls | parse, format | byte grammars | out of the model, see section 8 |

### Hard behaviours

`PROJECT.json` lists them under `hazards`, each at its line. In short: exit probes
on several CPUs; address reuse (TLS objects, `struct sock`); two rings without a
common order; loss at a full ring and at every limit; state read before a sweep and
used after it; a budget shared by two threads; unknown outcomes of a request;
messages cut anywhere; processes that exit while their libraries are being attached;
and a shutdown that must close the channel before it waits for the batch task.

## 2. Modules

| Module | Models | Composes |
|---|---|---|
| `Export` | `export.rs`, `ingest.rs`, the batch task and the shutdown of `main.rs`, the delivery counters | maps to `Delivery` with `INSTANCE` |
| `Delivery` | what the export path promises for one event: the abstract specification | |
| `ExportProofs` | theorems about `Export` | extends `Export`, `SumLemmas` |
| `TlsProbes` | the TLS call probes and the two rings | |
| `MCTlsProbes` | processes, threads and goroutines for `TlsProbes` | extends `TlsProbes` |
| `ProbesProofs` | theorems about `TlsProbes` | extends `TlsProbes` |
| `ConnAttribution` | the five attribution maps | |
| `MCConnAttribution` | symmetry for `ConnAttribution` | extends `ConnAttribution` |
| `AttributionProofs` | theorems about `ConnAttribution` | extends `ConnAttribution` |
| `StreamState` | one shard of the stream state, HTTP/1 path | |
| `StreamProofs` | theorems about `StreamState` | extends `StreamState`, `SumLemmas` |
| `Http1Decoder` | `Http1Decoder::feed` byte by byte, and `handle_event` around it | the decoder that `StreamState` abstracts |
| `MCHttp1Decoder` | the messages the peers send | extends `Http1Decoder` |
| `Http2Conn` | the HTTP/2 path of the stream state and the frame parser, one connection | |
| `Http2Proofs` | theorems about `Http2Conn` | extends `Http2Conn`, `SumLemmas` |
| `ContainerResolver` | the container cache, the CRI worker and the namespace scope | |
| `ContainerProofs` | theorems about `ContainerResolver` | extends `ContainerResolver` |
| `Discovery` | the library scan, the rescan task, `AttachedLibs`, probe attachment, exec notification | |
| `DiscoveryProofs` | theorems about `Discovery` | extends `Discovery` |
| `SumLemmas` | lemmas about sums and concatenations over finite sets | |

### Export

The capture thread and the batch task are two processes. `try_send` is three steps,
split where the other thread can see a difference: `Reserve` (the compare-and-swap
succeeds), then `Enqueue`, or `QueueFull` (which gives the reservation back) and
`RefuseFull` (which counts the drop). `recv` is `Recv` and `Release`: the event
has left the channel before its bytes leave the budget. `Budget::used` is `used`,
and the gauge `EXPORT_QUEUE_BYTES` is `gauge`, which each thread stores *after* its
atomic update; the value travels in `item.gauge` and `taken.gauge`.

`Push` is all of `Batch::push`: the oversized test, the flush that makes room and
the full test, in that order, with zero, one or two payloads, sent one after the
other. An attempt ends with one of six failures or with success; `NotProcessed` is
the retry decision of `ingest.rs` (429, 503, or a connection that was never made).
The service is external: after a timeout, another 5xx or a reset it may commit the
batch later or never (`CommitLate`). `Deadline` is the shutdown timeout of `main`,
after which the runtime drops the task at an await.

`fate` is a history variable, one word per event; the refinement mapping is a
function of it.

### TlsProbes

A context is a thread or a goroutine and has a stack of open TLS calls. `Entry`
saves the pointer under the call's key, which is the thread, or the goroutine for Go
(`go_call_key_for`), in the map the API uses (NSS shares OpenSSL's). The exit program
is split where another CPU can interfere: `ExitEmit` counts the attempt and reads
generation and sequence number, `Number` stores the number plus one (two separate
memory operations in `next_seq`), then sampling, `Reserve` or `ReserveFail`, then
`Submit` or `Discard`. `Consume` reads the ring in reservation order and waits at
a busy record. `life`, `tried`, `rec.of` and `rec.nth` are history: which object a
record is really about, and the number of its attempt. `lapses` is the history of
addresses: whose element an LRU map dropped, whose object was freed without a probe (the
two ways in which the code cannot keep objects apart), or on whose object two exit
programs of one direction ran at once (`raced`). Nothing is assumed of the callers: two
contexts may be in calls on one object in the same direction, whatever the library.
`SslKey` is the process and the address. `Sampling` is on although `main.rs` sets both rates to 100: until it
does, the zero-initialised map samples everything out.

### ConnAttribution

A connection is a socket address and the number of its use. `sock` is the kernel's
truth and `bound` is the connection each object was given; the five maps are the
program's belief. Each probe is one step: a probe reads a socket or an object that
its own thread is in a call on. `Evict` is an LRU map dropping any element.

### StreamState

The code is sequential (one capture thread, a lock per shard), so a shard is one
record and every handler is an operator from states to states; concurrency is in
*what arrives when*. One address is modelled with its generations. Messages are
numbers and are split over chunks in the three ways the decoder tells apart. `Feed`
returns the *set* of outcomes: a chunk that continues the stream has one, a chunk
that does not (bytes before it are missing) has one per way its bytes may look
to the decoder, so a message can be put together across missing bytes; its `torn`
mark is history. A chunk and a queued request take one unit of memory each. What
happened to a generation is kept in `sent[g].hurt` (lost, truncated or pipelined, on
the peers' side) and `st.gone` (what the sensor itself gave up: requests, chunks,
buffers, gap marks); `Troubles` is both, and the properties say which troubles they
tolerate.

`HandleEvent` follows the order of `handle_event`: birth, sweep, connection gauge,
role, truncation, WebSocket, gap, memory, buffer limit, decoder, pairing. The
order of the first two is what `stream_silence` is about.

### Http1Decoder

One direction of a connection, either one. The wire holds bytes, of which the model
keeps what the decoder can tell: a line end, the text of a head or of a size line as
one byte and padding, body bytes. A body may hold the text of a head too (`quote`, whose
bytes are `Quoted`): the decoder sees it as any other head and reports it as a message
when it meets it where it expects one, which in `got` is message 0. `Capture` cuts off any number of them, appends them
to the buffer as `handle_event` does (gap, buffer limit) and reads the method hint of
the oldest request *once*; then `feed` runs, one action per iteration of its loop and
one operator per arm: `FeedHead`, `FeedFixed`, `FeedChunkSize`, `FeedChunkData`,
`FeedChunkCrlf`, `FeedTrailers`, `FeedPassed`. `Finish` drains the buffer and applies
the items. `BodyFraming` and `Framing` are `body_framing` and `parse_head`, as a
function of transfer encoding, content length, status and hint. `misled` (a head
was framed by another request's method) and `broken` (the decoder lost its place: the
buffer was full, the sweep dropped it in mid-message, or the framing was invalid) are
history.

`StreamState` abstracts this to whole messages in up to two parts, plus the set of
things that bytes out of context may look like; `SplitIndependent` and
`ReportedIsSent` are what justifies that.

### Http2Conn

One TLS connection whose client sends the preface (`magic`, possibly split:
`token`), after which each direction has a parser of its own. A chunk is a frame or a
piece of one; `Feed` appends it to the direction's buffer and hands on the items that
are complete, and `OnFrame` is the frame switch, with header blocks that continue in
CONTINUATION frames. `OnItem` is the match of `process_http2_event`: a request goes
to `pending`, a response to `responses`, data and trailers to whichever of the two
they belong to, and END_STREAM, a reset or a GOAWAY ends them. A chunk has a fate: it is
captured, truncated or lost, or what it holds is a frame longer than `max_frame` or a
header block over `H2_MAX_HEADER_BLOCK_BYTES` (`oversized`), or a block that HPACK
does not decode (`undecoded`); the last two break the parser of the direction. Server bytes
that arrive before the preface are held (`HoldEarly`) and replayed. They may end in a part
of a frame (`tail1`); if the rest (`tail2`) comes before the preface too, it does not look
like frames, goes to the HTTP/1 path, and the replayed direction is out of step
(`Severed`). A direction that
missed bytes has one outcome per way the next bytes may look (`Garbled`). A shard with more
than `MAX_STREAM_ENTRIES` connections drops one in the sweep: which one depends on
connections outside the model, so each sweep may `Discard` any (`Excess`, `Shed`). Request
chunks wait on the `wire` until their probe has run, so a response may be handled
before its request; a response handled late is one sent late.
`missing`, `short`, `parsed`, `refused`, `cancelled`, `silent`, `out` and `late` are
history or counters.

### ContainerResolver

Two threads: the ring buffer thread inside `resolve` and the CRI worker. The cache
and the pending set have a lock each, and a step is a section under one lock: `Hit`,
or `Miss` and `Insert`, then `RequestLookup`; `Receive`, then `UpdateFromCri` and
`Unmark`, or `MarkLookupFailed`. The cgroup index and its rescan cooldown belong to
the ring buffer thread alone and are read in `Miss`. A refused lookup is
an alternative of `RequestLookup` whatever the modelled queue holds, since other
cgroups share the channel. Times are ages that stop at the limit they are compared
with, which makes infinite behaviours finite-state. A container is its id and its
namespace at once. `WrongPids` are the cgroups for which `/proc/<pid>` may name a process
of another container, as in nested PID namespaces. `admitted` (cgroups with an event that
passed the scope) and `mistaken` (cgroups given another container's id by that
fallback) are history.

### Discovery

`main` with `--discover-libs` and no `--pid`, from the first scan to the poll loop,
and the rescan task. A file is a (device, inode); a path is a pid, since the scan
returns `/proc/<pid>/root/<path>`: it names nothing once the process is gone and may
name another file when the pid is used again. The scan reads one pid per step,
`TakeNew` looks at one path per step and attachment makes one attach call per step
(`AttachEntry`, `AttachExit` for the write and the read pair of each plan), so a
process may exit between any two. The order of the startup is the code's: attach
first, record afterwards. `Exec` is `handle_new_process` with a ring that may be full or
a tracepoint that may not be attached; `Poll` runs the callbacks, `Wake` and `Slept`
are the branch of the `select!` that waits two seconds, `Tick` the 30-second
interval. `reused` and `slipped` are history: a pid used again while its path was in
use, and a file gone before startup recorded it.

## 3. Runs

| Run | Module / cfg | Result | States |
|---|---|---|---|
| `export` | `Export` / `Export.cfg` | 6 invariants, refinement, 2 liveness properties hold | 110 thousand |
| `probes` | `MCTlsProbes` / `Probes.cfg` | 6 invariants hold | 1.8 million |
| `probes_late_close` | `MCTlsProbes` / `ProbesLateClose.cfg` | `LateCloseIsHarmless` violated | |
| `attribution` | `MCConnAttribution` / `Attribution.cfg` | 3 invariants hold | 1.1 million |
| `attribution_stale` | `MCConnAttribution` / `AttributionStale.cfg` | `NoStaleFallback` violated | |
| `stream` | `StreamState` / `Stream.cfg` | 5 invariants hold | 3.2 million |
| `stream_silence` | `StreamState` / `StreamSilence.cfg` | `NoFalseSilence` violated | |
| `http1` | `MCHttp1Decoder` / `Http1.cfg` | 3 invariants, 1 liveness property hold | 498 thousand |
| `http1_pipelined` | `MCHttp1Decoder` / `Http1Pipelined.cfg` | `PipelinedFraming` violated | |
| `http2` | `Http2Conn` / `Http2.cfg` | 4 invariants hold | 934 thousand |
| `containers` | `ContainerResolver` / `Containers.cfg` | 3 invariants, 1 liveness property hold | 279 thousand |
| `discovery` | `Discovery` / `Discovery.cfg` | 4 invariants, 1 liveness property hold | 588 thousand |

**export.** `NothingUncounted`: every event handed to `try_send` is held, was
acknowledged or is in `EVENTS_DROPPED`. `BytesExact`: the byte budget is
exactly what is queued or in transit, the byte count of the batch is its size, and
no payload exceeds the ceiling. `QueueWithinLimits`, `BatchWithinLimits`: the other
ceilings. `PipelineInOrder`: oldest first, through two
payloads of one push. `ImplementsDelivery`: each event is settled once and stored
at most once, even if the service commits late. `AcceptedIsSettled` and `TaskEnds`:
the interval flush empties the batch, and closing the senders ends the task.

**probes.** `LossIsCounted`: the counters of `producer_stats` add up, and what
is counted as submitted is what userspace gets.
`SlotsAreHeld`: a busy slot has exactly one program that will release it (a leaked
one would stop the ring). `PairedCall`: a record is about the object of the call that
returned. `GapsAreLoss`: between two records of a generation the difference of their
numbers is the number of attempts between them, in every library, while the map keeps
the element and until two exit programs of the object run at once in one direction (see
section 5). `GenerationNamesObject`: records and closes of two objects
at one address never share a generation, unless the map dropped the element or an
object was freed by a library without a free probe.

**attribution.** `ExactAttribution`: a record marked `ATTR_SSL` carries its own
object's connection or an empty tuple. `RolesAreTrue`: no role belongs to an earlier
connection at the same address.

**stream.** `CleanPairs`: a response is given to its own request, also when chunks
arrive after the close, requests expire or the sweep forgets the connection, as long as no
chunk of it was lost, truncated or dropped and no message was given up half read; with
pipelining, as long as no request was given up and the connection was not forgotten.
`NeverJoined`: nothing is joined across a truncated chunk, a full buffer, or a gap mark
that was cleared at the entry limit. `GaugesExact`,
`RequestsAccounted`: the memory counter and its ceiling, the connection gauge and the requests, with loss,
truncation, pipelining and all limits in reach. `SweptIsFresh`: whether or not the
close of a connection is ever read, neither a buffer nor a request outlives a sweep
that finds it idle for its lifetime.

**http1.** `ReportedIsSent`: over every cut, invalid framing, full buffers and sweeps, a
message of the peer is reported with its body exactly counted and previewed, in order and
once; text in a body is reported as a message only after the decoder lost its place
(section 5 says how). `SplitIndependent`: on an undamaged stream of well-formed messages exactly the
messages whose bytes were captured have been reported, whatever the cuts, and no body
byte is retained. `RetainedBounded`: an unfinished line or block is kept only up to
its limit, a body only up to its preview. `FeedReturns`: the loop ends.

**http2.** `MemoryExact`: the global memory counter is what connections, early
bytes, requests and responses hold, through every way out, within the ceiling and the
limit of streams. `RequestsAccounted`: a
parsed request waits, was reported, was cancelled by a reset or GOAWAY, was counted
as dropped, or went uncounted (`silent`), in three ways only: with a truncated chunk,
replaced by a second request on its stream, or with a connection over
`MAX_STREAM_ENTRIES`.
`WholeResponses`: on an undamaged connection a stream is reported once, with the
trailers and the body (up to the capture limit) that were sent. `AnsweredIsDone`: on
such a connection a request whose response ended is not left waiting. Undamaged
(`Unharmed`) means that no chunk was lost, truncated or refused, that no frame or header
block was over its limit, that HPACK decoded every block and that no server frame was
cut by the preface; all of these happen in the run.

**containers.** `PendingExact`: a cgroup is marked exactly while one lookup of it is
queued or running; in particular the limit of 4096 marks, whose handling would break
this, is out of reach with a channel of 1024. `ScopeFailsClosed`: only events of a
container in the scope pass, and those of a cgroup that the `/proc` fallback mistook for
another one, which the run lets happen. `BusyIsResolved`: a workload that keeps sending events,
and whose id is known, gets its namespace, after any number of refused and
failed lookups.

**discovery.** `ProbedOnce`: no entry probe without its exit probe, and a file
is probed once however often and by whichever process it is found. `SeenIsSettled`:
`take_new` records a file before it is attached and nothing retries it, so a
recorded file is probed, in hand, or counted in `PROBE_ATTACH_FAILURES`.
`NoLostWakeup`: after each exec that reached the ring a rescan starts later,
although the channel keeps one token and drops the others. `RescanCovers`: a library
that stays mapped is eventually probed or counted as a failure, also if every
notification is lost and if it was loaded late.

### What the violation runs show

- `probes_late_close`: `ssl_free_entry` bumps the generation only if the object has
  an element in `ssl_state_map`. An object freed before its first record closes
  generation 0, and its successor has generation 0 too; the late close evicts it.
- `attribution_stale`: `ktls_save_args` rewrites `sock_to_pid`, so `tcp_close`
  deletes the wrong thread's entry and the opener keeps a dead connection as
  fallback.
- `stream_silence`: `handle_event` reads the birth of a connection, then the sweep in
  the same call may forget it. Request and response get different keys, and the
  request is later reported as `no_response_observed`.
- `http1_pipelined`: the hint for HEAD and CONNECT is read once per chunk. Two
  pipelined responses in one chunk, the first to HEAD, are both framed as bodiless,
  and the body of the second is read as a head.

### Bounds

- Export: a queue of two events and four bytes, batches of two events and three
  bytes, sizes 1, 3 and 4: an event may fit, overflow the open batch, fill a batch by
  itself, exceed the batch, or exceed what is left of the budget. Four events reach
  a full queue behind a held batch. Two attempts have a first and a last.
- TlsProbes: two threads and a goroutine of one process, nesting two deep, two
  addresses, which are symmetric, and two objects (two at once, or one after the other at
  one address), calls that overlap on one object, a one-slot ring, three attempts (a gap needs two records and one loss), one dropped
  element.
- ConnAttribution: one socket address used twice after its initial use, two objects,
  two threads, one dropped element.
- StreamState: two requests and responses (a shifted pair needs two), two queued
  requests, two ticks with a lifetime of two and a sweep at each tick (so a connection may
  be swept while it is young, and when its lifetime has just passed), one chunk lost or truncated,
  limits of one to three units so that each is met, records with and without a role.
  One generation of the address, whose chunks may come after its close and bring its
  state back: every key of the shard holds the generation, so two of them share only
  the memory counter and the limits, and a second one makes the instance too large.
- Http1Decoder: two messages of every framing, right and wrong, bodies of up to two
  bytes, or the text of a head, with a preview of one, heads of up to five bytes, lines of
  up to three and a buffer of fourteen, each of which can be just too long, every cut.
- Http2Conn: three streams with room for two (so the third is refused), six chunks, of
  which one with a fault (lost, truncated, oversized, undecoded) costs three, one body
  unit, memory of four units, one report per sweep, two ticks with a lifetime of two:
  header blocks split in the request direction and frames in the response direction (both
  run the same parser), the preface and the server's SETTINGS split, trailers, resets, GOAWAY and expiry all occur in the explored
  behaviours.
- ContainerResolver: two containers (one in the scope, one not, which `/proc` may take
  for the other) and a host process, a cache that evicts from its second element, a
  lifetime of two ticks, a cooldown and a back-off of one. Behaviours are not bounded in length.
- Discovery: two libraries and the sensor's own with a limit of two, two pids, two
  processes (two that share a library, or a pid used twice), one attach call that
  fails, a one-record ring. Rescans are not bounded.

`CHECK_DEADLOCK FALSE` stands where the environment is bounded (no more calls,
messages or ticks) or the sensor stopped. `Export` has an explicit `Exited` step
instead, and `ConnAttribution` and `ContainerResolver` never run out of steps; these
check for deadlock.

Every property of a passing run has a mutant: a definition changed the way a bug in
that code would change it, after which TLC finds the property violated.

### Fairness

`export`, `http1`, `containers` and `discovery` need it.

`export`: weak fairness of `Enqueue`, `QueueFull`, `RefuseFull`:
`try_send` never waits. Of `Recv`, `Release`, `DropOversized`, `Push`: the runtime
polls a ready task, and nothing between the receipt and the push awaits. Of
`FlushTick` and `ChannelClosed`: each is a branch of a `select!` that is polled in
random order, and both stay enabled while the task selects. Of `SendStep`: the HTTP
client has a ten-second timeout, so every attempt ends. Nothing is assumed
of the traffic, the service, the signal or the deadline.

`http1`: weak fairness of `Feed` and `Finish`: `handle_event` runs to its end.

`discovery`: weak fairness of the scan, of the rescan task and of `main`: the interval
timer ticks, `send` waits only for a channel the poll loop empties, and
`ringbuf.poll` returns after 200 ms. Nothing is assumed of processes, of
notifications or of attach calls.

`containers`: weak fairness of each thread (`resolve` never waits for more than a
lock, and a CRI call ends within five seconds) and strong fairness of `Tick` (time
passes). For a busy workload, strong fairness of `Resolve` (that is what busy means;
`Tick` also lets it stay idle for less than the ten-minute lifetime), of
`RequestLookup(c, TRUE)` (the channel is not full at every one of its attempts) and
of `UpdateFromCri` (the runtime does not fail every one of its lookups). The last
three are assumptions about the environment, not about the code: without them no
resolver could promise anything.

## 4. Proofs

TLAPS proves, for every value of the constants that the named assumption of the module
allows, that these hold in every behaviour of the component's `Spec`:

| Module | Theorem | States |
|---|---|---|
| `ExportProofs` | `TypeCorrect` | `[]TypeOK`; in particular an attempt number never reaches `MaxAttempts` |
| | `NoSilentLoss` | `[]NothingUncounted` |
| | `QueueBounded`, `BatchBounded` | `[]QueueWithinLimits`, `[]BatchWithinLimits` |
| | `BytesAreExact` | `[]BytesExact` |
| | `OrderKept` | `[]PipelineInOrder` |
| | `DeliveryImplemented` | `ImplementsDelivery`: `Export` refines `Delivery` |
| `ProbesProofs` | `TypeCorrect` | `[]TypeOK` |
| | `SlotsCorrect` | `[]SlotsAreHeld` |
| | `LossCorrect` | `[]LossIsCounted` |
| | `PairingCorrect` | `[]PairedCall` |
| | `GenerationsCorrect` | `[]GenerationNamesObject` |
| | `GapsCorrect` | `[]GapsAreLoss` |
| `AttributionProofs` | `TypeCorrect` | `[]TypeOK` |
| | `AttributionIsExact` | `[]ExactAttribution` |
| | `RolesCorrect` | `[]RolesAreTrue` |
| | `FallbackIsFresh` | `[]NoStaleFallback`, if no kTLS probe is attached and no map drops an element |
| `ContainerProofs` | `TypeCorrect` | `[]TypeOK` |
| | `PendingIsExact` | `[]PendingExact` |
| | `ScopeIsClosed` | `[]ScopeFailsClosed`, whatever `/proc` names |
| `DiscoveryProofs` | `TypeCorrect` | `[]TypeOK` |
| | `WakeupIsKept` | `[]NoLostWakeup` |
| | `ProbesAreOnce` | `[]ProbedOnce` |
| | `SeenSettles` | `[]SeenIsSettled` |
| `StreamProofs` | `GaugesAreExact` | `[]GaugesExact` |
| | `RequestsAreAccounted` | `[]RequestsAccounted` |
| | `SweptStaysFresh` | `[]SweptIsFresh` |
| | `NothingIsJoined` | `[]NeverJoined` |
| | `ResponsesMatchRequests` | `[]CleanPairs` |
| `Http2Proofs` | `BooksBalance` | `[]Books`: types, memory and requests add up |
| | `MemoryIsExact` | `[]MemoryExact` |
| | `RequestsAreAccounted` | `[]RequestsAccounted` |
| | `ResponsesAreWhole` | `[]WholeResponses` |
| | `AnsweredRequestsLeave` | `[]AnsweredIsDone` |

`SumLemmas` holds what these need about sums and concatenations over finite sets.

### Assumptions

- `ExportAssumption`: limits are natural numbers, the count limits and the attempts
  positive, sizes positive.
- `ProbesAssumption`: finitely many contexts, each in one process and either a thread or
  a goroutine; addresses are positive; the ring has a slot.
- `AttributionAssumption`: the word for "no connection" is neither a socket nor a thread.
- `ResolverAssumption`: lifetimes, back-off and the channel are positive; only containers
  are in the scope, and a container has a cgroup.
- `DiscoveryAssumption`: finitely many pids, all positive; limits are natural numbers; the
  word for "no file" is not a file.
- `StreamAssumption`: limits are natural numbers and `STREAM_TTL_MS` is positive.
- `Http2Assumption`: finitely many stream ids, all positive; limits are natural numbers;
  the kinds of pieces, frames and faults are among those of the module.

TLC evaluates each of them in a run. `FallbackIsFresh` has one hypothesis more, about the
environment: the run `attribution_stale` shows that the property fails with kTLS.

### Export

`TypeOK` alone is not inductive: `Enqueue` appends `item.ev`, which is an event
only because the capture thread is past its reservation. `Shape` ties the values in
transit to the two program points, and `TypeInv == TypeOK /\ Shape` is inductive,
one step per action. `NothingUncounted` is inductive relative to it; the work is in `Push`,
which moves events between four sequences (`PushLengths`).

The ceilings need `OpenBatch`: an open batch is strictly below its event limit
(so one more event cannot exceed it) and an empty batch has zero bytes (so an event
that is not oversized fits). The queue's byte ceiling holds because only `Reserve` raises
`used`, in one atomic step guarded by `Fits`, and no release adds to it.

`BytesExact` adds up sizes of sequences that grow at one end and shrink at the other.
`QueueBytes` is inductive because the bytes in transit are in the sum: an event is
charged from `Reserve` to `Release`, wherever it is. `BatchBytes` says that the byte
counts of the batch and of each payload are those of their events.

`OrderInv` states the order of the whole pipeline at once: each place is sorted
(`EachSorted`) and everything in a place is older than everything in the places behind
it (`InLine`), and the next id is above them all. Every action is one of the `Moves` of
events from place to place, and each move keeps the order.

For the refinement, `DeliveryInv` adds what the mapping of `fate` depends on: an event is
held by some place exactly while its fate is open (`FateInv`), the capture thread is
outside `try_send` once its sender is dropped and before the deadline can pass
(`ClosedInv`), and a batch that the service may still commit was given up, is not stored
and shares no event with another such batch (`StoreInv`, which is where the retry rule of
`ingest.rs` enters: what is tried again was not processed).
Each action is then shown to have an `Effect`, which is a step of `Delivery` or a stutter.

### Probes

`Running`: an exit program in flight has a record and an open call to return from.
`SlotsInv` adds the converse to `SlotsAreHeld`: a program that has reserved has a busy
record in the ring, which the removal of the oldest one renumbers. `LossIsCounted` counts the busy records and the
programs in flight by cardinalities of sets that every step changes by at most one.

`PairedCall` needs `CallsInv`: the saved argument of a map and context, if there is one,
is that of the *last* open call of that context through that map (`LastCall`). A nested call
through one map overwrites the outer call's argument and deletes it, so the outer exit
finds nothing; that it never finds a wrong one is what the invariant says.

`SharedInv` is about the objects: an object in a call is live and is called through the
library that made it, and a running exit program is about the live object and the
direction of its call. `GenerationInv` says, for an address that has not lapsed, that every
record produced so far, in flight, in the ring or read, has a generation not beyond the
map's, the map's own only if it is about the live object, and that the generation of every
close is used up.

`GapsAreLoss` needs more (`GapsInv`). `LivesInv`: no record is about an object yet to come.
`AloneInv`: where two exit programs are in flight for one object and direction, the address
is noted in `lapses`, so that elsewhere a program is alone between `ExitEmit` and its
end. `CountersInv`: unless a program has read its number and not stored it, the
number in the map and the number of attempts run in step, and the map is ahead of every
stored number; two records of one object differ by as much in their numbers as in
their attempts. `SequenceInv`: records are read, queued and in flight in the order of
their numbers. The last two hold of the addresses that are not noted.

### Attribution

`StoredForObject`: an element of `ssl_ptr_to_conn` holds the connection of the object that
is at its address now. `RolesInv`: no map refers to a use of a socket address that has not
begun (`OfThePast`), `sock_role` is about the present use and emptied by its close
(`RoleOfSocket`), and a role stored for the present use is that use's (`RolesByUse`).
`OwnFallback`, the invariant of `FallbackIsFresh`: the fallback of a thread is an open
connection, and `sock_to_pid` names that thread, so that `tcp_close` deletes its entry. The
kTLS probes and a dropped element are what breaks it.

### Containers

`MarksInv`: the marked cgroups are exactly those the resolver is sending, the channel
holds or the worker works on, and no cgroup is there twice. `ScopeInv`: what is known of a
cgroup is its own, or the cgroup is in `mistaken`, wherever it is kept (`OwnMetadata`): in the cache, in the
copy that `resolve` holds between two locks, in the channel and with the worker.

### Discovery

`WakeupInv` adds that the rescan task does not run before `main` is in its loop. `ProbedOnce`
and `SeenIsSettled` rest on `PathsInv` (while no pid was reused, a path in hand names the
file it was read for, at each of the program points that hold paths) and on `LinksInv`:
what is still to be attached is not probed yet, what is probed is recorded, about to be
recorded, or the limit is reached, and every entry probe has its exit probe. `SettledInv`
says where a recorded file is between its recording and its attachment, and at
startup the same of a file that is yet to be recorded.

### Stream state

The handlers are operators from states to states, so the proofs are lemmas about
operators: for each, a predicate of the old and the new state (`IsForget`, `IsPush`,
`IsPair`, ...) that says what it changes, and what follows for `Books` (memory, gauge
and requests add up, up to requests on their way out of a queue), `Fresh` (nothing
is older than the last sweep allows) and `Untorn` (on a connection without the losses
`NeverJoined` names, a decoder or a buffer in the middle of a message is whole and its peer
is in the middle of the same message). `StreamInv` is their conjunction with the types of
the state and of the wire, and with `UpgradedIdle`: no HTTP message is under way on an
upgraded connection.

`CleanPairs` is not about one handler: a response gets the head of a queue, and whether
that is its own request depends on every chunk, sweep and close since the request was
read. `PairInv` adds to `StreamInv`, for a generation whose history has none of the
troubles that `CleanPairs` excludes:

- `Tracks`: the decoder of a stream is exactly where its peer is, between messages or in the
  middle of the same one, and no gap is marked;
- `Lines`: the queue of the connection that the next chunk will belong to (`NextConn`)
  holds the requests that the peers answer next, in that order; without a loss it holds
  all of them, and a generation without a birth then owes no answer (`Idle`);
- `Ages`: no request waits on a connection younger than its generation's birth, so the
  connection that a chunk opens starts with an empty queue;
- `Counts`, on the peers: a response follows its request, and a client that does not
  pipeline has one request under way;
- `Matches`: the events so far pair a request with its own response.

A sweep or a close may take any of this away only with an entry in the history (`Tidies`:
a message half read, a request unanswered, a connection forgotten), and that entry is what
the hypothesis of `CleanPairs` rules out or, for a client that does not pipeline, what does
no harm, because the queue holds at most the one request that the next response answers. A
chunk that continues its stream queues its request, takes the head or leaves the line
(`Serves`), or leaves a loss (`Hurt`).

Sums over sets are where induction is needed. `SumLemmas` does it once, along the
well-founded order of the finite subsets: the fold of the community modules exists, and
its value is the cardinality of a set (`Units`), which no longer depends on the order in
which the fold picks elements. From there on sums are changed, split and renamed by facts
about cardinalities.

### HTTP/2

Three invariants, each on top of the one before.

`Books == EnvType /\ Kept(st)` is about the state alone. `Sound` is the types, the shape of
a connection (`Good`: what it counts as buffered is what its two directions hold, and no more than
`MaxPending` streams wait or are being answered) and `Memory`: the counter equals the cardinality of
the set of units held by connections, early bytes, requests and responses. `Accounts` says
that a parsed request waits, left in a report, or is in one of three counters, one of them
for the requests that go with a discarded connection. As in
`StreamProofs`, each operator of the module has a predicate of what it changes and a
lemma that it keeps `Kept`; the frame switch, the replay of early bytes and the sweep
compose these. `Numbered` (reports are numbered from zero) makes a report differ from
every earlier one, so that the set of reports grows by one.

`WholeResponses` compares a report with what the server sent, which the state does not
know. `Peers` is the protocol side: a stream is asked for once and answered after that, no
data is counted before a response has opened, and what is left of a split chunk belongs
to the stream that is being sent. `Intact` is about a connection without damage: one
connection lives at a time (`Live`; a second one would need a second preface), a request
that waits or has left was sent once and has been handled (`Once`), and a response so far
has the body and the trailers sent so far, while a reported one is complete and the server
is done with its stream (`Matched`). `Reporting` is the conjunction of the three.

`AnsweredIsDone` says that something is *absent* from the queue, so the parsers have to be
shown never to miss a frame but in the ways `Unharmed` names. `Aligned`: the second piece of
a split block or preface follows
the first on the wire, and a parser waits for a second piece exactly when one comes next;
neither parser is broken, and before the preface at most the rest of the server's SETTINGS
is outstanding (`Settling`). `Awaits`: a request that waits is being answered once
its answer has begun, and is not answered in full, except where a reset that is on its way
will remove it; while a request is on the wire, its stream is not answered beyond an
interim response, unless the stream is in `late`. `ResetLast` keeps a reset behind the request
it cancels, and `Drained` says that after the shutdown nothing waits. `Serving` adds these
to `Reporting`.

### What the proofs changed

An attempt to prove `CleanPairs` as it was first stated failed: the run held it only
because its bounds (a lifetime of one tick and one queued request) hid that the sweep
shifts pairs when it forgets the birth of a connection with pipelined requests, and when
it drops a message half read. `CleanPairs` and the bounds of `stream` are now the
ones section 3 gives.

### Only model-checked

- Liveness under fairness and everything with `ENABLED`: `AcceptedIsSettled`, `TaskEnds`,
  `FeedReturns`, `BusyIsResolved`, `RescanCovers`. They are out of the prover's reach.
- `Http1Decoder` (`ReportedIsSent`, `SplitIndependent`, `RetainedBounded`): they say what a
  loop over bytes has computed of a wire that is a concatenation of encoded messages, which
  is an induction over the message for each arm of the loop.

## 5. Behaviours seen while modelling, without a run of their own

- The gauge `EXPORT_QUEUE_BYTES` is stored after the atomic update by two threads,
  so it may show an older value until the next operation (`export.rs:27`).
- Only 429 and 503 are retried (`ingest.rs:16`), while
  `docs/IMPLEMENTATION-PROGRESS.md:639` speaks of "429 / 5xx". The code's own comment
  agrees with the code, and the refinement depends on it.
- `next_seq` reads and stores the sequence number in two operations
  (`http_trace.bpf.c:434`). The return probes of two calls on one object may run at once
  and get one number twice, or submit in the other order: Go, NSS and kTLS take their lock
  inside the call, so the probe runs after the unlock, and nothing keeps OpenSSL callers
  from it. `GapsAreLoss` holds of an object until this happens to it.
- `SSL_set_fd` before `connect` stores an empty tuple that is marked `ATTR_SSL`
  (`http_trace.bpf.c:901`). `ExactAttribution` allows it.
- `tcp_close` of a socket the probes did not see opened, and `SSL_free`, delete the
  fallback of a thread that may serve another connection by then
  (`http_trace.bpf.c:1257`, `:949`).
- A chunk refused at the memory ceiling leaves the stream as it was, so the chunks
  around it are joined (`stream.rs:1192`); the same happens around a chunk that arrives
  while the role is unknown (`stream.rs:994`) and, since userspace never reads
  `dir_seq`, around a chunk lost in the kernel. `NeverJoined` leaves these three out.
- A truncated or refused response is discarded while its request stays at the head
  of the queue (`stream.rs:1006`), and every later response on the connection is
  given to the request before its own, although `docs/PRODUCTION-READINESS-AUDIT.md:111`
  asks that "loss never silently reassigns responses". `CleanPairs` leaves connections
  with such a loss out.
- A connection upgraded to WebSocket stays known, and counted in the gauge, for good
  when its close is lost: the sweep keeps every connection that is in `ws_connections`
  and nothing ages that set (`stream.rs:761`).
- The sweep drops the decoder of an idle stream with its buffer (`stream.rs:777`), also
  one in `UntilClose`, of which `http.rs:211` says that its bytes are "never re-parsed as
  HTTP": the rest of the body is then read as a head. Text in it such as a quoted request
  is reported as a message; the same may happen where the text begins a chunk after a
  gap (`http.rs:259`) or after invalid framing. `ReportedIsSent` allows it only there.
- A close that overtakes chunks reports an answered request as `connection_closed`,
  since the rings have no common order (`stream.rs:202`).
- With pipelining, an expired request or a birth forgotten by the sweep shifts the
  pairing as truncation does.
- HTTP/2: after loss at a frame boundary the HPACK table is out of step and headers
  may be wrong although the frames look right; `fail` (`http2.rs:351`) only catches what
  does not parse. A stream answered slowly is reported as `no_response_observed` when
  the age of its request passes the lifetime, although data is arriving. A response
  handled before its request is discarded and the request waits (`stream.rs:1413`).
  A truncated chunk drops the connection with its requests, which no counter sees
  (`stream.rs:1008`). A response refused at the memory ceiling leaves its request
  waiting, and so does one whose header block is over the cap or does not decode, which
  breaks the direction (`http2.rs:439`, `:477`, `:508`). Server bytes before the preface
  are held if they look like frames (`stream.rs:1058`), the last of which may be partial;
  its rest, if it also comes before the preface, does not look like frames and goes to the
  HTTP/1 path, so the replayed direction is out of step (`stream.rs:414`). A shard over
  `MAX_STREAM_ENTRIES` drops connections with their requests, which no counter sees
  (`stream.rs:744`). The birth that the sweep forgets (`stream_silence`) makes the rest of an
  HTTP/2 connection invisible, since the preface was read under the old key.
- Container resolver: a container that starts within the two seconds after a scan,
  and whose process `/proc` does not name, is cached without an id. Every event
  refreshes the element and nothing retries it (`container.rs:187` needs an id), so a
  busy workload stays out of the scope, although `container.rs:184` says that the retry
  is there to prevent this. `BusyIsResolved` starts from a known id.
- In nested PID namespaces `/proc/<pid>` may name the wrong process
  (`container.rs:80` says so) and is still the fallback (`container.rs:153`): a workload
  outside the scope can get the id, and so the namespace, of a container inside, and its
  events pass although `scope_allows` "fails closed". The run lets this happen, and
  `ScopeFailsClosed` says that it is the only way: without `mistaken` it is violated.
- Discovery: a file whose process exits between `take_new` and the attach is recorded,
  fails, and is not tried again although others map it (`bpf.rs:209`). Startup attaches
  first and records later, so a file whose process exits in between is attached
  again by a rescan; the second exit probe then finds no arguments and does nothing.
  Startup attaches up to `MAX_DISCOVERED_LIBS` (512) files, while `bpf.rs:193` calls
  `MAX_ATTACHED_LIBS` (256) the "upper bound on distinct TLS library files probed". A
  pid that is used again between two attach calls splits a pair over two files.
  Only OpenSSL and GnuTLS libraries are rediscovered; Go, NSS and QUIC are attached at
  startup only.
- The counter for a failed update of `ssl_state_map` is collected and never exported
  (`main.rs:150`).

## 6. Plan

Done: all modules of section 2 and their runs, and the theorems of section 4. What is
left of the code is in section 8.

Proofs left: the invariants of `Http1Decoder`. They would need its loop restated as a
recursive function over the bytes and an induction over the messages of the wire, which
the library's induction theorems do not give (see "Only model-checked").

## 7. Abstractions

- Payloads, headers, names and addresses are numbers or model values. A tuple is the
  connection it identifies.
- Memory in `StreamState` is in units: one per chunk or request.
- Clocks are ticks; TTL and throttle are small multiples.
- One TLS object address per shard in `StreamState`: shards are chosen by address
  and share only the two global counters.
- Every call returns through its exit probe.

## 8. Not modelled

- The DNS resolver (`dns.rs`): a cache and a pending set like the container resolver's,
  with a timeout for each lookup, whose answers only decorate events. Its one hazard,
  an address that stays pending, is the one `PendingExact` covers for the sibling.
- The loader: `load_attempts` is a list of at most three feature sets tried once each.
  The Go, NSS, QUIC, kTLS, LSM and static-binary probes are attached once at startup, one
  by one, after ELF parsing.
- Health and readiness: comparisons of a heartbeat and counters with thresholds.
- The block list: a read-only lookup in a map that no code in the repository fills.
- In `Discovery`: `--pid` and a run without `--discover-libs` (no rescan), the text of
  `maps` lines, `SSL_set_fd` and `SSL_free` probes. Four error paths: a failure of
  `attach_kernel_probes` ends the startup (`bpf.rs:225`), a failed `ringbuf.add` is ignored
  (`main.rs:623`), an error of `ringbuf.poll` is counted and delays the next call by up to
  a second (`main.rs:696`), and a scan that panics skips one rescan (`main.rs:612`). When nothing
  is discovered, startup attaches the list `--tls-libs` without removing duplicates
  (`main.rs:72`), so two names of one file are probed twice; the model has one name.
- In `ConnAttribution`: the early returns of `ssl_set_fd_entry` for a descriptor that is
  negative, not open or not a socket (`http_trace.bpf.c:857`), which store nothing.
- In `Http2Conn`: padding, the negotiation of `SETTINGS_MAX_FRAME_SIZE` (a frame is over
  the limit or not), what HPACK decodes to, the role `Auto` (the role is configured) and
  `MAX_H2_EARLY_CONNS`.
- In `ContainerResolver`: containers that stop, and pods without the kubelet's labels.
- In `StreamState`: HTTP/3 connections, the transaction sampler, the hold of a partial
  HTTP/2 preface (`stream.rs:1028`) and the cap on `conn_roles` (`stream.rs:890`).
- HTTP/1 header grammar, HPACK, QPACK, gRPC, MCP and WebSocket
  frames, redaction, identity, output: byte parsing without state between chunks.
- ELF and `/proc` reading, the CRI client, manifests, scripts and tests: I/O.
- `vmlinux.h`: 150 thousand lines of kernel type declarations generated by `bpftool`,
  without behaviour. Of the C program itself, `http_trace.bpf.c`, what no module stands
  for are the block list, the layout of records and the scratch map.
- Memory ordering of the atomics below sequential consistency: the budget is a single
  location, and gauges and counters are independent of each other.
