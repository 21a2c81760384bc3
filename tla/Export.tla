------------------------------- MODULE Export -------------------------------
(***************************************************************************)
(* The export path of the sensor: userspace/src/export.rs (the queue       *)
(* bounded by count and by bytes, the batch), the batch task and the       *)
(* ordered shutdown of main.rs, the retry loop of ingest.rs and the        *)
(* delivery counters of metrics.rs.                                        *)
(*                                                                         *)
(* Two threads run concurrently: the capture thread calls try_send, the    *)
(* batch task receives, batches and sends.  They share the channel, the    *)
(* byte budget (an atomic with a compare-and-swap loop) and the gauge that *)
(* reports it, so the steps of try_send and of recv are separate actions.  *)
(* The ingest service is not part of the repository: a request it answers  *)
(* with an unknown outcome may be committed later, or never.               *)
(***************************************************************************)
EXTENDS Integers, Sequences, FiniteSets, FiniteSetsExt

CONSTANTS
    MaxQueueEvents,  \* capacity of the channel (EXPORT_QUEUE_EVENTS)
    MaxQueueBytes,   \* --max-queue-bytes
    MaxBatchEvents,  \* --batch-size
    MaxBatchBytes,   \* --max-batch-bytes
    Sizes,           \* sizes approx_bytes may return
    MaxAttempts,     \* MAX_ATTEMPTS of ingest.rs
    MaxOffers        \* bound: events the capture thread hands to try_send

ASSUME ExportAssumption ==
    /\ MaxQueueEvents \in Nat \ {0}
    /\ MaxQueueBytes \in Nat
    /\ MaxBatchEvents \in Nat \ {0}
    /\ MaxBatchBytes \in Nat
    /\ Sizes \subseteq Nat \ {0}
    /\ MaxAttempts \in Nat \ {0}
    /\ MaxOffers \in Nat

VARIABLES
    phase,        \* how far the ordered shutdown is
    senders,      \* live clones of ExportSender
    offered,      \* calls of try_send so far
    producer,     \* where the capture thread is inside try_send
    item,         \* the event it is queueing and the gauge value it will store
    used,         \* Budget.used
    gauge,        \* EXPORT_QUEUE_BYTES
    queue,        \* the channel
    task,         \* where the batch task is
    taken,        \* the event recv returned and the gauge value it will store
    batch,        \* Batch.events
    batchBytes,   \* Batch.bytes
    sending,      \* the payload handed to send_batch_with_client
    afterwards,   \* the second payload of the same push, if any
    attempt,      \* the attempt loop of try_send_batch
    sent,         \* EVENTS_SENT
    lost,         \* EVENTS_LOST_SEND
    dropped,      \* EVENTS_DROPPED, the share of the export path
    failures,     \* CONSECUTIVE_SEND_FAILURES
    fate,         \* what became of each event (history)
    unsettled,    \* requests the service may still commit (external)
    stored        \* how often the service stored each event (external)

prodVars   == <<phase, senders, offered, producer, item>>
queueVars  == <<used, gauge, queue>>
batchVars  == <<taken, batch, batchBytes>>
sendVars   == <<sending, afterwards, attempt>>
countVars  == <<sent, lost, dropped, failures, fate>>
serverVars == <<unsettled, stored>>
vars == <<prodVars, queueVars, task, batchVars, sendVars, countVars, serverVars>>

Ids == 1..MaxOffers
Event == [id : Ids, size : Sizes]
None == [id |-> 0, size |-> 0]
EventIds(s) == {s[i].id : i \in DOMAIN s}

(* The clones of ExportSender: the two ring-buffer callbacks and main.     *)
Clones == {"events", "close", "main"}

Init ==
    /\ phase = "polling"
    /\ senders = Clones
    /\ offered = 0
    /\ producer = "idle"
    /\ item = [ev |-> None, gauge |-> 0]
    /\ used = 0
    /\ gauge = 0
    /\ queue = <<>>
    /\ task = "select"
    /\ taken = [ev |-> None, gauge |-> 0]
    /\ batch = <<>>
    /\ batchBytes = 0
    /\ sending = <<>>
    /\ afterwards = <<>>
    /\ attempt = 0
    /\ sent = 0
    /\ lost = 0
    /\ dropped = 0
    /\ failures = 0
    /\ fate = [i \in Ids |-> "unseen"]
    /\ unsettled = {}
    /\ stored = [i \in Ids |-> 0]

-----------------------------------------------------------------------------
(* The capture thread: ExportSender::try_send.                             *)

(* Mutant: the budget is compared before the event is added. *)
Fits_BeforeAdding(size) == used <= MaxQueueBytes

(* Budget::reserve *)
Fits(size) == used + size <= MaxQueueBytes

(* Mutant: the reservation is never given back. *)
Freed_Leak(size) == used

(* Budget::release *)
Freed(size) == used - size

(* The call reserves the event's bytes before it queues the event.         *)
Reserve(size) ==
    LET ev == [id |-> offered + 1, size |-> size] IN
    /\ producer = "idle"
    /\ phase # "closed"
    /\ offered < MaxOffers
    /\ Fits(size)
    /\ offered' = offered + 1
    /\ producer' = "reserved"
    /\ item' = [ev |-> ev, gauge |-> used + size]
    /\ used' = used + size
    /\ fate' = [fate EXCEPT ![ev.id] = "offered"]
    /\ UNCHANGED <<phase, senders, gauge, queue, task, batchVars, sendVars,
                   sent, lost, dropped, failures, serverVars>>

(* No room in the byte budget: the event is dropped and counted.           *)
RefuseBytes(size) ==
    /\ producer = "idle"
    /\ phase # "closed"
    /\ offered < MaxOffers
    /\ ~Fits(size)
    /\ offered' = offered + 1
    /\ dropped' = dropped + 1
    /\ fate' = [fate EXCEPT ![offered + 1] = "dropped"]
    /\ UNCHANGED <<phase, senders, producer, item, queueVars, task, batchVars,
                   sendVars, sent, lost, failures, serverVars>>

(* The gauge store that ends reserve, then the channel accepts the event.  *)
Enqueue ==
    /\ producer = "reserved"
    /\ Len(queue) < MaxQueueEvents
    /\ gauge' = item.gauge
    /\ queue' = Append(queue, item.ev)
    /\ producer' = "idle"
    /\ item' = [ev |-> None, gauge |-> 0]
    /\ fate' = [fate EXCEPT ![item.ev.id] = "accepted"]
    /\ UNCHANGED <<phase, senders, offered, used, task, batchVars, sendVars,
                   sent, lost, dropped, failures, serverVars>>

(* The gauge store that ends reserve; the channel is full, the reservation *)
(* is given back.                                                          *)
QueueFull ==
    /\ producer = "reserved"
    /\ Len(queue) >= MaxQueueEvents
    /\ gauge' = item.gauge
    /\ used' = Freed(item.ev.size)
    /\ item' = [item EXCEPT !.gauge = Freed(item.ev.size)]
    /\ producer' = "refused"
    /\ UNCHANGED <<phase, senders, offered, queue, task, batchVars, sendVars,
                   countVars, serverVars>>

(* Mutant: a full channel drops the event without counting it. *)
RefuseFull_Uncounted ==
    /\ producer = "refused"
    /\ gauge' = item.gauge
    /\ fate' = [fate EXCEPT ![item.ev.id] = "dropped"]
    /\ producer' = "idle"
    /\ item' = [ev |-> None, gauge |-> 0]
    /\ UNCHANGED <<phase, senders, offered, used, queue, task, batchVars,
                   sendVars, sent, lost, dropped, failures, serverVars>>

(* The gauge store that ends release, then the drop is counted.            *)
RefuseFull ==
    /\ producer = "refused"
    /\ gauge' = item.gauge
    /\ dropped' = dropped + 1
    /\ fate' = [fate EXCEPT ![item.ev.id] = "dropped"]
    /\ producer' = "idle"
    /\ item' = [ev |-> None, gauge |-> 0]
    /\ UNCHANGED <<phase, senders, offered, used, queue, task, batchVars, sendVars,
                   sent, lost, failures, serverVars>>

(* Mutant: the ring's callbacks keep their senders alive. *)
DropRingbuf_KeepsSenders ==
    /\ producer = "idle"
    /\ phase = "polling"
    /\ phase' = "draining"
    /\ UNCHANGED <<senders, offered, producer, item, queueVars, task, batchVars,
                   sendVars, countVars, serverVars>>

(* Ordered shutdown: drop(ringbuf) releases the callbacks' senders ...     *)
DropRingbuf ==
    /\ producer = "idle"
    /\ phase = "polling"
    /\ phase' = "draining"
    /\ senders' = senders \ {"events", "close"}
    /\ UNCHANGED <<offered, producer, item, queueVars, task, batchVars,
                   sendVars, countVars, serverVars>>

(* ... and drop(tx), after the incomplete transactions were queued, the    *)
(* last one.                                                               *)
DropTx ==
    /\ producer = "idle"
    /\ phase = "draining"
    /\ phase' = "closed"
    /\ senders' = senders \ {"main"}
    /\ UNCHANGED <<offered, producer, item, queueVars, task, batchVars,
                   sendVars, countVars, serverVars>>

-----------------------------------------------------------------------------
(* The batch task: ExportReceiver::recv and Batch::push.                   *)

Recv ==
    /\ task = "select"
    /\ queue # <<>>
    /\ taken' = [ev |-> Head(queue), gauge |-> 0]
    /\ queue' = Tail(queue)
    /\ task' = "popped"
    /\ UNCHANGED <<prodVars, used, gauge, batch, batchBytes, sendVars,
                   countVars, serverVars>>

(* Budget::release; the gauge store is the first thing the next step does. *)
Release ==
    /\ task = "popped"
    /\ used' = Freed(taken.ev.size)
    /\ taken' = [taken EXCEPT !.gauge = Freed(taken.ev.size)]
    /\ task' = "released"
    /\ UNCHANGED <<prodVars, gauge, queue, batch, batchBytes, sendVars,
                   countVars, serverVars>>

(* An event larger than the whole batch budget is dropped and counted.     *)
Oversized(ev) == ev.size > MaxBatchBytes

DropOversized ==
    /\ task = "released"
    /\ Oversized(taken.ev)
    /\ gauge' = taken.gauge
    /\ dropped' = dropped + 1
    /\ fate' = [fate EXCEPT ![taken.ev.id] = "dropped"]
    /\ taken' = [ev |-> None, gauge |-> 0]
    /\ task' = "select"
    /\ UNCHANGED <<prodVars, used, queue, batch, batchBytes, sendVars,
                   sent, lost, failures, serverVars>>

(* Mutant: the size of the event is left out. *)
Overflows_WithoutEvent(ev) == batch # <<>> /\ batchBytes > MaxBatchBytes

(* The event would overflow the batch, so the batch is flushed first.      *)
Overflows(ev) == batch # <<>> /\ batchBytes + ev.size > MaxBatchBytes

(* Mutant: one event too many. *)
Full_OffByOne(events, bytes) ==
    Len(events) > MaxBatchEvents \/ bytes >= MaxBatchBytes

(* The batch after the event joined it is ready to be sent.                *)
Full(events, bytes) == Len(events) >= MaxBatchEvents \/ bytes >= MaxBatchBytes

(* Mutant: the newest payload goes first. *)
FirstPayload_Newest(flush, full, events) ==
    IF full THEN events ELSE IF flush THEN batch ELSE <<>>

(* The payloads push returns, oldest first.                                *)
FirstPayload(flush, full, events) ==
    IF flush THEN batch ELSE IF full THEN events ELSE <<>>
SecondPayload(flush, full, events) == IF flush /\ full THEN events ELSE <<>>

(* Batch::push: the payloads it returns, oldest first, are sent one by one *)
(* before the task selects again.                                          *)
Push ==
    LET ev     == taken.ev
        flush  == Overflows(ev)
        events == IF flush THEN <<ev>> ELSE Append(batch, ev)
        bytes  == IF flush THEN ev.size ELSE batchBytes + ev.size
        full   == Full(events, bytes)
    IN
    /\ task = "released"
    /\ ~Oversized(ev)
    /\ gauge' = taken.gauge
    /\ batch' = IF full THEN <<>> ELSE events
    /\ batchBytes' = IF full THEN 0 ELSE bytes
    /\ sending' = FirstPayload(flush, full, events)
    /\ afterwards' = SecondPayload(flush, full, events)
    /\ task' = IF flush \/ full THEN "send" ELSE "select"
    /\ taken' = [ev |-> None, gauge |-> 0]
    /\ UNCHANGED <<prodVars, used, queue, attempt, countVars, serverVars>>

(* Mutant: no interval flush. *)
FlushTick_Never == FALSE

(* The one-second interval flushes a batch that is not empty.              *)
FlushTick ==
    /\ task = "select"
    /\ batch # <<>>
    /\ sending' = batch
    /\ batch' = <<>>
    /\ batchBytes' = 0
    /\ task' = "send"
    /\ UNCHANGED <<prodVars, queueVars, taken, afterwards, attempt, countVars,
                   serverVars>>

(* recv returns None: every sender is gone and the queue is empty.  What   *)
(* is left is flushed before the task ends.                                *)
ChannelClosed ==
    /\ task = "select"
    /\ queue = <<>>
    /\ senders = {}
    /\ sending' = batch
    /\ batch' = <<>>
    /\ batchBytes' = 0
    /\ task' = IF batch = <<>> THEN "done" ELSE "final"
    /\ UNCHANGED <<prodVars, queueVars, taken, afterwards, attempt, countVars,
                   serverVars>>

-----------------------------------------------------------------------------
(* send_batch_with_client and try_send_batch: one action per answer.       *)

(* What one attempt can end with: a success status; 429 or 503; a          *)
(* connection that was never established; a timeout after the body was     *)
(* sent; another 5xx; another 4xx; a connection reset in mid-request.      *)
Failures == {"refused", "connect", "timeout", "server_error", "rejected", "reset"}

(* Mutant: an unknown outcome is taken for a refusal. *)
NotProcessed_Timeout(outcome) == outcome \in {"refused", "connect", "timeout"}

(* The service certainly did not process the request.                      *)
NotProcessed(outcome) == outcome \in {"refused", "connect"}

(* The service itself: after these answers it may still commit the batch.  *)
MayCommit(outcome) == outcome \in {"timeout", "server_error", "reset"}

Sending == task \in {"send", "final"} /\ sending # <<>>

(* The next payload of the same push, or back to the loop.                 *)
NextPayload ==
    /\ sending' = afterwards
    /\ afterwards' = <<>>
    /\ attempt' = 0
    /\ task' = IF afterwards # <<>> THEN task
               ELSE IF task = "final" THEN "done" ELSE "select"

Outcome(f) == [i \in Ids |-> IF i \in EventIds(sending) THEN f ELSE fate[i]]

AttemptOk ==
    /\ Sending
    /\ sent' = sent + Len(sending)
    /\ failures' = 0
    /\ fate' = Outcome("sent")
    /\ stored' = [i \in Ids |-> IF i \in EventIds(sending) THEN stored[i] + 1
                                ELSE stored[i]]
    /\ NextPayload
    /\ UNCHANGED <<prodVars, queueVars, batchVars, lost, dropped, unsettled>>

(* What the service may still do with a request it did not acknowledge.    *)
Unacknowledged(outcome) ==
    unsettled' = IF MayCommit(outcome)
                 THEN unsettled \cup {[try |-> attempt, ids |-> EventIds(sending)]}
                 ELSE unsettled

(* Mutant: the attempts are not limited. *)
Resend_NoLimit(outcome) == NotProcessed(outcome)

(* The payload is sent again: after a refusal, within the attempt limit.   *)
Resend(outcome) == NotProcessed(outcome) /\ attempt + 1 < MaxAttempts

AttemptRetry(outcome) ==
    /\ Sending
    /\ Resend(outcome)
    /\ attempt' = attempt + 1
    /\ Unacknowledged(outcome)
    /\ UNCHANGED <<prodVars, queueVars, task, batchVars, sending, afterwards,
                   countVars, stored>>

(* The batch is given up and its events are counted as lost and dropped.   *)
AttemptFail(outcome) ==
    /\ Sending
    /\ ~Resend(outcome)
    /\ lost' = lost + Len(sending)
    /\ dropped' = dropped + Len(sending)
    /\ failures' = failures + 1
    /\ fate' = Outcome("lost")
    /\ Unacknowledged(outcome)
    /\ NextPayload
    /\ UNCHANGED <<prodVars, queueVars, batchVars, sent, stored>>

(* The service commits a request it never acknowledged.                    *)
CommitLate ==
    \E r \in unsettled :
        /\ unsettled' = unsettled \ {r}
        /\ stored' = [i \in Ids |-> IF i \in r.ids THEN stored[i] + 1 ELSE stored[i]]
        /\ UNCHANGED <<prodVars, queueVars, task, batchVars, sendVars, countVars>>

(* The shutdown deadline passes: main returns and the runtime drops the    *)
(* task at an await.  A request on the wire may still be committed.        *)
Deadline ==
    /\ phase = "closed"
    /\ task \in {"select", "send", "final"}
    /\ task' = "killed"
    /\ unsettled' = IF sending = <<>> THEN unsettled
                    ELSE unsettled \cup {[try |-> attempt, ids |-> EventIds(sending)]}
    /\ UNCHANGED <<prodVars, queueVars, batchVars, sendVars, countVars, stored>>

(* The process is gone.                                                    *)
Exited == task \in {"done", "killed"} /\ UNCHANGED vars

-----------------------------------------------------------------------------
CaptureStep ==
    \/ \E size \in Sizes : Reserve(size) \/ RefuseBytes(size)
    \/ Enqueue \/ QueueFull \/ RefuseFull
    \/ DropRingbuf \/ DropTx

SendStep ==
    \/ AttemptOk
    \/ \E outcome \in Failures : AttemptRetry(outcome) \/ AttemptFail(outcome)

TaskStep ==
    \/ Recv \/ Release \/ DropOversized \/ Push
    \/ FlushTick \/ ChannelClosed
    \/ SendStep

Next == CaptureStep \/ TaskStep \/ CommitLate \/ Deadline \/ Exited

(* The runtime polls a ready task, the select! picks among ready branches  *)
(* at random, and the client's 10 s timeout ends every attempt; try_send   *)
(* never waits.  Nothing makes events arrive, a signal come, the deadline  *)
(* pass or the service commit late.                                        *)
Fairness ==
    /\ WF_vars(Enqueue \/ QueueFull \/ RefuseFull)
    /\ WF_vars(Recv \/ Release \/ DropOversized \/ Push)
    /\ WF_vars(FlushTick)
    /\ WF_vars(ChannelClosed)
    /\ WF_vars(SendStep)

Spec == Init /\ [][Next]_vars
FairSpec == Spec /\ Fairness

-----------------------------------------------------------------------------
(* Type correctness of the queue, the batch and the counters.              *)
TypeOK ==
    /\ phase \in {"polling", "draining", "closed"}
    /\ senders \subseteq Clones
    /\ offered \in 0..MaxOffers
    /\ producer \in {"idle", "reserved", "refused"}
    /\ item \in [ev : Event \cup {None}, gauge : Int]
    /\ used \in Int
    /\ gauge \in Int
    /\ queue \in Seq(Event)
    /\ task \in {"select", "popped", "released", "send", "final", "done", "killed"}
    /\ taken \in [ev : Event \cup {None}, gauge : Int]
    /\ batch \in Seq(Event)
    /\ batchBytes \in Nat
    /\ sending \in Seq(Event)
    /\ afterwards \in Seq(Event)
    /\ attempt \in 0..(MaxAttempts - 1)
    /\ sent \in Nat
    /\ lost \in Nat
    /\ dropped \in Nat
    /\ failures \in Nat
    /\ fate \in [Ids -> {"unseen", "offered", "accepted", "sent", "lost", "dropped"}]
    /\ \A r \in unsettled : r.ids \subseteq Ids
    /\ stored \in [Ids -> Nat]

(* Events the sensor still holds.                                          *)
InPipeline ==
      (IF producer = "idle" THEN 0 ELSE 1)
    + Len(queue)
    + (IF taken.ev = None THEN 0 ELSE 1)
    + Len(batch) + Len(sending) + Len(afterwards)

(* export.rs, ingest.rs, metrics.rs: every event handed to try_send is     *)
(* still held, was acknowledged, or was counted in EVENTS_DROPPED: there   *)
(* is no silent loss on any path, refused, oversized, failed or shut down. *)
NothingUncounted == offered = InPipeline + sent + dropped

(* export.rs, "A batch never holds more than its event count or byte       *)
(* limit": neither the open batch nor a payload handed to the sender.      *)
BatchWithinLimits ==
    /\ batchBytes <= MaxBatchBytes
    /\ \A b \in {batch, sending, afterwards} : Len(b) <= MaxBatchEvents

(* export.rs, the queue's two bounds hold at every instant, also between   *)
(* the reservation and the send and between the receipt and the release.   *)
QueueWithinLimits ==
    /\ used <= MaxQueueBytes
    /\ Len(queue) <= MaxQueueEvents

(* What approx_bytes says of some events together.                         *)
Bytes(events) ==
    SumFunctionOnSet([i \in DOMAIN events |-> events[i].size], DOMAIN events)

(* export.rs, Budget and Batch: the bytes charged to the queue are exactly *)
(* those of the queued events, of the event being queued and of the event  *)
(* just received, so no interleaving of the two threads leaks a            *)
(* reservation; the bytes counted for the open batch are its bytes; and    *)
(* `max_bytes` is a hard ceiling for what is handed to the sender.         *)
BytesExact ==
    /\ used = Bytes(queue)
              + (IF producer = "reserved" THEN item.ev.size ELSE 0)
              + (IF task = "popped" THEN taken.ev.size ELSE 0)
    /\ batchBytes = Bytes(batch)
    /\ \A b \in {batch, sending, afterwards} : Bytes(b) <= MaxBatchBytes

(* The events inside the sensor, oldest first.                             *)
One(ev) == IF ev = None THEN <<>> ELSE <<ev>>
Sorted(s) == \A i, j \in 1..Len(s) : i < j => s[i].id < s[j].id
Before(s, t) == \A i \in 1..Len(s), j \in 1..Len(t) : s[i].id < t[j].id
Older(s, later) == Sorted(s) /\ \A t \in later : Before(s, t)

(* export.rs, "oldest first": batching, flushing and refusals never        *)
(* reorder or duplicate an event on its way from try_send to the service.  *)
PipelineInOrder ==
    /\ Older(sending, {afterwards, batch, One(taken.ev), queue, One(item.ev)})
    /\ Older(afterwards, {batch, One(taken.ev), queue, One(item.ev)})
    /\ Older(batch, {One(taken.ev), queue, One(item.ev)})
    /\ Before(One(taken.ev), queue) /\ Before(One(taken.ev), One(item.ev))
    /\ Older(queue, {One(item.ev)})

(* main.rs: every queued event is acknowledged or given up, unless the     *)
(* shutdown deadline cuts the task off.                                    *)
AcceptedIsSettled ==
    \A i \in Ids : fate[i] = "accepted" ~> (fate[i] # "accepted" \/ task = "killed")

(* main.rs, the ordered shutdown: once the callbacks' senders and main's   *)
(* are gone the batch task drains the queue and ends.                      *)
TaskEnds == (phase = "closed") ~> (task \in {"done", "killed"})

-----------------------------------------------------------------------------
(* The promise of Delivery: an event is held from its reservation until    *)
(* its fate is known, and the process stops when the deadline kills it.    *)
StatusOf(f) == IF f \in {"offered", "accepted"} THEN "held" ELSE f

Abstract == INSTANCE Delivery WITH
    Ids <- Ids,
    status <- [i \in Ids |-> StatusOf(fate[i])],
    stopped <- (task = "killed"),
    stored <- stored

(* export.rs, ingest.rs, "A batch is resent only when the server certainly *)
(* did not process it": the queue, the batch and the attempt loop          *)
(* implement Delivery, each event settled once and stored at most once,    *)
(* whatever the service commits late and however attempts, timeouts and    *)
(* the shutdown interleave.                                                *)
ImplementsDelivery == Abstract!Spec

=============================================================================
