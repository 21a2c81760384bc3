---------------------------- MODULE ExportProofs ----------------------------
(***************************************************************************)
(* Proofs about Export, for every queue, batch and attempt limit and every *)
(* set of sizes.                                                           *)
(***************************************************************************)
EXTENDS Export, SumLemmas, SequenceTheorems, TLAPS

(* What the program points say of the values in transit.                   *)
Shape ==
    /\ producer = "idle" <=> item.ev = None
    /\ task \in {"popped", "released"} <=> taken.ev # None
    /\ task \in {"send", "final"} => sending # <<>>
    /\ task \in {"select", "popped", "released", "done"} =>
           sending = <<>> /\ afterwards = <<>>

TypeInv == TypeOK /\ Shape

-----------------------------------------------------------------------------
(* None is told apart from every event by its id.                          *)
LEMMA NoneIsNoEvent == None \notin Event
  BY DEF None, Event, Ids

(* The ids of the events of a sequence are ids.                            *)
LEMMA EventIdsType ==
  ASSUME NEW s \in Seq(Event)
  PROVE  EventIds(s) \subseteq Ids
  <1>1. ASSUME NEW i \in DOMAIN s PROVE s[i].id \in Ids
    <2>1. i \in 1..Len(s)
      BY LenProperties
    <2>2. s[i] \in Event
      BY <2>1, ElementOfSeq
    <2> QED
      BY <2>2 DEF Event
  <1> QED
    BY <1>1 DEF EventIds

(* The event the capture thread is queueing, the one the task received.    *)
LEMMA ItemInTransit ==
  ASSUME TypeInv, producer # "idle"
  PROVE  item.ev \in Event /\ item.ev.size \in Nat /\ item.ev.id \in Ids
  BY ExportAssumption DEF TypeInv, TypeOK, Shape, Event

(* The event ExportReceiver::recv took off the channel is an event.        *)
LEMMA TakenInTransit ==
  ASSUME TypeInv, task \in {"popped", "released"}
  PROVE  taken.ev \in Event /\ taken.ev.size \in Nat /\ taken.ev.id \in Ids
  BY ExportAssumption DEF TypeInv, TypeOK, Shape, Event

(* The value of item and of taken when no event is in transit.             *)
LEMMA NothingInTransit ==
  /\ [ev |-> None, gauge |-> 0] \in [ev : Event \cup {None}, gauge : Int]
  /\ [ev |-> None, gauge |-> 0].ev = None
  OBVIOUS

(* What the two ways of finishing a payload share.                         *)
LEMMA NextPayloadType ==
  ASSUME TypeInv, Sending, NextPayload
  PROVE  /\ sending' \in Seq(Event)
         /\ afterwards' \in Seq(Event)
         /\ attempt' \in 0..(MaxAttempts - 1)
         /\ task' \in {"select", "send", "final", "done"}
         /\ task' \in {"send", "final"} => sending' # <<>>
         /\ task' \in {"select", "done"} => sending' = <<>> /\ afterwards' = <<>>
  <1>1. <<>> \in Seq(Event)
    OBVIOUS
  <1> QED
    BY <1>1, ExportAssumption DEF TypeInv, TypeOK, Shape, Sending, NextPayload

(* Batch::push leaves a sequence of events in every place.                 *)
LEMMA PushType ==
  ASSUME TypeInv, Push
  PROVE  /\ batch' \in Seq(Event)
         /\ batchBytes' \in Nat
         /\ sending' \in Seq(Event)
         /\ afterwards' \in Seq(Event)
         /\ task' \in {"select", "send"}
         /\ task' = "send" => sending' # <<>>
         /\ task' = "select" => sending' = <<>> /\ afterwards' = <<>>
  <1> DEFINE ev == taken.ev
             flush == Overflows(ev)
             events == IF flush THEN <<ev>> ELSE Append(batch, ev)
             bytes == IF flush THEN ev.size ELSE batchBytes + ev.size
             full == Full(events, bytes)
  <1>1. ev \in Event
    BY DEF TypeInv, TypeOK, Shape, Push
  <1>2. ev.size \in Nat
    BY <1>1, ExportAssumption DEF Event
  <1>3. events \in Seq(Event) /\ events # <<>>
    <2>1. Append(batch, ev) \in Seq(Event) /\ Append(batch, ev) # <<>>
      <3>1. batch \in Seq(Event)
        BY DEF TypeInv, TypeOK
      <3> QED
        BY <1>1, <3>1, AppendProperties
    <2>2. <<ev>> \in Seq(Event) /\ <<ev>> # <<>>
      BY <1>1
    <2> QED
      BY <2>1, <2>2
  <1>4. bytes \in Nat
    BY <1>2 DEF TypeInv, TypeOK
  <1>5. /\ batch' = IF full THEN <<>> ELSE events
        /\ batchBytes' = IF full THEN 0 ELSE bytes
        /\ sending' = FirstPayload(flush, full, events)
        /\ afterwards' = SecondPayload(flush, full, events)
        /\ task' = IF flush \/ full THEN "send" ELSE "select"
    BY DEF Push
  <1>6. flush => batch # <<>>
    BY DEF Overflows
  <1>7. batch \in Seq(Event) /\ <<>> \in Seq(Event)
    BY DEF TypeInv, TypeOK
  <1> HIDE DEF flush, events, bytes, full
  <1> QED
    BY <1>3, <1>4, <1>5, <1>6, <1>7 DEF FirstPayload, SecondPayload

-----------------------------------------------------------------------------
(* The queue, the batch and the counters keep their types, and an event in *)
(* transit is where the two program counters say it is.                    *)
LEMMA TypeStep == TypeInv /\ [Next]_vars => TypeInv'
  <1> SUFFICES ASSUME TypeInv, [Next]_vars PROVE TypeInv'
    OBVIOUS
  <1> USE ExportAssumption, NoneIsNoEvent
  <1>1. ASSUME NEW size \in Sizes, Reserve(size) PROVE TypeInv'
    <2> DEFINE new == [id |-> offered + 1, size |-> size]
    <2>1. new \in Event /\ new.id \in Ids /\ used + size \in Int
      BY <1>1 DEF TypeInv, TypeOK, Reserve, Event, Ids
    <2>2. /\ item' = [ev |-> new, gauge |-> used + size]
          /\ fate' = [fate EXCEPT ![new.id] = "offered"]
      BY <1>1 DEF Reserve
    <2>3. item' \in [ev : Event \cup {None}, gauge : Int] /\ item'.ev # None
      BY <2>1, <2>2
    <2>4. fate' \in [Ids -> {"unseen", "offered", "accepted", "sent", "lost", "dropped"}]
      BY <2>1, <2>2 DEF TypeInv, TypeOK
    <2> HIDE DEF new
    <2> QED
      BY <1>1, <2>1, <2>3, <2>4
      DEF TypeInv, TypeOK, Shape, Reserve, batchVars, sendVars, serverVars
  <1>2. ASSUME NEW size \in Sizes, RefuseBytes(size) PROVE TypeInv'
    BY <1>2 DEF TypeInv, TypeOK, Shape, RefuseBytes, Ids, queueVars, batchVars, sendVars, serverVars
  <1>3. CASE Enqueue
    <2>1. Append(queue, item.ev) \in Seq(Event) /\ item.gauge \in Int
      BY <1>3, ItemInTransit, AppendProperties DEF Enqueue, TypeInv, TypeOK
    <2>2. fate' \in [Ids -> {"unseen", "offered", "accepted", "sent", "lost", "dropped"}]
      BY <1>3 DEF Enqueue, TypeInv, TypeOK
    <2> QED
      BY <1>3, <2>1, <2>2, NothingInTransit
      DEF TypeInv, TypeOK, Shape, Enqueue, batchVars, sendVars, serverVars
  <1>4. CASE QueueFull
    <2>1. Freed(item.ev.size) \in Int
      <3>1. used \in Int /\ item.ev.size \in Nat
        BY <1>4, ItemInTransit DEF QueueFull, TypeInv, TypeOK
      <3> QED
        BY <3>1 DEF Freed
    <2>2. item' \in [ev : Event \cup {None}, gauge : Int] /\ item'.ev = item.ev
      BY <1>4, <2>1 DEF QueueFull, TypeInv, TypeOK
    <2> QED
      BY <1>4, <2>1, <2>2
      DEF TypeInv, TypeOK, Shape, QueueFull, batchVars, sendVars, countVars, serverVars
  <1>5. CASE RefuseFull
    <2>1. item.gauge \in Int
      BY DEF TypeInv, TypeOK
    <2>2. fate' \in [Ids -> {"unseen", "offered", "accepted", "sent", "lost", "dropped"}]
      BY <1>5 DEF RefuseFull, TypeInv, TypeOK
    <2> QED
      BY <1>5, <2>1, <2>2, NothingInTransit
      DEF TypeInv, TypeOK, Shape, RefuseFull, batchVars, sendVars, serverVars
  <1>6. CASE DropRingbuf
    BY <1>6 DEF TypeInv, TypeOK, Shape, DropRingbuf, queueVars, batchVars, sendVars, countVars, serverVars
  <1>7. CASE DropTx
    BY <1>7 DEF TypeInv, TypeOK, Shape, DropTx, queueVars, batchVars, sendVars, countVars, serverVars
  <1>8. CASE Recv
    <2>1. Head(queue) \in Event /\ Tail(queue) \in Seq(Event)
      BY <1>8, HeadTailProperties DEF Recv, TypeInv, TypeOK
    <2> QED
      BY <1>8, <2>1 DEF TypeInv, TypeOK, Shape, Recv, prodVars, sendVars, countVars, serverVars
  <1>9. CASE Release
    <2>1. Freed(taken.ev.size) \in Int
      <3>1. used \in Int /\ taken.ev.size \in Nat
        BY <1>9, TakenInTransit DEF Release, TypeInv, TypeOK
      <3> QED
        BY <3>1 DEF Freed
    <2>2. taken' \in [ev : Event \cup {None}, gauge : Int] /\ taken'.ev = taken.ev
      BY <1>9, <2>1 DEF Release, TypeInv, TypeOK
    <2> QED
      BY <1>9, <2>1, <2>2
      DEF TypeInv, TypeOK, Shape, Release, prodVars, sendVars, countVars, serverVars
  <1>10. CASE DropOversized
    <2>1. taken.gauge \in Int
      BY DEF TypeInv, TypeOK
    <2>2. fate' \in [Ids -> {"unseen", "offered", "accepted", "sent", "lost", "dropped"}]
      BY <1>10 DEF DropOversized, TypeInv, TypeOK
    <2> QED
      BY <1>10, <2>1, <2>2, NothingInTransit
      DEF TypeInv, TypeOK, Shape, DropOversized, prodVars, sendVars, serverVars
  <1>11. CASE Push
    BY <1>11, PushType DEF TypeInv, TypeOK, Shape, Push, prodVars, countVars, serverVars
  <1>12. CASE FlushTick
    BY <1>12 DEF TypeInv, TypeOK, Shape, FlushTick, prodVars, queueVars, countVars, serverVars
  <1>13. CASE ChannelClosed
    BY <1>13 DEF TypeInv, TypeOK, Shape, ChannelClosed, prodVars, queueVars, countVars, serverVars
  <1>14. CASE AttemptOk
    <2>1. Len(sending) \in Nat
      BY LenProperties DEF TypeInv, TypeOK
    <2>2. Sending /\ NextPayload
      BY <1>14 DEF AttemptOk
    <2> QED
      BY <1>14, <2>1, <2>2, NextPayloadType, SMTT(40)
      DEF TypeInv, TypeOK, Shape, AttemptOk, Outcome, Sending, prodVars, queueVars, batchVars
  <1>15. ASSUME NEW outcome \in Failures, AttemptRetry(outcome) PROVE TypeInv'
    BY <1>15, EventIdsType
    DEF TypeInv, TypeOK, Shape, AttemptRetry, Resend, Unacknowledged, prodVars, queueVars, batchVars, countVars
  <1>16. ASSUME NEW outcome \in Failures, AttemptFail(outcome) PROVE TypeInv'
    <2>1. Len(sending) \in Nat
      BY LenProperties DEF TypeInv, TypeOK
    <2>2. Sending /\ NextPayload
      BY <1>16 DEF AttemptFail
    <2> QED
      BY <1>16, <2>1, <2>2, NextPayloadType, EventIdsType, SMTT(40)
      DEF TypeInv, TypeOK, Shape, AttemptFail, Outcome, Unacknowledged, Sending, prodVars, queueVars, batchVars
  <1>17. CASE CommitLate
    BY <1>17 DEF TypeInv, TypeOK, Shape, CommitLate, prodVars, queueVars, batchVars, sendVars, countVars
  <1>18. CASE Deadline
    BY <1>18, EventIdsType
    DEF TypeInv, TypeOK, Shape, Deadline, prodVars, queueVars, batchVars, sendVars, countVars
  <1>19. CASE UNCHANGED vars
    BY <1>19 DEF TypeInv, TypeOK, Shape, vars, prodVars, queueVars, batchVars, sendVars, countVars, serverVars
  <1> QED
    BY <1>1, <1>2, <1>3, <1>4, <1>5, <1>6, <1>7, <1>8, <1>9, <1>10, <1>11, <1>12,
       <1>13, <1>14, <1>15, <1>16, <1>17, <1>18, <1>19
    DEF Next, CaptureStep, TaskStep, SendStep, Exited

(* The export path starts well typed, with nothing in transit.             *)
LEMMA TypeInit == Init => TypeInv
  BY ExportAssumption, NoneIsNoEvent DEF Init, TypeInv, TypeOK, Shape, Clones

(* The type invariant and the shape of the program points always hold.     *)
LEMMA TypeInvariant == Spec => []TypeInv
  BY TypeInit, TypeStep, PTL DEF Spec

(* Every state of the export path is well typed: among others, a batch is  *)
(* never attempted more often than MAX_ATTEMPTS allows.                    *)
THEOREM TypeCorrect == Spec => []TypeOK
  BY TypeInvariant, PTL DEF TypeInv

-----------------------------------------------------------------------------
(* No silent loss.                                                         *)

(* The lengths a step can change, as numbers.                              *)
LEMMA Lengths ==
  ASSUME TypeInv
  PROVE  /\ Len(queue) \in Nat /\ Len(batch) \in Nat
         /\ Len(sending) \in Nat /\ Len(afterwards) \in Nat
         /\ sending = <<>> => Len(sending) = 0
         /\ afterwards = <<>> => Len(afterwards) = 0
         /\ Len(<<>>) = 0
  BY LenProperties, EmptySeq DEF TypeInv, TypeOK

(* Batch::push moves the events it holds and adds one.                     *)
LEMMA PushLengths ==
  ASSUME TypeInv, Push
  PROVE  Len(batch') + Len(sending') + Len(afterwards') = Len(batch) + 1
  <1> DEFINE ev == taken.ev
             flush == Overflows(ev)
             events == IF flush THEN <<ev>> ELSE Append(batch, ev)
             bytes == IF flush THEN ev.size ELSE batchBytes + ev.size
             full == Full(events, bytes)
  <1>1. Len(events) = IF flush THEN 1 ELSE Len(batch) + 1
    <2>1. Len(Append(batch, ev)) = Len(batch) + 1
      <3>1. batch \in Seq(Event) /\ ev \in Event
        BY TakenInTransit DEF TypeInv, TypeOK, Push
      <3> QED
        BY <3>1, AppendProperties
    <2>2. Len(<<ev>>) = 1
      OBVIOUS
    <2> QED
      BY <2>1, <2>2
  <1>2. /\ batch' = IF full THEN <<>> ELSE events
        /\ sending' = FirstPayload(flush, full, events)
        /\ afterwards' = SecondPayload(flush, full, events)
    BY DEF Push
  <1>3. Len(batch) \in Nat /\ Len(<<>>) = 0
    BY Lengths
  <1>4. flush \in BOOLEAN /\ full \in BOOLEAN
    BY DEF Overflows, Full
  <1> HIDE DEF flush, events, bytes, full
  <1> QED
    <2>1. CASE flush /\ full
      <3>1. batch' = <<>> /\ sending' = batch /\ afterwards' = events
        BY <2>1, <1>2 DEF FirstPayload, SecondPayload
      <3> QED
        BY <2>1, <3>1, <1>1, <1>3
    <2>2. CASE flush /\ ~full
      <3>1. batch' = events /\ sending' = batch /\ afterwards' = <<>>
        BY <2>2, <1>2 DEF FirstPayload, SecondPayload
      <3> QED
        BY <2>2, <3>1, <1>1, <1>3
    <2>3. CASE ~flush /\ full
      BY <2>3, <1>1, <1>2, <1>3 DEF FirstPayload, SecondPayload
    <2>4. CASE ~flush /\ ~full
      BY <2>4, <1>1, <1>2, <1>3 DEF FirstPayload, SecondPayload
    <2> QED
      BY <2>1, <2>2, <2>3, <2>4

(* No step of either thread adds or removes an event without counting it.  *)
LEMMA UncountedStep ==
  TypeInv /\ TypeInv' /\ NothingUncounted /\ [Next]_vars => NothingUncounted'
  <1> SUFFICES ASSUME TypeInv, TypeInv', NothingUncounted, [Next]_vars
               PROVE  NothingUncounted'
    OBVIOUS
  <1> DEFINE P == IF producer = "idle" THEN 0 ELSE 1
             T == IF taken.ev = None THEN 0 ELSE 1
  <1>a. /\ offered = P + Len(queue) + T + Len(batch) + Len(sending) + Len(afterwards)
                     + sent + dropped
        /\ offered \in Nat /\ sent \in Nat /\ dropped \in Nat
        /\ P \in Nat /\ T \in Nat
    <2>1. offered \in Nat /\ sent \in Nat /\ dropped \in Nat
      BY ExportAssumption DEF TypeInv, TypeOK
    <2>2. offered = (P + Len(queue) + T + Len(batch) + Len(sending) + Len(afterwards))
                    + sent + dropped
      BY DEF NothingUncounted, InPipeline
    <2>3. P \in Nat /\ T \in Nat
      OBVIOUS
    <2> HIDE DEF P, T
    <2> QED
      BY <2>1, <2>2, <2>3, Lengths
  <1>b. SUFFICES offered' = P' + Len(queue') + T' + Len(batch') + Len(sending')
                            + Len(afterwards') + sent' + dropped'
    BY DEF NothingUncounted, InPipeline
  <1>c. /\ producer' = producer => P' = P
        /\ taken' = taken => T' = T
    OBVIOUS
  <1>d. /\ P = 0 <=> producer = "idle"
        /\ T = 1 <=> task \in {"popped", "released"}
        /\ T' = 1 <=> task' \in {"popped", "released"}
        /\ P' = 0 <=> producer' = "idle"
        /\ P \in {0, 1} /\ P' \in {0, 1} /\ T \in {0, 1} /\ T' \in {0, 1}
    BY DEF TypeInv, Shape
  <1> HIDE DEF P, T
  <1> USE Lengths
  <1>1. ASSUME NEW size \in Sizes, Reserve(size) PROVE <1>b!1
    BY <1>1, <1>a, <1>c, <1>d, SMTT(40) DEF Reserve, batchVars, sendVars
  <1>2. ASSUME NEW size \in Sizes, RefuseBytes(size) PROVE <1>b!1
    BY <1>2, <1>a, <1>c, <1>d DEF RefuseBytes, queueVars, batchVars, sendVars
  <1>3. CASE Enqueue
    <2>1. Len(queue') = Len(queue) + 1
      <3>1. queue \in Seq(Event) /\ item.ev \in Event
        BY <1>3, ItemInTransit DEF TypeInv, TypeOK, Enqueue
      <3> QED
        BY <1>3, <3>1, AppendProperties DEF Enqueue
    <2> QED
      BY <1>3, <2>1, <1>a, <1>c, <1>d DEF Enqueue, batchVars, sendVars
  <1>4. CASE QueueFull
    BY <1>4, <1>a, <1>c, <1>d DEF QueueFull, batchVars, sendVars, countVars
  <1>5. CASE RefuseFull
    BY <1>5, <1>a, <1>c, <1>d DEF RefuseFull, batchVars, sendVars
  <1>6. CASE DropRingbuf
    BY <1>6, <1>a, <1>c DEF DropRingbuf, queueVars, batchVars, sendVars, countVars
  <1>7. CASE DropTx
    BY <1>7, <1>a, <1>c DEF DropTx, queueVars, batchVars, sendVars, countVars
  <1>8. CASE Recv
    <2>1. Len(queue') = Len(queue) - 1
      <3>1. queue \in Seq(Event) /\ queue # <<>>
        BY <1>8 DEF TypeInv, TypeOK, Recv
      <3> QED
        BY <1>8, <3>1, HeadTailProperties DEF Recv
    <2> QED
      BY <1>8, <2>1, <1>a, <1>c, <1>d DEF Recv, prodVars, sendVars, countVars
  <1>9. CASE Release
    BY <1>9, <1>a, <1>c, <1>d DEF Release, prodVars, sendVars, countVars
  <1>10. CASE DropOversized
    <2>1. T = 1 /\ T' = 0
      BY <1>10, <1>d DEF DropOversized
    <2> QED
      BY <1>10, <2>1, <1>a, <1>c DEF DropOversized, prodVars, sendVars
  <1>11. CASE Push
    <2>1. sending = <<>> /\ afterwards = <<>> /\ task = "released" /\ T = 1 /\ T' = 0
      BY <1>11, <1>d, PushType DEF Push, TypeInv, Shape
    <2> QED
      <3>1. Len(batch') + Len(sending') + Len(afterwards') = Len(batch) + 1
        BY <1>11, PushLengths
      <3>2. Len(batch') \in Nat /\ Len(sending') \in Nat /\ Len(afterwards') \in Nat
        BY LenProperties DEF TypeInv, TypeOK
      <3>3. /\ offered' = offered /\ P' = P /\ queue' = queue
            /\ sent' = sent /\ dropped' = dropped
        BY <1>11, <1>c DEF Push, prodVars, countVars
      <3>4. Len(sending) = 0 /\ Len(afterwards) = 0
        BY <2>1
      <3> QED
        BY <2>1, <3>1, <3>2, <3>3, <3>4, <1>a
  <1>12. CASE FlushTick
    <2>1. sending = <<>> /\ afterwards = <<>>
      BY <1>12 DEF FlushTick, TypeInv, Shape
    <2> QED
      BY <1>12, <2>1, <1>a, <1>c DEF FlushTick, prodVars, queueVars, countVars
  <1>13. CASE ChannelClosed
    <2>1. sending = <<>> /\ afterwards = <<>>
      BY <1>13 DEF ChannelClosed, TypeInv, Shape
    <2> QED
      BY <1>13, <2>1, <1>a, <1>c DEF ChannelClosed, prodVars, queueVars, countVars
  <1>14. CASE AttemptOk
    BY <1>14, <1>a, <1>c DEF AttemptOk, NextPayload, prodVars, queueVars, batchVars
  <1>15. ASSUME NEW outcome \in Failures, AttemptRetry(outcome) PROVE <1>b!1
    BY <1>15, <1>a, <1>c DEF AttemptRetry, prodVars, queueVars, batchVars, countVars
  <1>16. ASSUME NEW outcome \in Failures, AttemptFail(outcome) PROVE <1>b!1
    BY <1>16, <1>a, <1>c DEF AttemptFail, NextPayload, prodVars, queueVars, batchVars
  <1>17. CASE CommitLate
    BY <1>17, <1>a, <1>c DEF CommitLate, prodVars, queueVars, batchVars, sendVars, countVars
  <1>18. CASE Deadline
    BY <1>18, <1>a, <1>c DEF Deadline, prodVars, queueVars, batchVars, sendVars, countVars
  <1>19. CASE UNCHANGED vars
    BY <1>19, <1>a, <1>c DEF vars, prodVars, queueVars, batchVars, sendVars, countVars
  <1> QED
    BY <1>1, <1>2, <1>3, <1>4, <1>5, <1>6, <1>7, <1>8, <1>9, <1>10, <1>11, <1>12,
       <1>13, <1>14, <1>15, <1>16, <1>17, <1>18, <1>19
    DEF Next, CaptureStep, TaskStep, SendStep, Exited

(* Every event handed to try_send is still held, was acknowledged or was   *)
(* counted as dropped, on every path through the queue, the batch, the     *)
(* attempt loop and the shutdown.                                          *)
THEOREM NoSilentLoss == Spec => []NothingUncounted
  <1>1. Init => NothingUncounted
    BY DEF Init, NothingUncounted, InPipeline
  <1> QED
    BY <1>1, TypeInvariant, UncountedStep, PTL DEF Spec

-----------------------------------------------------------------------------
(* The ceilings of the queue and of the batch.                             *)

(* Between two pushes the open batch has room for one more event, and an   *)
(* empty one holds no bytes: push tests fullness after it added the event. *)
OpenBatch ==
    /\ batch = <<>> => batchBytes = 0
    /\ Len(batch) < MaxBatchEvents

Ceilings == QueueWithinLimits /\ BatchWithinLimits /\ OpenBatch

(* Batch::push leaves the open batch and its payloads within the limits.   *)
LEMMA PushCeilings ==
  ASSUME TypeInv, Ceilings, Push
  PROVE  BatchWithinLimits' /\ OpenBatch'
  <1> DEFINE ev == taken.ev
             flush == Overflows(ev)
             events == IF flush THEN <<ev>> ELSE Append(batch, ev)
             bytes == IF flush THEN ev.size ELSE batchBytes + ev.size
             full == Full(events, bytes)
  <1>1. batch \in Seq(Event) /\ ev \in Event /\ ev.size \in Nat /\ batchBytes \in Nat
    BY TakenInTransit DEF TypeInv, TypeOK, Push
  <1>2. Len(Append(batch, ev)) = Len(batch) + 1 /\ Append(batch, ev) # <<>> /\ Len(batch) \in Nat
    BY <1>1, AppendProperties, LenProperties
  <1>3. Len(batch) < MaxBatchEvents /\ MaxBatchEvents \in Nat \ {0} /\ MaxBatchBytes \in Nat
    BY ExportAssumption DEF Ceilings, OpenBatch
  <1>4. Len(events) <= MaxBatchEvents /\ Len(events) \in Nat /\ events # <<>>
    <2>1. CASE flush
      <3>1. events = <<ev>>
        BY <2>1
      <3> QED
        BY <3>1, <1>3
    <2>2. CASE ~flush
      <3>1. events = Append(batch, ev)
        BY <2>2
      <3> QED
        BY <3>1, <1>2, <1>3
    <2> QED
      BY <2>1, <2>2
  <1>5. bytes <= MaxBatchBytes /\ bytes \in Nat
    <2>1. ev.size <= MaxBatchBytes
      BY <1>1, <1>3 DEF Push, Oversized
    <2>2. CASE flush
      BY <2>1, <2>2, <1>1
    <2>3. CASE ~flush /\ batch = <<>>
      <3>1. batchBytes = 0
        BY <2>3 DEF Ceilings, OpenBatch
      <3> QED
        BY <2>1, <2>3, <3>1, <1>1
    <2>4. CASE ~flush /\ batch # <<>>
      BY <2>4, <1>1, <1>3 DEF Overflows
    <2> QED
      BY <2>2, <2>3, <2>4
  <1>6. /\ batch' = IF full THEN <<>> ELSE events
        /\ batchBytes' = IF full THEN 0 ELSE bytes
        /\ sending' = FirstPayload(flush, full, events)
        /\ afterwards' = SecondPayload(flush, full, events)
    BY DEF Push
  <1>7. ~full => Len(events) < MaxBatchEvents /\ ~(bytes >= MaxBatchBytes)
    BY <1>3, <1>4 DEF Full
  <1>8. Len(<<>>) = 0
    OBVIOUS
  <1> HIDE DEF flush, events, bytes, full
  <1>9. Len(batch') < MaxBatchEvents /\ batchBytes' <= MaxBatchBytes
        /\ (batch' = <<>> => batchBytes' = 0)
    BY <1>3, <1>4, <1>5, <1>6, <1>7, <1>8
  <1>10. sending' \in {batch, events, <<>>} /\ afterwards' \in {events, <<>>}
    BY <1>6 DEF FirstPayload, SecondPayload
  <1>11. Len(sending') <= MaxBatchEvents /\ Len(afterwards') <= MaxBatchEvents
         /\ Len(batch') <= MaxBatchEvents
    BY <1>2, <1>3, <1>4, <1>6, <1>8, <1>10
  <1> QED
    BY <1>9, <1>11 DEF BatchWithinLimits, OpenBatch

(* No step takes the queue or a batch above its ceiling.                   *)
LEMMA CeilingsStep == TypeInv /\ Ceilings /\ [Next]_vars => Ceilings'
  <1> SUFFICES ASSUME TypeInv, Ceilings, [Next]_vars PROVE Ceilings'
    OBVIOUS
  <1> USE DEF Ceilings
  <1>a. /\ used \in Int /\ Len(queue) \in Nat /\ batchBytes \in Nat
        /\ MaxQueueEvents \in Nat /\ MaxQueueBytes \in Nat
        /\ MaxBatchEvents \in Nat \ {0} /\ MaxBatchBytes \in Nat
        /\ Len(<<>>) = 0
    BY Lengths, ExportAssumption DEF TypeInv, TypeOK
  <1>b. ASSUME UNCHANGED <<batch, batchBytes, sending, afterwards>>
        PROVE  BatchWithinLimits' /\ OpenBatch'
    BY <1>b DEF BatchWithinLimits, OpenBatch
  <1>c. ASSUME UNCHANGED <<used, queue>>
        PROVE  QueueWithinLimits'
    BY <1>c DEF QueueWithinLimits
  <1>d. ASSUME UNCHANGED <<batch, batchBytes>>, NextPayload
        PROVE  BatchWithinLimits' /\ OpenBatch'
    <2>1. sending' = afterwards /\ afterwards' = <<>>
      BY <1>d DEF NextPayload
    <2> QED
      BY <1>a, <1>d, <2>1 DEF BatchWithinLimits, OpenBatch
  <1>1. ASSUME NEW size \in Sizes, Reserve(size) PROVE Ceilings'
    <2>1. used' <= MaxQueueBytes /\ queue' = queue
      BY <1>1 DEF Reserve, Fits
    <2> QED
      BY <1>1, <1>b, <2>1 DEF Reserve, QueueWithinLimits, batchVars, sendVars
  <1>2. ASSUME NEW size \in Sizes, RefuseBytes(size) PROVE Ceilings'
    BY <1>2, <1>b, <1>c DEF RefuseBytes, queueVars, batchVars, sendVars
  <1>3. CASE Enqueue
    <2>1. Len(queue') = Len(queue) + 1
      <3>1. queue \in Seq(Event) /\ item.ev \in Event
        BY <1>3, ItemInTransit DEF TypeInv, TypeOK, Enqueue
      <3> QED
        BY <1>3, <3>1, AppendProperties DEF Enqueue
    <2>2. Len(queue) < MaxQueueEvents /\ used' = used
      BY <1>3 DEF Enqueue
    <2>3. QueueWithinLimits'
      BY <2>1, <2>2, <1>a DEF QueueWithinLimits
    <2> QED
      BY <1>3, <1>b, <2>3 DEF Enqueue, batchVars, sendVars
  <1>4. CASE QueueFull
    <2>1. used' = used - item.ev.size /\ item.ev.size \in Nat /\ queue' = queue
      BY <1>4, ItemInTransit DEF QueueFull, Freed
    <2>2. QueueWithinLimits'
      BY <2>1, <1>a DEF QueueWithinLimits
    <2> QED
      BY <1>4, <1>b, <2>2 DEF QueueFull, batchVars, sendVars
  <1>5. CASE RefuseFull
    BY <1>5, <1>b, <1>c DEF RefuseFull, batchVars, sendVars
  <1>6. CASE DropRingbuf
    BY <1>6, <1>b, <1>c DEF DropRingbuf, queueVars, batchVars, sendVars
  <1>7. CASE DropTx
    BY <1>7, <1>b, <1>c DEF DropTx, queueVars, batchVars, sendVars
  <1>8. CASE Recv
    <2>1. Len(queue') = Len(queue) - 1 /\ used' = used
      <3>1. queue \in Seq(Event) /\ queue # <<>>
        BY <1>8 DEF TypeInv, TypeOK, Recv
      <3> QED
        BY <1>8, <3>1, HeadTailProperties DEF Recv
    <2>2. QueueWithinLimits'
      BY <2>1, <1>a DEF QueueWithinLimits
    <2> QED
      BY <1>8, <1>b, <2>2 DEF Recv, sendVars
  <1>9. CASE Release
    <2>1. used' = used - taken.ev.size /\ taken.ev.size \in Nat /\ queue' = queue
      BY <1>9, TakenInTransit DEF Release, Freed
    <2>2. QueueWithinLimits'
      BY <2>1, <1>a DEF QueueWithinLimits
    <2> QED
      BY <1>9, <1>b, <2>2 DEF Release, sendVars
  <1>10. CASE DropOversized
    BY <1>10, <1>b, <1>c DEF DropOversized, sendVars
  <1>11. CASE Push
    BY <1>11, <1>c, PushCeilings DEF Push
  <1>12. CASE FlushTick
    <2>1. BatchWithinLimits' /\ OpenBatch'
      BY <1>12, <1>a DEF FlushTick, BatchWithinLimits, OpenBatch
    <2> QED
      BY <1>12, <1>c, <2>1 DEF FlushTick, queueVars
  <1>13. CASE ChannelClosed
    <2>1. BatchWithinLimits' /\ OpenBatch'
      BY <1>13, <1>a DEF ChannelClosed, BatchWithinLimits, OpenBatch
    <2> QED
      BY <1>13, <1>c, <2>1 DEF ChannelClosed, queueVars
  <1>14. CASE AttemptOk
    BY <1>14, <1>c, <1>d DEF AttemptOk, queueVars, batchVars
  <1>15. ASSUME NEW outcome \in Failures, AttemptRetry(outcome) PROVE Ceilings'
    BY <1>15, <1>b, <1>c DEF AttemptRetry, queueVars, batchVars
  <1>16. ASSUME NEW outcome \in Failures, AttemptFail(outcome) PROVE Ceilings'
    BY <1>16, <1>c, <1>d DEF AttemptFail, queueVars, batchVars
  <1>17. CASE CommitLate
    BY <1>17, <1>b, <1>c DEF CommitLate, queueVars, batchVars, sendVars
  <1>18. CASE Deadline
    BY <1>18, <1>b, <1>c DEF Deadline, queueVars, batchVars, sendVars
  <1>19. CASE UNCHANGED vars
    BY <1>19, <1>b, <1>c DEF vars, queueVars, batchVars, sendVars
  <1> QED
    BY <1>1, <1>2, <1>3, <1>4, <1>5, <1>6, <1>7, <1>8, <1>9, <1>10, <1>11, <1>12,
       <1>13, <1>14, <1>15, <1>16, <1>17, <1>18, <1>19
    DEF Next, CaptureStep, TaskStep, SendStep, Exited

(* The ceilings of the queue and of the batch always hold.                 *)
LEMMA CeilingsInvariant == Spec => []Ceilings
  <1>1. Init => Ceilings
    BY ExportAssumption
    DEF Init, Ceilings, QueueWithinLimits, BatchWithinLimits, OpenBatch
  <1> QED
    BY <1>1, TypeInvariant, CeilingsStep, PTL DEF Spec

(* The queue never holds more events or reserves more bytes than its       *)
(* limits, whatever the two threads interleave.                            *)
THEOREM QueueBounded == Spec => []QueueWithinLimits
  BY CeilingsInvariant, PTL DEF Ceilings

(* No batch, open or handed to the sender, exceeds its limits.             *)
THEOREM BatchBounded == Spec => []BatchWithinLimits
  BY CeilingsInvariant, PTL DEF Ceilings

-----------------------------------------------------------------------------
(* The order of the events inside the sensor.                              *)

(* The ids of the events a sequence holds, as the sequence changes.        *)
LEMMA IdsOfNone == EventIds(<<>>) = {}
  BY DEF EventIds

(* A payload of one event.                                                 *)
LEMMA IdsOfOne ==
  ASSUME NEW e
  PROVE  EventIds(<<e>>) = {e.id}
  BY DEF EventIds

(* An event joins the channel or the batch.                                *)
LEMMA IdsOfAppend ==
  ASSUME NEW s \in Seq(Event), NEW e \in Event
  PROVE  EventIds(Append(s, e)) = EventIds(s) \cup {e.id}
  <1> DEFINE t == Append(s, e)
             n == Len(s)
  <1>1. n \in Nat /\ DOMAIN s = 1..n
    BY LenProperties
  <1>2. DOMAIN t = 1..(n + 1) /\ t[n + 1] = e /\ \A i \in 1..n : t[i] = s[i]
    BY <1>1, AppendProperties
  <1> HIDE DEF t, n
  <1>3. ASSUME NEW i \in DOMAIN t PROVE t[i].id \in EventIds(s) \cup {e.id}
    <2>1. CASE i = n + 1
      BY <2>1, <1>2
    <2>2. CASE i \in 1..n
      BY <2>2, <1>1, <1>2 DEF EventIds
    <2> QED
      BY <1>1, <1>2, <2>1, <2>2
  <1>4. ASSUME NEW i \in DOMAIN s PROVE s[i].id \in {t[j].id : j \in DOMAIN t}
    <2>1. i \in DOMAIN t /\ t[i] = s[i]
      BY <1>1, <1>2
    <2> QED
      BY <2>1
  <1>5. e.id \in {t[j].id : j \in DOMAIN t}
    <2>1. n + 1 \in DOMAIN t
      BY <1>1, <1>2
    <2> QED
      BY <2>1, <1>2
  <1>6. EventIds(t) = EventIds(s) \cup {e.id}
    BY <1>3, <1>4, <1>5 DEF EventIds
  <1> QED
    BY <1>6 DEF t

(* An event leaves the channel.                                            *)
LEMMA IdsOfTail ==
  ASSUME NEW s \in Seq(Event), s # <<>>
  PROVE  EventIds(s) = EventIds(Tail(s)) \cup {Head(s).id}
  <1> DEFINE t == Tail(s)
             n == Len(s)
  <1>1. n \in Nat /\ n > 0 /\ DOMAIN s = 1..n /\ Head(s) = s[1]
    BY LenProperties, EmptySeq, HeadTailProperties
  <1>2. DOMAIN t = 1..(n - 1) /\ \A i \in 1..(n - 1) : t[i] = s[i + 1]
    BY <1>1, HeadTailProperties, LenProperties
  <1> HIDE DEF t, n
  <1>3. ASSUME NEW i \in DOMAIN s PROVE s[i].id \in EventIds(t) \cup {Head(s).id}
    <2>1. CASE i = 1
      BY <2>1, <1>1
    <2>2. CASE i # 1
      <3>1. i - 1 \in DOMAIN t /\ t[i - 1] = s[i]
        BY <2>2, <1>1, <1>2
      <3> QED
        BY <3>1 DEF EventIds
    <2> QED
      BY <2>1, <2>2
  <1>4. ASSUME NEW i \in DOMAIN t PROVE t[i].id \in {s[j].id : j \in DOMAIN s}
    <2>1. i + 1 \in DOMAIN s /\ t[i] = s[i + 1]
      BY <1>1, <1>2
    <2> QED
      BY <2>1
  <1>5. Head(s).id \in {s[j].id : j \in DOMAIN s}
    <2>1. 1 \in DOMAIN s
      BY <1>1
    <2> QED
      BY <2>1, <1>1
  <1>6. EventIds(s) = EventIds(t) \cup {Head(s).id}
    BY <1>3, <1>4, <1>5 DEF EventIds
  <1> QED
    BY <1>6 DEF t

(* One sequence comes before another when its ids do.                      *)
Precede(X, Y) == \A x \in X, y \in Y : x < y

(* Before is about the ids only.                                           *)
LEMMA BeforeIsPrecede ==
  ASSUME NEW s \in Seq(Event), NEW t \in Seq(Event)
  PROVE  Before(s, t) <=> Precede(EventIds(s), EventIds(t))
  <1>1. DOMAIN s = 1..Len(s) /\ DOMAIN t = 1..Len(t)
    BY LenProperties
  <1> QED
    BY <1>1, Zenon DEF Before, Precede, EventIds

(* An event that is younger than all keeps a sequence sorted.              *)
LEMMA SortedAppend ==
  ASSUME NEW s \in Seq(Event), NEW e \in Event, Sorted(s),
         Precede(EventIds(s), {e.id})
  PROVE  Sorted(Append(s, e))
  <1> DEFINE t == Append(s, e)
             n == Len(s)
  <1>1. n \in Nat /\ DOMAIN s = 1..n
    BY LenProperties
  <1>2. Len(t) = n + 1 /\ t[n + 1] = e /\ \A i \in 1..n : t[i] = s[i]
    BY <1>1, AppendProperties
  <1>3. \A i, j \in 1..n : i < j => s[i].id < s[j].id
    BY DEF Sorted
  <1>4. \A i \in 1..n : s[i].id < e.id
    BY <1>1 DEF Precede, EventIds
  <1> HIDE DEF t, n
  <1>5. ASSUME NEW i \in 1..(n + 1), NEW j \in 1..(n + 1), i < j
        PROVE  t[i].id < t[j].id
    <2>1. i \in 1..n /\ t[i] = s[i]
      BY <1>1, <1>2, <1>5
    <2>2. CASE j = n + 1
      BY <2>1, <2>2, <1>2, <1>4
    <2>3. CASE j # n + 1
      <3>1. j \in 1..n
        BY <2>3, <1>1
      <3> QED
        BY <2>1, <3>1, <1>2, <1>3, <1>5
    <2> QED
      BY <2>2, <2>3
  <1>6. Sorted(t)
    BY <1>5, <1>2 DEF Sorted
  <1> QED
    BY <1>6 DEF t

(* The head of a sorted sequence comes before its tail.                    *)
LEMMA SortedTail ==
  ASSUME NEW s \in Seq(Event), s # <<>>, Sorted(s)
  PROVE  Sorted(Tail(s)) /\ Precede({Head(s).id}, EventIds(Tail(s)))
  <1> DEFINE t == Tail(s)
             n == Len(s)
  <1>1. n \in Nat /\ n > 0 /\ Head(s) = s[1]
    BY LenProperties, EmptySeq, HeadTailProperties
  <1>2. Len(t) = n - 1 /\ DOMAIN t = 1..(n - 1) /\ \A i \in 1..(n - 1) : t[i] = s[i + 1]
    BY <1>1, HeadTailProperties, LenProperties
  <1>3. \A i, j \in 1..n : i < j => s[i].id < s[j].id
    BY DEF Sorted
  <1> HIDE DEF t, n
  <1>4. ASSUME NEW i \in 1..(n - 1), NEW j \in 1..(n - 1), i < j
        PROVE  t[i].id < t[j].id
    <2>1. i + 1 \in 1..n /\ j + 1 \in 1..n /\ i + 1 < j + 1
      BY <1>1, <1>4
    <2> QED
      BY <2>1, <1>2, <1>3
  <1>5. ASSUME NEW i \in 1..(n - 1) PROVE Head(s).id < t[i].id
    <2>1. i + 1 \in 1..n /\ 1 \in 1..n /\ 1 < i + 1
      BY <1>1
    <2> QED
      BY <2>1, <1>1, <1>2, <1>3
  <1>6. Sorted(t)
    BY <1>4, <1>2 DEF Sorted
  <1>7. Precede({Head(s).id}, EventIds(t))
    BY <1>5, <1>2 DEF Precede, EventIds
  <1> QED
    BY <1>6, <1>7 DEF t

(* Precede on unions and on the empty set.                                 *)
LEMMA PrecedeUnion ==
  ASSUME NEW X, NEW Y, NEW Z
  PROVE  /\ Precede(X \cup Y, Z) <=> Precede(X, Z) /\ Precede(Y, Z)
         /\ Precede(Z, X \cup Y) <=> Precede(Z, X) /\ Precede(Z, Y)
         /\ Precede({}, Z) /\ Precede(Z, {})
  BY Zenon DEF Precede

(* The ids in each place an event passes, oldest place first.              *)
Sent == EventIds(sending)
Then == EventIds(afterwards)
Open == EventIds(batch)
Moved == EventIds(One(taken.ev))
Queued == EventIds(queue)
Coming == EventIds(One(item.ev))

(* Each set of ids comes before all that follow it.                        *)
InLine(S, A, B, T, Q, I) ==
    /\ Precede(S, A) /\ Precede(S, B) /\ Precede(S, T) /\ Precede(S, Q) /\ Precede(S, I)
    /\ Precede(A, B) /\ Precede(A, T) /\ Precede(A, Q) /\ Precede(A, I)
    /\ Precede(B, T) /\ Precede(B, Q) /\ Precede(B, I)
    /\ Precede(T, Q) /\ Precede(T, I)
    /\ Precede(Q, I)

EachSorted == Sorted(sending) /\ Sorted(afterwards) /\ Sorted(batch) /\ Sorted(queue)
HeldIds == Sent \cup Then \cup Open \cup Moved \cup Queued \cup Coming

(* The inductive form of PipelineInOrder: the next id is above every id    *)
(* that is on its way.                                                     *)
OrderInv ==
    /\ EachSorted
    /\ InLine(Sent, Then, Open, Moved, Queued, Coming)
    /\ HeldIds \subseteq 1..offered

(* The event in transit as a sequence of at most one.                      *)
LEMMA OneIds ==
  ASSUME NEW ev \in Event \cup {None}
  PROVE  /\ One(ev) \in Seq(Event)
         /\ ev = None => EventIds(One(ev)) = {}
         /\ ev # None => EventIds(One(ev)) = {ev.id}
         /\ EventIds(One(ev)) \subseteq Ids
  <1>1. CASE ev = None
    BY <1>1, IdsOfNone DEF One
  <1>2. CASE ev # None
    <2>1. ev \in Event /\ One(ev) = <<ev>>
      BY <1>2 DEF One
    <2> QED
      BY <2>1, <1>2, IdsOfOne DEF Event
  <1> QED
    BY <1>1, <1>2

(* Everything in the pipeline is a sequence of events.                     *)
LEMMA PlacesType ==
  ASSUME TypeInv
  PROVE  /\ sending \in Seq(Event) /\ afterwards \in Seq(Event) /\ batch \in Seq(Event)
         /\ queue \in Seq(Event) /\ taken.ev \in Event \cup {None}
         /\ item.ev \in Event \cup {None}
         /\ One(taken.ev) \in Seq(Event) /\ One(item.ev) \in Seq(Event)
         /\ Sent \subseteq Ids /\ Then \subseteq Ids /\ Open \subseteq Ids
         /\ Moved \subseteq Ids /\ Queued \subseteq Ids /\ Coming \subseteq Ids
  <1>1. sending \in Seq(Event) /\ afterwards \in Seq(Event) /\ batch \in Seq(Event)
        /\ queue \in Seq(Event) /\ taken.ev \in Event \cup {None}
        /\ item.ev \in Event \cup {None}
    BY DEF TypeInv, TypeOK
  <1> QED
    BY <1>1, OneIds, EventIdsType DEF Sent, Then, Open, Moved, Queued, Coming

(* PipelineInOrder is the order of the places and of the events in each.   *)
LEMMA OrderImplies == TypeInv /\ OrderInv => PipelineInOrder
  <1> SUFFICES ASSUME TypeInv, OrderInv PROVE PipelineInOrder
    OBVIOUS
  <1> DEFINE t == One(taken.ev)
             i == One(item.ev)
  <1>1. sending \in Seq(Event) /\ afterwards \in Seq(Event) /\ batch \in Seq(Event)
        /\ queue \in Seq(Event) /\ t \in Seq(Event) /\ i \in Seq(Event)
    BY PlacesType
  <1>2. InLine(EventIds(sending), EventIds(afterwards), EventIds(batch), EventIds(t),
               EventIds(queue), EventIds(i))
    BY DEF OrderInv, Sent, Then, Open, Moved, Queued, Coming
  <1>3. SUFFICES /\ Older(sending, {afterwards, batch, t, queue, i})
                 /\ Older(afterwards, {batch, t, queue, i})
                 /\ Older(batch, {t, queue, i})
                 /\ Before(t, queue) /\ Before(t, i)
                 /\ Older(queue, {i})
    BY DEF PipelineInOrder
  <1> HIDE DEF t, i
  <1>4. /\ Before(sending, afterwards) /\ Before(sending, batch) /\ Before(sending, t)
        /\ Before(sending, queue) /\ Before(sending, i)
        /\ Before(afterwards, batch) /\ Before(afterwards, t) /\ Before(afterwards, queue)
        /\ Before(afterwards, i)
        /\ Before(batch, t) /\ Before(batch, queue) /\ Before(batch, i)
        /\ Before(t, queue) /\ Before(t, i) /\ Before(queue, i)
    BY <1>1, <1>2, BeforeIsPrecede DEF InLine
  <1>5. Sorted(sending) /\ Sorted(afterwards) /\ Sorted(batch) /\ Sorted(queue)
    BY DEF OrderInv, EachSorted
  <1> QED
    BY <1>4, <1>5 DEF Older

(* Batch::push hands the ids on: the batch to the first payload when it is *)
(* flushed, the event after it.                                            *)
LEMMA PushIds ==
  ASSUME TypeInv, OrderInv, Push
  PROVE  /\ Sent = {} /\ Then = {} /\ Moved = {taken.ev.id} /\ Moved' = {}
         /\ \/ Sent' = {} /\ Then' = {} /\ Open' = Open \cup Moved
            \/ Sent' = Open \cup Moved /\ Then' = {} /\ Open' = {}
            \/ Sent' = Open /\ Then' = {} /\ Open' = Moved
            \/ Sent' = Open /\ Then' = Moved /\ Open' = {}
         /\ Sorted(sending)' /\ Sorted(afterwards)' /\ Sorted(batch)'
  <1> DEFINE ev == taken.ev
             flush == Overflows(ev)
             events == IF flush THEN <<ev>> ELSE Append(batch, ev)
             bytes == IF flush THEN ev.size ELSE batchBytes + ev.size
             full == Full(events, bytes)
  <1>1. batch \in Seq(Event) /\ ev \in Event /\ ev # None
    BY TakenInTransit DEF TypeInv, TypeOK, Shape, Push
  <1>2. sending = <<>> /\ afterwards = <<>>
    BY DEF TypeInv, Shape, Push
  <1>3. Sent = {} /\ Then = {}
    BY <1>2, IdsOfNone DEF Sent, Then
  <1>4. Moved = {ev.id}
    BY <1>1, OneIds DEF Moved
  <1>5. Moved' = {}
    <2>1. taken'.ev = None
      BY DEF Push
    <2> QED
      BY <2>1, IdsOfNone DEF Moved, One
  <1>6. EventIds(<<ev>>) = Moved /\ EventIds(Append(batch, ev)) = Open \cup Moved
    BY <1>1, <1>4, IdsOfOne, IdsOfAppend DEF Open
  <1>7. Sorted(<<ev>>) /\ Sorted(Append(batch, ev)) /\ Sorted(batch) /\ Sorted(<<>>)
    <2>1. Precede(EventIds(batch), {ev.id}) /\ Sorted(batch)
      BY <1>4 DEF OrderInv, InLine, EachSorted, Open
    <2>2. Sorted(Append(batch, ev))
      BY <2>1, <1>1, SortedAppend
    <2>3. Sorted(<<ev>>) /\ Sorted(<<>>)
      BY DEF Sorted
    <2> QED
      BY <2>1, <2>2, <2>3
  <1>8. /\ batch' = IF full THEN <<>> ELSE events
        /\ sending' = FirstPayload(flush, full, events)
        /\ afterwards' = SecondPayload(flush, full, events)
    BY DEF Push
  <1>9. events = IF flush THEN <<ev>> ELSE Append(batch, ev)
    OBVIOUS
  <1>10. flush \in BOOLEAN /\ full \in BOOLEAN
    BY DEF Overflows, Full
  <1> HIDE DEF flush, events, bytes, full
  <1>11. CASE flush /\ full
    <2>1. sending' = batch /\ afterwards' = <<ev>> /\ batch' = <<>>
      BY <1>8, <1>9, <1>11 DEF FirstPayload, SecondPayload
    <2> QED
      BY <2>1, <1>3, <1>4, <1>5, <1>6, <1>7, IdsOfNone DEF Sent, Then, Open
  <1>12. CASE flush /\ ~full
    <2>1. sending' = batch /\ afterwards' = <<>> /\ batch' = <<ev>>
      BY <1>8, <1>9, <1>12 DEF FirstPayload, SecondPayload
    <2> QED
      BY <2>1, <1>3, <1>4, <1>5, <1>6, <1>7, IdsOfNone DEF Sent, Then, Open
  <1>13. CASE ~flush /\ full
    <2>1. sending' = Append(batch, ev) /\ afterwards' = <<>> /\ batch' = <<>>
      BY <1>8, <1>9, <1>13 DEF FirstPayload, SecondPayload
    <2> QED
      BY <2>1, <1>3, <1>4, <1>5, <1>6, <1>7, IdsOfNone DEF Sent, Then, Open
  <1>14. CASE ~flush /\ ~full
    <2>1. sending' = <<>> /\ afterwards' = <<>> /\ batch' = Append(batch, ev)
      BY <1>8, <1>9, <1>14 DEF FirstPayload, SecondPayload
    <2> QED
      BY <2>1, <1>3, <1>4, <1>5, <1>6, <1>7, IdsOfNone DEF Sent, Then, Open
  <1> QED
    BY <1>10, <1>11, <1>12, <1>13, <1>14

(* A step that leaves the places alone leaves their ids alone.             *)
LEMMA IdsFrame ==
  /\ sending' = sending => Sent' = Sent
  /\ afterwards' = afterwards => Then' = Then
  /\ batch' = batch => Open' = Open
  /\ taken'.ev = taken.ev => Moved' = Moved
  /\ queue' = queue => Queued' = Queued
  /\ item'.ev = item.ev => Coming' = Coming
  /\ sending' = <<>> => Sent' = {}
  /\ afterwards' = <<>> => Then' = {}
  /\ batch' = <<>> => Open' = {}
  /\ taken'.ev = None => Moved' = {}
  /\ item'.ev = None => Coming' = {}
  /\ sending = <<>> => Sent = {}
  /\ afterwards = <<>> => Then = {}
  /\ taken.ev = None => Moved = {}
  /\ item.ev = None => Coming = {}
  BY IdsOfNone DEF Sent, Then, Open, Moved, Queued, Coming, One

(* How the ids move in each kind of step that moves any.                   *)
Arrives ==
    /\ Coming = {} /\ Coming' = {offered'} /\ offered' = offered + 1
    /\ UNCHANGED <<Sent, Then, Open, Moved, Queued>>
Joins ==
    /\ Queued' = Queued \cup Coming /\ Coming' = {}
    /\ UNCHANGED <<offered, Sent, Then, Open, Moved>>
TurnedAway ==
    /\ Coming' = {}
    /\ UNCHANGED <<offered, Sent, Then, Open, Moved, Queued>>
Received ==
    /\ Moved = {} /\ Queued = Moved' \cup Queued' /\ Precede(Moved', Queued')
    /\ UNCHANGED <<offered, Sent, Then, Open, Coming>>
Discarded ==
    /\ Moved' = {}
    /\ UNCHANGED <<offered, Sent, Then, Open, Queued, Coming>>
Pushed ==
    /\ Sent = {} /\ Then = {} /\ Moved' = {}
    /\ \/ Sent' = {} /\ Then' = {} /\ Open' = Open \cup Moved
       \/ Sent' = Open \cup Moved /\ Then' = {} /\ Open' = {}
       \/ Sent' = Open /\ Then' = {} /\ Open' = Moved
       \/ Sent' = Open /\ Then' = Moved /\ Open' = {}
    /\ UNCHANGED <<offered, Queued, Coming>>
Flushed ==
    /\ Sent = {} /\ Then = {} /\ Sent' = Open /\ Open' = {}
    /\ UNCHANGED <<offered, Then, Moved, Queued, Coming>>
Finished ==
    /\ Sent' = Then /\ Then' = {}
    /\ UNCHANGED <<offered, Open, Moved, Queued, Coming>>
Stays == UNCHANGED <<Sent, Then, Open, Moved, Queued, Coming>>

(* Every kind of step keeps the places in line and the ids below the next. *)
LEMMA LineStep ==
  ASSUME InLine(Sent, Then, Open, Moved, Queued, Coming), HeldIds \subseteq 1..offered,
         offered \in Nat, offered' \in {offered, offered + 1},
         Arrives \/ Joins \/ TurnedAway \/ Received \/ Discarded \/ Pushed \/ Flushed
         \/ Finished \/ Stays
  PROVE  /\ InLine(Sent, Then, Open, Moved, Queued, Coming)'
         /\ (HeldIds \subseteq 1..offered)'
  <1> USE PrecedeUnion
  <1>a. 1..offered \subseteq 1..offered'
    OBVIOUS
  <1>1. CASE Arrives
    <2>1. \A X : X \subseteq 1..offered => Precede(X, {offered + 1})
      BY DEF Precede
    <2>2. /\ Precede(Sent, Coming') /\ Precede(Then, Coming') /\ Precede(Open, Coming')
          /\ Precede(Moved, Coming') /\ Precede(Queued, Coming')
      BY <1>1, <2>1 DEF HeldIds, Arrives
    <2>3. InLine(Sent, Then, Open, Moved, Queued, Coming)'
      BY <1>1, <2>2 DEF InLine, Arrives
    <2>4. Coming' \subseteq 1..offered'
      BY <1>1 DEF Arrives
    <2> QED
      BY <1>1, <2>3, <2>4, <1>a DEF HeldIds, Arrives
  <1>2. CASE Joins
    BY <1>2 DEF InLine, HeldIds, Joins
  <1>3. CASE TurnedAway
    BY <1>3 DEF InLine, HeldIds, TurnedAway
  <1>4. CASE Received
    <2>1. UNCHANGED <<offered, Sent, Then, Open, Coming>> /\ Precede(Moved', Queued')
      BY <1>4 DEF Received
    <2>2. \A X : /\ Precede(X, Queued) => Precede(X, Moved') /\ Precede(X, Queued')
                 /\ Precede(Queued, X) => Precede(Moved', X) /\ Precede(Queued', X)
      BY <1>4 DEF Received
    <2>3. Moved' \subseteq Queued /\ Queued' \subseteq Queued
      BY <1>4 DEF Received
    <2> QED
      BY <2>1, <2>2, <2>3 DEF InLine, HeldIds
  <1>5. CASE Discarded
    BY <1>5 DEF InLine, HeldIds, Discarded
  <1>6. CASE Pushed
    <2>1. UNCHANGED <<offered, Queued, Coming>> /\ Moved' = {}
      BY <1>6 DEF Pushed
    <2>2. CASE Sent' = {} /\ Then' = {} /\ Open' = Open \cup Moved
      BY <2>1, <2>2 DEF InLine, HeldIds
    <2>3. CASE Sent' = Open \cup Moved /\ Then' = {} /\ Open' = {}
      BY <2>1, <2>3 DEF InLine, HeldIds
    <2>4. CASE Sent' = Open /\ Then' = {} /\ Open' = Moved
      BY <2>1, <2>4 DEF InLine, HeldIds
    <2>5. CASE Sent' = Open /\ Then' = Moved /\ Open' = {}
      BY <2>1, <2>5 DEF InLine, HeldIds
    <2> QED
      BY <1>6, <2>2, <2>3, <2>4, <2>5 DEF Pushed
  <1>7. CASE Flushed
    <2>1. /\ UNCHANGED <<offered, Then, Moved, Queued, Coming>>
          /\ Then = {} /\ Sent' = Open /\ Open' = {}
      BY <1>7 DEF Flushed
    <2> QED
      BY <2>1 DEF InLine, HeldIds
  <1>8. CASE Finished
    BY <1>8 DEF InLine, HeldIds, Finished
  <1>9. CASE Stays
    BY <1>9, <1>a DEF InLine, HeldIds, Stays
  <1> QED
    BY <1>1, <1>2, <1>3, <1>4, <1>5, <1>6, <1>7, <1>8, <1>9

(* The steps that move no id.                                              *)
Resting ==
    \/ QueueFull \/ DropRingbuf \/ DropTx \/ Release \/ CommitLate \/ Deadline
    \/ \E outcome \in Failures : AttemptRetry(outcome)
    \/ UNCHANGED vars

(* The kind of each action.                                                *)
Moves ==
    \/ Arrives /\ \E size \in Sizes : Reserve(size)
    \/ Stays /\ offered' = offered + 1 /\ \E size \in Sizes : RefuseBytes(size)
    \/ Joins /\ Enqueue
    \/ TurnedAway /\ RefuseFull
    \/ Received /\ Recv
    \/ Discarded /\ DropOversized
    \/ Pushed /\ Push
    \/ Flushed /\ (FlushTick \/ ChannelClosed)
    \/ Finished /\ (AttemptOk \/ \E outcome \in Failures : AttemptFail(outcome))
    \/ Stays /\ offered' = offered /\ Resting

(* Every step moves the ids as its kind says and leaves what it holds      *)
(* sorted.                                                                 *)
LEMMA MoveKinds ==
  ASSUME TypeInv, OrderInv, [Next]_vars
  PROVE  Moves /\ EachSorted'
  <1> DEFINE Goal == Moves /\ EachSorted'
  <1> USE IdsFrame
  <1>a. EachSorted /\ Sorted(<<>>)
    BY DEF OrderInv, Sorted
  <1>b. ASSUME UNCHANGED <<sending, afterwards, batch, queue>>
        PROVE  EachSorted'
    BY <1>a, <1>b DEF EachSorted
  <1>c. ASSUME UNCHANGED <<sending, afterwards, batch, taken, queue, item>>
        PROVE  Stays
    BY <1>c DEF Stays
  <1>d. ASSUME NextPayload, UNCHANGED <<offered, batch, taken, queue, item>>
        PROVE  Finished /\ EachSorted'
    <2>1. sending' = afterwards /\ afterwards' = <<>>
      BY <1>d DEF NextPayload
    <2>2. Sent' = Then
      BY <2>1 DEF Sent, Then
    <2> QED
      BY <1>d, <2>1, <2>2, <1>a DEF Finished, EachSorted
  <1>e. ASSUME task = "select", sending' = batch, batch' = <<>>,
               UNCHANGED <<offered, afterwards, taken, queue, item>>
        PROVE  Flushed /\ EachSorted'
    <2>1. sending = <<>> /\ afterwards = <<>>
      BY <1>e DEF TypeInv, Shape
    <2>2. Sent' = Open
      BY <1>e DEF Sent, Open
    <2> QED
      BY <1>e, <2>1, <2>2, <1>a DEF Flushed, EachSorted
  <1>1. ASSUME NEW size \in Sizes, Reserve(size) PROVE Goal
    <2>1. /\ item'.ev = [id |-> offered + 1, size |-> size]
          /\ offered' = offered + 1 /\ item.ev = None
          /\ UNCHANGED <<sending, afterwards, batch, taken, queue>>
      BY <1>1 DEF Reserve, TypeInv, Shape, batchVars, sendVars
    <2>2. item'.ev # None /\ item'.ev.id = offered'
      <3>1. offered \in Nat
        BY ExportAssumption DEF TypeInv, TypeOK
      <3> QED
        BY <2>1, <3>1 DEF None
    <2>3. Coming' = {offered'}
      BY <2>2, IdsOfOne DEF Coming, One
    <2> QED
      BY <1>1, <2>1, <2>3, <1>b DEF Arrives, Moves
  <1>2. ASSUME NEW size \in Sizes, RefuseBytes(size) PROVE Goal
    <2>1. UNCHANGED <<sending, afterwards, batch, taken, queue, item>> /\ offered' = offered + 1
      BY <1>2 DEF RefuseBytes, queueVars, batchVars, sendVars
    <2> QED
      BY <1>2, <2>1, <1>b, <1>c DEF Moves
  <1>3. CASE Enqueue
    <2>1. queue \in Seq(Event) /\ item.ev \in Event /\ item.ev # None
      BY <1>3, ItemInTransit DEF TypeInv, TypeOK, Shape, Enqueue
    <2>2. Coming = {item.ev.id}
      BY <2>1, OneIds DEF Coming
    <2>3. Precede(EventIds(queue), {item.ev.id}) /\ Sorted(queue)
      BY <2>2 DEF OrderInv, InLine, EachSorted, Queued
    <2>4. Sorted(Append(queue, item.ev))
      BY <2>1, <2>3, SortedAppend
    <2>5. Queued' = Queued \cup Coming
      BY <1>3, <2>1, <2>2, IdsOfAppend DEF Enqueue, Queued
    <2>6. /\ item'.ev = None /\ queue' = Append(queue, item.ev)
          /\ UNCHANGED <<offered, sending, afterwards, batch, taken>>
      BY <1>3 DEF Enqueue, batchVars, sendVars
    <2> QED
      BY <1>3, <2>4, <2>5, <2>6, <1>a DEF Joins, EachSorted, Moves
  <1>4. CASE QueueFull
    <2>1. /\ item'.ev = item.ev
          /\ UNCHANGED <<offered, sending, afterwards, batch, taken, queue>>
      BY <1>4 DEF QueueFull, TypeInv, TypeOK, batchVars, sendVars
    <2> QED
      BY <1>4, <2>1, <1>b DEF Stays, Moves, Resting
  <1>5. CASE RefuseFull
    <2>1. /\ item'.ev = None
          /\ UNCHANGED <<offered, sending, afterwards, batch, taken, queue>>
      BY <1>5 DEF RefuseFull, batchVars, sendVars
    <2> QED
      BY <1>5, <2>1, <1>b DEF TurnedAway, Moves
  <1>6. CASE DropRingbuf
    <2>1. UNCHANGED <<sending, afterwards, batch, taken, queue, item, offered>>
      BY <1>6 DEF DropRingbuf, queueVars, batchVars, sendVars
    <2> QED
      BY <1>6, <2>1, <1>b, <1>c DEF Moves, Resting
  <1>7. CASE DropTx
    <2>1. UNCHANGED <<sending, afterwards, batch, taken, queue, item, offered>>
      BY <1>7 DEF DropTx, queueVars, batchVars, sendVars
    <2> QED
      BY <1>7, <2>1, <1>b, <1>c DEF Moves, Resting
  <1>8. CASE Recv
    <2>1. queue \in Seq(Event) /\ queue # <<>> /\ Head(queue) \in Event /\ taken.ev = None
      BY <1>8, HeadTailProperties DEF TypeInv, TypeOK, Shape, Recv
    <2>2. /\ taken'.ev = Head(queue) /\ queue' = Tail(queue)
          /\ UNCHANGED <<offered, sending, afterwards, batch, item>>
      BY <1>8 DEF Recv, prodVars, sendVars
    <2>3. Moved' = {Head(queue).id}
      <3>1. Head(queue) # None
        BY <2>1, NoneIsNoEvent
      <3> QED
        BY <2>2, <3>1, IdsOfOne DEF Moved, One
    <2>4. Queued' = EventIds(Tail(queue))
      BY <2>2 DEF Queued
    <2>5. Sorted(Tail(queue)) /\ Precede({Head(queue).id}, EventIds(Tail(queue)))
      BY <2>1, <1>a, SortedTail DEF EachSorted
    <2>6. Queued = Moved' \cup Queued'
      BY <2>1, <2>3, <2>4, IdsOfTail DEF Queued
    <2> QED
      BY <1>8, <2>1, <2>2, <2>3, <2>4, <2>5, <2>6, <1>a DEF Received, EachSorted, Moves
  <1>9. CASE Release
    <2>1. /\ taken'.ev = taken.ev
          /\ UNCHANGED <<offered, sending, afterwards, batch, item, queue>>
      BY <1>9 DEF Release, TypeInv, TypeOK, prodVars, sendVars
    <2> QED
      BY <1>9, <2>1, <1>b DEF Stays, Moves, Resting
  <1>10. CASE DropOversized
    <2>1. /\ taken'.ev = None
          /\ UNCHANGED <<offered, sending, afterwards, batch, item, queue>>
      BY <1>10 DEF DropOversized, prodVars, sendVars
    <2> QED
      BY <1>10, <2>1, <1>b DEF Discarded, Moves
  <1>11. CASE Push
    <2>1. UNCHANGED <<offered, queue, item>>
      BY <1>11 DEF Push, prodVars
    <2>2. EachSorted'
      BY <2>1, <1>11, <1>a, PushIds DEF EachSorted
    <2>3. UNCHANGED <<offered, Queued, Coming>>
      BY <2>1
    <2>4. Pushed
      BY <2>3, <1>11, PushIds DEF Pushed
    <2> QED
      BY <1>11, <2>2, <2>4 DEF Moves
  <1>12. CASE FlushTick
    BY <1>12, <1>e DEF Moves, FlushTick, prodVars, queueVars
  <1>13. CASE ChannelClosed
    BY <1>13, <1>e DEF Moves, ChannelClosed, prodVars, queueVars
  <1>14. CASE AttemptOk
    BY <1>14, <1>d DEF Moves, AttemptOk, prodVars, queueVars, batchVars
  <1>15. ASSUME NEW outcome \in Failures, AttemptRetry(outcome) PROVE Goal
    <2>1. UNCHANGED <<sending, afterwards, batch, taken, queue, item, offered>>
      BY <1>15 DEF AttemptRetry, prodVars, queueVars, batchVars
    <2> QED
      BY <1>15, <2>1, <1>b, <1>c DEF Moves, Resting
  <1>16. ASSUME NEW outcome \in Failures, AttemptFail(outcome) PROVE Goal
    BY <1>16, <1>d DEF Moves, AttemptFail, prodVars, queueVars, batchVars
  <1>17. CASE CommitLate
    <2>1. UNCHANGED <<sending, afterwards, batch, taken, queue, item, offered>>
      BY <1>17 DEF CommitLate, prodVars, queueVars, batchVars, sendVars
    <2> QED
      BY <1>17, <2>1, <1>b, <1>c DEF Moves, Resting
  <1>18. CASE Deadline
    <2>1. UNCHANGED <<sending, afterwards, batch, taken, queue, item, offered>>
      BY <1>18 DEF Deadline, prodVars, queueVars, batchVars, sendVars
    <2> QED
      BY <1>18, <2>1, <1>b, <1>c DEF Moves, Resting
  <1>19. CASE UNCHANGED vars
    <2>1. UNCHANGED <<sending, afterwards, batch, taken, queue, item, offered>>
      BY <1>19 DEF vars, prodVars, queueVars, batchVars, sendVars
    <2> QED
      BY <1>19, <2>1, <1>b, <1>c DEF Moves, Resting
  <1> QED
    BY <1>1, <1>2, <1>3, <1>4, <1>5, <1>6, <1>7, <1>8, <1>9, <1>10, <1>11, <1>12,
       <1>13, <1>14, <1>15, <1>16, <1>17, <1>18, <1>19
    DEF Next, CaptureStep, TaskStep, SendStep, Exited

(* No step of either thread disturbs the order of the events.              *)
LEMMA OrderStep == TypeInv /\ OrderInv /\ [Next]_vars => OrderInv'
  <1> SUFFICES ASSUME TypeInv, OrderInv, [Next]_vars PROVE OrderInv'
    OBVIOUS
  <1>1. offered \in Nat
    BY ExportAssumption DEF TypeInv, TypeOK
  <1>2. Arrives => offered' = offered + 1
    BY DEF Arrives
  <1>3. /\ offered' \in {offered, offered + 1}
        /\ \/ Arrives \/ Joins \/ TurnedAway \/ Received \/ Discarded \/ Pushed
           \/ Flushed \/ Finished \/ Stays
    BY <1>2, MoveKinds
    DEF Moves, Joins, TurnedAway, Received, Discarded, Pushed, Flushed, Finished
  <1> QED
    BY <1>1, <1>3, MoveKinds, LineStep DEF OrderInv

(* The order always holds.                                                 *)
LEMMA OrderInvariant == Spec => []OrderInv
  <1>1. Init => OrderInv
    <2> SUFFICES ASSUME Init PROVE OrderInv
      OBVIOUS
    <2>1. /\ Sent = {} /\ Then = {} /\ Open = {} /\ Moved = {} /\ Queued = {}
          /\ Coming = {}
      BY IdsOfNone DEF Init, Sent, Then, Open, Moved, Queued, Coming, One
    <2>2. EachSorted
      BY DEF Init, EachSorted, Sorted
    <2> QED
      BY <2>1, <2>2, PrecedeUnion DEF OrderInv, InLine, HeldIds
  <1> QED
    BY <1>1, TypeInvariant, OrderStep, PTL DEF Spec

(* export.rs, "oldest first": neither the queue nor the batch, nor the     *)
(* double payload of a push, reorders or duplicates an event.              *)
THEOREM OrderKept == Spec => []PipelineInOrder
  BY TypeInvariant, OrderInvariant, OrderImplies, PTL

-----------------------------------------------------------------------------
(* The export path implements Delivery.                                    *)

(* The history of an event says where it is: it is held exactly when some  *)
(* place holds it, and unseen exactly when its id was not given out.       *)
FateInv ==
    /\ \A i \in Ids : fate[i] \in {"offered", "accepted"} <=> i \in HeldIds
    /\ \A i \in Ids : fate[i] = "unseen" <=> i > offered

(* The capture thread is outside try_send once main dropped its sender,    *)
(* which it did before the deadline can pass.                              *)
ClosedInv ==
    /\ phase = "closed" => producer = "idle"
    /\ task = "killed" => phase = "closed"

(* What the service stored was acknowledged or given up, or the process is *)
(* gone; what it may still store it has not stored, and no two requests    *)
(* it may still commit share an event.                                     *)
StoreInv ==
    /\ \A i \in Ids : stored[i] # 0 => fate[i] \in {"sent", "lost"} \/ task = "killed"
    /\ \A r \in unsettled :
          /\ r.ids # {}
          /\ \A i \in r.ids :
                /\ stored[i] = 0
                /\ fate[i] = "lost" \/ (task = "killed" /\ i \in HeldIds)
    /\ \A r, q \in unsettled : r # q => r.ids \cap q.ids = {}

(* The shutdown order of main.rs keeps ClosedInv.                          *)
LEMMA ClosedStep == TypeInv /\ ClosedInv /\ [Next]_vars => ClosedInv'
  <1> SUFFICES ASSUME TypeInv, ClosedInv, [Next]_vars PROVE ClosedInv'
    OBVIOUS
  <1> USE DEF ClosedInv
  <1>a. ASSUME UNCHANGED <<phase, producer>>, task' # "killed" \/ phase = "closed"
        PROVE  ClosedInv'
    BY <1>a
  <1>1. CASE CaptureStep
    <2>1. ASSUME NEW size \in Sizes, Reserve(size) \/ RefuseBytes(size) PROVE ClosedInv'
      BY <2>1 DEF Reserve, RefuseBytes
    <2>2. CASE Enqueue \/ QueueFull \/ RefuseFull
      BY <2>2 DEF Enqueue, QueueFull, RefuseFull
    <2>3. CASE DropRingbuf \/ DropTx
      BY <2>3 DEF DropRingbuf, DropTx
    <2> QED
      BY <1>1, <2>1, <2>2, <2>3 DEF CaptureStep
  <1>2. CASE Recv \/ Release \/ DropOversized \/ Push \/ FlushTick \/ ChannelClosed
    BY <1>2 DEF Recv, Release, DropOversized, Push, FlushTick, ChannelClosed, prodVars
  <1>3. CASE SendStep
    <2>1. ASSUME NextPayload, Sending PROVE task' # "killed"
      BY <2>1 DEF NextPayload, Sending
    <2>2. ASSUME NEW outcome \in Failures, AttemptRetry(outcome) PROVE ClosedInv'
      BY <2>2 DEF AttemptRetry, prodVars
    <2>3. ASSUME NEW outcome \in Failures, AttemptFail(outcome) PROVE ClosedInv'
      BY <2>1, <2>3, <1>a DEF AttemptFail, prodVars
    <2>4. CASE AttemptOk
      BY <2>1, <2>4, <1>a DEF AttemptOk, prodVars
    <2> QED
      BY <1>3, <2>2, <2>3, <2>4 DEF SendStep
  <1>4. CASE CommitLate
    BY <1>4 DEF CommitLate, prodVars
  <1>5. CASE Deadline
    BY <1>5 DEF Deadline, prodVars
  <1>6. CASE UNCHANGED vars
    BY <1>6 DEF vars, prodVars
  <1> QED
    BY <1>1, <1>2, <1>3, <1>4, <1>5, <1>6 DEF Next, TaskStep, Exited

(* Two sets of ids in line have no id in common.                           *)
LEMMA PrecedeApart ==
  ASSUME NEW X, X \subseteq Ids, NEW Y, Y \subseteq Ids, Precede(X, Y)
  PROVE  X \cap Y = {}
  <1> SUFFICES ASSUME NEW x \in X, x \in Y PROVE FALSE
    OBVIOUS
  <1>1. x < x /\ x \in Int
    BY ExportAssumption DEF Precede, Ids
  <1> QED
    BY <1>1

(* What the kinds of steps do to the set of ids that are held.             *)
LEMMA HeldChanges ==
  ASSUME TypeInv, OrderInv
  PROVE  /\ Arrives => HeldIds' = HeldIds \cup {offered + 1}
         /\ Joins \/ Received \/ Pushed \/ Flushed \/ Stays => HeldIds' = HeldIds
         /\ TurnedAway => HeldIds' = HeldIds \ Coming
         /\ Discarded => HeldIds' = HeldIds \ Moved
         /\ Finished => HeldIds' = HeldIds \ Sent
         /\ Precede(Sent, HeldIds \ Sent)
         /\ Sent \cup Moved \cup Coming \subseteq HeldIds /\ HeldIds \subseteq Ids
  <1>1. /\ Sent \subseteq Ids /\ Then \subseteq Ids /\ Open \subseteq Ids
        /\ Moved \subseteq Ids /\ Queued \subseteq Ids /\ Coming \subseteq Ids
    BY PlacesType
  <1>2. InLine(Sent, Then, Open, Moved, Queued, Coming)
    BY DEF OrderInv
  <1>3. /\ Coming \cap (Sent \cup Then \cup Open \cup Moved \cup Queued) = {}
        /\ Moved \cap (Sent \cup Then \cup Open \cup Queued \cup Coming) = {}
        /\ Sent \cap (Then \cup Open \cup Moved \cup Queued \cup Coming) = {}
    BY <1>1, <1>2, PrecedeUnion, PrecedeApart DEF InLine
  <1>4. Precede(Sent, HeldIds \ Sent)
    <2>1. Precede(Sent, Then \cup Open \cup Moved \cup Queued \cup Coming)
      <3>1. /\ Precede(Sent, Then) /\ Precede(Sent, Open) /\ Precede(Sent, Moved)
            /\ Precede(Sent, Queued) /\ Precede(Sent, Coming)
        BY <1>2 DEF InLine
      <3> QED
        BY <3>1, Zenon DEF Precede
    <2>2. HeldIds \ Sent = Then \cup Open \cup Moved \cup Queued \cup Coming
      BY <1>3 DEF HeldIds
    <2> QED
      BY <2>1, <2>2
  <1>5. Arrives => HeldIds' = HeldIds \cup {offered + 1}
    BY DEF Arrives, HeldIds
  <1>6. Joins \/ Flushed \/ Stays => HeldIds' = HeldIds
    BY DEF Joins, Flushed, Stays, HeldIds
  <1>7. Received => HeldIds' = HeldIds
    BY DEF Received, HeldIds
  <1>8. Pushed => HeldIds' = HeldIds
    BY DEF Pushed, HeldIds
  <1>9. TurnedAway => HeldIds' = HeldIds \ Coming
    BY <1>3 DEF TurnedAway, HeldIds
  <1>10. Discarded => HeldIds' = HeldIds \ Moved
    BY <1>3 DEF Discarded, HeldIds
  <1>11. Finished => HeldIds' = HeldIds \ Sent
    BY <1>3 DEF Finished, HeldIds
  <1>12. Sent \cup Moved \cup Coming \subseteq HeldIds /\ HeldIds \subseteq Ids
    BY <1>1 DEF HeldIds
  <1> QED
    BY <1>4, <1>5, <1>6, <1>7, <1>8, <1>9, <1>10, <1>11, <1>12

(* What a step does to the fate of the events and to what the service may  *)
(* store, by kind.                                                         *)
Offers(f) ==
    /\ offered + 1 \in Ids /\ offered' = offered + 1 /\ task # "killed"
    /\ fate' = [fate EXCEPT ![offered + 1] = f]
    /\ HeldIds' = HeldIds \cup (IF f = "offered" THEN {offered + 1} ELSE {})
    /\ UNCHANGED <<task, stored, unsettled>>
Accepts ==
    /\ \E i \in HeldIds : fate' = [fate EXCEPT ![i] = "accepted"]
    /\ HeldIds' = HeldIds
    /\ UNCHANGED <<offered, task, stored, unsettled>>
Drops ==
    /\ \E i \in HeldIds : /\ fate' = [fate EXCEPT ![i] = "dropped"]
                          /\ HeldIds' = HeldIds \ {i}
    /\ task # "killed" /\ task' # "killed"
    /\ UNCHANGED <<offered, stored, unsettled>>
Settles(f) ==
    /\ Sent # {} /\ HeldIds' = HeldIds \ Sent
    /\ fate' = [i \in Ids |-> IF i \in Sent THEN f ELSE fate[i]]
    /\ task # "killed" /\ task' # "killed"
    /\ UNCHANGED offered
Acknowledged ==
    /\ stored' = [i \in Ids |-> IF i \in Sent THEN stored[i] + 1 ELSE stored[i]]
    /\ UNCHANGED unsettled
LeavesOpen ==
    /\ unsettled' \in {unsettled, unsettled \cup {[try |-> attempt, ids |-> Sent]}}
    /\ UNCHANGED stored
Stops ==
    /\ task # "killed" /\ task' = "killed"
    /\ unsettled' = IF Sent = {} THEN unsettled
                    ELSE unsettled \cup {[try |-> attempt, ids |-> Sent]}
    /\ HeldIds' = HeldIds
    /\ UNCHANGED <<offered, fate, stored>>
Commits ==
    /\ \E r \in unsettled :
          /\ unsettled' = unsettled \ {r}
          /\ stored' = [i \in Ids |-> IF i \in r.ids THEN stored[i] + 1 ELSE stored[i]]
    /\ HeldIds' = HeldIds
    /\ UNCHANGED <<offered, fate, task>>
Rests ==
    /\ HeldIds' = HeldIds
    /\ task' = "killed" <=> task = "killed"
    /\ UNCHANGED <<offered, fate, stored, unsettled>>

Effect ==
    \/ Offers("offered") \/ Offers("dropped") \/ Accepts \/ Drops
    \/ (Settles("sent") /\ Acknowledged) \/ (Settles("lost") /\ LeavesOpen)
    \/ Stops \/ Commits \/ Rests

(* Every step has one of these effects.  An attempt that is repeated was   *)
(* refused, so it leaves no request behind.                                *)
LEMMA EffectKinds ==
  ASSUME TypeInv, OrderInv, ClosedInv, [Next]_vars
  PROVE  Effect
  <1> USE HeldChanges
  <1>a. Moves
    BY MoveKinds
  <1>b. ASSUME sending # <<>>
        PROVE  Sent # {}
    <2>1. sending \in Seq(Event)
      BY DEF TypeInv, TypeOK
    <2> QED
      BY <1>b, <2>1, IdsOfTail DEF Sent
  <1>1. ASSUME NEW size \in Sizes, Reserve(size), Arrives PROVE Effect
    <2>1. offered + 1 \in Ids
      <3>1. offered \in Nat /\ offered < MaxOffers /\ MaxOffers \in Nat
        BY <1>1, ExportAssumption DEF Reserve, TypeInv, TypeOK
      <3> QED
        BY <3>1 DEF Ids
    <2>2. /\ offered' = offered + 1 /\ fate' = [fate EXCEPT ![offered + 1] = "offered"]
          /\ UNCHANGED <<task, stored, unsettled>> /\ task # "killed"
      BY <1>1 DEF Reserve, serverVars, ClosedInv
    <2>3. HeldIds' = HeldIds \cup {offered + 1}
      BY <1>1
    <2> QED
      BY <2>1, <2>2, <2>3 DEF Effect, Offers
  <1>2. ASSUME NEW size \in Sizes, RefuseBytes(size), Stays PROVE Effect
    <2>1. offered + 1 \in Ids
      <3>1. offered \in Nat /\ offered < MaxOffers /\ MaxOffers \in Nat
        BY <1>2, ExportAssumption DEF RefuseBytes, TypeInv, TypeOK
      <3> QED
        BY <3>1 DEF Ids
    <2>2. /\ offered' = offered + 1 /\ fate' = [fate EXCEPT ![offered + 1] = "dropped"]
          /\ UNCHANGED <<task, stored, unsettled>> /\ task # "killed"
      BY <1>2 DEF RefuseBytes, serverVars, ClosedInv
    <2>3. HeldIds' = HeldIds
      BY <1>2
    <2> QED
      BY <2>1, <2>2, <2>3 DEF Effect, Offers
  <1>3. ASSUME Enqueue, Joins PROVE Effect
    <2>1. item.ev.id \in HeldIds
      <3>1. item.ev \in Event /\ item.ev # None
        BY <1>3, ItemInTransit, NoneIsNoEvent DEF Enqueue
      <3>2. Coming = {item.ev.id}
        BY <3>1, OneIds DEF Coming
      <3> QED
        BY <3>2
    <2>2. /\ fate' = [fate EXCEPT ![item.ev.id] = "accepted"]
          /\ UNCHANGED <<offered, task, stored, unsettled>>
      BY <1>3 DEF Enqueue, serverVars
    <2>3. HeldIds' = HeldIds
      BY <1>3
    <2> QED
      BY <2>1, <2>2, <2>3 DEF Effect, Accepts
  <1>4. ASSUME RefuseFull, TurnedAway PROVE Effect
    <2>1. Coming = {item.ev.id}
      <3>1. item.ev \in Event /\ item.ev # None
        BY <1>4, ItemInTransit, NoneIsNoEvent DEF RefuseFull
      <3> QED
        BY <3>1, OneIds DEF Coming
    <2>2. /\ fate' = [fate EXCEPT ![item.ev.id] = "dropped"]
          /\ UNCHANGED <<offered, task, stored, unsettled>> /\ task # "killed"
      BY <1>4 DEF RefuseFull, serverVars, ClosedInv
    <2>3. HeldIds' = HeldIds \ {item.ev.id} /\ item.ev.id \in HeldIds
      BY <1>4, <2>1
    <2> QED
      BY <2>2, <2>3 DEF Effect, Drops
  <1>5. ASSUME DropOversized, Discarded PROVE Effect
    <2>1. Moved = {taken.ev.id}
      <3>1. taken.ev \in Event /\ taken.ev # None
        BY <1>5, TakenInTransit, NoneIsNoEvent DEF DropOversized
      <3> QED
        BY <3>1, OneIds DEF Moved
    <2>2. /\ fate' = [fate EXCEPT ![taken.ev.id] = "dropped"]
          /\ UNCHANGED <<offered, stored, unsettled>>
          /\ task = "released" /\ task' = "select"
      BY <1>5 DEF DropOversized, serverVars, prodVars
    <2>3. HeldIds' = HeldIds \ {taken.ev.id} /\ taken.ev.id \in HeldIds
      BY <1>5, <2>1
    <2> QED
      BY <2>2, <2>3 DEF Effect, Drops
  <1>6. ASSUME Recv, Received PROVE Effect
    BY <1>6 DEF Effect, Rests, Recv, prodVars, countVars, serverVars
  <1>7. ASSUME Push, Pushed PROVE Effect
    BY <1>7 DEF Effect, Rests, Push, prodVars, countVars, serverVars
  <1>8. ASSUME FlushTick \/ ChannelClosed, Flushed PROVE Effect
    BY <1>8 DEF Effect, Rests, FlushTick, ChannelClosed, prodVars, countVars, serverVars
  <1>c. ASSUME NextPayload, Sending
        PROVE  task # "killed" /\ task' # "killed" /\ Sent # {}
    BY <1>c, <1>b DEF NextPayload, Sending
  <1>9. ASSUME AttemptOk, Finished PROVE Effect
    <2>1. /\ fate' = [i \in Ids |-> IF i \in Sent THEN "sent" ELSE fate[i]]
          /\ Acknowledged /\ UNCHANGED offered /\ Sending /\ NextPayload
      BY <1>9 DEF AttemptOk, Outcome, Acknowledged, Sent, prodVars
    <2> QED
      BY <2>1, <1>9, <1>c DEF Effect, Settles
  <1>10. ASSUME NEW outcome \in Failures, AttemptFail(outcome), Finished PROVE Effect
    <2>1. /\ fate' = [i \in Ids |-> IF i \in Sent THEN "lost" ELSE fate[i]]
          /\ LeavesOpen /\ UNCHANGED offered /\ Sending /\ NextPayload
      BY <1>10 DEF AttemptFail, Outcome, Unacknowledged, LeavesOpen, Sent, prodVars
    <2> QED
      BY <2>1, <1>10, <1>c DEF Effect, Settles
  <1>11. ASSUME Stays, offered' = offered, Resting PROVE Effect
    <2>1. HeldIds' = HeldIds
      BY <1>11
    <2>2. CASE QueueFull \/ DropRingbuf \/ DropTx \/ Release
      BY <2>1, <2>2, <1>11
      DEF Effect, Rests, QueueFull, DropRingbuf, DropTx, Release, countVars, serverVars
    <2>3. CASE CommitLate
      BY <2>1, <2>3, <1>11 DEF Effect, Commits, CommitLate, countVars
    <2>4. CASE Deadline
      <3>1. sending = <<>> <=> Sent = {}
        BY <1>b, IdsFrame
      <3>2. /\ task # "killed" /\ task' = "killed"
            /\ unsettled' = IF Sent = {} THEN unsettled
                            ELSE unsettled \cup {[try |-> attempt, ids |-> Sent]}
            /\ UNCHANGED <<fate, stored>>
        BY <2>4, <3>1 DEF Deadline, Sent, countVars
      <3> QED
        BY <2>1, <3>2, <1>11 DEF Effect, Stops
    <2>5. ASSUME NEW outcome \in Failures, AttemptRetry(outcome) PROVE Effect
      <3>1. unsettled' = unsettled
        BY <2>5 DEF AttemptRetry, Resend, NotProcessed, MayCommit, Unacknowledged
      <3> QED
        BY <2>1, <2>5, <3>1, <1>11 DEF Effect, Rests, AttemptRetry, countVars
    <2>6. CASE UNCHANGED vars
      BY <2>1, <2>6, <1>11 DEF Effect, Rests, vars, countVars, serverVars
    <2> QED
      BY <1>11, <2>2, <2>3, <2>4, <2>5, <2>6 DEF Resting
  <1> QED
    BY <1>a, <1>1, <1>2, <1>3, <1>4, <1>5, <1>6, <1>7, <1>8, <1>9, <1>10, <1>11 DEF Moves

(* The fates are the ones TypeOK lists.                                    *)
LEMMA FatesType ==
  ASSUME TypeInv
  PROVE  /\ fate \in [Ids -> {"unseen", "offered", "accepted", "sent", "lost", "dropped"}]
         /\ stored \in [Ids -> Nat]
         /\ \A r \in unsettled : r.ids \subseteq Ids
         /\ offered \in Nat /\ Ids \subseteq Nat
  BY ExportAssumption DEF TypeInv, TypeOK, Ids

(* Every effect keeps the history true.                                    *)
LEMMA FateStep ==
  ASSUME TypeInv, OrderInv, FateInv, Effect
  PROVE  FateInv'
  <1> USE FatesType
  <1>a. /\ \A i \in Ids : fate[i] \in {"offered", "accepted"} <=> i \in HeldIds
        /\ \A i \in Ids : fate[i] = "unseen" <=> i > offered
    BY DEF FateInv
  <1>b. HeldIds \subseteq Ids /\ HeldIds \subseteq 1..offered /\ Sent \subseteq HeldIds
    BY HeldChanges DEF OrderInv
  <1>c. SUFFICES /\ \A i \in Ids : fate'[i] \in {"offered", "accepted"} <=> i \in HeldIds'
                 /\ \A i \in Ids : fate'[i] = "unseen" <=> i > offered'
    BY DEF FateInv
  <1>1. ASSUME NEW f \in {"offered", "dropped"}, Offers(f)
        PROVE  <1>c!1
    <2>1. /\ offered + 1 \in Ids /\ offered' = offered + 1
          /\ \A i \in Ids : fate'[i] = IF i = offered + 1 THEN f ELSE fate[i]
          /\ HeldIds' = HeldIds \cup (IF f = "offered" THEN {offered + 1} ELSE {})
      BY <1>1 DEF Offers
    <2>2. offered + 1 \notin HeldIds
      BY <1>b
    <2>3. ASSUME NEW i \in Ids
          PROVE  /\ fate'[i] \in {"offered", "accepted"} <=> i \in HeldIds'
                 /\ fate'[i] = "unseen" <=> i > offered'
      <3>1. CASE i = offered + 1
        <4>1. fate'[i] = f /\ ~(i > offered')
          BY <2>1, <3>1
        <4>2. i \in HeldIds' <=> f = "offered"
          BY <2>1, <2>2, <3>1
        <4> QED
          BY <4>1, <4>2
      <3>2. CASE i # offered + 1
        <4>1. fate'[i] = fate[i] /\ (i > offered' <=> i > offered)
          BY <2>1, <3>2
        <4>2. i \in HeldIds' <=> i \in HeldIds
          BY <2>1, <3>2
        <4> QED
          BY <4>1, <4>2, <1>a
      <3> QED
        BY <3>1, <3>2
    <2> QED
      BY <2>3
  <1>2. CASE Accepts
    <2>1. PICK h \in HeldIds : fate' = [fate EXCEPT ![h] = "accepted"]
      BY <1>2 DEF Accepts
    <2>2. HeldIds' = HeldIds /\ offered' = offered
      BY <1>2 DEF Accepts
    <2> QED
      BY <2>1, <2>2, <1>a, <1>b
  <1>3. CASE Drops
    <2>1. PICK h \in HeldIds : /\ fate' = [fate EXCEPT ![h] = "dropped"]
                               /\ HeldIds' = HeldIds \ {h}
      BY <1>3 DEF Drops
    <2>2. offered' = offered
      BY <1>3 DEF Drops
    <2> QED
      BY <2>1, <2>2, <1>a, <1>b
  <1>4. ASSUME NEW f \in {"sent", "lost"}, Settles(f)
        PROVE  <1>c!1
    <2>1. /\ \A i \in Ids : fate'[i] = IF i \in Sent THEN f ELSE fate[i]
          /\ HeldIds' = HeldIds \ Sent /\ offered' = offered
      BY <1>4 DEF Settles
    <2> QED
      BY <2>1, <1>a, <1>b
  <1>5. CASE Stops \/ Commits \/ Rests
    BY <1>5, <1>a DEF Stops, Commits, Rests
  <1> QED
    BY <1>1, <1>2, <1>3, <1>4, <1>5 DEF Effect

(* Every effect keeps what the service may do disjoint from what it did.   *)
LEMMA StoreStep ==
  ASSUME TypeInv, OrderInv, FateInv, StoreInv, Effect
  PROVE  StoreInv'
  <1> USE FatesType
  <1>a. /\ \A i \in Ids : stored[i] # 0 => fate[i] \in {"sent", "lost"} \/ task = "killed"
        /\ \A r \in unsettled : r.ids # {} /\ r.ids \subseteq Ids
        /\ \A r \in unsettled : \A i \in r.ids :
              stored[i] = 0 /\ (fate[i] = "lost" \/ (task = "killed" /\ i \in HeldIds))
        /\ \A r, q \in unsettled : r # q => r.ids \cap q.ids = {}
    BY DEF StoreInv
  <1>b. /\ HeldIds \subseteq Ids /\ Sent \subseteq HeldIds
        /\ \A i \in Ids : fate[i] \in {"offered", "accepted"} <=> i \in HeldIds
        /\ \A i \in Ids : fate[i] = "unseen" <=> i > offered
    BY HeldChanges DEF FateInv
  <1> DEFINE A1 == \A i \in Ids :
                     stored'[i] # 0 => fate'[i] \in {"sent", "lost"} \/ task' = "killed"
             A2 == \A r \in unsettled' :
                     /\ r.ids # {}
                     /\ \A i \in r.ids :
                           /\ stored'[i] = 0
                           /\ fate'[i] = "lost" \/ (task' = "killed" /\ i \in HeldIds')
             A3 == \A r, q \in unsettled' : r # q => r.ids \cap q.ids = {}
  <1>c. SUFFICES A1 /\ A2 /\ A3
    BY DEF StoreInv
  <1>d. ASSUME NEW i \in Ids, i \in HeldIds, task # "killed"
        PROVE  stored[i] = 0 /\ \A r \in unsettled : i \notin r.ids
    BY <1>d, <1>a, <1>b
  (* Steps that change the fate of one event that is not settled.          *)
  <1>e. ASSUME NEW h \in Ids, NEW f, fate' = [fate EXCEPT ![h] = f],
               fate[h] \notin {"sent", "lost"}, task # "killed", task' # "killed",
               UNCHANGED <<stored, unsettled>>
        PROVE  A1 /\ A2 /\ A3
    <2>1. \A i \in Ids : fate[i] \in {"sent", "lost"} => fate'[i] = fate[i]
      BY <1>e
    <2>2. A1
      BY <1>a, <1>e, <2>1
    <2>3. A2
      BY <1>a, <1>e, <2>1
    <2> QED
      BY <1>a, <1>e, <2>2, <2>3
  <1>1. ASSUME NEW f \in {"offered", "dropped"}, Offers(f)
        PROVE  A1 /\ A2 /\ A3
    <2>1. /\ offered + 1 \in Ids /\ fate' = [fate EXCEPT ![offered + 1] = f]
          /\ task # "killed" /\ UNCHANGED <<task, stored, unsettled>>
      BY <1>1 DEF Offers
    <2>2. fate[offered + 1] = "unseen"
      BY <2>1, <1>b
    <2> QED
      BY <2>1, <2>2, <1>e
  <1>2. CASE Accepts
    <2>1. PICK h \in HeldIds : fate' = [fate EXCEPT ![h] = "accepted"]
      BY <1>2 DEF Accepts
    <2>2. UNCHANGED <<HeldIds, task, stored, unsettled>>
      BY <1>2 DEF Accepts
    <2>3. \A i \in Ids : fate[i] \in {"sent", "lost"} => fate'[i] = fate[i]
      BY <2>1, <1>b
    <2>4. A1
      BY <1>a, <2>2, <2>3
    <2>5. A2
      BY <1>a, <2>2, <2>3
    <2> QED
      BY <1>a, <2>2, <2>4, <2>5
  <1>3. CASE Drops
    <2>1. PICK h \in HeldIds : fate' = [fate EXCEPT ![h] = "dropped"]
      BY <1>3 DEF Drops
    <2>2. task # "killed" /\ task' # "killed" /\ UNCHANGED <<stored, unsettled>>
      BY <1>3 DEF Drops
    <2>3. h \in Ids /\ fate[h] \notin {"sent", "lost"}
      BY <2>1, <1>b
    <2> QED
      BY <2>1, <2>2, <2>3, <1>e
  <1>4. CASE Settles("sent") /\ Acknowledged
    <2>1. /\ \A i \in Ids : fate'[i] = IF i \in Sent THEN "sent" ELSE fate[i]
          /\ \A i \in Ids : stored'[i] = IF i \in Sent THEN stored[i] + 1 ELSE stored[i]
          /\ task # "killed" /\ task' # "killed" /\ unsettled' = unsettled
      BY <1>4 DEF Settles, Acknowledged
    <2>2. A1
      BY <2>1, <1>a
    <2>3. \A r \in unsettled : \A i \in r.ids : i \in Ids /\ i \notin Sent
      BY <2>1, <1>a, <1>b, <1>d
    <2>4. A2
      BY <2>1, <2>3, <1>a
    <2> QED
      BY <2>1, <2>2, <2>4, <1>a
  <1>f. ASSUME NEW t, unsettled' = unsettled \cup {[try |-> t, ids |-> Sent]},
               task # "killed"
        PROVE  A3
    <2>1. \A r \in unsettled : r.ids \cap Sent = {}
      BY <1>f, <1>a, <1>b, <1>d
    <2>2. ASSUME NEW r \in unsettled', NEW q \in unsettled', r # q
          PROVE  r.ids \cap q.ids = {}
      <3>1. CASE r \in unsettled /\ q \in unsettled
        BY <2>2, <3>1, <1>a
      <3>2. CASE r \in unsettled /\ q = [try |-> t, ids |-> Sent]
        BY <3>2, <2>1
      <3>3. CASE q \in unsettled /\ r = [try |-> t, ids |-> Sent]
        BY <3>3, <2>1
      <3> QED
        BY <1>f, <2>2, <3>1, <3>2, <3>3
    <2> QED
      BY <2>2
  <1>5. CASE Settles("lost") /\ LeavesOpen
    <2>1. /\ \A i \in Ids : fate'[i] = IF i \in Sent THEN "lost" ELSE fate[i]
          /\ task # "killed" /\ task' # "killed" /\ stored' = stored /\ Sent # {}
          /\ unsettled' \in {unsettled, unsettled \cup {[try |-> attempt, ids |-> Sent]}}
      BY <1>5 DEF Settles, LeavesOpen
    <2>2. A1
      BY <2>1, <1>a
    <2>3. \A i \in Sent : i \in Ids /\ stored[i] = 0
      BY <2>1, <1>b, <1>d
    <2>4. A2
      <3> SUFFICES ASSUME NEW r \in unsettled'
                   PROVE  /\ r.ids # {}
                          /\ \A i \in r.ids : stored'[i] = 0 /\ fate'[i] = "lost"
        OBVIOUS
      <3>1. CASE r \in unsettled
        BY <3>1, <2>1, <1>a
      <3>2. CASE r = [try |-> attempt, ids |-> Sent]
        <4>1. r.ids = Sent
          BY <3>2
        <4> QED
          BY <4>1, <2>1, <2>3
      <3> QED
        BY <2>1, <3>1, <3>2
    <2>5. A3
      BY <2>1, <1>a, <1>f
    <2> QED
      BY <2>2, <2>4, <2>5
  <1>6. CASE Stops
    <2>1. /\ task # "killed" /\ task' = "killed" /\ UNCHANGED <<HeldIds, fate, stored>>
          /\ unsettled' = IF Sent = {} THEN unsettled
                          ELSE unsettled \cup {[try |-> attempt, ids |-> Sent]}
      BY <1>6 DEF Stops
    <2>2. A1
      BY <2>1
    <2>3. \A i \in Sent : i \in Ids /\ i \in HeldIds /\ stored[i] = 0
      BY <2>1, <1>b, <1>d
    <2>4. A2
      <3> SUFFICES ASSUME NEW r \in unsettled'
                   PROVE  /\ r.ids # {}
                          /\ \A i \in r.ids :
                                stored'[i] = 0 /\ (fate'[i] = "lost" \/ i \in HeldIds')
        BY <2>1
      <3>1. CASE r \in unsettled
        BY <3>1, <2>1, <1>a
      <3>2. CASE r = [try |-> attempt, ids |-> Sent] /\ Sent # {}
        <4>1. r.ids = Sent
          BY <3>2
        <4> QED
          BY <4>1, <3>2, <2>1, <2>3
      <3> QED
        BY <2>1, <3>1, <3>2
    <2>5. A3
      <3>1. CASE Sent = {}
        BY <3>1, <2>1, <1>a
      <3>2. CASE Sent # {}
        BY <3>2, <2>1, <1>f
      <3> QED
        BY <3>1, <3>2
    <2> QED
      BY <2>2, <2>4, <2>5
  <1>7. CASE Commits
    <2>1. UNCHANGED <<HeldIds, fate, task>>
      BY <1>7 DEF Commits
    <2>2. PICK c \in unsettled :
             /\ unsettled' = unsettled \ {c}
             /\ stored' = [i \in Ids |-> IF i \in c.ids THEN stored[i] + 1 ELSE stored[i]]
      BY <1>7 DEF Commits
    <2>3. \A i \in Ids : i \in c.ids => fate[i] = "lost" \/ task = "killed"
      BY <1>a
    <2>4. \A i \in Ids : i \notin c.ids => stored'[i] = stored[i]
      BY <2>2
    <2>5. A1
      BY <2>1, <2>3, <2>4, <1>a
    <2>6. A2
      <3> SUFFICES ASSUME NEW r \in unsettled'
                   PROVE  /\ r.ids # {}
                          /\ \A i \in r.ids :
                                /\ stored'[i] = 0
                                /\ fate'[i] = "lost" \/ (task' = "killed" /\ i \in HeldIds')
        OBVIOUS
      <3>1. r \in unsettled /\ r # c
        BY <2>2
      <3>2. \A i \in r.ids : i \in Ids /\ i \notin c.ids
        BY <3>1, <1>a
      <3> QED
        BY <3>1, <3>2, <2>1, <2>4, <1>a
    <2>7. A3
      BY <2>2, <1>a
    <2> QED
      BY <2>5, <2>6, <2>7
  <1>8. CASE Rests
    <2>1. UNCHANGED <<HeldIds, fate, stored, unsettled>>
          /\ (task' = "killed" <=> task = "killed")
      BY <1>8 DEF Rests
    <2> QED
      BY <2>1, <1>a
  <1> QED
    BY <1>1, <1>2, <1>3, <1>4, <1>5, <1>6, <1>7, <1>8 DEF Effect

(* The status that Delivery sees of each event.                            *)
Status == [i \in Ids |-> StatusOf(fate[i])]

(* The mapping of the history to the promise.                              *)
LEMMA StatusIs ==
  ASSUME TypeInv, FateInv
  PROVE  /\ \A i \in Ids : Status[i] = "held" <=> i \in HeldIds
         /\ \A i \in Ids : Status[i] = "unseen" <=> i > offered
         /\ \A i \in Ids : fate[i] = "lost" => Status[i] = "lost"
         /\ Abstract!Held = HeldIds
  <1> USE FatesType
  <1>1. \A i \in Ids : Status[i] = StatusOf(fate[i])
    BY DEF Status
  <1>2. /\ \A i \in Ids : Status[i] = "held" <=> i \in HeldIds
        /\ \A i \in Ids : Status[i] = "unseen" <=> i > offered
        /\ \A i \in Ids : fate[i] = "lost" => Status[i] = "lost"
    BY <1>1 DEF StatusOf, FateInv
  <1>3. HeldIds \subseteq Ids
    BY PlacesType DEF HeldIds
  <1>4. Abstract!Held = {i \in Ids : Status[i] = "held"}
    BY DEF Abstract!Held, Status
  <1> QED
    BY <1>2, <1>3, <1>4

(* The export path starts where Delivery does.                             *)
LEMMA RefinesInit == Init => Abstract!Init
  BY DEF Init, Abstract!Init, StatusOf

(* Every effect is a step of Delivery or leaves it alone.                  *)
LEMMA RefinesStep ==
  ASSUME TypeInv, OrderInv, FateInv, StoreInv, Effect
  PROVE  [Abstract!Next]_(Abstract!vars)
  <1> USE FatesType
  <1> DEFINE stopped == task = "killed"
  <1>a. /\ HeldIds \subseteq Ids /\ Sent \subseteq HeldIds
        /\ \A x \in Sent, y \in HeldIds \ Sent : x < y
    BY HeldChanges DEF Precede
  <1>b. /\ \A i \in Ids : Status[i] = "held" <=> i \in HeldIds
        /\ \A i \in Ids : Status[i] = "unseen" <=> i > offered
        /\ \A i \in Ids : fate[i] = "lost" => Status[i] = "lost"
        /\ Abstract!Held = HeldIds
    BY StatusIs
  <1>c. \A S \in SUBSET Ids : S # {} /\ S = Sent => Abstract!Oldest(S)
    BY <1>a, <1>b DEF Abstract!Oldest
  <1>d. ASSUME NEW S \in SUBSET Ids, \A i \in S : stored[i] = 0
        PROVE  Abstract!Fresh(S)
    BY <1>d DEF Abstract!Fresh
  <1>e. ASSUME ~stopped
        PROVE  \A i \in HeldIds : stored[i] = 0
    BY <1>e, <1>a DEF StoreInv, FateInv
  <1>f. ASSUME NEW h \in Ids, NEW f \in {"offered", "dropped"},
               fate' = [fate EXCEPT ![h] = f]
        PROVE  Status' = Abstract!Set({h}, StatusOf(f))
    <2>1. \A i \in Ids : fate'[i] = IF i \in {h} THEN f ELSE fate[i]
      BY <1>f
    <2> QED
      BY <2>1 DEF Abstract!Set, Status
  <1>1. CASE Offers("offered")
    <2> DEFINE n == offered + 1
    <2>1. /\ n \in Ids /\ ~stopped /\ fate' = [fate EXCEPT ![n] = "offered"]
          /\ UNCHANGED <<task, stored>>
      BY <1>1 DEF Offers
    <2>2. Status[n] = "unseen" /\ \A j \in Ids : Status[j] # "unseen" => j < n
      BY <2>1, <1>b
    <2>3. Status' = Abstract!Set({n}, "held")
      BY <2>1, <1>f DEF StatusOf
    <2> HIDE DEF n
    <2>4. Abstract!Hold(n)
      BY <2>1, <2>2, <2>3 DEF Abstract!Hold, Status
    <2> QED
      BY <2>1, <2>4 DEF Abstract!Next
  <1>2. CASE Offers("dropped")
    <2> DEFINE n == offered + 1
    <2>1. /\ n \in Ids /\ ~stopped /\ fate' = [fate EXCEPT ![n] = "dropped"]
          /\ UNCHANGED <<task, stored>>
      BY <1>2 DEF Offers
    <2>2. Status[n] = "unseen"
      BY <2>1, <1>b
    <2>3. Status' = Abstract!Set({n}, "dropped")
      BY <2>1, <1>f DEF StatusOf
    <2> HIDE DEF n
    <2>4. Abstract!Refuse(n)
      BY <2>1, <2>2, <2>3 DEF Abstract!Refuse, Status
    <2> QED
      BY <2>1, <2>4 DEF Abstract!Next
  <1>3. CASE Accepts
    <2>1. PICK h \in HeldIds : fate' = [fate EXCEPT ![h] = "accepted"]
      BY <1>3 DEF Accepts
    <2>2. UNCHANGED <<task, stored>> /\ h \in Ids /\ fate[h] \in {"offered", "accepted"}
      BY <1>3, <1>a DEF Accepts, FateInv
    <2>3. \A i \in Ids : StatusOf(fate'[i]) = StatusOf(fate[i])
      BY <2>1, <2>2 DEF StatusOf
    <2>4. Status' = Status
      BY <2>3 DEF Status
    <2> QED
      BY <2>2, <2>4 DEF Abstract!vars, Status
  <1>4. CASE Drops
    <2>1. PICK h \in HeldIds : fate' = [fate EXCEPT ![h] = "dropped"]
      BY <1>4 DEF Drops
    <2>2. h \in Ids /\ ~stopped /\ stopped' = stopped /\ stored' = stored
      BY <1>4, <1>a DEF Drops
    <2>3. Status[h] = "held"
      BY <2>2, <1>b
    <2>4. Status' = Abstract!Set({h}, "dropped")
      BY <2>1, <2>2, <1>f DEF StatusOf
    <2>5. Abstract!Refuse(h)
      BY <2>2, <2>3, <2>4 DEF Abstract!Refuse, Status
    <2> QED
      BY <2>2, <2>5 DEF Abstract!Next
  <1>g. ASSUME NEW f \in {"sent", "lost"}, Settles(f)
        PROVE  /\ Status' = Abstract!Set(Sent, f) /\ Sent \in SUBSET Ids
               /\ Abstract!Oldest(Sent) /\ Abstract!Fresh(Sent)
               /\ ~stopped /\ stopped' = stopped
    <2>1. /\ \A i \in Ids : fate'[i] = IF i \in Sent THEN f ELSE fate[i]
          /\ ~stopped /\ stopped' = stopped /\ Sent # {}
      BY <1>g DEF Settles
    <2>2. Status' = Abstract!Set(Sent, f)
      <3>1. StatusOf(f) = f
        BY DEF StatusOf
      <3> QED
        BY <2>1, <3>1 DEF Abstract!Set, Status
    <2>3. Sent \in SUBSET Ids
      BY <1>a
    <2> QED
      BY <2>1, <2>2, <2>3, <1>a, <1>c, <1>d, <1>e
  <1>5. CASE Settles("sent") /\ Acknowledged
    <2>1. stored' = Abstract!Store(Sent)
      BY <1>5 DEF Acknowledged, Abstract!Store
    <2>2. Abstract!Deliver(Sent)
      BY <1>5, <1>g, <2>1 DEF Abstract!Deliver, Status
    <2> QED
      BY <2>2, <1>5, <1>g DEF Abstract!Next
  <1>6. CASE Settles("lost") /\ LeavesOpen
    <2>1. stored' = stored
      BY <1>6 DEF LeavesOpen
    <2>2. Abstract!GiveUp(Sent)
      BY <1>6, <1>g, <2>1 DEF Abstract!GiveUp, Status
    <2> QED
      BY <2>2, <1>6, <1>g DEF Abstract!Next
  <1>7. CASE Stops
    <2>1. Abstract!Stop
      BY <1>7 DEF Stops, Abstract!Stop
    <2> QED
      BY <2>1 DEF Abstract!Next
  <1>8. CASE Commits
    <2>1. UNCHANGED <<fate, task>>
      BY <1>8 DEF Commits
    <2>2. PICK c \in unsettled :
             stored' = [i \in Ids |-> IF i \in c.ids THEN stored[i] + 1 ELSE stored[i]]
      BY <1>8 DEF Commits
    <2>3. /\ c.ids # {} /\ c.ids \in SUBSET Ids
          /\ \A i \in c.ids : stored[i] = 0
          /\ \A i \in c.ids : fate[i] = "lost" \/ (stopped /\ i \in HeldIds)
      BY DEF StoreInv
    <2>4. \A i \in c.ids : Status[i] = "lost" \/ (stopped /\ Status[i] = "held")
      BY <2>3, <1>b
    <2>5. stored' = Abstract!Store(c.ids)
      BY <2>2 DEF Abstract!Store
    <2>6. Abstract!CommitLate(c.ids)
      BY <2>1, <2>3, <2>4, <2>5, <1>d DEF Abstract!CommitLate, Status
    <2> QED
      BY <2>3, <2>6 DEF Abstract!Next
  <1>9. CASE Rests
    <2>1. /\ fate' = fate /\ stored' = stored
          /\ (task' = "killed") = (task = "killed")
      BY <1>9 DEF Rests
    <2> QED
      BY <2>1 DEF Abstract!vars
  <1> QED
    BY <1>1, <1>2, <1>3, <1>4, <1>5, <1>6, <1>7, <1>8, <1>9 DEF Effect

(* What the refinement rests on.                                           *)
DeliveryInv == TypeInv /\ OrderInv /\ ClosedInv /\ FateInv /\ StoreInv

(* The invariant of the refinement is inductive.                           *)
LEMMA DeliveryInvStep ==
  DeliveryInv /\ [Next]_vars => DeliveryInv' /\ [Abstract!Next]_(Abstract!vars)
  <1> SUFFICES ASSUME DeliveryInv, [Next]_vars
               PROVE  DeliveryInv' /\ [Abstract!Next]_(Abstract!vars)
    OBVIOUS
  <1>1. TypeInv /\ OrderInv /\ ClosedInv /\ FateInv /\ StoreInv
    BY DEF DeliveryInv
  <1>2. Effect
    BY <1>1, EffectKinds
  <1>3. TypeInv' /\ OrderInv' /\ ClosedInv'
    BY <1>1, TypeStep, OrderStep, ClosedStep
  <1>4. FateInv' /\ StoreInv'
    BY <1>1, <1>2, FateStep, StoreStep
  <1>5. [Abstract!Next]_(Abstract!vars)
    BY <1>1, <1>2, RefinesStep
  <1> QED
    BY <1>3, <1>4, <1>5 DEF DeliveryInv

(* It holds at first: no event was offered, none stored.                   *)
LEMMA DeliveryInvInit == Init => DeliveryInv
  <1> SUFFICES ASSUME Init PROVE DeliveryInv
    OBVIOUS
  <1>1. TypeInv
    BY TypeInit
  <1>2. /\ Sent = {} /\ Then = {} /\ Open = {} /\ Moved = {} /\ Queued = {}
        /\ Coming = {}
    BY IdsOfNone DEF Init, Sent, Then, Open, Moved, Queued, Coming, One
  <1>3. EachSorted
    BY DEF Init, EachSorted, Sorted
  <1>4. OrderInv
    BY <1>2, <1>3, PrecedeUnion DEF OrderInv, InLine, HeldIds
  <1>5. HeldIds = {}
    BY <1>2 DEF HeldIds
  <1>6. FateInv
    BY <1>5, FatesType, <1>1 DEF Init, FateInv, Ids
  <1>7. StoreInv /\ ClosedInv
    BY DEF Init, StoreInv, ClosedInv
  <1> QED
    BY <1>1, <1>4, <1>6, <1>7 DEF DeliveryInv

(* export.rs, ingest.rs: the queue, the batch and the attempt loop         *)
(* implement Delivery.  Every event is settled once, oldest first, and the *)
(* service stores it at most once, however late it commits a request it    *)
(* did not acknowledge and whenever the deadline stops the process.        *)
THEOREM DeliveryImplemented == Spec => ImplementsDelivery
  <1>1. Init => Abstract!Init
    BY RefinesInit
  <1>2. Spec => [][Abstract!Next]_(Abstract!vars)
    BY DeliveryInvInit, DeliveryInvStep, PTL DEF Spec
  <1> QED
    BY <1>1, <1>2, PTL DEF Spec, ImplementsDelivery, Abstract!Spec


-----------------------------------------------------------------------------
(* The bytes of the queue and of the batch.                                *)

(* The sizes of some events, by position.                                  *)
SizesOf(s) == [i \in DOMAIN s |-> s[i].size]

(* Bytes is a sum over the positions of a sequence.                        *)
LEMMA BytesIs ==
  ASSUME NEW s \in Seq(Event)
  PROVE  /\ Bytes(s) = Total(SizesOf(s), 1..Len(s)) /\ Bytes(s) \in Nat
         /\ Len(s) \in Nat /\ DOMAIN s = 1..Len(s) /\ IsFiniteSet(1..Len(s))
         /\ \A i \in 1..Len(s) : SizesOf(s)[i] = s[i].size /\ s[i].size \in Nat
  <1>1. Len(s) \in Nat /\ DOMAIN s = 1..Len(s) /\ \A i \in 1..Len(s) : s[i] \in Event
    BY LenProperties, ElementOfSeq
  <1>2. \A i \in 1..Len(s) : SizesOf(s)[i] = s[i].size /\ s[i].size \in Nat
    BY <1>1, ExportAssumption DEF SizesOf, Event
  <1>3. IsFiniteSet(1..Len(s))
    BY <1>1, FS_Interval
  <1> DEFINE h == SizesOf(s)
             S == 1..Len(s)
  <1>4. Bytes(s) = SumFunctionOnSet(h, S)
    BY <1>1 DEF Bytes, SizesOf
  <1>5. IsFiniteSet(S) /\ \A i \in S : h[i] \in Nat
    BY <1>2, <1>3
  <1> HIDE DEF h, S
  <1>6. SumFunctionOnSet(h, S) = Total(h, S) /\ Total(h, S) \in Nat
    BY <1>5, SumIs, TotalType
  <1> QED
    BY <1>1, <1>2, <1>3, <1>4, <1>6 DEF h, S

(* No events have no bytes.                                                *)
LEMMA BytesOfNone == Bytes(<<>>) = 0
  <1>1. <<>> \in Seq(Event) /\ Len(<<>>) = 0
    BY EmptySeq
  <1>2. Bytes(<<>>) = Total(SizesOf(<<>>), 1..0)
    BY <1>1, BytesIs
  <1>3. 1..0 = {}
    OBVIOUS
  <1> QED
    BY <1>2, <1>3, TotalOne

(* An event adds its size.                                                 *)
LEMMA BytesOfAppend ==
  ASSUME NEW s \in Seq(Event), NEW e \in Event
  PROVE  Bytes(Append(s, e)) = Bytes(s) + e.size
  <1> DEFINE w == Append(s, e)
             n == Len(s)
             h == SizesOf(w)
             k == SizesOf(s)
             S == 1..n
             D == {n + 1}
  <1>1. /\ w \in Seq(Event) /\ Len(w) = n + 1 /\ n \in Nat /\ w[n + 1] = e
        /\ \A i \in 1..n : w[i] = s[i]
    BY AppendProperties, LenProperties
  <1> HIDE DEF w, n
  <1>2. /\ Bytes(w) = Total(h, 1..(n + 1)) /\ \A i \in 1..(n + 1) : h[i] = w[i].size /\ h[i] \in Nat
    <2>1. Bytes(w) = Total(SizesOf(w), 1..Len(w))
          /\ \A i \in 1..Len(w) : SizesOf(w)[i] = w[i].size /\ w[i].size \in Nat
      BY <1>1, BytesIs
    <2> QED
      BY <1>1, <2>1
  <1>3. /\ Bytes(s) = Total(k, S) /\ IsFiniteSet(S) /\ \A i \in S : k[i] = s[i].size
    BY BytesIs DEF n
  <1>4. 1..(n + 1) = S \cup D /\ S \cap D = {} /\ IsFiniteSet(D) /\ n + 1 \in 1..(n + 1)
    <2>1. 1..(n + 1) = S \cup D /\ S \cap D = {} /\ n + 1 \in 1..(n + 1)
      BY <1>1
    <2>2. IsFiniteSet(D)
      BY FS_Singleton
    <2> QED
      BY <2>1, <2>2
  <1>5. \A i \in S : h[i] = k[i]
    BY <1>1, <1>2, <1>3, <1>4
  <1>6. \A i \in S \cup D : h[i] \in Nat
    BY <1>2, <1>4
  <1>7. h[n + 1] = e.size /\ h[n + 1] \in Nat
    BY <1>1, <1>2, <1>4
  <1> HIDE DEF h, k, S
  <1>8. Total(h, S \cup D) = Total(h, S) + Total(h, D)
    BY <1>3, <1>4, <1>6, TotalUnion
  <1>9. Total(h, S) = Total(k, S) /\ Total(h, D) = h[n + 1]
    BY <1>5, <1>7, TotalSame, TotalOne
  <1> QED
    BY <1>2, <1>3, <1>4, <1>7, <1>8, <1>9 DEF w

(* The first event takes its size with it.                                 *)
LEMMA BytesOfTail ==
  ASSUME NEW s \in Seq(Event), s # <<>>
  PROVE  /\ Head(s) \in Event /\ Tail(s) \in Seq(Event)
         /\ Bytes(s) = Bytes(Tail(s)) + Head(s).size
  <1> DEFINE w == Tail(s)
             n == Len(w)
             h == SizesOf(s)
             k == SizesOf(w)
             S == 1..n
             T == 2..(n + 1)
             D == {1}
             f == [i \in S |-> i + 1]
  <1>1. /\ Head(s) \in Event /\ w \in Seq(Event) /\ Len(s) = n + 1 /\ n \in Nat /\ Head(s) = s[1]
        /\ \A i \in 1..n : w[i] = s[i + 1]
    BY HeadTailProperties, LenProperties
  <1> HIDE DEF w, n
  <1>2. Bytes(s) = Total(h, 1..(n + 1)) /\ \A i \in 1..(n + 1) : h[i] = s[i].size /\ h[i] \in Nat
    <2>1. Bytes(s) = Total(SizesOf(s), 1..Len(s))
          /\ \A i \in 1..Len(s) : SizesOf(s)[i] = s[i].size /\ s[i].size \in Nat
      BY BytesIs
    <2> QED
      BY <1>1, <2>1
  <1>3. Bytes(w) = Total(k, S) /\ IsFiniteSet(S) /\ \A i \in S : k[i] = w[i].size /\ k[i] \in Nat
    <2>1. /\ Bytes(w) = Total(SizesOf(w), 1..Len(w)) /\ IsFiniteSet(1..Len(w))
          /\ \A i \in 1..Len(w) : SizesOf(w)[i] = w[i].size /\ w[i].size \in Nat
      BY <1>1, BytesIs
    <2> QED
      BY <2>1 DEF n
  <1>4. /\ 1..(n + 1) = T \cup D /\ T \cap D = {} /\ IsFiniteSet(T) /\ IsFiniteSet(D)
        /\ 1 \in 1..(n + 1)
    <2>1. 1..(n + 1) = T \cup D /\ T \cap D = {} /\ 1 \in 1..(n + 1) /\ n + 1 \in Int
      BY <1>1
    <2>2. IsFiniteSet(D)
      BY FS_Singleton
    <2>3. IsFiniteSet(T)
      BY <2>1, FS_Interval
    <2> QED
      BY <2>1, <2>2, <2>3
  <1>5. f \in Bijection(S, T)
    <2>1. f \in [S -> T] /\ \A i \in S : f[i] = i + 1
      BY <1>1
    <2>2. \A i, j \in S : f[i] = f[j] => i = j
      BY <1>1, <2>1
    <2>3. \A j \in T : j - 1 \in S /\ f[j - 1] = j
      BY <1>1, <2>1
    <2> HIDE DEF f, S, T
    <2> QED
      BY <2>1, <2>2, <2>3 DEF Bijection, Injection, IsInjective, Surjection
  <1>6. \A i \in S : h[f[i]] = k[i]
    <2>1. \A i \in S : f[i] = i + 1 /\ i + 1 \in 1..(n + 1) /\ w[i] = s[i + 1]
      BY <1>1
    <2> HIDE DEF f, S, h, k
    <2> QED
      BY <2>1, <1>2, <1>3
  <1>7. (\A i \in T \cup D : h[i] \in Nat) /\ h[1] = Head(s).size /\ h[1] \in Nat
    BY <1>1, <1>2, <1>4
  <1> HIDE DEF h, k, S, T, f
  <1>8. Total(h, T) = Total(k, S)
    BY <1>3, <1>5, <1>6, TotalRenamed
  <1> HIDE DEF D
  <1>9. Total(h, T \cup D) = Total(h, T) + Total(h, D)
    BY <1>4, <1>7, TotalUnion
  <1>d. Total(h, D) = h[1]
    BY <1>7, TotalOne DEF D
  <1> QED
    BY <1>1, <1>2, <1>3, <1>4, <1>7, <1>8, <1>9, <1>d DEF w

(* What the two threads have in hand.                                      *)
InHand == (IF producer = "reserved" THEN item.ev.size ELSE 0)
          + (IF task = "popped" THEN taken.ev.size ELSE 0)

(* The two parts of BytesExact: the queue's and the batch's.               *)
QueueBytes == used = Bytes(queue) + InHand
BatchBytes ==
    /\ batchBytes = Bytes(batch)
    /\ \A b \in {batch, sending, afterwards} : Bytes(b) <= MaxBatchBytes

(* Batch::push counts the bytes of the batch it leaves, and returns no     *)
(* payload above the limit.                                                *)
LEMMA PushBytes ==
  ASSUME TypeInv, BatchBytes, Push
  PROVE  BatchBytes'
  <1> DEFINE ev == taken.ev
             flush == Overflows(ev)
             events == IF flush THEN <<ev>> ELSE Append(batch, ev)
             bytes == IF flush THEN ev.size ELSE batchBytes + ev.size
             full == Full(events, bytes)
  <1>1. /\ batch \in Seq(Event) /\ ev \in Event /\ ev.size \in Nat /\ batchBytes \in Nat
        /\ MaxBatchBytes \in Nat
    BY TakenInTransit, ExportAssumption DEF TypeInv, TypeOK, Push
  <1>2. Bytes(events) = bytes
    <2>1. Bytes(Append(batch, ev)) = batchBytes + ev.size
      BY <1>1, BytesOfAppend DEF BatchBytes
    <2>2. Bytes(<<ev>>) = ev.size
      <3>1. <<>> \in Seq(Event) /\ <<ev>> = Append(<<>>, ev)
        BY EmptySeq
      <3>2. Bytes(Append(<<>>, ev)) = 0 + ev.size
        BY <1>1, <3>1, BytesOfAppend, BytesOfNone
      <3> HIDE DEF ev
      <3> QED
        BY <1>1, <3>1, <3>2
    <2> QED
      BY <2>1, <2>2
  <1>3. bytes <= MaxBatchBytes
    <2>1. ev.size <= MaxBatchBytes
      BY <1>1 DEF Push, Oversized
    <2>2. CASE ~flush /\ batch = <<>>
      <3>1. batchBytes = 0
        BY <2>2, BytesOfNone DEF BatchBytes
      <3> QED
        BY <1>1, <2>1, <3>1
    <2>3. CASE ~flush /\ batch # <<>>
      BY <1>1, <2>3 DEF Overflows
    <2> QED
      BY <2>1, <2>2, <2>3
  <1>4. /\ batch' = IF full THEN <<>> ELSE events
        /\ batchBytes' = IF full THEN 0 ELSE bytes
        /\ sending' = FirstPayload(flush, full, events)
        /\ afterwards' = SecondPayload(flush, full, events)
    BY DEF Push
  <1>5. Bytes(<<>>) = 0 /\ Bytes(batch) <= MaxBatchBytes /\ 0 <= MaxBatchBytes
    BY <1>1, BytesOfNone DEF BatchBytes
  <1> HIDE DEF flush, events, bytes, full
  <1>6. /\ sending' \in {<<>>, batch, events} /\ afterwards' \in {<<>>, events}
        /\ batch' \in {<<>>, events} /\ batchBytes' = Bytes(batch')
    BY <1>2, <1>4, <1>5 DEF FirstPayload, SecondPayload
  <1>7. \A b \in {<<>>, batch, events} : Bytes(b) <= MaxBatchBytes
    BY <1>2, <1>3, <1>5
  <1> QED
    BY <1>6, <1>7 DEF BatchBytes

(* Every step keeps both counts exact.                                     *)
LEMMA BytesStep == TypeInv /\ QueueBytes /\ BatchBytes /\ [Next]_vars => QueueBytes' /\ BatchBytes'
  <1> SUFFICES ASSUME TypeInv, QueueBytes, BatchBytes, [Next]_vars
               PROVE  QueueBytes' /\ BatchBytes'
    OBVIOUS
  <1>a. /\ used \in Int /\ queue \in Seq(Event) /\ batch \in Seq(Event) /\ Bytes(queue) \in Nat
        /\ Bytes(<<>>) = 0 /\ MaxBatchBytes \in Nat
    BY BytesIs, BytesOfNone, ExportAssumption DEF TypeInv, TypeOK
  <1>b. ASSUME UNCHANGED <<batch, batchBytes, sending, afterwards>> PROVE BatchBytes'
    BY <1>b DEF BatchBytes
  <1>c. ASSUME UNCHANGED <<used, queue>>, InHand' = InHand PROVE QueueBytes'
    BY <1>c DEF QueueBytes
  <1>d. ASSUME UNCHANGED <<batch, batchBytes>>, NextPayload PROVE BatchBytes'
    <2>1. sending' = afterwards /\ afterwards' = <<>>
      BY <1>d DEF NextPayload
    <2> QED
      BY <1>a, <1>d, <2>1 DEF BatchBytes
  <1>e. ASSUME sending' = batch, batch' = <<>>, batchBytes' = 0, afterwards' = afterwards
        PROVE  BatchBytes'
    BY <1>a, <1>e DEF BatchBytes
  <1>f. ASSUME UNCHANGED <<producer, item>>, task # "popped", task' # "popped"
        PROVE  InHand' = InHand
    BY <1>f DEF InHand
  <1>1. ASSUME NEW size \in Sizes, Reserve(size) PROVE QueueBytes' /\ BatchBytes'
    <2> DEFINE r == IF task = "popped" THEN taken.ev.size ELSE 0
               q == Bytes(queue)
    <2>1. used' = used + size /\ queue' = queue /\ InHand' = size + r /\ InHand = 0 + r
      BY <1>1 DEF Reserve, InHand, batchVars
    <2>2. r \in Nat /\ size \in Nat /\ q \in Nat /\ used = q + InHand
      BY <1>a, TakenInTransit, ExportAssumption DEF QueueBytes
    <2>3. Bytes(queue') = q
      BY <2>1
    <2> HIDE DEF r, q
    <2>4. used' = q + InHand'
      BY <2>1, <2>2
    <2> QED
      BY <1>1, <1>b, <2>3, <2>4 DEF QueueBytes, Reserve, batchVars, sendVars
  <1>2. ASSUME NEW size \in Sizes, RefuseBytes(size) PROVE QueueBytes' /\ BatchBytes'
    BY <1>2, <1>b, <1>c DEF RefuseBytes, InHand, queueVars, batchVars, sendVars
  <1>3. CASE Enqueue
    <2> DEFINE r == IF task = "popped" THEN taken.ev.size ELSE 0
               z == item.ev.size
               q == Bytes(queue)
               qq == Bytes(queue')
    <2>1. used' = used /\ InHand' = 0 + r /\ InHand = z + r
      BY <1>3 DEF Enqueue, InHand, batchVars
    <2>2. r \in Nat /\ z \in Nat /\ q \in Nat /\ used = q + InHand
      BY <1>a, <1>3, ItemInTransit, TakenInTransit DEF QueueBytes, Enqueue
    <2>3. qq = q + z
      <3>1. queue' = Append(queue, item.ev) /\ item.ev \in Event
        BY <1>3, ItemInTransit DEF Enqueue
      <3> QED
        BY <1>a, <3>1, BytesOfAppend
    <2> HIDE DEF r, q, z, qq
    <2>4. used' = qq + InHand'
      BY <2>1, <2>2, <2>3
    <2> QED
      BY <1>3, <1>b, <2>4 DEF qq, QueueBytes, Enqueue, batchVars, sendVars
  <1>4. CASE QueueFull
    <2> DEFINE r == IF task = "popped" THEN taken.ev.size ELSE 0
               z == item.ev.size
               q == Bytes(queue)
    <2>1. used' = used - z /\ queue' = queue /\ InHand' = 0 + r /\ InHand = z + r
      BY <1>4 DEF QueueFull, InHand, Freed, batchVars
    <2>2. r \in Nat /\ z \in Nat /\ q \in Nat /\ used = q + InHand
      BY <1>a, <1>4, ItemInTransit, TakenInTransit DEF QueueBytes, QueueFull
    <2>3. Bytes(queue') = q
      BY <2>1
    <2> HIDE DEF r, q, z
    <2>4. used' = q + InHand'
      BY <2>1, <2>2
    <2> QED
      BY <1>4, <1>b, <2>3, <2>4 DEF QueueBytes, QueueFull, batchVars, sendVars
  <1>5. CASE RefuseFull
    <2>1. InHand' = InHand
      BY <1>5 DEF RefuseFull, InHand, batchVars
    <2> QED
      BY <1>5, <2>1, <1>b, <1>c DEF RefuseFull, batchVars, sendVars
  <1>6. CASE DropRingbuf
    BY <1>6, <1>b, <1>c DEF DropRingbuf, InHand, queueVars, batchVars, sendVars
  <1>7. CASE DropTx
    BY <1>7, <1>b, <1>c DEF DropTx, InHand, queueVars, batchVars, sendVars
  <1>8. CASE Recv
    <2> DEFINE r == IF producer = "reserved" THEN item.ev.size ELSE 0
               z == Head(queue).size
               q == Bytes(queue)
               qq == Bytes(queue')
    <2>1. used' = used /\ InHand' = r + z /\ InHand = r + 0
      BY <1>8 DEF Recv, InHand, prodVars
    <2>2. r \in Nat /\ q \in Nat /\ used = q + InHand
      BY <1>a, ItemInTransit DEF QueueBytes
    <2>3. q = qq + z /\ z \in Nat /\ qq \in Nat
      <3>1. queue # <<>> /\ queue' = Tail(queue)
        BY <1>8 DEF Recv
      <3>2. /\ Head(queue) \in Event /\ Tail(queue) \in Seq(Event)
            /\ Bytes(queue) = Bytes(Tail(queue)) + Head(queue).size
        BY <1>a, <3>1, BytesOfTail
      <3>3. Head(queue).size \in Nat /\ Bytes(Tail(queue)) \in Nat
        BY <3>2, BytesIs, ExportAssumption DEF Event
      <3> QED
        BY <3>1, <3>2, <3>3
    <2> HIDE DEF r, q, z, qq
    <2>4. used' = qq + InHand'
      BY <2>1, <2>2, <2>3
    <2> QED
      BY <1>8, <1>b, <2>4 DEF qq, QueueBytes, Recv, sendVars
  <1>9. CASE Release
    <2> DEFINE r == IF producer = "reserved" THEN item.ev.size ELSE 0
               z == taken.ev.size
               q == Bytes(queue)
    <2>1. used' = used - z /\ queue' = queue /\ InHand' = r + 0 /\ InHand = r + z
      BY <1>9 DEF Release, InHand, Freed, prodVars
    <2>2. r \in Nat /\ z \in Nat /\ q \in Nat /\ used = q + InHand
      BY <1>a, <1>9, ItemInTransit, TakenInTransit DEF QueueBytes, Release
    <2>3. Bytes(queue') = q
      BY <2>1
    <2> HIDE DEF r, q, z
    <2>4. used' = q + InHand'
      BY <2>1, <2>2
    <2> QED
      BY <1>9, <1>b, <2>3, <2>4 DEF QueueBytes, Release, sendVars
  <1>10. CASE DropOversized
    BY <1>10, <1>b, <1>c, <1>f DEF DropOversized, prodVars, sendVars
  <1>11. CASE Push
    <2>1. QueueBytes'
      BY <1>11, <1>c, <1>f DEF Push, prodVars
    <2> QED
      BY <1>11, <2>1, PushBytes
  <1>12. CASE FlushTick
    BY <1>12, <1>c, <1>e, <1>f DEF FlushTick, prodVars, queueVars
  <1>13. CASE ChannelClosed
    BY <1>13, <1>c, <1>e, <1>f DEF ChannelClosed, prodVars, queueVars
  <1>14. CASE AttemptOk
    BY <1>14, <1>c, <1>d, <1>f DEF AttemptOk, Sending, NextPayload, prodVars, queueVars, batchVars
  <1>15. ASSUME NEW outcome \in Failures, AttemptRetry(outcome) PROVE QueueBytes' /\ BatchBytes'
    BY <1>15, <1>b, <1>c, <1>f DEF AttemptRetry, Sending, prodVars, queueVars, batchVars
  <1>16. ASSUME NEW outcome \in Failures, AttemptFail(outcome) PROVE QueueBytes' /\ BatchBytes'
    BY <1>16, <1>c, <1>d, <1>f DEF AttemptFail, Sending, NextPayload, prodVars, queueVars, batchVars
  <1>17. CASE CommitLate
    <2>1. UNCHANGED <<prodVars, queueVars, task, batchVars, sendVars>>
      BY <1>17 DEF CommitLate
    <2> QED
      BY <2>1, <1>b, <1>c DEF InHand, prodVars, queueVars, batchVars, sendVars
  <1>18. CASE Deadline
    BY <1>18, <1>b, <1>c, <1>f DEF Deadline, prodVars, queueVars, batchVars, sendVars
  <1>19. CASE UNCHANGED vars
    BY <1>19, <1>b, <1>c DEF vars, InHand, prodVars, queueVars, batchVars, sendVars
  <1> QED
    BY <1>1, <1>2, <1>3, <1>4, <1>5, <1>6, <1>7, <1>8, <1>9, <1>10, <1>11, <1>12,
       <1>13, <1>14, <1>15, <1>16, <1>17, <1>18, <1>19
    DEF Next, CaptureStep, TaskStep, SendStep, Exited

(* Budget::used is exactly what is queued or in transit, so no             *)
(* interleaving leaks a reservation, the byte count of the open batch is   *)
(* its size, and no payload exceeds `max_bytes`.                           *)
THEOREM BytesAreExact == Spec => []BytesExact
  <1>1. Init => QueueBytes /\ BatchBytes
    BY BytesOfNone, ExportAssumption DEF Init, QueueBytes, BatchBytes, InHand
  <1>2. TypeInv /\ QueueBytes /\ BatchBytes => BytesExact
    <2> SUFFICES ASSUME TypeInv, QueueBytes, BatchBytes PROVE BytesExact
      OBVIOUS
    <2> DEFINE q == Bytes(queue)
               r == IF producer = "reserved" THEN item.ev.size ELSE 0
               z == IF task = "popped" THEN taken.ev.size ELSE 0
    <2>1. q \in Nat /\ r \in Nat /\ z \in Nat
      BY BytesIs, ItemInTransit, TakenInTransit DEF TypeInv, TypeOK
    <2>2. used = q + (r + z)
      BY DEF QueueBytes, InHand
    <2> HIDE DEF q, r, z
    <2>3. used = q + r + z
      BY <2>1, <2>2
    <2> QED
      BY <2>3 DEF BytesExact, BatchBytes, q, r, z
  <1> QED
    BY <1>1, <1>2, TypeInvariant, BytesStep, PTL DEF Spec
=============================================================================
