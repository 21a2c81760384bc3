------------------------------ MODULE Delivery ------------------------------
(***************************************************************************)
(* What the export path promises for each event, without queue, batches or *)
(* attempts: an event is held or refused when it is offered; a held event  *)
(* leaves once, delivered or given up, oldest first; the ingest service    *)
(* stores it at most once, and only an event that was not acknowledged may *)
(* be stored after it left.                                                *)
(***************************************************************************)
EXTENDS Integers

CONSTANT Ids    \* the events, numbered in the order they are offered

VARIABLES
    status,     \* what the sensor knows of each event
    stopped,    \* the process ended with events still held
    stored      \* how often the service stored it

vars == <<status, stopped, stored>>

Held == {i \in Ids : status[i] = "held"}

(* The events leave in the order they came.                                *)
Oldest(S) == S # {} /\ S \subseteq Held /\ \A i \in S, j \in Held \ S : i < j

Set(S, value) == [i \in Ids |-> IF i \in S THEN value ELSE status[i]]
Store(S) == [i \in Ids |-> IF i \in S THEN stored[i] + 1 ELSE stored[i]]
Fresh(S) == \A i \in S : stored[i] = 0

Init ==
    /\ status = [i \in Ids |-> "unseen"]
    /\ stopped = FALSE
    /\ stored = [i \in Ids |-> 0]

Hold(i) ==
    /\ ~stopped
    /\ status[i] = "unseen"
    /\ \A j \in Ids : status[j] # "unseen" => j < i
    /\ status' = Set({i}, "held")
    /\ UNCHANGED <<stopped, stored>>

Refuse(i) ==
    /\ ~stopped
    /\ status[i] \in {"unseen", "held"}
    /\ status' = Set({i}, "dropped")
    /\ UNCHANGED <<stopped, stored>>

Deliver(S) ==
    /\ ~stopped
    /\ Oldest(S)
    /\ Fresh(S)
    /\ status' = Set(S, "sent")
    /\ stored' = Store(S)
    /\ UNCHANGED stopped

GiveUp(S) ==
    /\ ~stopped
    /\ Oldest(S)
    /\ Fresh(S)
    /\ status' = Set(S, "lost")
    /\ UNCHANGED <<stopped, stored>>

CommitLate(S) ==
    /\ S # {}
    /\ \A i \in S : status[i] = "lost" \/ (stopped /\ status[i] = "held")
    /\ Fresh(S)
    /\ stored' = Store(S)
    /\ UNCHANGED <<status, stopped>>

Stop == ~stopped /\ stopped' = TRUE /\ UNCHANGED <<status, stored>>

Next ==
    \/ \E i \in Ids : Hold(i) \/ Refuse(i)
    \/ \E S \in SUBSET Ids : Deliver(S) \/ GiveUp(S) \/ CommitLate(S)
    \/ Stop

Spec == Init /\ [][Next]_vars

=============================================================================
