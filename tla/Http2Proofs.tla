----------------------------- MODULE Http2Proofs ----------------------------
(***************************************************************************)
(* The books of the HTTP/2 path (PendingBytes and the count of requests),  *)
(* proved for every bound of Http2Conn.                                    *)
(*                                                                         *)
(* Http2Conn's actions are operators on a record, so the proof follows the *)
(* handlers: for each operator one lemma says what it does to the fields   *)
(* and that the books still balance.                                       *)
(***************************************************************************)
EXTENDS Http2Conn, SumLemmas

(* A request, a response, the held server frames, a parser, a connection,  *)
(* an event.                                                               *)
Requested == [ts : Times, body : Nat]
Answered == [body : Nat, trailers : Nat]
Held == [len : Nat, seen : Times, part : BOOLEAN]
Kinds == {"none", "method", "status", "plain", "interim", "promise"}
Parser == [expects : BOOLEAN, buf : Nat,
           open : [sid : Streams \cup {0}, kind : Kinds, end : BOOLEAN],
           broken : BOOLEAN]
PendingMap == [Streams -> Requested \cup {NoReq}]
ResponseMap == [Streams -> Answered \cup {NoResp}]
Connection == [dirs : [Dirs -> Parser], pending : PendingMap, responses : ResponseMap,
               last : Times \cup {-1}, buffered : Int]
Outcomes == {"no_response_observed", "connection_closed", "sensor_shutdown"}
Reported == [nth : Nat, sid : Streams, outcome : Outcomes \cup {"paired"},
             body : Int, trailers : Int]

ConnMap == [Times -> Connection]
EarlyMap == [Times -> Held \cup {NoEarly}]

State == [conns   : ConnMap,
          early   : EarlyMap,
          prefix  : SUBSET Times,
          known   : SUBSET Times,
          born    : Times \cup {Unborn},
          last    : Times,
          total   : Int,
          missing : SUBSET Dirs,
          short   : BOOLEAN,
          parsed  : Int,
          refused : Int,
          cancelled : Int,
          silent  : Int,
          out     : SUBSET Reported]

PieceNames == {"whole", "frame1", "frame2", "block1", "block2"}
PrefacePieces == {"whole", "magic1", "magic2", "token1", "token2"}

(* A chunk on its way, and what a parser makes of one.                     *)
Frames == [what : {"headers", "data", "reset", "goaway"}, sid : Streams, kind : Kinds,
           end : BOOLEAN, piece : PieceNames]
Prefatory == [what : {"preface"}, sid : {0}, kind : {"none"}, end : {FALSE},
              piece : PrefacePieces]
Settings == [what : {"settings"}, sid : {0}, kind : {"none"}, end : {FALSE},
             piece : {"whole", "tail1", "tail2"}]
HeldFrames == {c \in Settings : c.piece # "tail2"}
Openings == Prefatory \cup Settings
Chunk == Frames \cup Openings
Item == [what : {"headers", "data", "reset", "goaway"}, sid : Streams, kind : Kinds,
         end : BOOLEAN] \cup {NoItem}

-----------------------------------------------------------------------------
(* The books.                                                              *)

(* A connection within its limits, whose counter of buffered bytes is what *)
(* its parsers hold.                                                       *)
Good(conn) ==
    /\ conn.buffered = Buffered(conn.dirs["req"]) + Buffered(conn.dirs["resp"])
    /\ Cardinality(Waiting(conn)) <= MaxPending
    /\ Cardinality(Answering(conn)) <= MaxPending

(* What is charged is what is held, below the ceiling.                     *)
Memory(s) ==
    /\ s.total = Total(Sizes(s), Slots) + Total(Parsing(s), Times) + Total(Earlies(s), Times)
    /\ s.total <= MaxTotal

(* The events have numbers below their count, so the next one is new.      *)
Numbered(s) ==
    /\ IsFiniteSet(s.out)
    /\ \A e \in s.out : e.nth < Cardinality(s.out)

Sound(s) ==
    /\ s \in State
    /\ \A k \in Times : Good(s.conns[k])
    /\ Memory(s)
    /\ Numbered(s)

(* Every request waits or went one way.                                    *)
Accounts(s) ==
    s.parsed = Cardinality(Waits(s)) + Cardinality(s.out) + s.refused + s.cancelled + s.silent

Kept(s) == Sound(s) /\ Accounts(s)

-----------------------------------------------------------------------------
(* Constants and finite sets.                                              *)

(* The bounds are numbers, and stream ids are positive.                    *)
LEMMA Constants ==
  /\ MaxPending \in Nat /\ MaxTotal \in Nat /\ MaxBody \in Nat /\ MaxEarly \in Nat
  /\ MaxFrame \in Nat /\ MaxReports \in Nat /\ TTL \in Nat /\ Throttle \in Nat
  /\ MaxTime \in Nat
  /\ Streams \subseteq Nat \ {0} /\ 0 \notin Streams /\ -1 \notin Times /\ 0 \in Times
  /\ Times \subseteq Nat
  BY Http2Assumption DEF Times

(* There are finitely many connections and streams.                        *)
LEMMA Finite ==
  IsFiniteSet(Times) /\ IsFiniteSet(Streams) /\ IsFiniteSet(Slots)
  <1>1. IsFiniteSet(Times)
    BY Constants, FS_Interval DEF Times
  <1>2. IsFiniteSet(Streams)
    BY Http2Assumption
  <1> QED
    BY <1>1, <1>2, FS_Product DEF Slots

(* The absent values are not values.                                       *)
LEMMA Absent ==
  /\ NoReq \notin Requested /\ NoResp \notin Answered /\ NoEarly \notin Held
  BY Constants DEF NoReq, NoResp, NoEarly, Requested, Answered, Held

(* A set of the pairs with one first part has as many elements.            *)
LEMMA PairCardinality ==
  ASSUME NEW k, NEW A, IsFiniteSet(A)
  PROVE  IsFiniteSet({k} \X A) /\ Cardinality({k} \X A) = Cardinality(A)
  <1> DEFINE f == [i \in A |-> <<k, i>>]
             T == {k} \X A
  <1>1. f \in [A -> T]
    OBVIOUS
  <1>2. \A i, j \in A : f[i] = f[j] => i = j
    OBVIOUS
  <1>3. \A y \in T : \E i \in A : f[i] = y
    <2> SUFFICES ASSUME NEW y \in T PROVE \E i \in A : f[i] = y
      OBVIOUS
    <2>1. y[2] \in A /\ y = <<k, y[2]>>
      OBVIOUS
    <2>2. f[y[2]] = y
      BY <2>1
    <2> QED
      BY <2>1, <2>2
  <1> HIDE DEF f, T
  <1>4. f \in Bijection(A, T)
    BY <1>1, <1>2, <1>3 DEF Bijection, Injection, Surjection, IsInjective
  <1>5. ExistsBijection(A, T)
    BY <1>4 DEF ExistsBijection
  <1> QED
    BY <1>5, FS_Bijection DEF T

(* Removing elements from a finite set.                                    *)
LEMMA Removed ==
  ASSUME NEW S, IsFiniteSet(S), NEW D
  PROVE  /\ IsFiniteSet(S \ D) /\ IsFiniteSet(S \cap D)
         /\ Cardinality(S) \in Nat /\ Cardinality(S \ D) \in Nat
         /\ Cardinality(S \cap D) \in Nat
         /\ Cardinality(S \ D) = Cardinality(S) - Cardinality(S \cap D)
  <1>1. IsFiniteSet(S \ D) /\ IsFiniteSet(S \cap D)
    BY FS_Subset
  <1> DEFINE A == S \ D
             C == S \cap D
  <1>2. S = A \cup C /\ A \cap C = {} /\ IsFiniteSet(A) /\ IsFiniteSet(C)
    BY <1>1
  <1> HIDE DEF A, C
  <1>3. Cardinality(S) = Cardinality(A) + Cardinality(C) - Cardinality(A \cap C)
    BY <1>2, FS_Union
  <1>4. Cardinality(A \cap C) = 0
    BY <1>2, FS_EmptySet
  <1>5. Cardinality(S) \in Nat /\ Cardinality(A) \in Nat /\ Cardinality(C) \in Nat
    BY <1>2, FS_CardinalityType
  <1>6. Cardinality(A) = Cardinality(S) - Cardinality(C)
    BY <1>3, <1>4, <1>5
  <1> QED
    BY <1>2, <1>5, <1>6 DEF A, C

(* The parts of a connection.                                              *)
LEMMA ConnParts ==
  ASSUME NEW c \in Connection
  PROVE  /\ c.dirs \in [Dirs -> Parser] /\ c.pending \in PendingMap
         /\ c.responses \in ResponseMap /\ c.last \in Times \cup {-1} /\ c.buffered \in Int
         /\ c.dirs["req"] \in Parser /\ c.dirs["resp"] \in Parser
         /\ \A d \in Parser : Buffered(d) \in Nat /\ d.buf \in Nat
         /\ \A i \in Streams : /\ c.pending[i] \in Requested \cup {NoReq}
                               /\ c.responses[i] \in Answered \cup {NoResp}
                               /\ ReqSize(c.pending[i]) \in Nat
                               /\ RespSize(c.responses[i]) \in Nat
                               /\ (c.pending[i] = NoReq <=> ReqSize(c.pending[i]) = 0)
         /\ Waiting(c) \subseteq Streams /\ Answering(c) \subseteq Streams
         /\ IsFiniteSet(Waiting(c)) /\ IsFiniteSet(Answering(c))
         /\ Cardinality(Waiting(c)) \in Nat /\ Cardinality(Answering(c)) \in Nat
  <1>1. /\ c.dirs \in [Dirs -> Parser] /\ c.pending \in PendingMap
        /\ c.responses \in ResponseMap /\ c.last \in Times \cup {-1} /\ c.buffered \in Int
    BY DEF Connection
  <1>2. c.dirs["req"] \in Parser /\ c.dirs["resp"] \in Parser
    BY <1>1 DEF Dirs
  <1>3. \A d \in Parser : Buffered(d) \in Nat /\ d.buf \in Nat
    BY DEF Parser, Buffered
  <1>4. ASSUME NEW i \in Streams
        PROVE  /\ c.pending[i] \in Requested \cup {NoReq}
               /\ c.responses[i] \in Answered \cup {NoResp}
               /\ ReqSize(c.pending[i]) \in Nat
               /\ RespSize(c.responses[i]) \in Nat
               /\ (c.pending[i] = NoReq <=> ReqSize(c.pending[i]) = 0)
    <2>1. c.pending[i] \in Requested \cup {NoReq} /\ c.responses[i] \in Answered \cup {NoResp}
      BY <1>1 DEF PendingMap, ResponseMap
    <2>2. ASSUME NEW r \in Requested \cup {NoReq}
          PROVE  ReqSize(r) \in Nat /\ (r = NoReq <=> ReqSize(r) = 0)
      BY Absent DEF Requested, ReqSize
    <2>3. ASSUME NEW r \in Answered \cup {NoResp} PROVE RespSize(r) \in Nat
      BY Absent DEF Answered, RespSize
    <2> QED
      BY <2>1, <2>2, <2>3
  <1>5. Waiting(c) \subseteq Streams /\ Answering(c) \subseteq Streams
    BY DEF Waiting, Answering
  <1>6. IsFiniteSet(Waiting(c)) /\ IsFiniteSet(Answering(c))
    BY <1>5, Finite, FS_Subset
  <1> QED
    BY <1>1, <1>2, <1>3, <1>4, <1>5, <1>6, FS_CardinalityType

(* What is held is counted in natural numbers.                             *)
LEMMA SizesType ==
  ASSUME NEW s \in State, \A k \in Times : Good(s.conns[k])
  PROVE  /\ \A k \in Times : s.conns[k] \in Connection
         /\ \A p \in Slots : /\ p[1] \in Times /\ p[2] \in Streams /\ p = <<p[1], p[2]>>
                             /\ Sizes(s)[p] \in Nat /\ ReqSizes(s)[p] \in Nat
         /\ \A k \in Times : Parsing(s)[k] \in Nat /\ Earlies(s)[k] \in Nat
         /\ Total(Sizes(s), Slots) \in Nat /\ Total(Parsing(s), Times) \in Nat
         /\ Total(Earlies(s), Times) \in Nat
         /\ \A D \in SUBSET Slots : /\ SumFunctionOnSet(Sizes(s), D) = Total(Sizes(s), D)
                                    /\ SumFunctionOnSet(ReqSizes(s), D) = Total(ReqSizes(s), D)
                                    /\ Total(Sizes(s), D) \in Nat
                                    /\ Total(ReqSizes(s), D) \in Nat
         /\ \A K \in SUBSET Times : /\ SumFunctionOnSet(Parsing(s), K) = Total(Parsing(s), K)
                                    /\ SumFunctionOnSet(Earlies(s), K) = Total(Earlies(s), K)
                                    /\ Total(Parsing(s), K) \in Nat
                                    /\ Total(Earlies(s), K) \in Nat
  <1>1. \A k \in Times : s.conns[k] \in Connection
    BY DEF State, ConnMap
  <1>2. ASSUME NEW p \in Slots
        PROVE  /\ p[1] \in Times /\ p[2] \in Streams /\ p = <<p[1], p[2]>>
               /\ Sizes(s)[p] \in Nat /\ ReqSizes(s)[p] \in Nat
    <2>1. p[1] \in Times /\ p[2] \in Streams /\ p = <<p[1], p[2]>>
      BY DEF Slots
    <2>2. /\ ReqSize(s.conns[p[1]].pending[p[2]]) \in Nat
          /\ RespSize(s.conns[p[1]].responses[p[2]]) \in Nat
      BY <2>1, <1>1, ConnParts
    <2> QED
      BY <2>1, <2>2 DEF Sizes, ReqSizes
  <1>3. ASSUME NEW k \in Times PROVE Parsing(s)[k] \in Nat /\ Earlies(s)[k] \in Nat
    <2>1. /\ Buffered(s.conns[k].dirs["req"]) \in Nat /\ Buffered(s.conns[k].dirs["resp"]) \in Nat
      BY <1>1, ConnParts
    <2>2. s.conns[k].buffered \in Nat
      BY <2>1 DEF Good
    <2>3. s.early[k] \in Held \cup {NoEarly}
      BY DEF State, EarlyMap
    <2>4. EarlySize(s.early[k]) \in Nat
      BY <2>3 DEF EarlySize, Held
    <2> QED
      BY <2>2, <2>4 DEF Parsing, Earlies
  <1>4. ASSUME NEW D \in SUBSET Slots
        PROVE  /\ SumFunctionOnSet(Sizes(s), D) = Total(Sizes(s), D)
               /\ SumFunctionOnSet(ReqSizes(s), D) = Total(ReqSizes(s), D)
               /\ Total(Sizes(s), D) \in Nat
               /\ Total(ReqSizes(s), D) \in Nat
    <2>1. IsFiniteSet(D)
      BY Finite, FS_Subset
    <2>2. \A p \in D : Sizes(s)[p] \in Nat /\ ReqSizes(s)[p] \in Nat
      BY <1>2
    <2> QED
      BY <2>1, <2>2, SumIs, TotalType
  <1>5. ASSUME NEW K \in SUBSET Times
        PROVE  /\ SumFunctionOnSet(Parsing(s), K) = Total(Parsing(s), K)
               /\ SumFunctionOnSet(Earlies(s), K) = Total(Earlies(s), K)
               /\ Total(Parsing(s), K) \in Nat
               /\ Total(Earlies(s), K) \in Nat
    <2>1. IsFiniteSet(K)
      BY Finite, FS_Subset
    <2>2. \A k \in K : Parsing(s)[k] \in Nat /\ Earlies(s)[k] \in Nat
      BY <1>3
    <2> QED
      BY <2>1, <2>2, SumIs, TotalType
  <1>6. Total(Sizes(s), Slots) \in Nat
    BY <1>2, Finite, TotalType
  <1>7. Total(Parsing(s), Times) \in Nat /\ Total(Earlies(s), Times) \in Nat
    BY <1>3, Finite, TotalType
  <1> QED
    BY <1>1, <1>2, <1>3, <1>4, <1>5, <1>6, <1>7

-----------------------------------------------------------------------------
(* One stream of one connection changes.                                   *)

(* What the handlers of a frame leave alone.                               *)
Frame(r, s) ==
    /\ r.early = s.early /\ r.prefix = s.prefix /\ r.known = s.known /\ r.born = s.born
    /\ r.last = s.last /\ r.missing = s.missing

(* Only the streams of connection k change.                                *)
At(r, s, k) ==
    /\ r \in State
    /\ Frame(r, s)
    /\ s.short => r.short
    /\ \A j \in Times \ {k} : r.conns[j] = s.conns[j]
    /\ r.conns[k].dirs = s.conns[k].dirs /\ r.conns[k].last = s.conns[k].last
    /\ r.conns[k].buffered = s.conns[k].buffered

(* Only stream id of connection k changes.                                 *)
Only(r, s, k, id) ==
    /\ At(r, s, k)
    /\ \A i \in Streams \ {id} : /\ r.conns[k].pending[i] = s.conns[k].pending[i]
                                 /\ r.conns[k].responses[i] = s.conns[k].responses[i]

SlotSize(s, k, id) == ReqSize(s.conns[k].pending[id]) + RespSize(s.conns[k].responses[id])
WaitAt(s, k, id) == IF s.conns[k].pending[id] = NoReq THEN 0 ELSE 1

(* Requests that wait are finitely many.                                   *)
LEMMA WaitsFinite ==
  ASSUME NEW s
  PROVE  /\ Waits(s) \subseteq Slots /\ IsFiniteSet(Waits(s)) /\ Cardinality(Waits(s)) \in Nat
         /\ \A k \in Times, i \in Streams :
              <<k, i>> \in Waits(s) <=> s.conns[k].pending[i] # NoReq
  <1>1. Waits(s) \subseteq Slots
    BY DEF Waits
  <1>2. IsFiniteSet(Waits(s)) /\ Cardinality(Waits(s)) \in Nat
    BY <1>1, Finite, FS_Subset, FS_CardinalityType
  <1>3. ASSUME NEW k \in Times, NEW i \in Streams
        PROVE  <<k, i>> \in Waits(s) <=> s.conns[k].pending[i] # NoReq
    BY DEF Waits, Slots
  <1> QED
    BY <1>1, <1>2, <1>3

(* The number of waiting requests, when one stream changes.                *)
LEMMA OnlyWaits ==
  ASSUME NEW s \in State, NEW r, NEW k \in Times, NEW id \in Streams, Only(r, s, k, id)
  PROVE  /\ Cardinality(Waits(r)) = Cardinality(Waits(s)) - WaitAt(s, k, id) + WaitAt(r, k, id)
         /\ Waits(r) \ {<<k, id>>} = Waits(s) \ {<<k, id>>}
  <1> DEFINE p == <<k, id>>
             A == Waits(s) \ {p}
  <1>1. Waits(r) \ {p} = A
    <2>1. ASSUME NEW q \in Slots, q # p PROVE q \in Waits(r) <=> q \in Waits(s)
      <3>1. q[1] \in Times /\ q[2] \in Streams /\ q = <<q[1], q[2]>>
        BY DEF Slots
      <3>2. q[1] # k \/ q[2] # id
        BY <3>1, <2>1
      <3>3. r.conns[q[1]].pending[q[2]] = s.conns[q[1]].pending[q[2]]
        BY <3>1, <3>2 DEF Only, At
      <3> QED
        BY <3>3 DEF Waits
    <2>2. Waits(r) \subseteq Slots /\ Waits(s) \subseteq Slots
      BY WaitsFinite
    <2> QED
      BY <2>1, <2>2
  <1>2. /\ IsFiniteSet(A) /\ p \notin A /\ Cardinality(A) \in Nat
        /\ Cardinality(A \cup {p}) = Cardinality(A) + 1
    <2>1. IsFiniteSet(A) /\ p \notin A
      BY WaitsFinite, FS_Subset
    <2> HIDE DEF A, p
    <2>2. Cardinality(A \cup {p}) = Cardinality(A) + 1 /\ Cardinality(A) \in Nat
      BY <2>1, FS_AddElement, FS_CardinalityType
    <2> QED
      BY <2>1, <2>2
  <1>3. ASSUME NEW x, Waits(x) \ {p} = A
        PROVE  Cardinality(Waits(x)) = Cardinality(A) + WaitAt(x, k, id)
    <2>1. CASE p \in Waits(x)
      <3>1. Waits(x) = A \cup {p} /\ WaitAt(x, k, id) = 1
        BY <2>1, <1>3, WaitsFinite DEF WaitAt
      <3> QED
        BY <3>1, <1>2
    <2>2. CASE p \notin Waits(x)
      <3>1. Waits(x) = A /\ WaitAt(x, k, id) = 0
        BY <2>2, <1>3, WaitsFinite DEF WaitAt
      <3> QED
        BY <3>1, <1>2
    <2> QED
      BY <2>1, <2>2
  <1>4. Cardinality(Waits(r)) = Cardinality(A) + WaitAt(r, k, id)
    BY <1>1, <1>3
  <1>5. Cardinality(Waits(s)) = Cardinality(A) + WaitAt(s, k, id)
    BY <1>3
  <1>6. WaitAt(r, k, id) \in Nat /\ WaitAt(s, k, id) \in Nat
    BY DEF WaitAt
  <1> HIDE DEF A
  <1>7. Cardinality(Waits(r)) = Cardinality(Waits(s)) - WaitAt(s, k, id) + WaitAt(r, k, id)
    BY <1>2, <1>4, <1>5, <1>6
  <1> QED
    BY <1>1, <1>7 DEF A

(* The books, when one stream changes and is charged for the change.       *)
LEMMA OnlySound ==
  ASSUME NEW s, Sound(s), NEW r, NEW k \in Times, NEW id \in Streams, Only(r, s, k, id),
         r.total = s.total - SlotSize(s, k, id) + SlotSize(r, k, id), r.total <= MaxTotal,
         Cardinality(Waiting(r.conns[k])) <= MaxPending,
         Cardinality(Answering(r.conns[k])) <= MaxPending, Numbered(r)
  PROVE  Sound(r)
  <1> DEFINE p == <<k, id>>
  <1>1. r \in State /\ s \in State /\ p \in Slots
    BY DEF Only, At, Sound, Slots
  <1>2. \A j \in Times : Good(r.conns[j])
    <2> SUFFICES ASSUME NEW j \in Times PROVE Good(r.conns[j])
      OBVIOUS
    <2>1. Good(s.conns[j])
      BY DEF Sound
    <2>2. CASE j # k
      BY <2>1, <2>2 DEF Only, At
    <2>3. CASE j = k
      BY <2>1, <2>3 DEF Only, At, Good
    <2> QED
      BY <2>2, <2>3
  <1>3. \A k1 \in Times : Good(s.conns[k1])
    BY DEF Sound
  <1>4. /\ \A q \in Slots : Sizes(s)[q] \in Nat /\ Sizes(r)[q] \in Nat
        /\ Total(Sizes(s), Slots) \in Nat /\ Total(Parsing(s), Times) \in Nat
        /\ Total(Earlies(s), Times) \in Nat
    BY <1>1, <1>2, <1>3, SizesType
  <1>5. \A q \in Slots \ {p} : Sizes(r)[q] = Sizes(s)[q]
    <2> SUFFICES ASSUME NEW q \in Slots, q # p PROVE Sizes(r)[q] = Sizes(s)[q]
      OBVIOUS
    <2>1. q[1] \in Times /\ q[2] \in Streams /\ q = <<q[1], q[2]>>
      BY DEF Slots
    <2>2. q[1] # k \/ q[2] # id
      BY <2>1
    <2>3. /\ r.conns[q[1]].pending[q[2]] = s.conns[q[1]].pending[q[2]]
          /\ r.conns[q[1]].responses[q[2]] = s.conns[q[1]].responses[q[2]]
      BY <2>1, <2>2 DEF Only, At
    <2> QED
      BY <2>3 DEF Sizes
  <1>6. Sizes(s)[p] = SlotSize(s, k, id) /\ Sizes(r)[p] = SlotSize(r, k, id)
    BY <1>1 DEF Sizes, SlotSize
  <1>7. Total(Sizes(r), Slots) = Total(Sizes(s), Slots) - Sizes(s)[p] + Sizes(r)[p]
    <2> HIDE DEF p
    <2> QED
      BY <1>1, <1>4, <1>5, Finite, TotalChange
  <1>8. \A j \in Times : Parsing(r)[j] = Parsing(s)[j] /\ Earlies(r)[j] = Earlies(s)[j]
    BY DEF Parsing, Earlies, Only, At, Frame
  <1>9. /\ Total(Parsing(r), Times) = Total(Parsing(s), Times)
        /\ Total(Earlies(r), Times) = Total(Earlies(s), Times)
    BY <1>8, TotalSame
  <1>10. s.total = Total(Sizes(s), Slots) + Total(Parsing(s), Times) + Total(Earlies(s), Times)
    BY DEF Sound, Memory
  <1>11. SlotSize(s, k, id) \in Nat /\ SlotSize(r, k, id) \in Nat
    BY <1>1, <1>4, <1>6
  <1> DEFINE a == SlotSize(s, k, id)
             b == SlotSize(r, k, id)
             T == Total(Sizes(s), Slots)
             U == Total(Parsing(s), Times)
             V == Total(Earlies(s), Times)
             T2 == Total(Sizes(r), Slots)
             x == r.total
             y == s.total
  <1>12. /\ a \in Nat /\ b \in Nat /\ T \in Nat /\ U \in Nat /\ V \in Nat
         /\ x = y - a + b /\ y = T + U + V /\ T2 = T - a + b
    BY <1>4, <1>6, <1>7, <1>10, <1>11
  <1>13. x = T2 + U + V
    <2> HIDE DEF a, b, T, U, V, T2, x, y
    <2> QED
      BY <1>12
  <1>14. Memory(r)
    BY <1>9, <1>13 DEF Memory
  <1> QED
    BY <1>1, <1>2, <1>14 DEF Sound

(* The counters of requests, and the events.                               *)
Ledgers(r, s) ==
    /\ r.parsed = s.parsed /\ r.refused = s.refused /\ r.cancelled = s.cancelled
    /\ r.silent = s.silent /\ r.out = s.out

(* A connection is replaced.                                               *)
LEMMA SetConnIs ==
  ASSUME NEW s \in State, NEW k \in Times, NEW c \in Connection
  PROVE  LET r == SetConn(s, k, c) IN
         /\ r \in State /\ Frame(r, s) /\ Ledgers(r, s)
         /\ r.total = s.total /\ r.short = s.short
         /\ r.conns[k] = c /\ \A j \in Times \ {k} : r.conns[j] = s.conns[j]
  <1> DEFINE r == SetConn(s, k, c)
             cs == [s.conns EXCEPT ![k] = c]
  <1>1. s.conns \in ConnMap
    BY DEF State
  <1>2. cs \in ConnMap /\ cs[k] = c /\ \A j \in Times \ {k} : cs[j] = s.conns[j]
    BY <1>1 DEF ConnMap
  <1>3. r = [s EXCEPT !.conns = cs]
    BY DEF SetConn
  <1> HIDE DEF cs, r
  <1>4. r \in State
    BY <1>2, <1>3, Zenon DEF State
  <1>5. r.conns = cs /\ Frame(r, s) /\ Ledgers(r, s) /\ r.total = s.total /\ r.short = s.short
    BY <1>3 DEF State, Frame, Ledgers
  <1> QED
    BY <1>2, <1>4, <1>5 DEF r

(* What SetReq does.                                                       *)
IsSetReq(r, s, k, id, v) ==
    /\ Only(r, s, k, id) /\ Ledgers(r, s) /\ r.total = s.total /\ r.short = s.short
    /\ r.conns[k].pending[id] = v
    /\ r.conns[k].responses = s.conns[k].responses

(* A request is replaced.                                                  *)
LEMMA SetReqIs ==
  ASSUME NEW s \in State, NEW k \in Times, NEW id \in Streams, NEW v \in Requested \cup {NoReq}
  PROVE  IsSetReq(SetReq(s, k, id, v), s, k, id, v)
  <1> DEFINE c == s.conns[k]
             pm == [c.pending EXCEPT ![id] = v]
             cc == [c EXCEPT !.pending = pm]
             r == SetReq(s, k, id, v)
  <1>1. c \in Connection
    BY DEF State, ConnMap
  <1>2. c.pending \in PendingMap
    BY <1>1, ConnParts
  <1>3. pm \in PendingMap /\ pm[id] = v /\ \A i \in Streams \ {id} : pm[i] = c.pending[i]
    BY <1>2 DEF PendingMap
  <1>4. r = SetConn(s, k, cc)
    BY DEF SetReq
  <1> HIDE DEF c, pm
  <1>5. /\ cc \in Connection /\ cc.pending = pm /\ cc.responses = c.responses
        /\ cc.dirs = c.dirs /\ cc.last = c.last /\ cc.buffered = c.buffered
    BY <1>1, <1>3 DEF Connection
  <1> HIDE DEF cc, r
  <1>6. /\ r \in State /\ Frame(r, s) /\ Ledgers(r, s)
        /\ r.total = s.total /\ r.short = s.short
        /\ r.conns[k] = cc /\ \A j \in Times \ {k} : r.conns[j] = s.conns[j]
    BY <1>4, <1>5, SetConnIs
  <1>7. At(r, s, k)
    BY <1>5, <1>6 DEF At, c
  <1>8. Only(r, s, k, id)
    BY <1>3, <1>5, <1>6, <1>7 DEF Only, c
  <1> QED
    BY <1>3, <1>5, <1>6, <1>8 DEF IsSetReq, r, c

(* What SetResp does.                                                      *)
IsSetResp(r, s, k, id, v) ==
    /\ Only(r, s, k, id) /\ Ledgers(r, s) /\ r.total = s.total /\ r.short = s.short
    /\ r.conns[k].responses[id] = v
    /\ r.conns[k].pending = s.conns[k].pending

(* A response is replaced.                                                 *)
LEMMA SetRespIs ==
  ASSUME NEW s \in State, NEW k \in Times, NEW id \in Streams, NEW v \in Answered \cup {NoResp}
  PROVE  IsSetResp(SetResp(s, k, id, v), s, k, id, v)
  <1> DEFINE c == s.conns[k]
             pm == [c.responses EXCEPT ![id] = v]
             cc == [c EXCEPT !.responses = pm]
             r == SetResp(s, k, id, v)
  <1>1. c \in Connection
    BY DEF State, ConnMap
  <1>2. c.responses \in ResponseMap
    BY <1>1, ConnParts
  <1>3. pm \in ResponseMap /\ pm[id] = v /\ \A i \in Streams \ {id} : pm[i] = c.responses[i]
    BY <1>2 DEF ResponseMap
  <1>4. r = SetConn(s, k, cc)
    BY DEF SetResp
  <1> HIDE DEF c, pm
  <1>5. /\ cc \in Connection /\ cc.responses = pm /\ cc.pending = c.pending
        /\ cc.dirs = c.dirs /\ cc.last = c.last /\ cc.buffered = c.buffered
    BY <1>1, <1>3 DEF Connection
  <1> HIDE DEF cc, r
  <1>6. /\ r \in State /\ Frame(r, s) /\ Ledgers(r, s)
        /\ r.total = s.total /\ r.short = s.short
        /\ r.conns[k] = cc /\ \A j \in Times \ {k} : r.conns[j] = s.conns[j]
    BY <1>4, <1>5, SetConnIs
  <1>7. At(r, s, k)
    BY <1>5, <1>6 DEF At, c
  <1>8. Only(r, s, k, id)
    BY <1>3, <1>5, <1>6, <1>7 DEF Only, c
  <1> QED
    BY <1>3, <1>5, <1>6, <1>8 DEF IsSetResp, r, c

(* The memory total changes.                                               *)
LEMMA TotalSet ==
  ASSUME NEW x \in State, NEW n \in Int
  PROVE  LET r == [x EXCEPT !.total = n] IN
         /\ r \in State /\ Frame(r, x) /\ Ledgers(r, x) /\ r.conns = x.conns
         /\ r.total = n /\ r.short = x.short
  <1> DEFINE r == [x EXCEPT !.total = n]
  <1>1. r \in State
    BY Zenon DEF State
  <1>2. /\ Frame(r, x) /\ Ledgers(r, x) /\ r.conns = x.conns
        /\ r.total = n /\ r.short = x.short
    BY DEF State, Frame, Ledgers
  <1> QED
    BY <1>1, <1>2

(* A refusal is only noted.                                                *)
LEMMA RefuseIs ==
  ASSUME NEW x \in State
  PROVE  LET r == Refuse(x) IN
         /\ r \in State /\ Frame(r, x) /\ Ledgers(r, x) /\ r.conns = x.conns
         /\ r.total = x.total /\ r.short
  <1> DEFINE r == [x EXCEPT !.short = TRUE]
  <1>1. r \in State
    BY Zenon DEF State
  <1>2. /\ Frame(r, x) /\ Ledgers(r, x) /\ r.conns = x.conns
        /\ r.total = x.total /\ r.short
    BY DEF State, Frame, Ledgers
  <1> QED
    BY <1>1, <1>2 DEF Refuse

(* Nothing that the books are about changes.                               *)
LEMMA SameKept ==
  ASSUME NEW s, Kept(s), NEW r \in State, r.conns = s.conns, r.early = s.early,
         r.total = s.total, Ledgers(r, s)
  PROVE  Kept(r) /\ Waits(r) = Waits(s)
  <1>1. Sizes(r) = Sizes(s) /\ Parsing(r) = Parsing(s) /\ Earlies(r) = Earlies(s)
        /\ Waits(r) = Waits(s)
    BY DEF Sizes, Parsing, Earlies, Waits
  <1>2. Memory(r) /\ Numbered(r) /\ Accounts(r)
    BY <1>1 DEF Kept, Sound, Memory, Numbered, Accounts, Ledgers
  <1> QED
    BY <1>1, <1>2 DEF Kept, Sound

(* More of the streams of a connection wait, at most one more.             *)
LEMMA LimitKept ==
  ASSUME NEW A, NEW C, IsFiniteSet(C), NEW id, A \subseteq C \cup {id}
  PROVE  /\ IsFiniteSet(A) /\ Cardinality(A) \in Nat /\ Cardinality(C) \in Nat
         /\ Cardinality(A) <= Cardinality(C) + 1
         /\ A \subseteq C => Cardinality(A) <= Cardinality(C)
  <1>1. IsFiniteSet(C \cup {id}) /\ Cardinality(C) \in Nat
        /\ Cardinality(C \cup {id}) <= Cardinality(C) + 1
    <2>1. IsFiniteSet(C \cup {id}) /\ Cardinality(C) \in Nat
      BY FS_AddElement, FS_CardinalityType
    <2>2. Cardinality(C \cup {id}) = IF id \in C THEN Cardinality(C) ELSE Cardinality(C) + 1
      BY FS_AddElement
    <2> QED
      BY <2>1, <2>2
  <1>2. IsFiniteSet(A) /\ Cardinality(A) <= Cardinality(C \cup {id}) /\ Cardinality(A) \in Nat
        /\ Cardinality(C \cup {id}) \in Nat
    BY <1>1, FS_Subset, FS_CardinalityType
  <1>3. A \subseteq C => Cardinality(A) <= Cardinality(C)
    BY FS_Subset
  <1> QED
    BY <1>1, <1>2, <1>3

(* What a stream's change does to its connection's limits.                 *)
LEMMA OnlyLimits ==
  ASSUME NEW s \in State, NEW r, NEW k \in Times, NEW id \in Streams, Only(r, s, k, id)
  PROVE  /\ Cardinality(Waiting(s.conns[k])) \in Nat /\ Cardinality(Waiting(r.conns[k])) \in Nat
         /\ Cardinality(Answering(s.conns[k])) \in Nat
         /\ Cardinality(Answering(r.conns[k])) \in Nat
         /\ Cardinality(Waiting(r.conns[k])) <= Cardinality(Waiting(s.conns[k])) + 1
         /\ Cardinality(Answering(r.conns[k])) <= Cardinality(Answering(s.conns[k])) + 1
         /\ (s.conns[k].pending[id] = NoReq => r.conns[k].pending[id] = NoReq)
            => Cardinality(Waiting(r.conns[k])) <= Cardinality(Waiting(s.conns[k]))
         /\ (s.conns[k].responses[id] = NoResp => r.conns[k].responses[id] = NoResp)
            => Cardinality(Answering(r.conns[k])) <= Cardinality(Answering(s.conns[k]))
  <1> DEFINE c == s.conns[k]
             d == r.conns[k]
  <1>1. c \in Connection /\ d \in Connection
    BY DEF Only, At, State, ConnMap
  <1>2. IsFiniteSet(Waiting(c)) /\ IsFiniteSet(Answering(c))
    BY <1>1, ConnParts
  <1>3. /\ \A i \in Streams \ {id} : d.pending[i] = c.pending[i] /\ d.responses[i] = c.responses[i]
    BY DEF Only
  <1> HIDE DEF c, d
  <1>4. Waiting(d) \subseteq Waiting(c) \cup {id} /\ Answering(d) \subseteq Answering(c) \cup {id}
    BY <1>3 DEF Waiting, Answering
  <1>5. /\ (c.pending[id] = NoReq => d.pending[id] = NoReq) => Waiting(d) \subseteq Waiting(c)
        /\ (c.responses[id] = NoResp => d.responses[id] = NoResp) => Answering(d) \subseteq Answering(c)
    BY <1>3 DEF Waiting, Answering
  <1> DEFINE A == Waiting(c)
             B == Waiting(d)
             E == Answering(c)
             F == Answering(d)
  <1> HIDE DEF A, B, E, F
  <1>6. /\ Cardinality(B) \in Nat /\ Cardinality(A) \in Nat
        /\ Cardinality(B) <= Cardinality(A) + 1
        /\ B \subseteq A => Cardinality(B) <= Cardinality(A)
    BY <1>2, <1>4, LimitKept DEF A, B
  <1>7. /\ Cardinality(F) \in Nat /\ Cardinality(E) \in Nat
        /\ Cardinality(F) <= Cardinality(E) + 1
        /\ F \subseteq E => Cardinality(F) <= Cardinality(E)
    BY <1>2, <1>4, LimitKept DEF E, F
  <1> QED
    BY <1>5, <1>6, <1>7 DEF A, B, E, F, c, d

-----------------------------------------------------------------------------
(* The request side of the item loop.                                      *)

(* What AppendBody does.                                                   *)
IsAppendBody(r, s, k, id) ==
    /\ Only(r, s, k, id) /\ Ledgers(r, s)
    /\ r.conns[k].responses = s.conns[k].responses
    /\ r.conns[k].pending[id] = NoReq <=> s.conns[k].pending[id] = NoReq

(* A stream keeps everything.                                              *)
LEMMA OnlySelf ==
  ASSUME NEW s \in State, NEW r \in State, Frame(r, s), r.conns = s.conns, s.short => r.short,
         NEW k \in Times, NEW id
  PROVE  Only(r, s, k, id)
  BY DEF Only, At

(* A piece of a request's body is charged once.                            *)
LEMMA AppendBodyIs ==
  ASSUME NEW s, Kept(s), NEW k \in Times, NEW id \in Streams
  PROVE  LET r == AppendBody(s, k, id) IN IsAppendBody(r, s, k, id) /\ Kept(r)
  <1> DEFINE r == AppendBody(s, k, id)
             q == s.conns[k].pending[id]
             v == [q EXCEPT !.body = @ + 1]
  <1>0. s \in State /\ s.total \in Int /\ Good(s.conns[k]) /\ s.conns[k] \in Connection
        /\ Sound(s) /\ Accounts(s)
    BY DEF Kept, Sound, State, ConnMap
  <1>1. CASE q = NoReq \/ q.body >= MaxBody
    <2>1. r = s
      BY <1>1 DEF AppendBody
    <2>2. Only(s, s, k, id)
      BY <1>0, OnlySelf DEF Frame
    <2> QED
      BY <2>1, <2>2 DEF IsAppendBody, Ledgers
  <1>2. CASE ~(q = NoReq \/ q.body >= MaxBody) /\ Full(s, 1)
    <2>1. r = Refuse(s)
      BY <1>2 DEF AppendBody
    <2>2. /\ r \in State /\ Frame(r, s) /\ Ledgers(r, s) /\ r.conns = s.conns
          /\ r.total = s.total /\ r.short
      BY <1>0, <2>1, RefuseIs
    <2> HIDE DEF r
    <2>3. Only(r, s, k, id)
      BY <1>0, <2>2, OnlySelf
    <2>4. Kept(r)
      BY <2>2, SameKept DEF Frame
    <2> QED
      BY <2>2, <2>3, <2>4 DEF IsAppendBody, r
  <1>3. CASE ~(q = NoReq \/ q.body >= MaxBody) /\ ~Full(s, 1)
    <2> DEFINE x == SetReq(s, k, id, v)
    <2>1. r = [x EXCEPT !.total = @ + 1]
      BY <1>3 DEF AppendBody
    <2>2. q \in Requested
      BY <1>0, <1>3, ConnParts
    <2>3. v \in Requested /\ v # NoReq /\ v.body = q.body + 1 /\ q.body \in Nat
      BY <2>2, Absent DEF Requested
    <2>s. ReqSize(v) = ReqSize(q) + 1 /\ ReqSize(q) \in Nat
      BY <1>3, <2>3 DEF ReqSize
    <2> HIDE DEF v
    <2>4. IsSetReq(x, s, k, id, v)
      BY <1>0, <2>3, SetReqIs
    <2> HIDE DEF x, r, q
    <2>5. x \in State /\ x.total = s.total
      BY <2>4 DEF IsSetReq, Only, At
    <2>6. r = [x EXCEPT !.total = s.total + 1] /\ s.total + 1 \in Int
      BY <1>0, <2>1, <2>5 DEF State
    <2>7. /\ r \in State /\ Frame(r, x) /\ Ledgers(r, x) /\ r.conns = x.conns
          /\ r.total = s.total + 1 /\ r.short = x.short
      BY <2>5, <2>6, TotalSet
    <2>8. Only(r, s, k, id) /\ Ledgers(r, s)
      BY <2>4, <2>7 DEF IsSetReq, Only, At, Ledgers, Frame
    <2>9. /\ r.conns[k].pending[id] = v /\ r.conns[k].responses = s.conns[k].responses
      BY <2>4, <2>7 DEF IsSetReq
    <2>10. SlotSize(r, k, id) = SlotSize(s, k, id) + 1 /\ SlotSize(s, k, id) \in Nat
      <3>1. RespSize(s.conns[k].responses[id]) \in Nat
        BY <1>0, ConnParts
      <3> QED
        BY <3>1, <2>s, <2>9 DEF SlotSize, q
    <2>11. r.total <= MaxTotal
      BY <1>0, <1>3, <2>7, Constants DEF Full
    <2>12. /\ Cardinality(Waiting(r.conns[k])) <= MaxPending
           /\ Cardinality(Answering(r.conns[k])) <= MaxPending
      <3>1. Cardinality(Waiting(r.conns[k])) <= Cardinality(Waiting(s.conns[k]))
            /\ Cardinality(Answering(r.conns[k])) <= Cardinality(Answering(s.conns[k]))
        BY <1>0, <1>3, <2>8, <2>9, OnlyLimits DEF q
      <3> QED
        BY <3>1, <1>0, <2>8, OnlyLimits, Constants DEF Good
    <2>13. Numbered(r)
      BY <1>0, <2>8 DEF Sound, Numbered, Ledgers
    <2>14. Sound(r)
      <3>1. r.total = s.total - SlotSize(s, k, id) + SlotSize(r, k, id)
        BY <1>0, <2>7, <2>10
      <3> QED
        BY <3>1, <1>0, <2>8, <2>11, <2>12, <2>13, OnlySound
    <2>15. Cardinality(Waits(r)) = Cardinality(Waits(s))
      <3>1. WaitAt(r, k, id) = 1 /\ WaitAt(s, k, id) = 1
        BY <1>3, <2>3, <2>9 DEF WaitAt, q
      <3> QED
        BY <3>1, <1>0, <2>8, OnlyWaits, WaitsFinite
    <2>16. Accounts(r)
      BY <1>0, <2>8, <2>15 DEF Accounts, Ledgers
    <2> QED
      BY <1>3, <2>3, <2>8, <2>9, <2>14, <2>16 DEF IsAppendBody, Kept, r, q
  <1> QED
    BY <1>1, <1>2, <1>3

(* The requests that no longer wait.                                       *)
Left(s) == Cardinality(s.out) + s.refused + s.cancelled + s.silent

(* The counters are numbers.                                               *)
LEMMA LeftType ==
  ASSUME NEW s, Sound(s)
  PROVE  /\ Left(s) \in Int /\ s.parsed \in Int /\ s.total \in Int /\ Cardinality(s.out) \in Nat
         /\ s.refused \in Int /\ s.cancelled \in Int /\ s.silent \in Int
         /\ Accounts(s) <=> s.parsed = Cardinality(Waits(s)) + Left(s)
  <1>1. /\ s.parsed \in Int /\ s.total \in Int
        /\ s.refused \in Int /\ s.cancelled \in Int /\ s.silent \in Int
    BY DEF Sound, State
  <1>2. Cardinality(s.out) \in Nat
    BY FS_CardinalityType DEF Sound, Numbered
  <1>3. Cardinality(Waits(s)) \in Nat
    BY WaitsFinite
  <1> DEFINE a == s.refused
             b == s.cancelled
             c == s.silent
             d == Cardinality(s.out)
             w == Cardinality(Waits(s))
  <1>4. a \in Int /\ b \in Int /\ c \in Int /\ d \in Nat /\ w \in Nat
    BY <1>1, <1>2, <1>3
  <1>5. d + a + b + c \in Int /\ w + d + a + b + c = w + (d + a + b + c)
    <2> HIDE DEF a, b, c, d, w
    <2> QED
      BY <1>4
  <1> QED
    BY <1>1, <1>2, <1>5 DEF Accounts, Left

(* What becomes of the stream's old request when another one comes.        *)
IsReplaced(r, s, k, id) ==
    /\ Only(r, s, k, id)
    /\ r.short = s.short /\ r.out = s.out
    /\ r.conns[k].responses = s.conns[k].responses
    /\ r.conns[k].pending[id] = NoReq
    /\ Sound(r)
    /\ r.parsed = Cardinality(Waits(r)) + Left(r) + 1

(* A replaced request is given back and counted.                           *)
LEMMA ReplacedIs ==
  ASSUME NEW s, Kept(s), NEW k \in Times, NEW id \in Streams
  PROVE  IsReplaced(Replaced(s, k, id), s, k, id)
  <1> DEFINE r == Replaced(s, k, id)
             q == s.conns[k].pending[id]
             x == SetReq(s, k, id, NoReq)
             n == ReqSize(q)
             w == IF q = NoReq THEN 0 ELSE 1
             a == s.total - n
             b == s.parsed + 1
             c == s.silent + w
  <1>0. s \in State /\ s.total \in Int /\ s.parsed \in Int /\ s.silent \in Int
        /\ Good(s.conns[k]) /\ s.conns[k] \in Connection /\ Sound(s) /\ Accounts(s)
    BY DEF Kept, Sound, State, ConnMap
  <1>1. n \in Nat
    BY <1>0, ConnParts
  <1>2. a \in Int /\ b \in Int /\ c \in Int
    BY <1>0, <1>1
  <1>3. IsSetReq(x, s, k, id, NoReq)
    BY <1>0, SetReqIs
  <1>4. r = [x EXCEPT !.total = @ - n, !.parsed = @ + 1, !.silent = @ + w]
    BY DEF Replaced
  <1> HIDE DEF x, n, w, r, q
  <1>5. x \in State /\ x.total = s.total /\ x.parsed = s.parsed /\ x.silent = s.silent
    BY <1>3 DEF IsSetReq, Only, At, Ledgers
  <1>6. r = [x EXCEPT !.total = a, !.parsed = b, !.silent = c]
    BY <1>4, <1>5 DEF State
  <1> HIDE DEF a, b, c
  <1>7. r \in State
    BY <1>2, <1>5, <1>6, Zenon DEF State
  <1>8. /\ r.conns = x.conns /\ Frame(r, x) /\ r.total = a /\ r.parsed = b /\ r.silent = c
        /\ r.short = x.short /\ r.out = x.out /\ r.refused = x.refused /\ r.cancelled = x.cancelled
    BY <1>5, <1>6 DEF State, Frame
  <1>9. Only(r, s, k, id) /\ r.short = s.short /\ r.out = s.out /\ r.refused = s.refused
        /\ r.cancelled = s.cancelled
    BY <1>3, <1>7, <1>8 DEF IsSetReq, Only, At, Frame, Ledgers
  <1>10. r.conns[k].pending[id] = NoReq /\ r.conns[k].responses = s.conns[k].responses
    BY <1>3, <1>8 DEF IsSetReq
  <1>11. r.total = s.total - SlotSize(s, k, id) + SlotSize(r, k, id) /\ r.total <= s.total
    <2> DEFINE z == RespSize(s.conns[k].responses[id])
    <2>1. z \in Nat
      BY <1>0, ConnParts
    <2>2. SlotSize(s, k, id) = n + z
      BY DEF SlotSize, n, q
    <2>3. SlotSize(r, k, id) = 0 + z
      BY <1>10 DEF SlotSize, ReqSize
    <2> HIDE DEF z
    <2> QED
      BY <2>1, <2>2, <2>3, <1>0, <1>1, <1>8 DEF a
  <1>12. r.total <= MaxTotal
    BY <1>0, <1>7, <1>11, Constants DEF Sound, Memory, State
  <1>13. /\ Cardinality(Waiting(r.conns[k])) <= MaxPending
         /\ Cardinality(Answering(r.conns[k])) <= MaxPending
    <2>1. Cardinality(Waiting(r.conns[k])) <= Cardinality(Waiting(s.conns[k]))
          /\ Cardinality(Answering(r.conns[k])) <= Cardinality(Answering(s.conns[k]))
      BY <1>0, <1>9, <1>10, OnlyLimits
    <2> QED
      BY <2>1, <1>0, <1>9, OnlyLimits, Constants DEF Good
  <1>14. Numbered(r)
    BY <1>0, <1>9 DEF Sound, Numbered
  <1>15. Sound(r)
    BY <1>0, <1>9, <1>11, <1>12, <1>13, <1>14, OnlySound
  <1>16. Cardinality(Waits(r)) = Cardinality(Waits(s)) - w
    <2>1. WaitAt(r, k, id) = 0 /\ WaitAt(s, k, id) = w /\ w \in Nat
      BY <1>10 DEF WaitAt, w, q
    <2> QED
      BY <2>1, <1>0, <1>9, OnlyWaits, WaitsFinite
  <1>17. Left(r) = Left(s) + w /\ w \in Nat
    BY <1>0, <1>8, <1>9, LeftType DEF Left, w, c
  <1>18. r.parsed = Cardinality(Waits(r)) + Left(r) + 1
    <2>1. s.parsed = Cardinality(Waits(s)) + Left(s) /\ Left(s) \in Int
      BY <1>0, LeftType
    <2> QED
      BY <2>1, <1>0, <1>8, <1>16, <1>17, WaitsFinite DEF b
  <1> QED
    BY <1>9, <1>10, <1>15, <1>18 DEF IsReplaced, r

(* What Insert does.                                                       *)
IsInsert(r, s, k, id, t) ==
    /\ Only(r, s, k, id)
    /\ r.out = s.out
    /\ r.conns[k].responses = s.conns[k].responses
    /\ \/ r.conns[k].pending[id] = [ts |-> t, body |-> 0]
       \/ r.conns[k].pending[id] = NoReq /\ r.short

(* A request is charged, or counted as refused.                            *)
LEMMA InsertIs ==
  ASSUME NEW s, Kept(s), NEW k \in Times, NEW id \in Streams, NEW t \in Times
  PROVE  LET r == Insert(s, k, id, t) IN IsInsert(r, s, k, id, t) /\ Kept(r)
  <1> DEFINE r == Insert(s, k, id, t)
             y == Replaced(s, k, id)
             v == [ts |-> t, body |-> 0]
             full == Cardinality(Waiting(y.conns[k])) >= MaxPending \/ Full(y, 1)
  <1>1. IsReplaced(y, s, k, id)
    BY ReplacedIs
  <1>c1. full => r = [Refuse(y) EXCEPT !.refused = @ + 1]
    BY DEF Insert
  <1>c2. ~full => r = [SetReq(y, k, id, v) EXCEPT !.total = @ + 1]
    BY DEF Insert
  <1> HIDE DEF y, r
  <1>2. Sound(y) /\ y \in State /\ Good(y.conns[k]) /\ y.conns[k] \in Connection
    BY <1>1 DEF IsReplaced, Sound, State, ConnMap
  <1>3. y.parsed = Cardinality(Waits(y)) + Left(y) + 1 /\ y.parsed \in Int /\ Left(y) \in Int
        /\ y.refused \in Int /\ y.total \in Int
    BY <1>1, <1>2, LeftType DEF IsReplaced
  <1>4. CASE full
    <2> DEFINE x == Refuse(y)
               n == y.refused + 1
    <2>1. /\ x \in State /\ Frame(x, y) /\ Ledgers(x, y) /\ x.conns = y.conns
          /\ x.total = y.total /\ x.short
      BY <1>2, RefuseIs
    <2>2. r = [x EXCEPT !.refused = @ + 1]
      BY <1>4, <1>c1
    <2> HIDE DEF x
    <2>3. r = [x EXCEPT !.refused = n] /\ n \in Int
      BY <2>1, <2>2, <1>3 DEF State, Ledgers
    <2> HIDE DEF n
    <2>4. r \in State
      BY <2>1, <2>3, Zenon DEF State
    <2>5. /\ Frame(r, x) /\ r.conns = x.conns /\ r.total = x.total /\ r.short = x.short
          /\ r.parsed = x.parsed /\ r.refused = n /\ r.cancelled = x.cancelled
          /\ r.silent = x.silent /\ r.out = x.out
      BY <2>1, <2>3 DEF State, Frame
    <2>6. /\ Frame(r, y) /\ r.conns = y.conns /\ r.total = y.total /\ r.short
          /\ r.parsed = y.parsed /\ r.refused = y.refused + 1 /\ r.cancelled = y.cancelled
          /\ r.silent = y.silent /\ r.out = y.out
      BY <2>1, <2>5 DEF Frame, Ledgers, n
    <2>7. Sizes(r) = Sizes(y) /\ Parsing(r) = Parsing(y) /\ Earlies(r) = Earlies(y)
          /\ Waits(r) = Waits(y)
      BY <2>6 DEF Sizes, Parsing, Earlies, Waits, Frame
    <2>8. Sound(r)
      BY <1>2, <2>4, <2>6, <2>7 DEF Sound, Memory, Numbered
    <2>9. Left(r) = Left(y) + 1
      BY <1>2, <2>6, LeftType DEF Left
    <2>10. Accounts(r)
      <3>1. r.parsed = Cardinality(Waits(r)) + Left(r)
        BY <1>3, <2>6, <2>7, <2>9, WaitsFinite
      <3> QED
        BY <3>1, <2>8, LeftType
    <2>11. Only(r, s, k, id)
      BY <1>1, <2>4, <2>6 DEF IsReplaced, Only, At, Frame
    <2> QED
      BY <1>1, <2>6, <2>8, <2>10, <2>11 DEF r, IsInsert, IsReplaced, Kept
  <1>5. CASE ~full
    <2> DEFINE x == SetReq(y, k, id, v)
    <2>1. r = [x EXCEPT !.total = @ + 1]
      BY <1>5, <1>c2
    <2>2. v \in Requested /\ v # NoReq /\ ReqSize(v) = 1
      BY Constants DEF Requested, NoReq, ReqSize
    <2> HIDE DEF v
    <2>3. IsSetReq(x, y, k, id, v)
      BY <1>2, <2>2, SetReqIs
    <2> HIDE DEF x
    <2>4. x \in State /\ x.total = y.total
      BY <2>3 DEF IsSetReq, Only, At
    <2>5. r = [x EXCEPT !.total = y.total + 1] /\ y.total + 1 \in Int
      BY <1>3, <2>1, <2>4 DEF State
    <2>6. /\ r \in State /\ Frame(r, x) /\ Ledgers(r, x) /\ r.conns = x.conns
          /\ r.total = y.total + 1 /\ r.short = x.short
      BY <2>4, <2>5, TotalSet
    <2>7. Only(r, y, k, id) /\ Ledgers(r, y) /\ r.short = y.short
      BY <2>3, <2>6 DEF IsSetReq, Only, At, Ledgers, Frame
    <2>8. r.conns[k].pending[id] = v /\ r.conns[k].responses = y.conns[k].responses
      BY <2>3, <2>6 DEF IsSetReq
    <2>9. r.total = y.total - SlotSize(y, k, id) + SlotSize(r, k, id)
      <3> DEFINE z == RespSize(y.conns[k].responses[id])
      <3>1. z \in Nat
        BY <1>2, ConnParts
      <3>2. SlotSize(y, k, id) = 0 + z
        BY <1>1 DEF IsReplaced, SlotSize, ReqSize
      <3>3. SlotSize(r, k, id) = 1 + z
        BY <2>2, <2>8 DEF SlotSize
      <3> HIDE DEF z
      <3> QED
        BY <3>1, <3>2, <3>3, <1>3, <2>6
    <2>10. r.total <= MaxTotal
      BY <1>3, <1>5, <2>6, Constants DEF Full
    <2>11. /\ Cardinality(Waiting(r.conns[k])) <= MaxPending
           /\ Cardinality(Answering(r.conns[k])) <= MaxPending
      <3>1. /\ Cardinality(Waiting(r.conns[k])) <= Cardinality(Waiting(y.conns[k])) + 1
            /\ Cardinality(Answering(r.conns[k])) <= Cardinality(Answering(y.conns[k]))
            /\ Cardinality(Waiting(y.conns[k])) \in Nat
            /\ Cardinality(Waiting(r.conns[k])) \in Nat
            /\ Cardinality(Answering(y.conns[k])) \in Nat
            /\ Cardinality(Answering(r.conns[k])) \in Nat
        BY <1>2, <2>7, <2>8, OnlyLimits
      <3>2. ~(Cardinality(Waiting(y.conns[k])) >= MaxPending)
        BY <1>5
      <3>3. Cardinality(Answering(y.conns[k])) <= MaxPending
        BY <1>2 DEF Good
      <3> DEFINE a == Cardinality(Waiting(y.conns[k]))
                 b == Cardinality(Waiting(r.conns[k]))
                 c == Cardinality(Answering(y.conns[k]))
                 d == Cardinality(Answering(r.conns[k]))
      <3> HIDE DEF a, b, c, d
      <3>4. b <= MaxPending /\ d <= MaxPending
        BY <3>1, <3>2, <3>3, Constants DEF a, b, c, d
      <3> QED
        BY <3>4 DEF b, d
    <2>12. Numbered(r)
      BY <1>2, <2>7 DEF Sound, Numbered, Ledgers
    <2>13. Sound(r)
      BY <1>2, <2>7, <2>9, <2>10, <2>11, <2>12, OnlySound
    <2>14. Cardinality(Waits(r)) = Cardinality(Waits(y)) + 1
      <3>1. WaitAt(r, k, id) = 1 /\ WaitAt(y, k, id) = 0
        BY <1>1, <2>2, <2>8 DEF WaitAt, IsReplaced
      <3> QED
        BY <3>1, <1>2, <2>7, OnlyWaits, WaitsFinite
    <2>15. Accounts(r)
      <3>1. r.parsed = y.parsed /\ Left(r) = Left(y)
        BY <2>7 DEF Ledgers, Left
      <3>2. r.parsed = Cardinality(Waits(r)) + Left(r)
        BY <3>1, <1>3, <2>14, WaitsFinite
      <3> QED
        BY <3>2, <2>13, LeftType
    <2>16. Only(r, s, k, id)
      BY <1>1, <2>7 DEF IsReplaced, Only, At, Frame
    <2> QED
      BY <1>1, <2>7, <2>8, <2>13, <2>15, <2>16 DEF r, v, IsInsert, IsReplaced, Kept, Ledgers
  <1> QED
    BY <1>4, <1>5

-----------------------------------------------------------------------------
(* The response side of the item loop.                                     *)

(* The response of stream id becomes v.                                    *)
Answers(r, s, k, id, v) ==
    /\ Only(r, s, k, id) /\ Ledgers(r, s)
    /\ r.conns[k].pending = s.conns[k].pending
    /\ r.conns[k].responses[id] = v

(* A response changes, and the change is charged.                          *)
Charged(s, k, id, v, n) == [SetResp(s, k, id, v) EXCEPT !.total = @ + n]

(* n is the charge for the change, and there is room for it.               *)
Fits(s, k, id, v, n) ==
    /\ n = RespSize(v) - RespSize(s.conns[k].responses[id])
    /\ s.total + n <= MaxTotal
    /\ \/ v = NoResp
       \/ s.conns[k].responses[id] # NoResp
       \/ ~(Cardinality(Answering(s.conns[k])) >= MaxPending)

(* The books, after such a change.                                         *)
LEMMA RespCharged ==
  ASSUME NEW s, Kept(s), NEW k \in Times, NEW id \in Streams, NEW v \in Answered \cup {NoResp},
         NEW n \in Int, Fits(s, k, id, v, n), NEW r, r = Charged(s, k, id, v, n)
  PROVE  Answers(r, s, k, id, v) /\ r.short = s.short /\ r.total = s.total + n /\ Kept(r)
  <1> DEFINE x == SetResp(s, k, id, v)
  <1>0. s \in State /\ s.total \in Int /\ Good(s.conns[k]) /\ s.conns[k] \in Connection
        /\ Sound(s) /\ Accounts(s)
    BY DEF Kept, Sound, State, ConnMap
  <1>1. IsSetResp(x, s, k, id, v)
    BY <1>0, SetRespIs
  <1> HIDE DEF x
  <1>2. x \in State /\ x.total = s.total
    BY <1>1 DEF IsSetResp, Only, At
  <1> DEFINE m == s.total + n
  <1>3. r = [x EXCEPT !.total = m] /\ m \in Int
    BY <1>0, <1>2 DEF State, x, Charged
  <1> HIDE DEF m
  <1>4. /\ r \in State /\ Frame(r, x) /\ Ledgers(r, x) /\ r.conns = x.conns
        /\ r.total = s.total + n /\ r.short = x.short
    BY <1>2, <1>3, TotalSet DEF m
  <1>5. Only(r, s, k, id) /\ Ledgers(r, s) /\ r.short = s.short
    BY <1>1, <1>4 DEF IsSetResp, Only, At, Ledgers, Frame
  <1>6. r.conns[k].responses[id] = v /\ r.conns[k].pending = s.conns[k].pending
    BY <1>1, <1>4 DEF IsSetResp
  <1>7. r.total = s.total - SlotSize(s, k, id) + SlotSize(r, k, id)
    <2> DEFINE z == ReqSize(s.conns[k].pending[id])
               a == RespSize(s.conns[k].responses[id])
               b == RespSize(v)
    <2>1. z \in Nat /\ a \in Nat
      BY <1>0, ConnParts
    <2>2. b \in Nat
      BY DEF RespSize, Answered
    <2>3. SlotSize(s, k, id) = z + a /\ SlotSize(r, k, id) = z + b
      BY <1>6 DEF SlotSize
    <2>4. n = b - a
      BY DEF Fits
    <2> HIDE DEF z, a, b
    <2> QED
      BY <2>1, <2>2, <2>3, <2>4, <1>0, <1>4
  <1>8. /\ Cardinality(Waiting(r.conns[k])) <= MaxPending
        /\ Cardinality(Answering(r.conns[k])) <= MaxPending
    <2> DEFINE a == Cardinality(Waiting(s.conns[k]))
               b == Cardinality(Waiting(r.conns[k]))
               c == Cardinality(Answering(s.conns[k]))
               d == Cardinality(Answering(r.conns[k]))
    <2>1. /\ a \in Nat /\ b \in Nat /\ c \in Nat /\ d \in Nat /\ b <= a /\ d <= c + 1
          /\ (s.conns[k].responses[id] = NoResp => r.conns[k].responses[id] = NoResp) => d <= c
      BY <1>0, <1>5, <1>6, OnlyLimits
    <2>2. a <= MaxPending /\ c <= MaxPending
      BY <1>0 DEF Good
    <2>3. d <= c \/ ~(c >= MaxPending)
      BY <2>1, <1>6 DEF Fits
    <2> HIDE DEF a, b, c, d
    <2>4. b <= MaxPending /\ d <= MaxPending
      BY <2>1, <2>2, <2>3, Constants
    <2> QED
      BY <2>4 DEF b, d
  <1>9. Numbered(r)
    BY <1>0, <1>5 DEF Sound, Numbered, Ledgers
  <1>10. Sound(r)
    <2>1. r.total <= MaxTotal
      BY <1>4 DEF Fits
    <2> QED
      BY <2>1, <1>0, <1>5, <1>7, <1>8, <1>9, OnlySound
  <1>11. Cardinality(Waits(r)) = Cardinality(Waits(s))
    <2>1. WaitAt(r, k, id) = WaitAt(s, k, id) /\ WaitAt(s, k, id) \in Nat
      BY <1>6 DEF WaitAt
    <2> QED
      BY <2>1, <1>0, <1>5, OnlyWaits, WaitsFinite
  <1>12. Accounts(r)
    BY <1>0, <1>5, <1>11 DEF Accounts, Ledgers
  <1> QED
    BY <1>4, <1>5, <1>6, <1>10, <1>12 DEF Answers, Kept

(* What Start, AppendData and MergeTrailers do.                            *)
IsStart(r, s, k, id) ==
    \/ Answers(r, s, k, id, [body |-> 0, trailers |-> 0])
    \/ Answers(r, s, k, id, NoResp) /\ r.short

(* A response is charged, or refused.                                      *)
LEMMA StartIs ==
  ASSUME NEW s, Kept(s), NEW k \in Times, NEW id \in Streams
  PROVE  LET r == Start(s, k, id) IN IsStart(r, s, k, id) /\ Kept(r)
  <1> DEFINE r == Start(s, k, id)
             old == s.conns[k].responses[id]
             m == RespSize(old)
             y == [SetResp(s, k, id, NoResp) EXCEPT !.total = @ - m]
             v == [body |-> 0, trailers |-> 0]
             full == Cardinality(Answering(y.conns[k])) >= MaxPending \/ Full(y, 1)
  <1>0. s \in State /\ s.total \in Int /\ s.conns[k] \in Connection /\ s.total <= MaxTotal
    BY DEF Kept, Sound, State, ConnMap, Memory
  <1>c1. full => r = Refuse(y)
    BY DEF Start
  <1>c2. ~full => r = [SetResp(y, k, id, v) EXCEPT !.total = @ + 1]
    BY DEF Start
  <1>1. m \in Nat
    BY <1>0, ConnParts
  <1>2. y = [SetResp(s, k, id, NoResp) EXCEPT !.total = @ + (-m)]
    <2> DEFINE x == SetResp(s, k, id, NoResp)
    <2>1. IsSetResp(x, s, k, id, NoResp)
      BY <1>0, SetRespIs
    <2>2. x.total \in Int
      BY <2>1, <1>0 DEF IsSetResp
    <2> HIDE DEF x, m
    <2>3. x.total - m = x.total + (-m)
      BY <2>2, <1>1
    <2>4. y = [x EXCEPT !.total = x.total - m] /\ [x EXCEPT !.total = @ + (-m)] = [x EXCEPT !.total = x.total + (-m)]
      BY DEF x
    <2> QED
      BY <2>3, <2>4 DEF x
  <1>3. RespSize(NoResp) = 0
    BY DEF RespSize
  <1>4. Answers(y, s, k, id, NoResp) /\ y.short = s.short /\ Kept(y) /\ y.total \in Int
    <2> DEFINE n == -m
    <2>1. n \in Int /\ n = RespSize(NoResp) - m /\ s.total + n <= MaxTotal
      BY <1>0, <1>1, <1>3, Constants
    <2>2. y = Charged(s, k, id, NoResp, n)
      BY <1>2 DEF Charged
    <2> HIDE DEF n, y
    <2>3. Answers(y, s, k, id, NoResp) /\ y.short = s.short /\ y.total = s.total + n /\ Kept(y)
      BY <2>1, <2>2, RespCharged DEF Fits
    <2> QED
      BY <2>1, <2>3, <1>0
  <1> HIDE DEF y, r
  <1>5. y \in State
    BY <1>4 DEF Kept, Sound
  <1>6. CASE full
    <2>1. /\ r \in State /\ Frame(r, y) /\ Ledgers(r, y) /\ r.conns = y.conns
          /\ r.total = y.total /\ r.short
      BY <1>5, <1>6, <1>c1, RefuseIs
    <2>2. Kept(r)
      BY <1>4, <2>1, SameKept DEF Frame
    <2>3. Answers(r, s, k, id, NoResp)
      BY <1>4, <2>1 DEF Answers, Only, At, Frame, Ledgers
    <2> QED
      BY <2>1, <2>2, <2>3 DEF r, IsStart
  <1>7. CASE ~full
    <2>1. v \in Answered /\ RespSize(v) = 1
      BY DEF Answered, NoResp, RespSize
    <2>2. y.total + 1 <= MaxTotal
      BY <1>4, <1>7, Constants DEF Full
    <2>3. y.conns[k].responses[id] = NoResp
      BY <1>4 DEF Answers
    <2>4. 1 = RespSize(v) - RespSize(y.conns[k].responses[id])
      BY <2>1, <2>3, <1>3
    <2> HIDE DEF v
    <2>5. Answers(r, y, k, id, v) /\ r.short = y.short /\ Kept(r)
      <3>1. r = Charged(y, k, id, v, 1)
        BY <1>7, <1>c2 DEF v, Charged
      <3>2. ~(Cardinality(Answering(y.conns[k])) >= MaxPending)
        BY <1>7
      <3> QED
        BY <3>1, <3>2, <1>4, <2>1, <2>2, <2>4, RespCharged DEF Fits
    <2>6. Answers(r, s, k, id, v)
      BY <1>4, <2>5 DEF Answers, Only, At, Frame, Ledgers
    <2> QED
      BY <2>5, <2>6 DEF r, v, IsStart
  <1> QED
    BY <1>6, <1>7

(* A response being read keeps its value, or gets more of it.              *)
IsAppendData(r, s, k, id) ==
    LET old == s.conns[k].responses[id] IN
    \/ Answers(r, s, k, id, old) /\ (r.short \/ old.body >= MaxBody)
    \/ Answers(r, s, k, id, [old EXCEPT !.body = @ + 1]) /\ ~(old.body >= MaxBody)

IsMergeTrailers(r, s, k, id) ==
    LET old == s.conns[k].responses[id] IN
    \/ Answers(r, s, k, id, old) /\ r.short
    \/ Answers(r, s, k, id, [old EXCEPT !.trailers = @ + 1])

(* A response that is not changed.                                         *)
LEMMA AnswersSelf ==
  ASSUME NEW s \in State, NEW r \in State, Frame(r, s), r.conns = s.conns, s.short => r.short,
         Ledgers(r, s), NEW k \in Times, NEW id
  PROVE  Answers(r, s, k, id, s.conns[k].responses[id])
  BY DEF Only, At, Answers

(* A piece of a response's body is charged once.                           *)
LEMMA AppendDataIs ==
  ASSUME NEW s, Kept(s), NEW k \in Times, NEW id \in Streams, s.conns[k].responses[id] # NoResp
  PROVE  LET r == AppendData(s, k, id) IN IsAppendData(r, s, k, id) /\ Kept(r)
  <1> DEFINE r == AppendData(s, k, id)
             old == s.conns[k].responses[id]
             v == [old EXCEPT !.body = @ + 1]
  <1>0. s \in State /\ s.total \in Int /\ s.conns[k] \in Connection
    BY DEF Kept, Sound, State, ConnMap
  <1>1. CASE old.body >= MaxBody
    <2>1. r = s
      BY <1>1 DEF AppendData
    <2>2. Answers(s, s, k, id, old)
      BY <1>0, AnswersSelf DEF Frame, Ledgers
    <2> QED
      BY <1>1, <2>1, <2>2 DEF IsAppendData
  <1>2. CASE ~(old.body >= MaxBody) /\ Full(s, 1)
    <2>1. r = Refuse(s)
      BY <1>2 DEF AppendData
    <2>2. /\ r \in State /\ Frame(r, s) /\ Ledgers(r, s) /\ r.conns = s.conns
          /\ r.total = s.total /\ r.short
      BY <1>0, <2>1, RefuseIs
    <2> HIDE DEF r
    <2>3. Answers(r, s, k, id, old)
      BY <1>0, <2>2, AnswersSelf
    <2>4. Kept(r)
      BY <2>2, SameKept DEF Frame
    <2> QED
      BY <2>2, <2>3, <2>4 DEF IsAppendData, r
  <1>3. CASE ~(old.body >= MaxBody) /\ ~Full(s, 1)
    <2>1. r = Charged(s, k, id, v, 1)
      BY <1>3 DEF AppendData, Charged
    <2>2. old \in Answered
      BY <1>0, ConnParts
    <2>3. v \in Answered /\ v # NoResp /\ v.body = old.body + 1 /\ v.trailers = old.trailers
          /\ old.body \in Nat /\ old.trailers \in Nat
      BY <2>2, Absent DEF Answered
    <2>4. 1 = RespSize(v) - RespSize(old)
      BY <2>3 DEF RespSize
    <2>5. s.total + 1 <= MaxTotal
      BY <1>0, <1>3, Constants DEF Full
    <2> HIDE DEF v, r
    <2>6. Answers(r, s, k, id, v) /\ Kept(r)
      BY <2>1, <2>3, <2>4, <2>5, RespCharged DEF Fits
    <2> QED
      BY <2>6, <1>3 DEF IsAppendData, r, v
  <1> QED
    BY <1>1, <1>2, <1>3

(* Trailers are charged each time.                                         *)
LEMMA MergeTrailersIs ==
  ASSUME NEW s, Kept(s), NEW k \in Times, NEW id \in Streams, s.conns[k].responses[id] # NoResp
  PROVE  LET r == MergeTrailers(s, k, id) IN IsMergeTrailers(r, s, k, id) /\ Kept(r)
  <1> DEFINE r == MergeTrailers(s, k, id)
             old == s.conns[k].responses[id]
             v == [old EXCEPT !.trailers = @ + 1]
  <1>0. s \in State /\ s.total \in Int /\ s.conns[k] \in Connection
    BY DEF Kept, Sound, State, ConnMap
  <1>2. CASE Full(s, 1)
    <2>1. r = Refuse(s)
      BY <1>2 DEF MergeTrailers
    <2>2. /\ r \in State /\ Frame(r, s) /\ Ledgers(r, s) /\ r.conns = s.conns
          /\ r.total = s.total /\ r.short
      BY <1>0, <2>1, RefuseIs
    <2> HIDE DEF r
    <2>3. Answers(r, s, k, id, old)
      BY <1>0, <2>2, AnswersSelf
    <2>4. Kept(r)
      BY <2>2, SameKept DEF Frame
    <2> QED
      BY <2>2, <2>3, <2>4 DEF IsMergeTrailers, r
  <1>3. CASE ~Full(s, 1)
    <2>1. r = Charged(s, k, id, v, 1)
      BY <1>3 DEF MergeTrailers, Charged
    <2>2. old \in Answered
      BY <1>0, ConnParts
    <2>3. v \in Answered /\ v # NoResp /\ v.body = old.body /\ v.trailers = old.trailers + 1
          /\ old.body \in Nat /\ old.trailers \in Nat
      BY <2>2, Absent DEF Answered
    <2>4. 1 = RespSize(v) - RespSize(old)
      BY <2>3 DEF RespSize
    <2>5. s.total + 1 <= MaxTotal
      BY <1>0, <1>3, Constants DEF Full
    <2> HIDE DEF v, r
    <2>6. Answers(r, s, k, id, v) /\ Kept(r)
      BY <2>1, <2>3, <2>4, <2>5, RespCharged DEF Fits
    <2> QED
      BY <2>6 DEF IsMergeTrailers, r, v
  <1> QED
    BY <1>2, <1>3

-----------------------------------------------------------------------------
(* Streams that end.                                                       *)

(* The books, when streams shrink by m units.                              *)
LEMMA StreamsShrink ==
  ASSUME NEW s, Sound(s), NEW r \in State, NEW m \in Nat,
         Total(Sizes(r), Slots) = Total(Sizes(s), Slots) - m, r.total = s.total - m,
         \A j \in Times : /\ r.conns[j].dirs = s.conns[j].dirs
                          /\ r.conns[j].buffered = s.conns[j].buffered
                          /\ Waiting(r.conns[j]) \subseteq Waiting(s.conns[j])
                          /\ Answering(r.conns[j]) \subseteq Answering(s.conns[j]),
         r.early = s.early, Numbered(r)
  PROVE  Sound(r)
  <1>0. s \in State /\ (\A j \in Times : Good(s.conns[j]))
    BY DEF Sound
  <1>1. \A j \in Times : Good(r.conns[j])
    <2> SUFFICES ASSUME NEW j \in Times PROVE Good(r.conns[j])
      OBVIOUS
    <2> DEFINE c == s.conns[j]
               d == r.conns[j]
    <2>1. c \in Connection /\ Good(c)
      BY <1>0 DEF State, ConnMap
    <2>2. IsFiniteSet(Waiting(c)) /\ IsFiniteSet(Answering(c))
      BY <2>1, ConnParts
    <2>3. Waiting(d) \subseteq Waiting(c) /\ Answering(d) \subseteq Answering(c)
      OBVIOUS
    <2>d. d.buffered = c.buffered /\ d.dirs = c.dirs
      OBVIOUS
    <2> HIDE DEF c, d
    <2>4. /\ Cardinality(Waiting(d)) <= Cardinality(Waiting(c))
          /\ Cardinality(Answering(d)) <= Cardinality(Answering(c))
          /\ Cardinality(Waiting(c)) \in Nat /\ Cardinality(Waiting(d)) \in Nat
          /\ Cardinality(Answering(c)) \in Nat /\ Cardinality(Answering(d)) \in Nat
      BY <2>2, <2>3, FS_Subset, FS_CardinalityType
    <2>5. Good(d)
      BY <2>1, <2>4, <2>d, Constants DEF Good
    <2> QED
      BY <2>5 DEF d
  <1>2. /\ Total(Sizes(s), Slots) \in Nat /\ Total(Parsing(s), Times) \in Nat
        /\ Total(Earlies(s), Times) \in Nat
    BY <1>0, SizesType
  <1>4. \A j \in Times : Parsing(r)[j] = Parsing(s)[j] /\ Earlies(r)[j] = Earlies(s)[j]
    BY DEF Parsing, Earlies
  <1>5. /\ Total(Parsing(r), Times) = Total(Parsing(s), Times)
        /\ Total(Earlies(r), Times) = Total(Earlies(s), Times)
    BY <1>4, TotalSame
  <1> DEFINE T == Total(Sizes(s), Slots)
             U == Total(Parsing(s), Times)
             V == Total(Earlies(s), Times)
             T2 == Total(Sizes(r), Slots)
             x == r.total
             y == s.total
  <1>6. /\ T \in Nat /\ U \in Nat /\ V \in Nat
        /\ x = y - m /\ y = T + U + V /\ T2 = T - m /\ y <= MaxTotal
    BY <1>2 DEF Sound, Memory
  <1>7. x = T2 + U + V /\ x <= MaxTotal
    <2> HIDE DEF T, U, V, T2, x, y
    <2> QED
      BY <1>6, Constants
  <1>8. Memory(r)
    BY <1>5, <1>7 DEF Memory
  <1> QED
    BY <1>1, <1>8 DEF Sound

(* The books, when the streams of D become empty and are given back.       *)
LEMMA SlotsDropped ==
  ASSUME NEW s, Sound(s), NEW r \in State, NEW D \in SUBSET Slots,
         \A p \in Slots : Sizes(r)[p] = IF p \in D THEN 0 ELSE Sizes(s)[p],
         \A j \in Times : /\ r.conns[j].dirs = s.conns[j].dirs
                          /\ r.conns[j].buffered = s.conns[j].buffered
                          /\ Waiting(r.conns[j]) \subseteq Waiting(s.conns[j])
                          /\ Answering(r.conns[j]) \subseteq Answering(s.conns[j]),
         r.early = s.early, r.out = s.out, r.total = s.total - Total(Sizes(s), D)
  PROVE  Sound(r)
  <1>0. s \in State /\ (\A j \in Times : Good(s.conns[j])) /\ Numbered(r)
    BY DEF Sound, Numbered
  <1>1. \A p \in Slots : Sizes(s)[p] \in Nat
    BY <1>0, SizesType
  <1> DEFINE m == Total(Sizes(s), D)
  <1>2. Total(Sizes(r), Slots) = Total(Sizes(s), Slots) - m /\ m \in Nat
    BY <1>1, Finite, TotalDrop
  <1>3. r.total = s.total - m
    OBVIOUS
  <1> HIDE DEF m
  <1> QED
    BY <1>0, <1>2, <1>3, StreamsShrink

(* What Take does.                                                         *)
IsTake(r, s, k, ids) ==
    /\ At(r, s, k) /\ Ledgers(r, s) /\ r.short = s.short
    /\ \A i \in Streams :
         /\ r.conns[k].pending[i] = IF i \in ids THEN NoReq ELSE s.conns[k].pending[i]
         /\ r.conns[k].responses[i] = IF i \in ids THEN NoResp ELSE s.conns[k].responses[i]
    /\ Sound(r)
    /\ Waits(r) = Waits(s) \ ({k} \X ids)
    /\ Cardinality(Waits(r)) = Cardinality(Waits(s)) - Cardinality(ids \cap Waiting(s.conns[k]))
    /\ Cardinality(ids \cap Waiting(s.conns[k])) \in Nat

(* Streams that are taken give back what they held.                        *)
LEMMA TakeIs ==
  ASSUME NEW s, Sound(s), NEW k \in Times, NEW ids \in SUBSET Streams
  PROVE  IsTake(Take(s, k, ids), s, k, ids)
  <1> DEFINE r == Take(s, k, ids)
             c == s.conns[k]
             D == {k} \X ids
             pm == Reset(c.pending, ids, NoReq)
             rm == Reset(c.responses, ids, NoResp)
             cc == [c EXCEPT !.pending = pm, !.responses = rm]
             n == s.total - Total(Sizes(s), D)
             x == SetConn(s, k, cc)
  <1>0. s \in State /\ s.total \in Int /\ (\A j \in Times : Good(s.conns[j])) /\ c \in Connection
        /\ Numbered(s)
    BY DEF Sound, State, ConnMap
  <1>1. D \in SUBSET Slots
    BY DEF Slots
  <1>2. SumFunctionOnSet(Sizes(s), D) = Total(Sizes(s), D) /\ Total(Sizes(s), D) \in Nat
    BY <1>0, <1>1, SizesType
  <1>3. /\ pm \in PendingMap /\ rm \in ResponseMap
        /\ \A i \in Streams : /\ pm[i] = IF i \in ids THEN NoReq ELSE c.pending[i]
                              /\ rm[i] = IF i \in ids THEN NoResp ELSE c.responses[i]
    <2> DEFINE A == Requested \cup {NoReq}
               B == Answered \cup {NoResp}
               f == c.pending
               g == c.responses
    <2>1. f \in [Streams -> A] /\ g \in [Streams -> B]
      BY <1>0, ConnParts DEF PendingMap, ResponseMap
    <2>2. NoReq \in A /\ NoResp \in B
      OBVIOUS
    <2> HIDE DEF A, B, f, g
    <2>3. /\ Reset(f, ids, NoReq) \in [Streams -> A]
          /\ \A i \in Streams : Reset(f, ids, NoReq)[i] = IF i \in ids THEN NoReq ELSE f[i]
      BY <2>1, <2>2 DEF Reset
    <2>4. /\ Reset(g, ids, NoResp) \in [Streams -> B]
          /\ \A i \in Streams : Reset(g, ids, NoResp)[i] = IF i \in ids THEN NoResp ELSE g[i]
      BY <2>1, <2>2 DEF Reset
    <2> QED
      BY <2>3, <2>4 DEF PendingMap, ResponseMap, A, B, f, g
  <1>4. r = [x EXCEPT !.total = @ - SumFunctionOnSet(Sizes(s), D)]
    BY DEF Take
  <1> HIDE DEF c, pm, rm, r
  <1>5. /\ cc \in Connection /\ cc.pending = pm /\ cc.responses = rm
        /\ cc.dirs = c.dirs /\ cc.last = c.last /\ cc.buffered = c.buffered
    BY <1>0, <1>3 DEF Connection
  <1> HIDE DEF cc
  <1>6. /\ x \in State /\ Frame(x, s) /\ Ledgers(x, s)
        /\ x.total = s.total /\ x.short = s.short
        /\ x.conns[k] = cc /\ \A j \in Times \ {k} : x.conns[j] = s.conns[j]
    BY <1>0, <1>5, SetConnIs
  <1> HIDE DEF x, D
  <1>7. r = [x EXCEPT !.total = n] /\ n \in Int
    BY <1>0, <1>2, <1>4, <1>6 DEF State
  <1> HIDE DEF n
  <1>8. /\ r \in State /\ Frame(r, x) /\ Ledgers(r, x) /\ r.conns = x.conns
        /\ r.total = n /\ r.short = x.short
    BY <1>6, <1>7, TotalSet
  <1>9. At(r, s, k) /\ Ledgers(r, s) /\ r.short = s.short
    BY <1>5, <1>6, <1>8 DEF At, Frame, Ledgers, c
  <1>10. \A i \in Streams :
         /\ r.conns[k].pending[i] = IF i \in ids THEN NoReq ELSE s.conns[k].pending[i]
         /\ r.conns[k].responses[i] = IF i \in ids THEN NoResp ELSE s.conns[k].responses[i]
    BY <1>3, <1>5, <1>6, <1>8 DEF c
  <1>11. ASSUME NEW p \in Slots
         PROVE  /\ Sizes(r)[p] = IF p \in D THEN 0 ELSE Sizes(s)[p]
                /\ p \in Waits(r) <=> p \in Waits(s) \ D
    <2>1. p[1] \in Times /\ p[2] \in Streams /\ p = <<p[1], p[2]>>
      BY DEF Slots
    <2>2. CASE p \in D
      <3>1. p[1] = k /\ p[2] \in ids
        BY <2>1, <2>2 DEF D
      <3>2. r.conns[p[1]].pending[p[2]] = NoReq /\ r.conns[p[1]].responses[p[2]] = NoResp
        BY <2>1, <3>1, <1>10
      <3> QED
        BY <2>2, <3>2 DEF Sizes, ReqSize, RespSize, Waits
    <2>3. CASE p \notin D
      <3>1. p[1] # k \/ p[2] \notin ids
        BY <2>1, <2>3 DEF D
      <3>2. /\ r.conns[p[1]].pending[p[2]] = s.conns[p[1]].pending[p[2]]
            /\ r.conns[p[1]].responses[p[2]] = s.conns[p[1]].responses[p[2]]
        BY <2>1, <3>1, <1>9, <1>10 DEF At
      <3> QED
        BY <2>3, <3>2 DEF Sizes, Waits
    <2> QED
      BY <2>2, <2>3
  <1>12. ASSUME NEW j \in Times
         PROVE  /\ r.conns[j].dirs = s.conns[j].dirs
                /\ r.conns[j].buffered = s.conns[j].buffered
                /\ Waiting(r.conns[j]) \subseteq Waiting(s.conns[j])
                /\ Answering(r.conns[j]) \subseteq Answering(s.conns[j])
    <2>1. CASE j # k
      BY <2>1, <1>9 DEF At
    <2>2. CASE j = k
      BY <2>2, <1>9, <1>10 DEF At, Waiting, Answering
    <2> QED
      BY <2>1, <2>2
  <1>13. r.early = s.early /\ r.out = s.out /\ r.total = s.total - Total(Sizes(s), D)
    BY <1>8, <1>9 DEF At, Frame, Ledgers, n
  <1>14. Sound(r)
    BY <1>1, <1>8, <1>11, <1>12, <1>13, SlotsDropped
  <1>15. Waits(r) = Waits(s) \ D
    BY <1>11, WaitsFinite
  <1>16. Waits(s) \cap D = {k} \X (ids \cap Waiting(s.conns[k]))
    <2>1. ASSUME NEW p
          PROVE  p \in Waits(s) \cap D <=> p \in {k} \X (ids \cap Waiting(s.conns[k]))
      <3>1. CASE p \in D
        <4>1. p = <<k, p[2]>> /\ p[2] \in ids /\ p[2] \in Streams
          BY <3>1 DEF D
        <4>2. p \in Waits(s) <=> p[2] \in Waiting(s.conns[k])
          BY <4>1, WaitsFinite DEF Waiting
        <4> QED
          BY <3>1, <4>1, <4>2
      <3>2. CASE p \notin D
        BY <3>2 DEF D
      <3> QED
        BY <3>1, <3>2
    <2> QED
      BY <2>1
  <1>17. /\ Cardinality(Waits(r)) = Cardinality(Waits(s)) - Cardinality(ids \cap Waiting(s.conns[k]))
         /\ Cardinality(ids \cap Waiting(s.conns[k])) \in Nat
    <2> DEFINE A == ids \cap Waiting(s.conns[k])
    <2>1. IsFiniteSet(A)
      BY <1>0, ConnParts, FS_Subset DEF c
    <2> HIDE DEF A
    <2>2. Cardinality({k} \X A) = Cardinality(A) /\ Cardinality(A) \in Nat
      BY <2>1, PairCardinality, FS_CardinalityType
    <2>3. Cardinality(Waits(s) \ D) = Cardinality(Waits(s)) - Cardinality(Waits(s) \cap D)
      BY WaitsFinite, Removed
    <2> QED
      BY <2>2, <2>3, <1>15, <1>16 DEF A
  <1> QED
    BY <1>9, <1>10, <1>14, <1>15, <1>17 DEF IsTake, r, D

(* What Cancel does.                                                       *)
IsCancel(r, s, k, ids) ==
    /\ At(r, s, k) /\ r.out = s.out
    /\ \A i \in Streams :
         /\ r.conns[k].pending[i] = IF i \in ids THEN NoReq ELSE s.conns[k].pending[i]
         /\ r.conns[k].responses[i] = IF i \in ids THEN NoResp ELSE s.conns[k].responses[i]

(* Cancelled requests are counted.                                         *)
LEMMA CancelIs ==
  ASSUME NEW s, Kept(s), NEW k \in Times, NEW ids \in SUBSET Streams
  PROVE  LET r == Cancel(s, k, ids) IN IsCancel(r, s, k, ids) /\ Kept(r)
  <1> DEFINE r == Cancel(s, k, ids)
             x == Take(s, k, ids)
             m == Cardinality(ids \cap Waiting(s.conns[k]))
             n == s.cancelled + m
  <1>0. Sound(s) /\ Accounts(s) /\ s.cancelled \in Int
    BY DEF Kept, Sound, State
  <1>1. IsTake(x, s, k, ids)
    BY <1>0, TakeIs
  <1>2. r = [x EXCEPT !.cancelled = @ + m]
    BY DEF Cancel
  <1>3. m \in Nat /\ n \in Int
    BY <1>0, <1>1 DEF IsTake
  <1> HIDE DEF x, r, m
  <1>4. x \in State /\ x.cancelled = s.cancelled
    BY <1>1 DEF IsTake, At, Ledgers
  <1>5. r = [x EXCEPT !.cancelled = n]
    BY <1>2, <1>4 DEF State
  <1> HIDE DEF n
  <1>6. r \in State
    BY <1>3, <1>4, <1>5, Zenon DEF State
  <1>7. /\ Frame(r, x) /\ r.conns = x.conns /\ r.total = x.total /\ r.short = x.short
        /\ r.parsed = x.parsed /\ r.refused = x.refused /\ r.cancelled = n
        /\ r.silent = x.silent /\ r.out = x.out
    BY <1>4, <1>5 DEF State, Frame
  <1>8. Sizes(r) = Sizes(x) /\ Parsing(r) = Parsing(x) /\ Earlies(r) = Earlies(x)
        /\ Waits(r) = Waits(x)
    BY <1>7 DEF Sizes, Parsing, Earlies, Waits, Frame
  <1>9. Sound(r)
    BY <1>1, <1>6, <1>7, <1>8 DEF IsTake, Sound, Memory, Numbered
  <1>10. At(r, s, k) /\ r.out = s.out
    BY <1>1, <1>6, <1>7 DEF IsTake, At, Frame, Ledgers
  <1>11. Left(r) = Left(s) + m
    <2>1. r.out = s.out /\ r.refused = s.refused /\ r.silent = s.silent /\ r.cancelled = s.cancelled + m
      BY <1>1, <1>7 DEF IsTake, Ledgers, n
    <2> QED
      BY <2>1, <1>0, <1>3, LeftType DEF Left
  <1>12. Accounts(r)
    <2>1. Cardinality(Waits(r)) = Cardinality(Waits(s)) - m /\ r.parsed = s.parsed
      BY <1>1, <1>7, <1>8 DEF IsTake, Ledgers, m
    <2>2. s.parsed = Cardinality(Waits(s)) + Left(s) /\ Left(s) \in Int
      BY <1>0, LeftType
    <2>3. r.parsed = Cardinality(Waits(r)) + Left(r)
      BY <2>1, <2>2, <1>3, <1>11, WaitsFinite
    <2> QED
      BY <2>3, <1>9, LeftType
  <1> QED
    BY <1>1, <1>7, <1>9, <1>10, <1>12 DEF r, IsTake, IsCancel, Kept

(* Streams are gone from connection k.                                     *)
Ended(r, s, k, ids) ==
    /\ At(r, s, k)
    /\ \A i \in Streams :
         /\ r.conns[k].pending[i] = IF i \in ids THEN NoReq ELSE s.conns[k].pending[i]
         /\ r.conns[k].responses[i] = IF i \in ids THEN NoResp ELSE s.conns[k].responses[i]

(* What Finish does.                                                       *)
IsFinish(r, s, k, id) ==
    LET resp == s.conns[k].responses[id] IN
    \/ resp = NoResp /\ r = s
    \/ /\ resp # NoResp /\ Ended(r, s, k, {id}) /\ r.short = s.short
       /\ \/ s.conns[k].pending[id] = NoReq /\ r.out = s.out
          \/ /\ s.conns[k].pending[id] # NoReq
             /\ r.out = s.out \cup {Event(Cardinality(s.out), id, "paired", resp)}

(* A new event has a new number.                                           *)
LEMMA NewEvent ==
  ASSUME NEW s, Sound(s), NEW e \in Reported, e.nth = Cardinality(s.out),
         NEW r, r.out = s.out \cup {e}
  PROVE  Numbered(r) /\ Cardinality(r.out) = Cardinality(s.out) + 1
  <1>1. IsFiniteSet(s.out) /\ Cardinality(s.out) \in Nat /\ s.out \subseteq Reported
        /\ \A f \in s.out : f.nth < Cardinality(s.out)
    BY FS_CardinalityType DEF Sound, Numbered, State
  <1>2. e \notin s.out
    BY <1>1
  <1>3. IsFiniteSet(s.out \cup {e}) /\ Cardinality(s.out \cup {e}) = Cardinality(s.out) + 1
    BY <1>1, <1>2, FS_AddElement
  <1>4. ASSUME NEW f \in r.out PROVE f.nth < Cardinality(r.out)
    <2>1. \A g \in Reported : g.nth \in Nat
      BY DEF Reported
    <2>2. f.nth \in Nat /\ (f.nth < Cardinality(s.out) \/ f.nth = Cardinality(s.out))
      BY <1>1, <2>1
    <2> QED
      BY <2>2, <1>1, <1>3
  <1> QED
    BY <1>3, <1>4 DEF Numbered

(* A finished stream gives back what it held, and leaves in one event.     *)
LEMMA FinishIs ==
  ASSUME NEW s, Kept(s), NEW k \in Times, NEW id \in Streams
  PROVE  LET r == Finish(s, k, id) IN IsFinish(r, s, k, id) /\ Kept(r)
  <1> DEFINE r == Finish(s, k, id)
             x == Take(s, k, {id})
             resp == s.conns[k].responses[id]
             A == {id} \cap Waiting(s.conns[k])
             e == Event(Cardinality(s.out), id, "paired", resp)
             o == s.out \cup {e}
  <1>0. Sound(s) /\ Accounts(s) /\ s \in State /\ s.conns[k] \in Connection /\ {id} \in SUBSET Streams
    BY DEF Kept, Sound, State, ConnMap
  <1>1. IsTake(x, s, k, {id})
    BY <1>0, TakeIs
  <1>c1. resp = NoResp => r = s
    BY DEF Finish
  <1>c2. resp # NoResp /\ s.conns[k].pending[id] = NoReq => r = x
    BY DEF Finish
  <1>c3. resp # NoResp /\ s.conns[k].pending[id] # NoReq =>
            r = [x EXCEPT !.out = @ \cup {Event(Cardinality(@), id, "paired", resp)}]
    BY DEF Finish
  <1>p. /\ s.conns[k].pending[id] = NoReq => A = {}
        /\ s.conns[k].pending[id] # NoReq => A = {id}
    BY DEF Waiting
  <1>a. Cardinality(A) = IF s.conns[k].pending[id] = NoReq THEN 0 ELSE 1
    BY <1>p, FS_EmptySet, FS_Singleton
  <1> HIDE DEF x, r
  <1>2. x \in State /\ x.out = s.out /\ Sound(x) /\ x.parsed = s.parsed /\ Left(x) = Left(s)
        /\ Cardinality(Waits(x)) = Cardinality(Waits(s)) - Cardinality(A)
    BY <1>1 DEF IsTake, At, Ledgers, Left
  <1>3. s.parsed = Cardinality(Waits(s)) + Left(s) /\ Left(s) \in Int
    BY <1>0, LeftType
  <1>4. CASE resp = NoResp
    BY <1>4, <1>c1 DEF IsFinish, r
  <1>5. CASE resp # NoResp /\ s.conns[k].pending[id] = NoReq
    <2>1. r = x
      BY <1>5, <1>c2
    <2>2. Cardinality(Waits(x)) = Cardinality(Waits(s))
      BY <1>2, <1>5, <1>a, WaitsFinite
    <2>3. Accounts(x)
      BY <2>2, <1>2, <1>3, LeftType
    <2> QED
      BY <2>1, <2>3, <1>1, <1>2, <1>5 DEF IsFinish, IsTake, Ended, Kept, Ledgers, r
  <1>6. CASE resp # NoResp /\ s.conns[k].pending[id] # NoReq
    <2>1. resp \in Answered
      BY <1>0, <1>6, ConnParts
    <2>2. Cardinality(s.out) \in Nat /\ s.out \subseteq Reported
      BY <1>0, LeftType DEF State
    <2>3. e \in Reported /\ e.nth = Cardinality(s.out)
      BY <2>1, <2>2 DEF Event, Reported, Answered
    <2>4. r = [x EXCEPT !.out = o]
      BY <1>2, <1>6, <1>c3 DEF State
    <2>5. o \in SUBSET Reported
      BY <2>2, <2>3
    <2> HIDE DEF o, e
    <2>6. r \in State
      BY <2>4, <2>5, <1>2, Zenon DEF State
    <2>7. /\ Frame(r, x) /\ r.conns = x.conns /\ r.total = x.total /\ r.short = x.short
          /\ r.parsed = x.parsed /\ r.refused = x.refused /\ r.cancelled = x.cancelled
          /\ r.silent = x.silent /\ r.out = o
      BY <2>4, <1>2 DEF State, Frame
    <2>8. Numbered(r) /\ Cardinality(r.out) = Cardinality(s.out) + 1
      BY <2>3, <2>7, <1>0, NewEvent DEF o
    <2>9. Sizes(r) = Sizes(x) /\ Parsing(r) = Parsing(x) /\ Earlies(r) = Earlies(x)
          /\ Waits(r) = Waits(x)
      BY <2>7 DEF Sizes, Parsing, Earlies, Waits, Frame
    <2>10. Sound(r)
      BY <1>2, <2>6, <2>7, <2>8, <2>9 DEF Sound, Memory
    <2>11. Left(r) = Left(s) + 1
      <3>1. r.refused = s.refused /\ r.cancelled = s.cancelled /\ r.silent = s.silent
        BY <1>1, <2>7 DEF IsTake, Ledgers
      <3> QED
        BY <3>1, <2>8, <1>0, LeftType DEF Left
    <2>12. Accounts(r)
      <3>1. r.parsed = Cardinality(Waits(r)) + Left(r)
        BY <1>2, <1>3, <1>6, <1>a, <2>7, <2>9, <2>11, WaitsFinite
      <3> QED
        BY <3>1, <2>10, LeftType
    <2>13. Ended(r, s, k, {id}) /\ r.short = s.short
      BY <1>1, <2>6, <2>7 DEF IsTake, Ended, At, Frame
    <2> QED
      BY <1>6, <2>7, <2>10, <2>12, <2>13 DEF IsFinish, Kept, r, o, e
  <1> QED
    BY <1>4, <1>5, <1>6

(* One change after another, on one connection.                            *)
LEMMA AtTrans ==
  ASSUME NEW r, NEW x, NEW s, NEW k, At(x, s, k), At(r, x, k)
  PROVE  At(r, s, k)
  BY DEF At, Frame

(* The end of a response, if the item ends it.                             *)
LEMMA AnswerIs ==
  ASSUME NEW s, Kept(s), NEW k \in Times, NEW item, item.sid \in Streams
  PROVE  LET r == Answer(s, k, item) IN
         /\ IF item.end THEN IsFinish(r, s, k, item.sid) ELSE r = s
         /\ At(r, s, k) /\ Kept(r)
  <1> DEFINE r == Answer(s, k, item)
  <1>0. At(s, s, k)
    BY DEF At, Frame, Kept, Sound
  <1>1. CASE ~item.end
    <2>1. r = s
      BY <1>1 DEF Answer, Complete
    <2> QED
      BY <1>0, <1>1, <2>1
  <1>2. CASE item.end
    <2>1. r = Finish(s, k, item.sid)
      BY <1>2 DEF Answer, Complete
    <2> HIDE DEF r
    <2>2. IsFinish(r, s, k, item.sid) /\ Kept(r)
      BY <2>1, FinishIs
    <2>3. At(r, s, k)
      BY <1>0, <2>2 DEF IsFinish, Ended
    <2> QED
      BY <1>2, <2>2, <2>3 DEF r
  <1> QED
    BY <1>1, <1>2

(* Every item keeps the books, and changes its connection alone.           *)
LEMMA OnItemIs ==
  ASSUME NEW s, Kept(s), NEW k \in Times, NEW dir \in Dirs, NEW item \in Item, NEW t \in Times
  PROVE  LET r == OnItem(s, k, dir, item, t) IN At(r, s, k) /\ Kept(r)
  <1> DEFINE r == OnItem(s, k, dir, item, t)
             id == item.sid
  <1>0. At(s, s, k)
    BY DEF At, Frame, Kept, Sound
  <1>1. CASE item = NoItem
    <2>1. r = s
      BY <1>1 DEF OnItem, NoItem
    <2> QED
      BY <1>0, <2>1
  <1>2. CASE item # NoItem
    <2>1. id \in Streams /\ item.what \in {"headers", "data", "reset", "goaway"}
          /\ item.kind \in Kinds /\ item.end \in BOOLEAN
      BY <1>2 DEF Item
    <2>d. dir = "req" \/ dir = "resp"
      BY DEF Dirs
    <2>2. CASE item.what = "reset"
      <3>1. r = Cancel(s, k, {id})
        BY <2>2 DEF OnItem
      <3> HIDE DEF r
      <3>2. IsCancel(r, s, k, {id}) /\ Kept(r)
        BY <3>1, <2>1, CancelIs
      <3> QED
        BY <3>2 DEF IsCancel, r
    <2>3. CASE item.what = "goaway"
      <3> DEFINE ids == {i \in Waiting(s.conns[k]) : i > id}
      <3>1. r = Cancel(s, k, ids)
        BY <2>3 DEF OnItem
      <3>2. ids \in SUBSET Streams
        BY DEF Waiting
      <3> HIDE DEF r, ids
      <3>3. IsCancel(r, s, k, ids) /\ Kept(r)
        BY <3>1, <3>2, CancelIs
      <3> QED
        BY <3>3 DEF IsCancel, r
    <2>4. CASE item.what = "headers" /\ dir = "req"
      <3>1. r = IF item.kind = "method" THEN Insert(s, k, id, t) ELSE s
        BY <2>4 DEF OnItem
      <3> HIDE DEF r
      <3>2. CASE item.kind = "method"
        <4>1. IsInsert(r, s, k, id, t) /\ Kept(r)
          BY <3>1, <3>2, <2>1, InsertIs
        <4> QED
          BY <4>1 DEF IsInsert, Only, r
      <3>3. CASE item.kind # "method"
        BY <3>1, <3>3, <1>0 DEF r
      <3> QED
        BY <3>2, <3>3
    <2>5. CASE item.what = "data" /\ dir = "req"
      <3>1. r = AppendBody(s, k, id)
        BY <2>5 DEF OnItem
      <3> HIDE DEF r
      <3>2. IsAppendBody(r, s, k, id) /\ Kept(r)
        BY <3>1, <2>1, AppendBodyIs
      <3> QED
        BY <3>2 DEF IsAppendBody, Only, r
    <2>6. CASE item.what = "headers" /\ dir = "resp"
      <3>1. CASE item.kind = "interim"
        <4>1. r = s
          BY <2>6, <3>1 DEF OnItem
        <4> QED
          BY <4>1, <1>0
      <3>2. CASE item.kind = "status"
        <4> DEFINE x == Start(s, k, id)
        <4>1. r = IF id \notin Waiting(s.conns[k]) THEN s ELSE Answer(x, k, item)
          BY <2>6, <3>2 DEF OnItem
        <4> HIDE DEF r, x
        <4>2. IsStart(x, s, k, id) /\ Kept(x)
          BY <2>1, StartIs DEF x
        <4>3. At(x, s, k)
          BY <4>2 DEF IsStart, Answers, Only
        <4>4. CASE id \notin Waiting(s.conns[k])
          BY <4>1, <4>4, <1>0 DEF r
        <4>5. CASE id \in Waiting(s.conns[k])
          <5>1. At(r, x, k) /\ Kept(r)
            BY <4>1, <4>2, <4>5, <2>1, AnswerIs
          <5> QED
            BY <4>3, <5>1, AtTrans DEF r
        <4> QED
          BY <4>4, <4>5
      <3>3. CASE item.kind \notin {"interim", "status"}
        <4> DEFINE x == MergeTrailers(s, k, id)
        <4>1. r = IF id \notin Answering(s.conns[k]) THEN s ELSE Answer(x, k, item)
          BY <2>6, <3>3 DEF OnItem
        <4> HIDE DEF r, x
        <4>2. CASE id \notin Answering(s.conns[k])
          BY <4>1, <4>2, <1>0 DEF r
        <4>3. CASE id \in Answering(s.conns[k])
          <5>1. IsMergeTrailers(x, s, k, id) /\ Kept(x)
            BY <4>3, <2>1, MergeTrailersIs DEF x, Answering
          <5>2. At(x, s, k)
            BY <5>1 DEF IsMergeTrailers, Answers, Only
          <5>3. At(r, x, k) /\ Kept(r)
            BY <4>1, <4>3, <5>1, <2>1, AnswerIs
          <5> QED
            BY <5>2, <5>3, AtTrans DEF r
        <4> QED
          BY <4>2, <4>3
      <3> QED
        BY <3>1, <3>2, <3>3
    <2>7. CASE item.what = "data" /\ dir = "resp"
      <3> DEFINE x == AppendData(s, k, id)
      <3>1. r = IF id \notin Answering(s.conns[k]) THEN s ELSE Answer(x, k, item)
        BY <2>7 DEF OnItem
      <3> HIDE DEF r, x
      <3>2. CASE id \notin Answering(s.conns[k])
        BY <3>1, <3>2, <1>0 DEF r
      <3>3. CASE id \in Answering(s.conns[k])
        <4>1. IsAppendData(x, s, k, id) /\ Kept(x)
          BY <3>3, <2>1, AppendDataIs DEF x, Answering
        <4>2. At(x, s, k)
          BY <4>1 DEF IsAppendData, Answers, Only
        <4>3. At(r, x, k) /\ Kept(r)
          BY <3>1, <3>3, <4>1, <2>1, AnswerIs
        <4> QED
          BY <4>2, <4>3, AtTrans DEF r
      <3> QED
        BY <3>2, <3>3
    <2> QED
      BY <2>1, <2>d, <2>2, <2>3, <2>4, <2>5, <2>6, <2>7
  <1> QED
    BY <1>1, <1>2

-----------------------------------------------------------------------------
(* The parsers.                                                            *)

(* What a parser makes of a chunk is an item, and it holds at most one     *)
(* more unit.                                                              *)
IsOutcome(o, d) ==
    /\ o.dir \in Parser
    /\ o.item \in Item
    /\ Buffered(o.dir) <= Buffered(d) + 1

(* A parser that fails holds nothing.                                      *)
LEMMA FailIs ==
  ASSUME NEW d \in Parser
  PROVE  IsOutcome(Outcome(Fail(d), NoItem), d)
  <1> DEFINE f == Fail(d)
  <1>1. NoBlock \in [sid : Streams \cup {0}, kind : Kinds, end : BOOLEAN]
    BY DEF NoBlock, Kinds
  <1>2. f \in Parser /\ f.buf = 0 /\ f.open = NoBlock
    BY <1>1 DEF Fail, Parser
  <1>3. Buffered(f) = 0 /\ Buffered(d) \in Nat
    BY <1>2 DEF Buffered, Parser
  <1> HIDE DEF f
  <1>4. Buffered(f) <= Buffered(d) + 1 /\ NoItem \in Item
    BY <1>3 DEF Item
  <1> QED
    BY <1>2, <1>4 DEF IsOutcome, Outcome, f

(* A parser whose buffer changes.                                          *)
LEMMA BufIs ==
  ASSUME NEW d \in Parser, NEW n \in Nat
  PROVE  LET f == [d EXCEPT !.buf = n] IN
         /\ f \in Parser /\ f.buf = n /\ f.open = d.open /\ f.broken = d.broken
         /\ f.expects = d.expects
         /\ Buffered(f) = n + (Buffered(d) - d.buf) /\ Buffered(d) - d.buf \in 0..1
         /\ d.buf \in Nat
  BY DEF Parser, Buffered

(* on_frame keeps the parser's type.                                       *)
LEMMA OnFrameIs ==
  ASSUME NEW d \in Parser, d.buf = 0, NEW c \in Chunk, NEW fate
  PROVE  IsOutcome(OnFrame(d, c, fate), d)
  <1> DEFINE item == [what |-> c.what, sid |-> c.sid, kind |-> c.kind, end |-> c.end]
             show == IF c.kind = "promise" \/ fate = "undecoded" THEN NoItem ELSE item
             o == OnFrame(d, c, fate)
             block == [sid |-> c.sid, kind |-> c.kind, end |-> c.end]
  <1>0. Buffered(d) \in Nat /\ d.open \in [sid : Streams \cup {0}, kind : Kinds, end : BOOLEAN]
    BY DEF Buffered, Parser
  <1>n. NoItem \in Item /\ NoBlock \in [sid : Streams \cup {0}, kind : Kinds, end : BOOLEAN]
    BY DEF Item, NoBlock, Kinds
  <1>c. c \in Openings => c.what \in {"preface", "settings"} /\ c.piece \notin {"block1", "block2"}
    BY DEF Openings, Prefatory, Settings, PrefacePieces
  <1>w. c \in Frames => c.what \notin {"settings", "preface"}
    BY DEF Frames
  <1>f. c \in Frames => item \in Item /\ block \in [sid : Streams \cup {0}, kind : Kinds, end : BOOLEAN]
    BY DEF Frames, Item
  <1>s. c \in Frames => show \in Item
    BY <1>f, <1>n
  <1>e. c \in Frames \/ c \in Openings
    BY DEF Chunk
  <1>v. CASE fate = "oversized"
    <2>1. o = Outcome(Fail(d), NoItem)
      BY <1>v DEF OnFrame
    <2> QED
      BY <2>1, FailIs
  <1>x. CASE d.open # NoBlock /\ c.piece # "block2"
    <2>1. o = Outcome(Fail(d), NoItem)
      BY <1>x DEF OnFrame
    <2> QED
      BY <2>1, FailIs
  <1>1. CASE d.open = NoBlock /\ c.piece = "block2"
    <2>1. o = Outcome(Fail(d), NoItem)
      BY <1>1 DEF OnFrame
    <2> QED
      BY <2>1, FailIs
  <1>2. CASE fate # "oversized" /\ d.open # NoBlock /\ c.piece = "block2"
    <2> DEFINE f == [d EXCEPT !.open = NoBlock]
    <2>0. c.what \notin {"settings", "preface"}
      BY <1>2, <1>c, <1>e, <1>w
    <2>1. o = Outcome(f, show)
      BY <1>2, <2>0 DEF OnFrame
    <2>2. f \in Parser /\ f.buf = 0 /\ f.open = NoBlock
      BY <1>n DEF Parser
    <2>3. Buffered(f) = 0
      BY <2>2 DEF Buffered
    <2> HIDE DEF f, show, o
    <2>4. c \in Frames
      BY <1>2, <1>c, <1>e
    <2> QED
      BY <2>1, <2>2, <2>3, <2>4, <1>0, <1>s DEF IsOutcome, Outcome, o
  <1>3. CASE fate # "oversized" /\ d.open = NoBlock /\ c.piece = "block1"
    <2> DEFINE f == [d EXCEPT !.open = block]
    <2>0. c.what \notin {"settings", "preface"}
      BY <1>3, <1>c, <1>e, <1>w
    <2>1. o = Outcome(f, NoItem)
      BY <1>3, <2>0 DEF OnFrame
    <2>4. c \in Frames
      BY <1>3, <1>c, <1>e
    <2>5. block \in [sid : Streams \cup {0}, kind : Kinds, end : BOOLEAN]
      BY <2>4, <1>f
    <2> HIDE DEF block
    <2>2. f \in Parser /\ f.buf = 0
      BY <2>5 DEF Parser
    <2>3. Buffered(f) <= 1 /\ Buffered(f) \in Nat
      BY <2>2 DEF Buffered
    <2> HIDE DEF f, o
    <2> QED
      BY <2>1, <2>2, <2>3, <1>0, <1>n DEF IsOutcome, Outcome, o
  <1>4. CASE fate # "oversized" /\ d.open = NoBlock /\ c.piece \notin {"block1", "block2"}
    <2>1. CASE c.what = "settings"
      <3>1. o = Outcome(d, NoItem)
        BY <1>4, <2>1 DEF OnFrame
      <3> QED
        BY <3>1, <1>0, <1>n DEF IsOutcome, Outcome
    <2>2. CASE c.what = "preface"
      <3>1. o = Outcome(Fail(d), NoItem)
        BY <1>4, <2>2 DEF OnFrame
      <3> QED
        BY <3>1, FailIs
    <2>3. CASE c.what \notin {"settings", "preface"}
      <3>1. o = Outcome(d, show)
        BY <1>4, <2>3 DEF OnFrame
      <3>2. c \in Frames
        BY <2>3, <1>c, <1>e
      <3> HIDE DEF show, o
      <3> QED
        BY <3>1, <3>2, <1>0, <1>s DEF IsOutcome, Outcome, o
    <2> QED
      BY <2>1, <2>2, <2>3
  <1> QED
    BY <1>v, <1>x, <1>1, <1>2, <1>3, <1>4

(* So does whatever a parser that missed bytes does.                       *)
LEMMA GarbledIs ==
  ASSUME NEW d \in Parser, NEW o \in Garbled(d)
  PROVE  IsOutcome(o, d)
  <1>0. Buffered(d) \in Nat /\ d.buf \in Nat
    BY DEF Buffered, Parser
  <1>1. CASE o = Outcome(Fail(d), NoItem)
    BY <1>1, FailIs
  <1>2. ASSUME NEW n \in 1..MaxFrame, n <= d.buf + 1, o = Outcome([d EXCEPT !.buf = n], NoItem)
        PROVE  IsOutcome(o, d)
    <2> DEFINE f == [d EXCEPT !.buf = n]
    <2>1. n \in Nat
      BY Constants
    <2>2. /\ f \in Parser /\ Buffered(f) = n + (Buffered(d) - d.buf)
      BY <2>1, BufIs
    <2>3. Buffered(f) <= Buffered(d) + 1
      BY <1>0, <1>2, <2>1, <2>2
    <2> HIDE DEF f
    <2>4. NoItem \in Item
      BY DEF Item
    <2> QED
      BY <1>2, <2>2, <2>3, <2>4 DEF IsOutcome, Outcome, f
  <1>3. ASSUME NEW i \in Items, o = Outcome([d EXCEPT !.buf = 0, !.open = NoBlock], i)
        PROVE  IsOutcome(o, d)
    <2> DEFINE f == [d EXCEPT !.buf = 0, !.open = NoBlock]
    <2>1. NoBlock \in [sid : Streams \cup {0}, kind : Kinds, end : BOOLEAN]
      BY DEF NoBlock, Kinds
    <2>2. f \in Parser /\ f.buf = 0 /\ f.open = NoBlock
      BY <2>1 DEF Parser
    <2>3. Buffered(f) = 0
      BY <2>2 DEF Buffered
    <2>4. i \in Item
      BY DEF Items, Item, Kinds
    <2> HIDE DEF f
    <2> QED
      BY <1>0, <1>3, <2>2, <2>3, <2>4 DEF IsOutcome, Outcome, f
  <1>4. \/ o = Outcome(Fail(d), NoItem)
        \/ \E n \in 1..MaxFrame : n <= d.buf + 1 /\ o = Outcome([d EXCEPT !.buf = n], NoItem)
        \/ \E i \in Items : o = Outcome([d EXCEPT !.buf = 0, !.open = NoBlock], i)
    BY DEF Garbled
  <1> QED
    BY <1>1, <1>2, <1>3, <1>4

(* What feed does with a chunk.                                            *)
LEMMA FeedIs ==
  ASSUME NEW s, NEW d \in Parser, NEW dir, NEW c \in Chunk, NEW fate,
         NEW o \in Feed(s, d, dir, c, fate)
  PROVE  IsOutcome(o, d)
  <1>0. Buffered(d) \in Nat /\ d.buf \in Nat /\ NoItem \in Item
    BY DEF Buffered, Parser, Item
  <1>1. CASE d.broken
    <2>1. o = Outcome(d, NoItem)
      BY <1>1 DEF Feed
    <2> QED
      BY <2>1, <1>0 DEF IsOutcome, Outcome
  <1>b. ASSUME NEW n \in 0..1, o = Outcome([d EXCEPT !.buf = n], NoItem) PROVE IsOutcome(o, d)
    <2> DEFINE f == [d EXCEPT !.buf = n]
    <2>0. n \in Nat
      OBVIOUS
    <2>1. f \in Parser /\ Buffered(f) = n + (Buffered(d) - d.buf)
      BY <2>0, BufIs
    <2>2. Buffered(f) <= Buffered(d) + 1
      BY <1>0, <2>1
    <2> HIDE DEF f
    <2> QED
      BY <1>0, <1>b, <2>1, <2>2 DEF IsOutcome, Outcome, f
  <1>2. CASE ~d.broken /\ d.expects
    <2>1. CASE c.piece = "token1"
      <3>1. o = Outcome([d EXCEPT !.buf = 1], NoItem)
        BY <1>2, <2>1 DEF Feed
      <3> QED
        BY <3>1, <1>b
    <2>2. CASE c.piece # "token1" /\ c.what = "preface" /\ (c.piece = "token2" => d.buf = 1)
      <3> DEFINE f == [d EXCEPT !.buf = 0, !.expects = FALSE]
      <3>1. o = Outcome(f, NoItem)
        BY <1>2, <2>2 DEF Feed
      <3>2. f \in Parser /\ f.buf = 0 /\ f.open = d.open
        BY DEF Parser
      <3>3. Buffered(f) <= Buffered(d) + 1
        BY <1>0, <3>2 DEF Buffered
      <3> HIDE DEF f
      <3> QED
        BY <1>0, <3>1, <3>2, <3>3 DEF IsOutcome, Outcome
    <2>3. CASE c.piece # "token1" /\ ~(c.what = "preface" /\ (c.piece = "token2" => d.buf = 1))
      <3>1. o = Outcome(Fail(d), NoItem)
        BY <1>2, <2>3 DEF Feed
      <3> QED
        BY <3>1, FailIs
    <2> QED
      BY <2>1, <2>2, <2>3
  <1>3. CASE ~d.broken /\ ~d.expects /\ dir \in s.missing
    <2>1. o \in Garbled(d)
      BY <1>3 DEF Feed
    <2> QED
      BY <2>1, GarbledIs
  <1>4. CASE ~d.broken /\ ~d.expects /\ dir \notin s.missing
    <2>1. CASE c.piece \in {"frame1", "tail1"} /\ fate # "oversized"
      <3>1. o = Outcome([d EXCEPT !.buf = 1], NoItem)
        BY <1>4, <2>1 DEF Feed
      <3> QED
        BY <3>1, <1>b
    <2>2. CASE ~(c.piece \in {"frame1", "tail1"} /\ fate # "oversized")
      <3> DEFINE f == [d EXCEPT !.buf = 0]
      <3>1. o = OnFrame(f, c, fate)
        BY <1>4, <2>2 DEF Feed
      <3>2. f \in Parser /\ f.buf = 0 /\ Buffered(f) = 0 + (Buffered(d) - d.buf)
        BY BufIs
      <3> HIDE DEF f
      <3>3. IsOutcome(o, f)
        BY <3>1, <3>2, OnFrameIs
      <3>4. Buffered(o.dir) \in Nat
        BY <3>3 DEF IsOutcome, Buffered, Parser
      <3>5. Buffered(o.dir) <= Buffered(f) + 1
        BY <3>3 DEF IsOutcome
      <3>6. Buffered(o.dir) <= Buffered(d) + 1
        BY <1>0, <3>2, <3>4, <3>5
      <3> QED
        BY <3>3, <3>6 DEF IsOutcome
    <2> QED
      BY <2>1, <2>2
  <1> QED
    BY <1>1, <1>2, <1>3, <1>4

-----------------------------------------------------------------------------
(* process_http2_event.                                                    *)

(* A new connection is empty, and so is the place of one that is not       *)
(* there.                                                                  *)
LEMMA EmptyConn ==
  /\ NewConn \in Connection /\ NoConn \in Connection /\ NewConn # NoConn
  /\ NewConn.pending = NoConn.pending /\ NewConn.responses = NoConn.responses
  /\ NewConn.dirs = NoConn.dirs /\ NewConn.buffered = NoConn.buffered
  /\ NoConn.buffered = 0
  /\ NewConn.last = 0 /\ NoConn.last = -1
  /\ NoConn.dirs["req"] = NewDir(TRUE) /\ NoConn.dirs["resp"] = NewDir(FALSE)
  /\ \A i \in Streams : NoConn.pending[i] = NoReq /\ NoConn.responses[i] = NoResp
  /\ Waiting(NoConn) = {} /\ Answering(NoConn) = {}
  /\ Good(NoConn) /\ Good(NewConn)
  <1> DEFINE ds == [d \in Dirs |-> NewDir(d = "req")]
             ps == [i \in Streams |-> NoReq]
             rs == [i \in Streams |-> NoResp]
             c == [dirs |-> ds, pending |-> ps, responses |-> rs, last |-> 0, buffered |-> 0]
  <1>1. ASSUME NEW b \in BOOLEAN PROVE NewDir(b) \in Parser /\ Buffered(NewDir(b)) = 0
    BY DEF NewDir, Parser, NoBlock, Kinds, Buffered
  <1>2. /\ ds \in [Dirs -> Parser] /\ ds["req"] = NewDir(TRUE) /\ ds["resp"] = NewDir(FALSE)
    <2>1. "req" \in Dirs /\ "resp" \in Dirs
      BY DEF Dirs
    <2>2. ("req" = "req") = TRUE /\ ("resp" = "req") = FALSE
      OBVIOUS
    <2>3. ds["req"] = NewDir(TRUE) /\ ds["resp"] = NewDir(FALSE)
      BY <2>1, <2>2, Zenon
    <2>4. ds \in [Dirs -> Parser]
      BY <1>1
    <2> QED
      BY <2>3, <2>4
  <1>3. /\ ps \in PendingMap /\ rs \in ResponseMap
        /\ \A i \in Streams : ps[i] = NoReq /\ rs[i] = NoResp
    BY DEF PendingMap, ResponseMap
  <1>4. NewConn = c /\ NoConn = [c EXCEPT !.last = -1]
    BY DEF NewConn, NoConn
  <1> HIDE DEF ds, ps, rs
  <1>5. /\ NewConn \in Connection /\ NoConn \in Connection
        /\ NewConn.dirs = ds /\ NewConn.pending = ps /\ NewConn.responses = rs
        /\ NewConn.last = 0 /\ NewConn.buffered = 0
        /\ NoConn.dirs = ds /\ NoConn.pending = ps /\ NoConn.responses = rs
        /\ NoConn.last = -1 /\ NoConn.buffered = 0
    BY <1>2, <1>3, <1>4, Constants DEF Connection
  <1>6. NewConn # NoConn
    BY <1>5
  <1>7. /\ Waiting(NoConn) = {} /\ Answering(NoConn) = {}
        /\ Waiting(NewConn) = {} /\ Answering(NewConn) = {}
    BY <1>3, <1>5 DEF Waiting, Answering
  <1>8. Good(NoConn) /\ Good(NewConn)
    <2>1. Cardinality({}) = 0
      BY FS_EmptySet
    <2>2. Buffered(ds["req"]) = 0 /\ Buffered(ds["resp"]) = 0
      BY <1>1, <1>2
    <2> QED
      BY <2>1, <2>2, <1>5, <1>7, Constants DEF Good
  <1> QED
    BY <1>2, <1>3, <1>5, <1>6, <1>7, <1>8

(* The connection a chunk is fed to.                                       *)
ConnOf(s, k) == IF s.conns[k] = NoConn THEN NewConn ELSE s.conns[k]

(* A connection is new or known; it holds the same.                        *)
LEMMA ConnOfIs ==
  ASSUME NEW s \in State, NEW k \in Times
  PROVE  LET c == ConnOf(s, k) IN
         /\ c \in Connection /\ c.dirs = s.conns[k].dirs /\ c.pending = s.conns[k].pending
         /\ c.responses = s.conns[k].responses /\ c.buffered = s.conns[k].buffered
  <1>1. s.conns[k] \in Connection
    BY DEF State, ConnMap
  <1>2. CASE s.conns[k] = NoConn
    BY <1>2, EmptyConn DEF ConnOf
  <1>3. CASE s.conns[k] # NoConn
    BY <1>1, <1>3 DEF ConnOf
  <1> QED
    BY <1>2, <1>3

(* What a chunk does, other than to the streams of its connection.         *)
IsProcess(r, s, k, dir, t) ==
    /\ r \in State /\ Kept(r)
    /\ r.early = s.early /\ r.prefix = s.prefix /\ r.known = s.known /\ r.born = s.born
    /\ r.last = s.last
    /\ s.missing \subseteq r.missing /\ r.missing \subseteq s.missing \cup {dir}
    /\ s.short => r.short
    /\ \A j \in Times \ {k} : r.conns[j] = s.conns[j]
    /\ r.conns[k].last = t

(* The chunk is refused: the connection was met, nothing else.             *)
IsRefused(r, s, k, dir, t) ==
    /\ r.short /\ r.missing = s.missing \cup {dir} /\ r.out = s.out
    /\ r.conns[k].dirs = s.conns[k].dirs
    /\ r.conns[k].pending = s.conns[k].pending /\ r.conns[k].responses = s.conns[k].responses

(* The chunk is fed to the parser of its direction, which now is d.        *)
IsFed(x, s, k, dir, d, t) ==
    /\ IsProcess(x, s, k, dir, t)
    /\ x.missing = s.missing /\ x.short = s.short /\ x.out = s.out
    /\ x.conns[k].dirs = [s.conns[k].dirs EXCEPT ![dir] = d]
    /\ x.conns[k].pending = s.conns[k].pending /\ x.conns[k].responses = s.conns[k].responses

(* Process, once the parser has run: the books follow the parser.          *)
Fed(s, k, dir, d, n, t) ==
    LET conn == ConnOf(s, k)
        back == n + Buffered(conn.dirs[dir]) - Buffered(d)
        met == [conn EXCEPT !.last = t]
    IN [SetConn(s, k, [met EXCEPT !.dirs = [conn.dirs EXCEPT ![dir] = d],
                                  !.buffered = @ + n - back]) EXCEPT !.total = @ + n - back]

(* A parser's buffer is charged as it grows and shrinks.                   *)
LEMMA FedIs ==
  ASSUME NEW s, Kept(s), NEW k \in Times, NEW dir \in Dirs, NEW d \in Parser,
         NEW n \in Nat \ {0}, NEW t \in Times, ~Full(s, n),
         Buffered(d) <= Buffered(s.conns[k].dirs[dir]) + 1
  PROVE  IsFed(Fed(s, k, dir, d, n, t), s, k, dir, d, t)
  <1> DEFINE conn == ConnOf(s, k)
             b == Buffered(conn.dirs[dir])
             e == Buffered(d)
             back == n + b - e
             ds == [conn.dirs EXCEPT ![dir] = d]
             met == [conn EXCEPT !.last = t]
             m == conn.buffered + n - back
             cc == [met EXCEPT !.dirs = ds, !.buffered = @ + n - back]
             y == SetConn(s, k, cc)
             tt == s.total + n - back
             r == Fed(s, k, dir, d, n, t)
  <1>0. /\ s \in State /\ s.total \in Int /\ s.total <= MaxTotal /\ Good(s.conns[k])
        /\ Sound(s) /\ Accounts(s) /\ \A j \in Times : Good(s.conns[j])
    BY DEF Kept, Sound, State, Memory
  <1>1. /\ conn \in Connection /\ conn.dirs = s.conns[k].dirs /\ conn.pending = s.conns[k].pending
        /\ conn.responses = s.conns[k].responses /\ conn.buffered = s.conns[k].buffered
    BY <1>0, ConnOfIs
  <1>2. r = [y EXCEPT !.total = @ + n - back]
    BY DEF Fed
  <1> HIDE DEF conn, r
  <1>3. conn.dirs \in [Dirs -> Parser] /\ conn.buffered \in Int
    BY <1>1, ConnParts
  <1>4. b \in Nat /\ e \in Nat
    <2>1. conn.dirs[dir] \in Parser
      BY <1>3
    <2> QED
      BY <1>1, <2>1, ConnParts
  <1>5. /\ ds \in [Dirs -> Parser] /\ ds[dir] = d
        /\ \A o \in Dirs \ {dir} : ds[o] = conn.dirs[o]
    BY <1>3
  <1>b. b = Buffered(s.conns[k].dirs[dir])
    BY <1>1
  <1> HIDE DEF b, e
  <1>6. back \in Int /\ m \in Int /\ m = conn.buffered + e - b /\ tt \in Int /\ tt = s.total + e - b
    BY <1>0, <1>3, <1>4
  <1> HIDE DEF back, ds
  <1>7. /\ cc \in Connection /\ cc.dirs = ds /\ cc.buffered = m /\ cc.last = t
        /\ cc.pending = conn.pending /\ cc.responses = conn.responses
    <2>1. met \in Connection /\ met.buffered = conn.buffered /\ met.last = t
          /\ met.pending = conn.pending /\ met.responses = conn.responses
      BY <1>1 DEF Connection
    <2> HIDE DEF met
    <2>2. cc = [met EXCEPT !.dirs = ds, !.buffered = m]
      BY <2>1 DEF Connection
    <2> HIDE DEF m, cc
    <2> QED
      BY <2>1, <2>2, <1>5, <1>6 DEF Connection
  <1> HIDE DEF cc, m
  <1>8. /\ y \in State /\ Frame(y, s) /\ Ledgers(y, s)
        /\ y.total = s.total /\ y.short = s.short
        /\ y.conns[k] = cc /\ \A j \in Times \ {k} : y.conns[j] = s.conns[j]
    BY <1>0, <1>7, SetConnIs
  <1> HIDE DEF y
  <1>9. r = [y EXCEPT !.total = tt]
    BY <1>2, <1>8 DEF State
  <1> HIDE DEF tt
  <1>10. /\ r \in State /\ Frame(r, y) /\ Ledgers(r, y) /\ r.conns = y.conns
         /\ r.total = tt /\ r.short = y.short
    BY <1>6, <1>8, <1>9, TotalSet
  <1>11. /\ Frame(r, s) /\ Ledgers(r, s) /\ r.short = s.short /\ r.conns[k] = cc
         /\ \A j \in Times \ {k} : r.conns[j] = s.conns[j]
    BY <1>8, <1>10 DEF Frame, Ledgers
  <1>12. Good(cc)
    <2>1. Waiting(cc) = Waiting(s.conns[k]) /\ Answering(cc) = Answering(s.conns[k])
      BY <1>1, <1>7 DEF Waiting, Answering
    <2>2. m = Buffered(ds["req"]) + Buffered(ds["resp"])
      <3> DEFINE br == Buffered(conn.dirs["req"])
                 bs == Buffered(conn.dirs["resp"])
      <3>0. br \in Nat /\ bs \in Nat
        BY <1>1, ConnParts
      <3>1. conn.buffered = br + bs
        BY <1>0, <1>1 DEF Good
      <3>2. CASE dir = "req"
        <4>1. ds["req"] = d /\ ds["resp"] = conn.dirs["resp"] /\ b = br
          BY <3>2, <1>5 DEF Dirs, b
        <4> HIDE DEF br, bs
        <4> QED
          BY <4>1, <3>0, <3>1, <1>4, <1>6 DEF e, bs
      <3>3. CASE dir = "resp"
        <4>1. ds["resp"] = d /\ ds["req"] = conn.dirs["req"] /\ b = bs
          BY <3>3, <1>5 DEF Dirs, b
        <4> HIDE DEF br, bs
        <4> QED
          BY <4>1, <3>0, <3>1, <1>4, <1>6 DEF e, br
      <3> QED
        BY <3>2, <3>3 DEF Dirs
    <2> QED
      BY <2>1, <2>2, <1>0, <1>7 DEF Good
  <1>13. \A j \in Times : Good(r.conns[j])
    BY <1>0, <1>11, <1>12
  <1>14. ASSUME NEW p \in Slots
         PROVE  /\ Sizes(r)[p] = Sizes(s)[p]
                /\ p \in Waits(r) <=> p \in Waits(s)
    <2>1. p[1] \in Times /\ p[2] \in Streams
      BY DEF Slots
    <2>2. /\ r.conns[p[1]].pending = s.conns[p[1]].pending
          /\ r.conns[p[1]].responses = s.conns[p[1]].responses
      BY <2>1, <1>1, <1>7, <1>11
    <2> QED
      BY <2>2 DEF Sizes, Waits
  <1>15. /\ Total(Sizes(s), Slots) \in Nat /\ Total(Parsing(s), Times) \in Nat
         /\ Total(Earlies(s), Times) \in Nat
         /\ \A j \in Times : Parsing(s)[j] \in Nat /\ Parsing(r)[j] \in Nat
    BY <1>0, <1>10, <1>13, SizesType
  <1>16. Parsing(r)[k] = Parsing(s)[k] + e - b
    BY <1>1, <1>6, <1>7, <1>11 DEF Parsing
  <1>17. \A j \in Times \ {k} : Parsing(r)[j] = Parsing(s)[j]
    BY <1>11 DEF Parsing
  <1>18. Total(Parsing(r), Times) = Total(Parsing(s), Times) - Parsing(s)[k] + Parsing(r)[k]
    BY <1>15, <1>17, Finite, TotalChange
  <1>19. Total(Sizes(r), Slots) = Total(Sizes(s), Slots) /\ Earlies(r) = Earlies(s)
    <2>1. Total(Sizes(r), Slots) = Total(Sizes(s), Slots)
      BY <1>14, TotalSame
    <2> QED
      BY <2>1, <1>11 DEF Earlies, Frame
  <1>20. Waits(r) = Waits(s)
    BY <1>14, WaitsFinite
  <1>21. Memory(r)
    <2> DEFINE T == Total(Sizes(s), Slots)
               U == Total(Parsing(s), Times)
               V == Total(Earlies(s), Times)
               U2 == Total(Parsing(r), Times)
               pk == Parsing(s)[k]
               pr == Parsing(r)[k]
    <2>1. /\ T \in Nat /\ U \in Nat /\ V \in Nat /\ pk \in Nat /\ pr \in Nat
          /\ s.total = T + U + V /\ pr = pk + e - b /\ U2 = U - pk + pr
      BY <1>0, <1>15, <1>16, <1>18 DEF Sound, Memory
    <2>2. e <= b + 1 /\ s.total + n <= MaxTotal
      BY <1>0, <1>4, <1>b, Constants DEF e, Full
    <2> HIDE DEF T, U, V, U2, pk, pr
    <2>3. tt = T + U2 + V
      BY <2>1, <1>0, <1>4, <1>6
    <2>4. tt <= MaxTotal
      BY <2>2, <1>0, <1>4, <1>6, Constants
    <2> QED
      BY <2>3, <2>4, <1>10, <1>19 DEF Memory, T, U2, V
  <1>22. Numbered(r) /\ Accounts(r)
    BY <1>0, <1>11, <1>20 DEF Sound, Numbered, Ledgers, Accounts
  <1>23. Kept(r)
    BY <1>10, <1>13, <1>21, <1>22 DEF Kept, Sound
  <1>24. IsProcess(r, s, k, dir, t)
    BY <1>7, <1>10, <1>11, <1>23 DEF IsProcess, Frame
  <1> QED
    BY <1>1, <1>7, <1>11, <1>24 DEF IsFed, r, ds, Frame, Ledgers

(* Process refuses the chunk, or feeds it and handles the item it ends.    *)
LEMMA ProcessIs ==
  ASSUME NEW s, Kept(s), NEW k \in Times, NEW dir \in Dirs, NEW c \in Chunk, NEW fate,
         NEW n \in Nat \ {0}, NEW t \in Times, NEW r \in Process(s, k, dir, c, fate, n, t)
  PROVE  /\ IsProcess(r, s, k, dir, t)
         /\ \/ IsRefused(r, s, k, dir, t)
            \/ \E o \in Feed(s, s.conns[k].dirs[dir], dir, c, fate) : \E x :
                 /\ IsOutcome(o, s.conns[k].dirs[dir])
                 /\ IsFed(x, s, k, dir, o.dir, t)
                 /\ r = OnItem(x, k, dir, o.item, t)
  <1> DEFINE conn == ConnOf(s, k)
             met == [conn EXCEPT !.last = t]
             y == SetConn(s, k, met)
             z == Refuse(y)
             ms == s.missing \cup {dir}
  <1>0. s \in State /\ Sound(s) /\ s.missing \in SUBSET Dirs /\ (\A j \in Times : Good(s.conns[j]))
    BY DEF Kept, Sound, State
  <1>1. /\ conn \in Connection /\ conn.dirs = s.conns[k].dirs /\ conn.pending = s.conns[k].pending
        /\ conn.responses = s.conns[k].responses /\ conn.buffered = s.conns[k].buffered
    BY <1>0, ConnOfIs
  <1>c1. Full(s, n) => r = [z EXCEPT !.missing = @ \cup {dir}]
    BY DEF Process, ConnOf
  <1>c2. ~Full(s, n) => \E o \in Feed(s, conn.dirs[dir], dir, c, fate) :
                           r = OnItem(Fed(s, k, dir, o.dir, n, t), k, dir, o.item, t)
    <2> DEFINE F(o) == OnItem(Fed(s, k, dir, o.dir, n, t), k, dir, o.item, t)
               O == Feed(s, conn.dirs[dir], dir, c, fate)
    <2>1. ~Full(s, n) => Process(s, k, dir, c, fate, n, t) = {F(o) : o \in O}
      BY Zenon DEF Process, ConnOf, Fed
    <2> HIDE DEF F, O
    <2>2. ~Full(s, n) => \E o \in O : r = F(o)
      BY <2>1
    <2> QED
      BY <2>2 DEF F, O
  <1> HIDE DEF conn
  <1>2. CASE Full(s, n)
    <2>1. /\ met \in Connection /\ met.dirs = conn.dirs /\ met.pending = conn.pending
          /\ met.responses = conn.responses /\ met.buffered = conn.buffered /\ met.last = t
      BY <1>1 DEF Connection
    <2> HIDE DEF met
    <2>2. /\ y \in State /\ Frame(y, s) /\ Ledgers(y, s)
          /\ y.total = s.total /\ y.short = s.short
          /\ y.conns[k] = met /\ \A j \in Times \ {k} : y.conns[j] = s.conns[j]
      BY <1>0, <2>1, SetConnIs
    <2> HIDE DEF y
    <2>3. /\ z \in State /\ Frame(z, y) /\ Ledgers(z, y) /\ z.conns = y.conns
          /\ z.total = y.total /\ z.short
      BY <2>2, RefuseIs
    <2> HIDE DEF z
    <2>4. r = [z EXCEPT !.missing = ms] /\ ms \in SUBSET Dirs
      BY <1>0, <1>2, <1>c1, <2>2, <2>3 DEF State, Frame
    <2> HIDE DEF ms
    <2>5. r \in State
      BY <2>3, <2>4, Zenon DEF State
    <2>6. /\ r.early = z.early /\ r.prefix = z.prefix /\ r.known = z.known /\ r.born = z.born
          /\ r.last = z.last /\ r.missing = ms /\ Ledgers(r, z) /\ r.conns = z.conns
          /\ r.total = z.total /\ r.short = z.short
      BY <2>3, <2>4 DEF State, Ledgers
    <2>7. /\ r.early = s.early /\ r.prefix = s.prefix /\ r.known = s.known /\ r.born = s.born
          /\ r.last = s.last /\ r.missing = ms /\ Ledgers(r, s) /\ r.conns[k] = met
          /\ (\A j \in Times \ {k} : r.conns[j] = s.conns[j])
          /\ r.total = s.total /\ r.short
      BY <2>2, <2>3, <2>6 DEF Frame, Ledgers
    <2>8. Good(met)
      <3>1. Waiting(met) = Waiting(s.conns[k]) /\ Answering(met) = Answering(s.conns[k])
        BY <1>1, <2>1 DEF Waiting, Answering
      <3> QED
        BY <3>1, <1>0, <1>1, <2>1 DEF Good
    <2>9. \A j \in Times : Good(r.conns[j])
      BY <1>0, <2>7, <2>8
    <2>10. ASSUME NEW j \in Times
           PROVE  /\ r.conns[j].pending = s.conns[j].pending
                  /\ r.conns[j].responses = s.conns[j].responses
                  /\ r.conns[j].buffered = s.conns[j].buffered
      BY <1>1, <2>1, <2>7
    <2>11. Sizes(r) = Sizes(s) /\ Parsing(r) = Parsing(s) /\ Earlies(r) = Earlies(s)
           /\ Waits(r) = Waits(s)
      <3>1. \A p \in Slots : p[1] \in Times
        BY DEF Slots
      <3> QED
        BY <3>1, <2>7, <2>10 DEF Sizes, Parsing, Earlies, Waits
    <2>12. Kept(r)
      BY <2>5, <2>7, <2>9, <2>11 DEF Kept, Sound, Memory, Numbered, Accounts, Ledgers
    <2>13. IsProcess(r, s, k, dir, t)
      BY <2>1, <2>5, <2>7, <2>12 DEF IsProcess, ms
    <2>14. IsRefused(r, s, k, dir, t)
      BY <1>1, <2>1, <2>7 DEF IsRefused, Ledgers, ms
    <2> QED
      BY <2>13, <2>14
  <1>3. CASE ~Full(s, n)
    <2>1. PICK o \in Feed(s, conn.dirs[dir], dir, c, fate) :
             r = OnItem(Fed(s, k, dir, o.dir, n, t), k, dir, o.item, t)
      BY <1>3, <1>c2
    <2> DEFINE x == Fed(s, k, dir, o.dir, n, t)
               d == s.conns[k].dirs[dir]
    <2>2. d \in Parser /\ d = conn.dirs[dir]
      BY <1>1, ConnParts
    <2> HIDE DEF d
    <2>3. IsOutcome(o, d)
      BY <2>1, <2>2, FeedIs
    <2>4. IsFed(x, s, k, dir, o.dir, t)
      BY <1>3, <2>3, FedIs DEF IsOutcome, d
    <2>5. r = OnItem(x, k, dir, o.item, t)
      BY <2>1
    <2> HIDE DEF x
    <2>6. Kept(x) /\ o.item \in Item
      BY <2>3, <2>4 DEF IsFed, IsProcess, IsOutcome
    <2>7. At(r, x, k) /\ Kept(r)
      BY <2>5, <2>6, OnItemIs
    <2>8. IsProcess(r, s, k, dir, t)
      BY <2>4, <2>7 DEF IsFed, IsProcess, At, Frame
    <2> QED
      BY <2>1, <2>2, <2>3, <2>4, <2>5, <2>8 DEF d
  <1> QED
    BY <1>2, <1>3

-----------------------------------------------------------------------------
(* incomplete_events.                                                      *)

(* The requests of due that come before p, and those with an event.        *)
Before(due, p) == {q \in due : q[1] < p[1] \/ (q[1] = p[1] /\ q[2] < p[2])}
Shown(due) == {p \in due : Cardinality(Before(due, p)) < MaxReports}
EventOf(s, due, o, p) == Event(Cardinality(s.out) + Cardinality(Before(due, p)), p[2], o, NoResp)
EventsOf(s, due, o) == {EventOf(s, due, o, p) : p \in Shown(due)}

(* The order of the requests that leave: each has fewer before it than     *)
(* those that have events, and no two have the same number before them.    *)
LEMMA BeforeIs ==
  ASSUME NEW due \in SUBSET Slots
  PROVE  /\ IsFiniteSet(due) /\ IsFiniteSet(Shown(due)) /\ Shown(due) \subseteq due
         /\ Cardinality(Shown(due)) \in Nat
         /\ \A p \in due : Cardinality(Before(due, p)) \in Nat
         /\ \A p \in Shown(due) : Cardinality(Before(due, p)) < Cardinality(Shown(due))
         /\ \A p, q \in due : p # q => Cardinality(Before(due, p)) # Cardinality(Before(due, q))
  <1>1. IsFiniteSet(due) /\ Shown(due) \subseteq due /\ IsFiniteSet(Shown(due))
    <2>1. IsFiniteSet(due) /\ Shown(due) \subseteq due
      BY Finite, FS_Subset DEF Shown
    <2> QED
      BY <2>1, FS_Subset
  <1>2. \A p : Before(due, p) \subseteq due
    BY DEF Before
  <1>3. \A p : IsFiniteSet(Before(due, p)) /\ Cardinality(Before(due, p)) \in Nat
    BY <1>1, <1>2, FS_Subset, FS_CardinalityType
  <1>4. \A p \in due : p[1] \in Nat /\ p[2] \in Nat /\ p = <<p[1], p[2]>>
    <2> SUFFICES ASSUME NEW p \in due
                 PROVE  p[1] \in Nat /\ p[2] \in Nat /\ p = <<p[1], p[2]>>
      OBVIOUS
    <2>1. p[1] \in Times /\ p[2] \in Streams /\ p = <<p[1], p[2]>>
      BY DEF Slots
    <2> QED
      BY <2>1, Constants
  <1>5. ASSUME NEW p \in due PROVE p \notin Before(due, p)
    BY <1>4 DEF Before
  <1>6. ASSUME NEW p \in due, NEW q \in Before(due, p)
        PROVE  /\ Before(due, q) \subseteq Before(due, p)
               /\ Cardinality(Before(due, q)) < Cardinality(Before(due, p))
    <2>1. q \in due
      BY <1>2
    <2>2. ASSUME NEW o \in Before(due, q) PROVE o \in Before(due, p)
      BY <1>4, <2>1 DEF Before
    <2>3. q \notin Before(due, q)
      BY <2>1, <1>5
    <2> DEFINE A == Before(due, q)
               C == Before(due, p)
    <2>4. A \subseteq C /\ A # C /\ IsFiniteSet(C) /\ IsFiniteSet(A)
      BY <2>2, <2>3, <1>3
    <2> HIDE DEF A, C
    <2>5. Cardinality(A) < Cardinality(C)
      <3>1. Cardinality(A) <= Cardinality(C) /\ (Cardinality(A) = Cardinality(C) => A = C)
        BY <2>4, FS_Subset
      <3>2. Cardinality(A) \in Nat /\ Cardinality(C) \in Nat
        BY <2>4, FS_CardinalityType
      <3> QED
        BY <3>1, <3>2, <2>4
    <2> QED
      BY <2>4, <2>5 DEF A, C
  <1>7. ASSUME NEW p \in Shown(due)
        PROVE  Cardinality(Before(due, p)) < Cardinality(Shown(due))
    <2>1. p \in due /\ Cardinality(Before(due, p)) < MaxReports
      BY DEF Shown
    <2>2. ASSUME NEW q \in Before(due, p) PROVE q \in Shown(due)
      <3>1. Cardinality(Before(due, q)) < Cardinality(Before(due, p)) /\ q \in due
        BY <1>2, <1>6, <2>1
      <3>2. Cardinality(Before(due, q)) < MaxReports
        BY <3>1, <2>1, <1>3, Constants
      <3> QED
        BY <3>1, <3>2 DEF Shown
    <2> DEFINE A == Before(due, p)
               C == Shown(due)
    <2>3. A \subseteq C /\ A # C /\ IsFiniteSet(C) /\ IsFiniteSet(A)
      BY <2>1, <2>2, <1>1, <1>3, <1>5
    <2> HIDE DEF A, C
    <2>4. Cardinality(A) <= Cardinality(C) /\ (Cardinality(A) = Cardinality(C) => A = C)
      BY <2>3, FS_Subset
    <2>5. Cardinality(A) \in Nat /\ Cardinality(C) \in Nat
      BY <2>3, FS_CardinalityType
    <2>6. Cardinality(A) < Cardinality(C)
      BY <2>3, <2>4, <2>5
    <2> QED
      BY <2>6 DEF A, C
  <1>8. ASSUME NEW p \in due, NEW q \in due, p # q
        PROVE  Cardinality(Before(due, p)) # Cardinality(Before(due, q))
    <2>1. p \in Before(due, q) \/ q \in Before(due, p)
      BY <1>4, <1>8 DEF Before
    <2>2. \/ Cardinality(Before(due, p)) < Cardinality(Before(due, q))
          \/ Cardinality(Before(due, q)) < Cardinality(Before(due, p))
      BY <2>1, <1>6
    <2> QED
      BY <2>2, <1>3
  <1>9. Cardinality(Shown(due)) \in Nat
    BY <1>1, FS_CardinalityType
  <1> QED
    BY <1>1, <1>3, <1>7, <1>8, <1>9

(* The events of the requests that leave: new ones, one for each.          *)
LEMMA EventsOfIs ==
  ASSUME NEW s, Sound(s), NEW due \in SUBSET Slots, NEW o \in Outcomes,
         NEW r, r.out = s.out \cup EventsOf(s, due, o)
  PROVE  /\ r.out \in SUBSET Reported /\ Numbered(r)
         /\ Cardinality(r.out) = Cardinality(s.out) + Cardinality(Shown(due))
  <1> DEFINE N == Cardinality(s.out)
             S == Shown(due)
             E == EventsOf(s, due, o)
             f == [p \in S |-> EventOf(s, due, o, p)]
  <1>0. /\ IsFiniteSet(s.out) /\ N \in Nat /\ s.out \subseteq Reported
        /\ \A e \in s.out : e.nth < N
    BY FS_CardinalityType DEF Sound, Numbered, State
  <1>1. /\ IsFiniteSet(S) /\ S \subseteq due /\ Cardinality(S) \in Nat
        /\ \A p \in S : /\ Cardinality(Before(due, p)) \in Nat
                         /\ Cardinality(Before(due, p)) < Cardinality(S)
        /\ \A p, q \in S : p # q => Cardinality(Before(due, p)) # Cardinality(Before(due, q))
    BY BeforeIs
  <1> HIDE DEF N, S
  <1>2. ASSUME NEW p \in S
        PROVE  /\ EventOf(s, due, o, p) \in Reported
               /\ EventOf(s, due, o, p).nth = N + Cardinality(Before(due, p))
    <2> DEFINE b == Cardinality(Before(due, p))
    <2>1. p[2] \in Streams /\ N + b \in Nat
      BY <1>0, <1>1 DEF Slots
    <2>2. NoResp.body \in Int /\ NoResp.trailers \in Int
      BY DEF NoResp
    <2> HIDE DEF b
    <2> QED
      BY <2>1, <2>2 DEF EventOf, Event, Reported, N, b
  <1>3. E = {EventOf(s, due, o, p) : p \in S}
    BY DEF EventsOf, S
  <1> HIDE DEF E
  <1>4. f \in Bijection(S, E)
    <2>1. f \in [S -> E]
      BY <1>3
    <2>2. ASSUME NEW p \in S, NEW q \in S, f[p] = f[q] PROVE p = q
      <3>1. f[p].nth = N + Cardinality(Before(due, p)) /\ f[q].nth = N + Cardinality(Before(due, q))
        BY <1>2
      <3> HIDE DEF f
      <3>2. Cardinality(Before(due, p)) = Cardinality(Before(due, q))
        BY <3>1, <2>2, <1>0, <1>1
      <3> QED
        BY <3>2, <1>1
    <2>3. \A e \in E : \E p \in S : f[p] = e
      BY <1>3
    <2> HIDE DEF f
    <2> QED
      BY <2>1, <2>2, <2>3 DEF Bijection, Injection, Surjection, IsInjective
  <1> HIDE DEF f
  <1>5. IsFiniteSet(E) /\ Cardinality(E) = Cardinality(S)
    <2>1. ExistsBijection(S, E)
      BY <1>4 DEF ExistsBijection
    <2> QED
      BY <2>1, <1>1, FS_Bijection
  <1>6. \A e \in E : e \in Reported /\ e.nth >= N /\ e.nth < N + Cardinality(S) /\ e.nth \in Nat
    <2> SUFFICES ASSUME NEW p \in S, NEW e, e = EventOf(s, due, o, p)
                 PROVE  e \in Reported /\ e.nth >= N /\ e.nth < N + Cardinality(S) /\ e.nth \in Nat
      BY <1>3
    <2>1. e \in Reported /\ e.nth = N + Cardinality(Before(due, p))
      BY <1>2
    <2> QED
      BY <2>1, <1>0, <1>1
  <1>7. \A e \in s.out : e.nth \in Nat
    BY <1>0 DEF Reported
  <1>8. s.out \cap E = {}
    BY <1>0, <1>6, <1>7
  <1>9. IsFiniteSet(s.out \cup E) /\ Cardinality(s.out \cup E) = N + Cardinality(S)
    <2>1. /\ IsFiniteSet(s.out \cup E)
          /\ Cardinality(s.out \cup E) = N + Cardinality(E) - Cardinality(s.out \cap E)
      BY <1>0, <1>5, FS_Union DEF N
    <2>2. Cardinality(s.out \cap E) = 0
      BY <1>8, FS_EmptySet
    <2> QED
      BY <2>1, <2>2, <1>0, <1>1, <1>5
  <1>10. r.out = s.out \cup E
    BY DEF E
  <1>11. \A e \in r.out : e.nth < N + Cardinality(S)
    <2> SUFFICES ASSUME NEW e \in r.out PROVE e.nth < N + Cardinality(S)
      OBVIOUS
    <2>1. CASE e \in E
      BY <2>1, <1>6
    <2>2. CASE e \in s.out
      BY <2>2, <1>0, <1>1, <1>7
    <2> QED
      BY <2>1, <2>2, <1>10
  <1> QED
    BY <1>0, <1>6, <1>9, <1>10, <1>11 DEF Numbered, N, S

(* What Report does.                                                       *)
IsReport(r, s, due, o) ==
    /\ r \in State /\ Kept(r) /\ Frame(r, s) /\ r.short = s.short
    /\ \A k \in Times : /\ r.conns[k].dirs = s.conns[k].dirs /\ r.conns[k].last = s.conns[k].last
                        /\ r.conns[k].buffered = s.conns[k].buffered
                        /\ r.conns[k].responses = s.conns[k].responses
                        /\ \A i \in Streams : r.conns[k].pending[i] =
                               IF <<k, i>> \in due THEN NoReq ELSE s.conns[k].pending[i]
    /\ Waits(r) = Waits(s) \ due
    /\ r.out = s.out \cup EventsOf(s, due, o)

(* Requests that leave together give back what they held, and are all in   *)
(* events or counted.                                                      *)
LEMMA ReportIs ==
  ASSUME NEW s, Kept(s), NEW due \in SUBSET Waits(s), NEW o \in Outcomes
  PROVE  IsReport(Report(s, due, o), s, due, o)
  <1> DEFINE r == Report(s, due, o)
             S == Shown(due)
             m == Total(ReqSizes(s), due)
             pm(k) == [i \in Streams |-> IF <<k, i>> \in due THEN NoReq ELSE s.conns[k].pending[i]]
             cc(k) == [s.conns[k] EXCEPT !.pending = pm(k)]
             cs == [k \in Times |-> cc(k)]
             w == Cardinality(due \ S)
             tt == s.total - m
             rr == s.refused + w
             oo == s.out \cup EventsOf(s, due, o)
  <1>0. /\ s \in State /\ Sound(s) /\ Accounts(s) /\ s.total \in Int /\ s.refused \in Int
        /\ (\A k \in Times : Good(s.conns[k]) /\ s.conns[k] \in Connection)
    BY DEF Kept, Sound, State, ConnMap
  <1>1. due \in SUBSET Slots
    BY WaitsFinite
  <1>2. SumFunctionOnSet(ReqSizes(s), due) = m /\ m \in Nat
    BY <1>0, <1>1, SizesType
  <1>3. /\ IsFiniteSet(due) /\ IsFiniteSet(S) /\ S \subseteq due /\ Cardinality(S) \in Nat
        /\ Cardinality(due) \in Nat
    BY <1>1, BeforeIs, FS_CardinalityType
  <1>4. w \in Nat /\ w + Cardinality(S) = Cardinality(due)
    <2>1. Cardinality(due \ S) = Cardinality(due) - Cardinality(due \cap S)
          /\ Cardinality(due \ S) \in Nat
      BY <1>3, Removed
    <2>2. due \cap S = S
      BY <1>3
    <2> HIDE DEF S
    <2>3. Cardinality(due \ S) = Cardinality(due) - Cardinality(S)
      BY <2>1, <2>2
    <2> QED
      BY <2>1, <2>3, <1>3
  <1>5. r = [s EXCEPT !.total = @ - SumFunctionOnSet(ReqSizes(s), due), !.conns = cs,
                      !.refused = @ + w, !.out = @ \cup EventsOf(s, due, o)]
    BY DEF Report, EventsOf, EventOf, Shown, Before
  <1>6. r = [s EXCEPT !.total = tt, !.conns = cs, !.refused = rr, !.out = oo]
    BY <1>2, <1>5
  <1>7. ASSUME NEW k \in Times
        PROVE  /\ cc(k) \in Connection /\ cc(k).dirs = s.conns[k].dirs /\ cc(k).last = s.conns[k].last
               /\ cc(k).buffered = s.conns[k].buffered /\ cc(k).responses = s.conns[k].responses
               /\ \A i \in Streams : cc(k).pending[i] =
                     IF <<k, i>> \in due THEN NoReq ELSE s.conns[k].pending[i]
    <2> DEFINE c == s.conns[k]
               q == pm(k)
    <2>1. c \in Connection
      BY <1>0
    <2>2. /\ q \in PendingMap
          /\ \A i \in Streams : q[i] = IF <<k, i>> \in due THEN NoReq ELSE s.conns[k].pending[i]
      <3>1. \A i \in Streams : c.pending[i] \in Requested \cup {NoReq}
        BY <2>1, ConnParts
      <3> QED
        BY <3>1 DEF PendingMap
    <2>3. cc(k) = [c EXCEPT !.pending = q]
      OBVIOUS
    <2> HIDE DEF c, q, cc
    <2>4. /\ cc(k) \in Connection /\ cc(k).dirs = c.dirs /\ cc(k).last = c.last
          /\ cc(k).buffered = c.buffered /\ cc(k).responses = c.responses /\ cc(k).pending = q
      BY <2>1, <2>2, <2>3 DEF Connection
    <2> QED
      BY <2>2, <2>4 DEF c
  <1> HIDE DEF cc
  <1>8. cs \in ConnMap /\ \A k \in Times : cs[k] = cc(k)
    BY <1>7 DEF ConnMap
  <1>9. oo \in SUBSET Reported
    <2> DEFINE x == [out |-> oo]
    <2>1. x.out = s.out \cup EventsOf(s, due, o)
      OBVIOUS
    <2> HIDE DEF x
    <2>2. x.out \in SUBSET Reported
      BY <2>1, <1>0, <1>1, EventsOfIs
    <2> QED
      BY <2>1, <2>2
  <1>10. tt \in Int /\ rr \in Int
    BY <1>0, <1>2, <1>4
  <1> HIDE DEF cs, oo, tt, rr, r
  <1>11. r \in State
    BY <1>0, <1>6, <1>8, <1>9, <1>10, ZenonT(60) DEF State
  <1>12. /\ Frame(r, s) /\ r.short = s.short /\ r.conns = cs /\ r.total = tt /\ r.refused = rr
         /\ r.out = oo /\ r.parsed = s.parsed /\ r.cancelled = s.cancelled /\ r.silent = s.silent
    BY <1>0, <1>6 DEF State, Frame
  <1>13. \A k \in Times : /\ r.conns[k].dirs = s.conns[k].dirs /\ r.conns[k].last = s.conns[k].last
                        /\ r.conns[k].buffered = s.conns[k].buffered
                        /\ r.conns[k].responses = s.conns[k].responses
                        /\ \A i \in Streams : r.conns[k].pending[i] =
                               IF <<k, i>> \in due THEN NoReq ELSE s.conns[k].pending[i]
    BY <1>7, <1>8, <1>12
  <1>14. /\ Numbered(r)
         /\ Cardinality(r.out) = Cardinality(s.out) + Cardinality(S)
    <2>1. r.out = s.out \cup EventsOf(s, due, o)
      BY <1>12 DEF oo
    <2> QED
      BY <2>1, <1>0, <1>1, EventsOfIs
  <1> DEFINE Cuts == [p \in Slots |-> IF p \in due THEN ReqSizes(s)[p] ELSE 0]
  <1>15. ASSUME NEW p \in Slots
         PROVE  /\ Sizes(s)[p] = Sizes(r)[p] + Cuts[p] /\ Sizes(r)[p] \in Nat /\ Cuts[p] \in Nat
                /\ p \in Waits(r) <=> p \in Waits(s) \ due
    <2>1. p[1] \in Times /\ p[2] \in Streams /\ p = <<p[1], p[2]>>
      BY DEF Slots
    <2> DEFINE a == ReqSize(s.conns[p[1]].pending[p[2]])
               b == RespSize(s.conns[p[1]].responses[p[2]])
    <2>2. a \in Nat /\ b \in Nat
      BY <2>1, <1>0, ConnParts
    <2>3. Sizes(s)[p] = a + b /\ ReqSizes(s)[p] = a
      BY DEF Sizes, ReqSizes
    <2>4. r.conns[p[1]].responses[p[2]] = s.conns[p[1]].responses[p[2]]
      BY <2>1, <1>13
    <2>5. r.conns[p[1]].pending[p[2]] = IF p \in due THEN NoReq ELSE s.conns[p[1]].pending[p[2]]
      BY <2>1, <1>13
    <2>6. Sizes(r)[p] = IF p \in due THEN b ELSE a + b
      <3>1. Sizes(r)[p] = ReqSize(r.conns[p[1]].pending[p[2]]) + b
        BY <2>4 DEF Sizes
      <3>2. ReqSize(r.conns[p[1]].pending[p[2]]) = IF p \in due THEN 0 ELSE a
        BY <2>5 DEF ReqSize
      <3> HIDE DEF a, b
      <3> QED
        BY <3>1, <3>2, <2>2
    <2>7. p \in Waits(r) <=> p \in Waits(s) \ due
      BY <2>5 DEF Waits
    <2>8. Cuts[p] = IF p \in due THEN a ELSE 0
      BY <2>3
    <2> HIDE DEF a, b, Cuts
    <2> QED
      BY <2>2, <2>3, <2>6, <2>7, <2>8
  <1>16. Total(Sizes(s), Slots) = Total(Sizes(r), Slots) + Total(Cuts, Slots)
    <2> HIDE DEF Cuts
    <2> QED
      BY <1>15, Finite, TotalPlus
  <1>17. Total(Cuts, Slots) = m
    <2> DEFINE E == Slots \ due
    <2>1. \A p \in due : Cuts[p] = ReqSizes(s)[p]
      BY <1>1
    <2>2. Total(Cuts, due) = m
      BY <2>1, TotalSame
    <2>3. IsFiniteSet(E) /\ E \cap due = {} /\ Slots = E \cup due /\ E \subseteq Slots
      BY <1>1, Finite, FS_Subset
    <2>4. \A p \in Slots : Cuts[p] \in Nat /\ Cuts[p] = IF p \in E THEN 0 ELSE Cuts[p]
      BY <1>15
    <2> HIDE DEF E, Cuts
    <2>5. /\ Total(Cuts, Slots) = Total(Cuts, Slots) - Total(Cuts, E)
          /\ Total(Cuts, Slots) \in Nat /\ Total(Cuts, E) \in Nat
      BY <2>3, <2>4, Finite, TotalDrop
    <2>6. Total(Cuts, E) = 0
      BY <2>5
    <2>7. Total(Cuts, Slots) = Total(Cuts, E) + Total(Cuts, due)
      BY <2>3, <2>4, <1>3, TotalUnion
    <2> QED
      BY <2>2, <2>6, <2>7, <1>2
  <1> HIDE DEF m, Cuts
  <1>18. Total(Sizes(r), Slots) = Total(Sizes(s), Slots) - m /\ r.total = s.total - m
    <2>1. Total(Sizes(r), Slots) \in Nat
      BY <1>15, Finite, TotalType
    <2> QED
      BY <2>1, <1>2, <1>12, <1>16, <1>17 DEF tt
  <1>19. ASSUME NEW j \in Times
         PROVE  /\ r.conns[j].dirs = s.conns[j].dirs
                /\ r.conns[j].buffered = s.conns[j].buffered
                /\ Waiting(r.conns[j]) \subseteq Waiting(s.conns[j])
                /\ Answering(r.conns[j]) \subseteq Answering(s.conns[j])
    BY <1>13 DEF Waiting, Answering
  <1>20. Sound(r)
    <2>1. r.early = s.early
      BY <1>12 DEF Frame
    <2> QED
      BY <2>1, <1>0, <1>2, <1>11, <1>14, <1>18, <1>19, StreamsShrink
  <1>21. Waits(r) = Waits(s) \ due
    BY <1>15, WaitsFinite
  <1>22. Accounts(r)
    <2>1. Cardinality(Waits(r)) = Cardinality(Waits(s)) - Cardinality(due)
      <3>1. Cardinality(Waits(s) \ due) = Cardinality(Waits(s)) - Cardinality(Waits(s) \cap due)
        BY WaitsFinite, Removed
      <3>2. Waits(s) \cap due = due
        OBVIOUS
      <3> QED
        BY <3>1, <3>2, <1>21
    <2>2. Left(r) = Left(s) + Cardinality(due)
      <3>1. Left(s) \in Int /\ s.refused \in Int /\ s.cancelled \in Int /\ s.silent \in Int
            /\ Cardinality(s.out) \in Nat
        BY <1>0, LeftType
      <3>2. r.refused = s.refused + w
        BY <1>12 DEF rr
      <3> QED
        BY <3>1, <3>2, <1>3, <1>4, <1>12, <1>14 DEF Left
    <2>3. s.parsed = Cardinality(Waits(s)) + Left(s) /\ Left(s) \in Int
      BY <1>0, LeftType
    <2>4. r.parsed = Cardinality(Waits(r)) + Left(r)
      BY <2>1, <2>2, <2>3, <1>3, <1>12, WaitsFinite
    <2> QED
      BY <2>4, <1>20, LeftType
  <1> QED
    BY <1>11, <1>12, <1>13, <1>20, <1>21, <1>22 DEF IsReport, Kept, r, oo

-----------------------------------------------------------------------------
(* Expiry, close, truncation and shutdown.                                 *)

(* What ExpireResponses does.                                              *)
IsExpire(r, s) ==
    /\ r \in State /\ Kept(r) /\ Frame(r, s) /\ r.short = s.short /\ Ledgers(r, s)
    /\ \A k \in Times : /\ r.conns[k].dirs = s.conns[k].dirs /\ r.conns[k].last = s.conns[k].last
                        /\ r.conns[k].buffered = s.conns[k].buffered
                        /\ r.conns[k].pending = s.conns[k].pending
                        /\ \A i \in Streams : r.conns[k].responses[i] =
                               IF s.conns[k].pending[i] = NoReq THEN NoResp
                               ELSE s.conns[k].responses[i]
    /\ Waits(r) = Waits(s)

(* Responses without a request give back what they held.                   *)
LEMMA ExpireIs ==
  ASSUME NEW s, Kept(s)
  PROVE  IsExpire(ExpireResponses(s), s)
  <1> DEFINE r == ExpireResponses(s)
             D == {p \in Slots : /\ s.conns[p[1]].responses[p[2]] # NoResp
                                 /\ s.conns[p[1]].pending[p[2]] = NoReq}
             m == Total(Sizes(s), D)
             pm(k) == [i \in Streams |-> IF <<k, i>> \in D THEN NoResp ELSE s.conns[k].responses[i]]
             cc(k) == [s.conns[k] EXCEPT !.responses = pm(k)]
             cs == [k \in Times |-> cc(k)]
             tt == s.total - m
  <1>0. /\ s \in State /\ Sound(s) /\ Accounts(s) /\ s.total \in Int
        /\ (\A k \in Times : Good(s.conns[k]) /\ s.conns[k] \in Connection)
    BY DEF Kept, Sound, State, ConnMap
  <1>1. D \in SUBSET Slots
    OBVIOUS
  <1>2. SumFunctionOnSet(Sizes(s), D) = m /\ m \in Nat
    BY <1>0, <1>1, SizesType
  <1>3. r = [s EXCEPT !.total = @ - SumFunctionOnSet(Sizes(s), D), !.conns = cs]
    BY DEF ExpireResponses
  <1>4. r = [s EXCEPT !.total = tt, !.conns = cs]
    BY <1>2, <1>3
  <1>5. \A k \in Times, i \in Streams : <<k, i>> \in D <=> /\ s.conns[k].responses[i] # NoResp
                                                        /\ s.conns[k].pending[i] = NoReq
    BY DEF Slots
  <1> HIDE DEF D
  <1>7. ASSUME NEW k \in Times
        PROVE  /\ cc(k) \in Connection /\ cc(k).dirs = s.conns[k].dirs /\ cc(k).last = s.conns[k].last
               /\ cc(k).buffered = s.conns[k].buffered /\ cc(k).pending = s.conns[k].pending
               /\ \A i \in Streams : cc(k).responses[i] =
                     IF <<k, i>> \in D THEN NoResp ELSE s.conns[k].responses[i]
    <2> DEFINE c == s.conns[k]
               q == pm(k)
    <2>1. c \in Connection
      BY <1>0
    <2>2. /\ q \in ResponseMap
          /\ \A i \in Streams : q[i] = IF <<k, i>> \in D THEN NoResp ELSE s.conns[k].responses[i]
      <3>1. \A i \in Streams : c.responses[i] \in Answered \cup {NoResp}
        BY <2>1, ConnParts
      <3> QED
        BY <3>1 DEF ResponseMap
    <2>3. cc(k) = [c EXCEPT !.responses = q]
      OBVIOUS
    <2> HIDE DEF c, q, cc
    <2>4. /\ cc(k) \in Connection /\ cc(k).dirs = c.dirs /\ cc(k).last = c.last
          /\ cc(k).buffered = c.buffered /\ cc(k).pending = c.pending /\ cc(k).responses = q
      BY <2>1, <2>2, <2>3 DEF Connection
    <2> QED
      BY <2>2, <2>4 DEF c
  <1> HIDE DEF cc
  <1>8. cs \in ConnMap /\ \A k \in Times : cs[k] = cc(k)
    BY <1>7 DEF ConnMap
  <1>10. tt \in Int
    BY <1>0, <1>2
  <1> HIDE DEF cs, tt, r
  <1>11. r \in State
    BY <1>0, <1>4, <1>8, <1>10, Zenon DEF State
  <1>12. Frame(r, s) /\ r.short = s.short /\ r.conns = cs /\ r.total = tt /\ Ledgers(r, s)
    BY <1>0, <1>4 DEF State, Frame, Ledgers
  <1>13. \A k \in Times : /\ r.conns[k].dirs = s.conns[k].dirs /\ r.conns[k].last = s.conns[k].last
                        /\ r.conns[k].buffered = s.conns[k].buffered
                        /\ r.conns[k].pending = s.conns[k].pending
                        /\ \A i \in Streams : r.conns[k].responses[i] =
                               IF <<k, i>> \in D THEN NoResp ELSE s.conns[k].responses[i]
    BY <1>7, <1>8, <1>12
  <1>14. ASSUME NEW p \in Slots
         PROVE  /\ Sizes(r)[p] = IF p \in D THEN 0 ELSE Sizes(s)[p]
                /\ p \in Waits(r) <=> p \in Waits(s)
    <2>1. p[1] \in Times /\ p[2] \in Streams /\ p = <<p[1], p[2]>>
      BY DEF Slots
    <2>2. /\ r.conns[p[1]].pending[p[2]] = s.conns[p[1]].pending[p[2]]
          /\ r.conns[p[1]].responses[p[2]] = IF p \in D THEN NoResp ELSE s.conns[p[1]].responses[p[2]]
      BY <2>1, <1>13
    <2>3. p \in D => s.conns[p[1]].pending[p[2]] = NoReq
      BY <2>1, <1>5
    <2>4. CASE p \in D
      <3> DEFINE a == s.conns[p[1]].pending[p[2]]
                 b == s.conns[p[1]].responses[p[2]]
      <3>1. /\ Sizes(s)[p] = ReqSize(a) + RespSize(b)
            /\ Sizes(r)[p] = ReqSize(a) + RespSize(NoResp)
            /\ p \in Waits(r) <=> p \in Waits(s)
        BY <2>2, <2>4 DEF Sizes, Waits
      <3>2. ReqSize(a) = 0 /\ RespSize(NoResp) = 0
        BY <2>3, <2>4 DEF ReqSize, RespSize
      <3> HIDE DEF a, b
      <3> QED
        BY <3>1, <3>2, <2>4
    <2>5. CASE p \notin D
      BY <2>2, <2>5 DEF Sizes, Waits
    <2> QED
      BY <2>4, <2>5
  <1>15. ASSUME NEW j \in Times
         PROVE  /\ r.conns[j].dirs = s.conns[j].dirs
                /\ r.conns[j].buffered = s.conns[j].buffered
                /\ Waiting(r.conns[j]) \subseteq Waiting(s.conns[j])
                /\ Answering(r.conns[j]) \subseteq Answering(s.conns[j])
    BY <1>13 DEF Waiting, Answering
  <1>16. r.early = s.early /\ r.out = s.out /\ r.total = s.total - Total(Sizes(s), D)
    BY <1>12 DEF Frame, Ledgers, tt
  <1>17. Sound(r)
    <2>1. Sound(s)
      BY <1>0
    <2>2. \A p \in Slots : Sizes(r)[p] = IF p \in D THEN 0 ELSE Sizes(s)[p]
      BY <1>14
    <2> QED
      BY <2>1, <2>2, <1>1, <1>11, <1>15, <1>16, SlotsDropped
  <1>18. Waits(r) = Waits(s)
    BY <1>14, WaitsFinite
  <1>19. Accounts(r)
    BY <1>0, <1>12, <1>18 DEF Accounts, Ledgers
  <1>20. \A k \in Times, i \in Streams : r.conns[k].responses[i] =
                   IF s.conns[k].pending[i] = NoReq THEN NoResp ELSE s.conns[k].responses[i]
    BY <1>5, <1>13
  <1> QED
    BY <1>11, <1>12, <1>13, <1>17, <1>18, <1>19, <1>20 DEF IsExpire, Kept, r

(* What Drop does.                                                         *)
IsDrop(r, s, ks) ==
    /\ r \in State /\ Sound(r) /\ Frame(r, s) /\ r.short = s.short /\ Ledgers(r, s)
    /\ \A k \in Times : r.conns[k] = IF k \in ks THEN NoConn ELSE s.conns[k]
    /\ Waits(r) = Waits(s) \ (ks \X Streams)

(* A connection that is dropped gives back what it held.                   *)
LEMMA DropIs ==
  ASSUME NEW s, Sound(s), NEW ks \in SUBSET Times
  PROVE  IsDrop(Drop(s, ks), s, ks)
  <1> DEFINE r == Drop(s, ks)
             D == ks \X Streams
             m == Total(Parsing(s), ks)
             n == Total(Sizes(s), D)
             cs == Reset(s.conns, ks, NoConn)
             tt == s.total - m - n
  <1>0. /\ s \in State /\ s.total \in Int /\ Numbered(s)
        /\ (\A k \in Times : Good(s.conns[k]) /\ s.conns[k] \in Connection)
    BY DEF Sound, State, ConnMap
  <1>1. D \in SUBSET Slots
    BY DEF Slots
  <1>2. /\ SumFunctionOnSet(Sizes(s), D) = n /\ n \in Nat
        /\ SumFunctionOnSet(Parsing(s), ks) = m /\ m \in Nat
    BY <1>0, <1>1, SizesType
  <1>3. r = [s EXCEPT !.total = @ - SumFunctionOnSet(Parsing(s), ks) - SumFunctionOnSet(Sizes(s), D),
                      !.conns = cs]
    BY DEF Drop
  <1>4. r = [s EXCEPT !.total = tt, !.conns = cs]
    BY <1>2, <1>3
  <1>5. cs \in ConnMap /\ \A k \in Times : cs[k] = IF k \in ks THEN NoConn ELSE s.conns[k]
    <2>1. s.conns \in [Times -> Connection]
      BY <1>0 DEF State, ConnMap
    <2> QED
      BY <2>1, EmptyConn DEF Reset, ConnMap
  <1>6. tt \in Int
    BY <1>0, <1>2
  <1> HIDE DEF cs, tt, r
  <1>7. r \in State
    BY <1>0, <1>4, <1>5, <1>6, Zenon DEF State
  <1>8. Frame(r, s) /\ r.short = s.short /\ r.conns = cs /\ r.total = tt /\ Ledgers(r, s)
    BY <1>0, <1>4 DEF State, Frame, Ledgers
  <1>9. \A k \in Times : r.conns[k] = IF k \in ks THEN NoConn ELSE s.conns[k]
    BY <1>5, <1>8
  <1>10. \A k \in Times : Good(r.conns[k])
    BY <1>0, <1>9, EmptyConn
  <1>11. ASSUME NEW p \in Slots
         PROVE  /\ Sizes(r)[p] = IF p \in D THEN 0 ELSE Sizes(s)[p]
                /\ p \in Waits(r) <=> p \in Waits(s) \ D
    <2>1. p[1] \in Times /\ p[2] \in Streams /\ p = <<p[1], p[2]>>
      BY DEF Slots
    <2>2. p \in D <=> p[1] \in ks
      BY <2>1
    <2>3. CASE p \in D
      <3>1. r.conns[p[1]].pending[p[2]] = NoReq /\ r.conns[p[1]].responses[p[2]] = NoResp
        BY <2>1, <2>2, <2>3, <1>9, EmptyConn
      <3> QED
        BY <3>1, <2>3 DEF Sizes, ReqSize, RespSize, Waits
    <2>4. CASE p \notin D
      <3>1. r.conns[p[1]] = s.conns[p[1]]
        BY <2>1, <2>2, <2>4, <1>9
      <3> QED
        BY <3>1, <2>4 DEF Sizes, Waits
    <2> QED
      BY <2>3, <2>4
  <1>12. /\ \A k \in Times : Parsing(r)[k] = IF k \in ks THEN 0 ELSE Parsing(s)[k]
         /\ Earlies(r) = Earlies(s)
    BY <1>8, <1>9, EmptyConn DEF Parsing, Earlies, Frame
  <1>13. /\ \A p \in Slots : Sizes(s)[p] \in Nat
         /\ \A k \in Times : Parsing(s)[k] \in Nat
         /\ Total(Sizes(s), Slots) \in Nat /\ Total(Parsing(s), Times) \in Nat
         /\ Total(Earlies(s), Times) \in Nat
    BY <1>0, SizesType
  <1>14. Total(Sizes(r), Slots) = Total(Sizes(s), Slots) - n
    BY <1>1, <1>11, <1>13, Finite, TotalDrop
  <1>15. Total(Parsing(r), Times) = Total(Parsing(s), Times) - m
    BY <1>12, <1>13, Finite, TotalDrop
  <1>16. Memory(r)
    <2> DEFINE T == Total(Sizes(s), Slots)
               U == Total(Parsing(s), Times)
               V == Total(Earlies(s), Times)
               T2 == Total(Sizes(r), Slots)
               U2 == Total(Parsing(r), Times)
    <2>1. /\ T \in Nat /\ U \in Nat /\ V \in Nat /\ s.total = T + U + V /\ s.total <= MaxTotal
          /\ T2 = T - n /\ U2 = U - m /\ m \in Nat /\ n \in Nat /\ tt = s.total - m - n
      BY <1>2, <1>13, <1>14, <1>15 DEF Sound, Memory, tt
    <2> HIDE DEF T, U, V, T2, U2, m, n
    <2>2. tt = T2 + U2 + V /\ tt <= MaxTotal
      BY <2>1, <1>0, Constants
    <2> QED
      BY <2>2, <1>8, <1>12 DEF Memory, T2, U2, V
  <1>17. Sound(r)
    BY <1>0, <1>7, <1>8, <1>10, <1>16 DEF Sound, Numbered, Ledgers
  <1>18. Waits(r) = Waits(s) \ D
    BY <1>11, WaitsFinite
  <1> QED
    BY <1>7, <1>8, <1>9, <1>17, <1>18 DEF IsDrop, r

(* What ForgetEarly does.                                                  *)
IsForget(r, s, ks) ==
    /\ r \in State /\ Kept(r) /\ Ledgers(r, s) /\ r.short = s.short /\ r.conns = s.conns
    /\ r.prefix = s.prefix /\ r.known = s.known /\ r.born = s.born
    /\ r.last = s.last /\ r.missing = s.missing
    /\ \A k \in Times : r.early[k] = IF k \in ks THEN NoEarly ELSE s.early[k]

(* Server frames that are forgotten give back what they held.              *)
LEMMA ForgetIs ==
  ASSUME NEW s, Kept(s), NEW ks \in SUBSET Times
  PROVE  IsForget(ForgetEarly(s, ks), s, ks)
  <1> DEFINE r == ForgetEarly(s, ks)
             m == Total(Earlies(s), ks)
             es == Reset(s.early, ks, NoEarly)
             tt == s.total - m
  <1>0. /\ s \in State /\ Sound(s) /\ Accounts(s) /\ s.total \in Int /\ Numbered(s)
        /\ (\A k \in Times : Good(s.conns[k]))
    BY DEF Kept, Sound, State
  <1>2. SumFunctionOnSet(Earlies(s), ks) = m /\ m \in Nat
    BY <1>0, SizesType
  <1>3. r = [s EXCEPT !.total = @ - SumFunctionOnSet(Earlies(s), ks), !.early = es]
    BY DEF ForgetEarly
  <1>4. r = [s EXCEPT !.total = tt, !.early = es]
    BY <1>2, <1>3
  <1>5. es \in EarlyMap /\ \A k \in Times : es[k] = IF k \in ks THEN NoEarly ELSE s.early[k]
    <2>1. s.early \in [Times -> Held \cup {NoEarly}]
      BY <1>0 DEF State, EarlyMap
    <2> QED
      BY <2>1 DEF Reset, EarlyMap
  <1>6. tt \in Int
    BY <1>0, <1>2
  <1> HIDE DEF es, tt, r
  <1>7. r \in State
    BY <1>0, <1>4, <1>5, <1>6, Zenon DEF State
  <1>8. /\ r.prefix = s.prefix /\ r.known = s.known /\ r.born = s.born
        /\ r.last = s.last /\ r.missing = s.missing /\ r.early = es
        /\ r.short = s.short /\ r.conns = s.conns /\ r.total = tt /\ Ledgers(r, s)
    BY <1>0, <1>4 DEF State, Ledgers
  <1>9. /\ Sizes(r) = Sizes(s) /\ Parsing(r) = Parsing(s) /\ Waits(r) = Waits(s)
        /\ \A k \in Times : Earlies(r)[k] = IF k \in ks THEN 0 ELSE Earlies(s)[k]
    BY <1>5, <1>8 DEF Sizes, Parsing, Earlies, Waits, EarlySize
  <1>10. /\ \A k \in Times : Earlies(s)[k] \in Nat
         /\ Total(Sizes(s), Slots) \in Nat /\ Total(Parsing(s), Times) \in Nat
         /\ Total(Earlies(s), Times) \in Nat
    BY <1>0, SizesType
  <1>11. Total(Earlies(r), Times) = Total(Earlies(s), Times) - m
    BY <1>9, <1>10, Finite, TotalDrop
  <1>12. Memory(r)
    <2> DEFINE T == Total(Sizes(s), Slots)
               U == Total(Parsing(s), Times)
               V == Total(Earlies(s), Times)
               V2 == Total(Earlies(r), Times)
    <2>1. /\ T \in Nat /\ U \in Nat /\ V \in Nat /\ s.total = T + U + V /\ s.total <= MaxTotal
          /\ V2 = V - m /\ m \in Nat /\ tt = s.total - m
      BY <1>0, <1>2, <1>10, <1>11 DEF Sound, Memory, tt
    <2> HIDE DEF T, U, V, V2, m
    <2>2. tt = T + U + V2 /\ tt <= MaxTotal
      BY <2>1, <1>0, Constants
    <2> QED
      BY <2>2, <1>8, <1>9 DEF Memory, T, U, V2
  <1>13. Kept(r)
    BY <1>0, <1>7, <1>8, <1>9, <1>12 DEF Kept, Sound, Numbered, Ledgers, Accounts
  <1> QED
    BY <1>5, <1>7, <1>8, <1>13 DEF IsForget, r

(* What close, expiry and shutdown have in common: the requests of due     *)
(* leave in events, other requests and responses stay or go with their     *)
(* connection.                                                             *)
Emptied(cs, ds, due) ==
    \A k \in Times :
      /\ \/ cs[k] = NoConn
         \/ ds[k] # NoConn /\ cs[k].dirs = ds[k].dirs /\ cs[k].last = ds[k].last
      /\ \A i \in Streams :
           /\ cs[k].pending[i] \in {NoReq, ds[k].pending[i]}
           /\ <<k, i>> \in due => cs[k].pending[i] = NoReq
           /\ cs[k].responses[i] \in {NoResp, ds[k].responses[i]}
           /\ cs[k].pending[i] # NoReq => cs[k].responses[i] = ds[k].responses[i]

Sheds(r, s, due, o) ==
    /\ r \in State /\ Kept(r)
    /\ r.missing = s.missing /\ r.short = s.short
    /\ due \subseteq Waits(s)
    /\ r.out = s.out \cup EventsOf(s, due, o)
    /\ Emptied(r.conns, s.conns, due)

(* Two connections that hold the same are the same.                        *)
LEMMA ConnSame ==
  ASSUME NEW c \in Connection, NEW d \in Connection,
         c.dirs = d.dirs, c.last = d.last, c.buffered = d.buffered,
         \A i \in Streams : c.pending[i] = d.pending[i],
         \A i \in Streams : c.responses[i] = d.responses[i]
  PROVE  c = d
  <1>1. c.pending \in PendingMap /\ d.pending \in PendingMap
        /\ c.responses \in ResponseMap /\ d.responses \in ResponseMap
    BY ConnParts
  <1>2. c.pending = d.pending
    BY <1>1 DEF PendingMap
  <1>3. c.responses = d.responses
    BY <1>1 DEF ResponseMap
  <1> QED
    BY <1>2, <1>3 DEF Connection

(* Requests leave, and with them the responses that have none.             *)
LEMMA ReportEmpties ==
  ASSUME NEW s, Kept(s), NEW due \in SUBSET Waits(s), NEW o \in Outcomes,
         NEW a, IsReport(a, s, due, o), NEW b, b = a \/ IsExpire(b, a)
  PROVE  Emptied(b.conns, s.conns, due)
  <1>0. /\ \A k \in Times : s.conns[k] \in Connection
        /\ \A k \in Times : a.conns[k] \in Connection /\ b.conns[k] \in Connection
    BY DEF Kept, Sound, State, ConnMap, IsReport, IsExpire
  <1> SUFFICES ASSUME NEW k \in Times
               PROVE  /\ \/ b.conns[k] = NoConn
                         \/ /\ s.conns[k] # NoConn /\ b.conns[k].dirs = s.conns[k].dirs
                            /\ b.conns[k].last = s.conns[k].last
                      /\ \A i \in Streams :
                           /\ b.conns[k].pending[i] = IF <<k, i>> \in due THEN NoReq
                                                      ELSE s.conns[k].pending[i]
                           /\ b.conns[k].responses[i] \in {NoResp, s.conns[k].responses[i]}
                           /\ b.conns[k].pending[i] # NoReq
                                => b.conns[k].responses[i] = s.conns[k].responses[i]
    BY DEF Emptied
  <1> DEFINE x == s.conns[k]
             y == a.conns[k]
             z == b.conns[k]
  <1>1. /\ y.dirs = x.dirs /\ y.last = x.last /\ y.buffered = x.buffered
        /\ y.responses = x.responses
        /\ \A i \in Streams : y.pending[i] = IF <<k, i>> \in due THEN NoReq ELSE x.pending[i]
    BY DEF IsReport
  <1>2. \/ z = y
        \/ /\ z.dirs = y.dirs /\ z.last = y.last /\ z.buffered = y.buffered
           /\ z.pending = y.pending
           /\ \A i \in Streams : z.responses[i] = IF y.pending[i] = NoReq THEN NoResp
                                                 ELSE y.responses[i]
    BY DEF IsExpire
  <1>3. x \in Connection /\ y \in Connection /\ z \in Connection
    BY <1>0
  <1> HIDE DEF x, y, z
  <1>4. z.dirs = x.dirs /\ z.last = x.last /\ z.buffered = x.buffered
    BY <1>1, <1>2
  <1>5. ASSUME NEW i \in Streams
        PROVE  /\ z.pending[i] = IF <<k, i>> \in due THEN NoReq ELSE x.pending[i]
               /\ z.responses[i] \in {NoResp, x.responses[i]}
               /\ z.pending[i] # NoReq => z.responses[i] = x.responses[i]
    BY <1>1, <1>2
  <1>6. x = NoConn => z = NoConn
    <2> SUFFICES ASSUME x = NoConn PROVE z = NoConn
      OBVIOUS
    <2>1. \A i \in Streams : x.pending[i] = NoReq /\ x.responses[i] = NoResp
      BY EmptyConn
    <2>2. \A i \in Streams : z.pending[i] = x.pending[i]
      BY <2>1, <1>5
    <2>3. \A i \in Streams : z.responses[i] = x.responses[i]
      BY <2>1, <1>5
    <2> QED
      BY <2>2, <2>3, <1>3, <1>4, ConnSame
  <1> QED
    BY <1>4, <1>5, <1>6 DEF x, z

(* Requests leave, then responses without one, then connections that no    *)
(* request waits on.                                                       *)
LEMMA ShedIs ==
  ASSUME NEW s, Kept(s), NEW due \in SUBSET Waits(s), NEW o \in Outcomes,
         NEW a, IsReport(a, s, due, o), NEW b, b = a \/ IsExpire(b, a),
         NEW ks \in SUBSET Times, \A p \in Waits(s) : p[1] \in ks => p \in due,
         NEW c, IsDrop(c, b, ks)
  PROVE  Sheds(c, s, due, o) /\ Frame(c, s)
         /\ \A k \in Times : k \in ks => c.conns[k] = NoConn
  <1>a. /\ Kept(a) /\ Frame(a, s) /\ a.short = s.short /\ a.out = s.out \cup EventsOf(s, due, o)
        /\ Waits(a) = Waits(s) \ due
    BY DEF IsReport
  <1>b. b # a => /\ Kept(b) /\ Frame(b, a) /\ b.short = a.short /\ b.out = a.out
                 /\ Waits(b) = Waits(a)
    BY DEF IsExpire, Ledgers
  <1>1. Kept(b) /\ Frame(b, s) /\ b.short = s.short /\ b.out = s.out \cup EventsOf(s, due, o)
        /\ Waits(b) = Waits(s) \ due
    BY <1>a, <1>b DEF Frame
  <1>2. Emptied(b.conns, s.conns, due)
    BY ReportEmpties
  <1>d. /\ c \in State /\ Sound(c) /\ Frame(c, b) /\ c.short = b.short /\ Ledgers(c, b)
        /\ Waits(c) = Waits(b) \ (ks \X Streams)
        /\ \A k \in Times : c.conns[k] = IF k \in ks THEN NoConn ELSE b.conns[k]
    BY DEF IsDrop
  <1>3. c \in State /\ Sound(c) /\ Frame(c, s) /\ c.short = s.short
        /\ c.out = s.out \cup EventsOf(s, due, o)
    BY <1>1, <1>d DEF Frame, Ledgers
  <1>4. Waits(c) = Waits(b)
    <2>1. ASSUME NEW p \in Waits(b) PROVE p \notin ks \X Streams
      BY <1>1
    <2> QED
      BY <2>1, <1>d
  <1>5. Accounts(c)
    BY <1>1, <1>4, <1>d DEF Kept, Accounts, Ledgers
  <1>6. Emptied(c.conns, s.conns, due)
    <2> SUFFICES ASSUME NEW k \in Times
                 PROVE  /\ \/ c.conns[k] = NoConn
                           \/ /\ s.conns[k] # NoConn /\ c.conns[k].dirs = s.conns[k].dirs
                              /\ c.conns[k].last = s.conns[k].last
                        /\ \A i \in Streams :
                             /\ c.conns[k].pending[i] \in {NoReq, s.conns[k].pending[i]}
                             /\ <<k, i>> \in due => c.conns[k].pending[i] = NoReq
                             /\ c.conns[k].responses[i] \in {NoResp, s.conns[k].responses[i]}
                             /\ c.conns[k].pending[i] # NoReq
                                  => c.conns[k].responses[i] = s.conns[k].responses[i]
      BY DEF Emptied
    <2>1. CASE k \notin ks
      <3>1. c.conns[k] = b.conns[k]
        BY <2>1, <1>d
      <3> DEFINE x == b.conns
                 y == s.conns
                 z == c.conns
      <3>2. Emptied(x, y, due) /\ z[k] = x[k]
        BY <3>1, <1>2
      <3> HIDE DEF x, y, z
      <3> DEFINE w == z[k]
      <3>3. /\ w = NoConn \/ (y[k] # NoConn /\ w.dirs = y[k].dirs /\ w.last = y[k].last)
            /\ \A i \in Streams :
                 /\ w.pending[i] \in {NoReq, y[k].pending[i]}
                 /\ <<k, i>> \in due => w.pending[i] = NoReq
                 /\ w.responses[i] \in {NoResp, y[k].responses[i]}
                 /\ w.pending[i] # NoReq => w.responses[i] = y[k].responses[i]
        BY <3>2 DEF Emptied
      <3> QED
        BY <3>3, Zenon DEF y, z
    <2>2. CASE k \in ks
      <3>1. c.conns[k] = NoConn
        BY <2>2, <1>d
      <3>2. ASSUME NEW i \in Streams
            PROVE  /\ c.conns[k].pending[i] = NoReq /\ c.conns[k].responses[i] = NoResp
                   /\ <<k, i>> \notin due => s.conns[k].pending[i] = NoReq
        BY <2>2, <3>1, EmptyConn, WaitsFinite
      <3> QED
        BY <3>1, <3>2
    <2> QED
      BY <2>1, <2>2
  <1>7. \A k \in Times : k \in ks => c.conns[k] = NoConn
    BY <1>d
  <1>8. Sheds(c, s, due, o)
    BY <1>1, <1>3, <1>5, <1>6 DEF Sheds, Kept, Frame
  <1> QED
    BY <1>3, <1>7, <1>8

(* The sweep's clock is set.                                               *)
LEMMA LastSet ==
  ASSUME NEW s, Kept(s), NEW t \in Times
  PROVE  LET r == [s EXCEPT !.last = t] IN
         /\ r \in State /\ Kept(r) /\ r.conns = s.conns /\ r.early = s.early
         /\ r.prefix = s.prefix /\ r.known = s.known /\ r.born = s.born /\ r.missing = s.missing
         /\ r.short = s.short /\ r.out = s.out /\ r.last = t /\ Waits(r) = Waits(s)
  <1> DEFINE r == [s EXCEPT !.last = t]
  <1>0. s \in State
    BY DEF Kept, Sound
  <1>1. r \in State
    BY <1>0, Zenon DEF State
  <1>2. /\ r.conns = s.conns /\ r.early = s.early
        /\ r.prefix = s.prefix /\ r.known = s.known /\ r.born = s.born /\ r.missing = s.missing
        /\ r.short = s.short /\ r.out = s.out /\ r.last = t /\ r.total = s.total /\ Ledgers(r, s)
    BY <1>0 DEF State, Ledgers
  <1> HIDE DEF r
  <1>3. Kept(r) /\ Waits(r) = Waits(s)
    BY <1>1, <1>2, SameKept
  <1> QED
    BY <1>1, <1>2, <1>3 DEF r

(* State x with another identity of the connection and other directions    *)
(* missed.                                                                 *)
Marked(x, kn, bo, pr, ms) ==
    [x EXCEPT !.known = kn, !.born = bo, !.prefix = pr, !.missing = ms]

Marks(r, x, kn, bo, pr, ms) ==
    /\ r \in State /\ Kept(r) /\ r.conns = x.conns /\ r.early = x.early
    /\ r.prefix = pr /\ r.known = kn /\ r.born = bo /\ r.missing = ms
    /\ r.short = x.short /\ r.out = x.out /\ r.last = x.last

(* None of these is charged or counts a request.                           *)
LEMMA MarkedIs ==
  ASSUME NEW x, Kept(x), NEW kn \in SUBSET Times, NEW bo \in Times \cup {Unborn},
         NEW pr \in SUBSET Times, NEW ms \in SUBSET Dirs
  PROVE  Marks(Marked(x, kn, bo, pr, ms), x, kn, bo, pr, ms)
  <1> DEFINE r == Marked(x, kn, bo, pr, ms)
  <1>0. x \in State
    BY DEF Kept, Sound
  <1>1. r \in State
    BY <1>0, Zenon DEF State, Marked
  <1>2. /\ r.conns = x.conns /\ r.early = x.early
        /\ r.prefix = pr /\ r.known = kn /\ r.born = bo /\ r.missing = ms
        /\ r.short = x.short /\ r.out = x.out /\ r.last = x.last /\ r.total = x.total
        /\ Ledgers(r, x)
    BY <1>0 DEF State, Ledgers, Marked
  <1> HIDE DEF r
  <1>3. Kept(r)
    BY <1>1, <1>2, SameKept
  <1> QED
    BY <1>1, <1>2, <1>3 DEF r, Marks

(* What Discard does: the connection is gone.                              *)
IsDiscard(r, s, k) ==
    /\ r \in State /\ Kept(r) /\ r.missing = s.missing /\ r.short = s.short /\ r.out = s.out
    /\ \A j \in Times : r.conns[j] = IF j = k THEN NoConn ELSE s.conns[j]

(* The requests of a discarded connection are counted as silent.           *)
LEMMA DiscardIs ==
  ASSUME NEW s, Kept(s), NEW k \in Times
  PROVE  IsDiscard(Discard(s, k), s, k)
  <1> DEFINE r == Discard(s, k)
             x == Drop(s, {k})
             A == Waiting(s.conns[k])
             n == s.silent + Cardinality(A)
  <1>0. Sound(s) /\ Accounts(s) /\ s \in State /\ s.silent \in Int /\ s.conns[k] \in Connection
    BY DEF Kept, Sound, State, ConnMap
  <1>1. IsDrop(x, s, {k})
    BY <1>0, DropIs
  <1>2. IsFiniteSet(A) /\ Cardinality(A) \in Nat /\ A \subseteq Streams
    BY <1>0, ConnParts
  <1>3. r = [x EXCEPT !.silent = @ + Cardinality(A)]
    BY DEF Discard
  <1> HIDE DEF x, r
  <1>4. x \in State /\ x.silent = s.silent /\ Sound(x)
    BY <1>1 DEF IsDrop, Ledgers
  <1>5. r = [x EXCEPT !.silent = n] /\ n \in Int
    BY <1>0, <1>2, <1>3, <1>4 DEF State
  <1> HIDE DEF n
  <1>6. r \in State
    BY <1>4, <1>5, Zenon DEF State
  <1>7. /\ Frame(r, x) /\ r.conns = x.conns /\ r.total = x.total /\ r.short = x.short
        /\ r.parsed = x.parsed /\ r.refused = x.refused /\ r.cancelled = x.cancelled
        /\ r.silent = n /\ r.out = x.out
    BY <1>4, <1>5 DEF State, Frame
  <1>8. Sizes(r) = Sizes(x) /\ Parsing(r) = Parsing(x) /\ Earlies(r) = Earlies(x)
        /\ Waits(r) = Waits(x)
    BY <1>7 DEF Sizes, Parsing, Earlies, Waits, Frame
  <1>9. Sound(r)
    BY <1>4, <1>6, <1>7, <1>8 DEF Sound, Memory, Numbered
  <1>10. Cardinality(Waits(r)) = Cardinality(Waits(s)) - Cardinality(A)
    <2> DEFINE D == {k} \X Streams
    <2>1. Waits(s) \cap D = {k} \X A
      <3>1. ASSUME NEW p PROVE p \in Waits(s) \cap D <=> p \in {k} \X A
        <4>1. CASE p \in D
          <5>1. p = <<k, p[2]>> /\ p[2] \in Streams
            BY <4>1
          <5>2. p \in Waits(s) <=> p[2] \in A
            BY <5>1, WaitsFinite DEF Waiting
          <5> QED
            BY <4>1, <5>1, <5>2
        <4>2. CASE p \notin D
          BY <4>2, <1>2
        <4> QED
          BY <4>1, <4>2
      <3> QED
        BY <3>1
    <2> HIDE DEF D, A
    <2>2. Cardinality({k} \X A) = Cardinality(A)
      BY <1>2, PairCardinality
    <2>3. Cardinality(Waits(s) \ D) = Cardinality(Waits(s)) - Cardinality(Waits(s) \cap D)
      BY WaitsFinite, Removed
    <2> QED
      BY <2>1, <2>2, <2>3, <1>1, <1>8 DEF IsDrop, D
  <1> DEFINE w == Cardinality(A)
  <1>11. Left(r) = Left(s) + w
    <2>1. r.out = s.out /\ r.refused = s.refused /\ r.cancelled = s.cancelled
          /\ r.silent = s.silent + w
      BY <1>1, <1>7 DEF IsDrop, Ledgers, n
    <2>2. w \in Nat
      BY <1>2
    <2> HIDE DEF w
    <2> QED
      BY <2>1, <2>2, <1>0, LeftType DEF Left
  <1>12. Accounts(r)
    <2>1. s.parsed = Cardinality(Waits(s)) + Left(s) /\ Left(s) \in Int
      BY <1>0, LeftType
    <2>2. r.parsed = s.parsed
      BY <1>1, <1>7 DEF IsDrop, Ledgers
    <2>3. w \in Nat /\ Cardinality(Waits(r)) = Cardinality(Waits(s)) - w
      BY <1>2, <1>10
    <2> HIDE DEF w
    <2>4. r.parsed = Cardinality(Waits(r)) + Left(r)
      BY <2>1, <2>2, <2>3, <1>11, WaitsFinite
    <2> QED
      BY <2>4, <1>9, LeftType
  <1> QED
    BY <1>1, <1>6, <1>7, <1>9, <1>12 DEF IsDiscard, IsDrop, Kept, Ledgers, Frame, r

(* Expiry keeps the books.                                                 *)
LEMMA EvictIs ==
  ASSUME NEW s, Kept(s), NEW over \in Times \cup {Unborn}, NEW t \in Times
  PROVE  LET r == EvictStale(s, over, t) IN
         /\ Kept(r)
         /\ r = s \/ \E due : Sheds(r, s, due, "no_response_observed")
  <1> DEFINE r == EvictStale(s, over, t)
             o == "no_response_observed"
             idle == {k \in Times : s.conns[k] # NoConn /\ t - s.conns[k].last >= TTL}
             due == {p \in Waits(s) : \/ p[1] \in idle
                                      \/ t - s.conns[p[1]].pending[p[2]].ts >= TTL}
             s1 == [s EXCEPT !.last = t]
             a == Report(s1, due, o)
             b == ExpireResponses(a)
             c == Drop(b, idle)
             old == {k \in Times : t - s.early[k].seen >= TTL}
             f == ForgetEarly(c, old)
             g == Shed(f, over)
             quiet == {k \in g.known : g.conns[k] = NoConn}
  <1>1. CASE t - s.last < Throttle
    <2>1. r = s
      BY <1>1 DEF EvictStale
    <2> QED
      BY <2>1
  <1>2. CASE ~(t - s.last < Throttle)
    <2>1. r = [g EXCEPT !.known = @ \ quiet,
                        !.born = IF quiet = {} THEN @ ELSE Unborn, !.prefix = @ \ quiet]
      <3>1. r = ForgetQuiet(g)
        BY <1>2 DEF EvictStale
      <3> HIDE DEF r, g
      <3> QED
        BY <3>1 DEF ForgetQuiet
    <2>2. /\ s1 \in State /\ Kept(s1) /\ s1.conns = s.conns
          /\ s1.missing = s.missing /\ s1.short = s.short /\ s1.out = s.out /\ Waits(s1) = Waits(s)
      BY LastSet
    <2>3. idle \in SUBSET Times /\ due \in SUBSET Waits(s) /\ old \in SUBSET Times
          /\ \A p \in Waits(s) : p[1] \in idle => p \in due
      OBVIOUS
    <2>o. o \in Outcomes
      BY DEF Outcomes
    <2> HIDE DEF idle, due, old, s1, o
    <2>4. IsReport(a, s1, due, o)
      BY <2>2, <2>3, <2>o, ReportIs
    <2>5. Kept(a)
      BY <2>4 DEF IsReport
    <2> HIDE DEF a
    <2>6. IsExpire(b, a)
      BY <2>5, ExpireIs
    <2>7. Sound(b)
      BY <2>6 DEF IsExpire, Kept
    <2> HIDE DEF b
    <2>8. IsDrop(c, b, idle)
      BY <2>3, <2>7, DropIs
    <2> HIDE DEF c
    <2>9. Sheds(c, s1, due, o)
      BY <2>2, <2>3, <2>4, <2>6, <2>8, <2>o, ShedIs
    <2>10. Kept(c)
      BY <2>9 DEF Sheds
    <2>11. IsForget(f, c, old)
      BY <2>3, <2>10, ForgetIs
    <2> DEFINE kn == g.known \ quiet
               bo == IF quiet = {} THEN g.born ELSE Unborn
               pr == g.prefix \ quiet
    <2> HIDE DEF f
    <2>k. f \in State /\ Kept(f)
      BY <2>11 DEF IsForget
    <2>12. /\ g \in State /\ Kept(g)
           /\ g.missing = f.missing /\ g.short = f.short /\ g.out = f.out
           /\ \A j \in Times : g.conns[j] \in {NoConn, f.conns[j]}
      <3>1. CASE over = Unborn
        BY <3>1, <2>k DEF Shed
      <3>2. CASE over # Unborn
        <4>1. IsDiscard(g, f, over)
          BY <3>2, <2>k, DiscardIs DEF Shed
        <4> HIDE DEF g
        <4> QED
          BY <4>1 DEF IsDiscard
      <3> QED
        BY <3>1, <3>2
    <2> HIDE DEF g
    <2>13. kn \in SUBSET Times /\ bo \in Times \cup {Unborn} /\ pr \in SUBSET Times
      BY <2>12 DEF State
    <2>14. r = Marked(g, kn, bo, pr, g.missing) /\ g.missing \in SUBSET Dirs
      <3>1. g.missing \in SUBSET Dirs
        BY <2>12 DEF State
      <3>2. r = [g EXCEPT !.known = kn, !.born = bo, !.prefix = pr]
        BY <2>1
      <3>3. [g EXCEPT !.known = kn, !.born = bo, !.prefix = pr]
            = Marked(g, kn, bo, pr, g.missing)
        <4> HIDE DEF kn, bo, pr
        <4> QED
          BY <2>12 DEF Marked, State
      <3> QED
        BY <3>1, <3>2, <3>3
    <2> HIDE DEF kn, bo, pr, r, quiet
    <2>m. Marks(r, g, kn, bo, pr, g.missing)
      BY <2>12, <2>13, <2>14, MarkedIs
    <2>15. /\ r \in State /\ Kept(r) /\ r.conns = g.conns /\ r.missing = g.missing
           /\ r.short = g.short /\ r.out = g.out
      BY <2>m DEF Marks
    <2>16. EventsOf(s1, due, o) = EventsOf(s, due, o)
      BY <2>2 DEF EventsOf, EventOf
    <2>f. f.conns = c.conns /\ f.missing = c.missing /\ f.short = c.short /\ f.out = c.out
      BY <2>11 DEF IsForget, Ledgers
    <2>e. Emptied(r.conns, s.conns, due)
      <3>1. Emptied(c.conns, s.conns, due)
        BY <2>2, <2>9 DEF Sheds
      <3>2. \A j \in Times : r.conns[j] = NoConn \/ r.conns[j] = c.conns[j]
        BY <2>f, <2>12, <2>15
      <3>3. \A i \in Streams : NoConn.pending[i] = NoReq /\ NoConn.responses[i] = NoResp
        BY EmptyConn
      <3> DEFINE cr == r.conns
                 cc == c.conns
                 cs == s.conns
      <3>4. Emptied(cc, cs, due) /\ \A j \in Times : cr[j] = NoConn \/ cr[j] = cc[j]
        BY <3>1, <3>2
      <3> HIDE DEF cr, cc, cs
      <3>5. Emptied(cr, cs, due)
        <4> SUFFICES ASSUME NEW j \in Times
                     PROVE  /\ \/ cr[j] = NoConn
                               \/ cs[j] # NoConn /\ cr[j].dirs = cs[j].dirs
                                  /\ cr[j].last = cs[j].last
                            /\ \A i \in Streams :
                                 /\ cr[j].pending[i] \in {NoReq, cs[j].pending[i]}
                                 /\ <<j, i>> \in due => cr[j].pending[i] = NoReq
                                 /\ cr[j].responses[i] \in {NoResp, cs[j].responses[i]}
                                 /\ cr[j].pending[i] # NoReq
                                       => cr[j].responses[i] = cs[j].responses[i]
          BY Zenon DEF Emptied
        <4>1. CASE cr[j] = NoConn
          <5>1. \A i \in Streams : cr[j].pending[i] = NoReq /\ cr[j].responses[i] = NoResp
            BY <4>1, <3>3, Zenon
          <5> QED
            BY <5>1, <4>1, Zenon
        <4>2. CASE cr[j] = cc[j]
          <5>1. /\ \/ cc[j] = NoConn
                   \/ cs[j] # NoConn /\ cc[j].dirs = cs[j].dirs /\ cc[j].last = cs[j].last
                /\ \A i \in Streams :
                     /\ cc[j].pending[i] \in {NoReq, cs[j].pending[i]}
                     /\ <<j, i>> \in due => cc[j].pending[i] = NoReq
                     /\ cc[j].responses[i] \in {NoResp, cs[j].responses[i]}
                     /\ cc[j].pending[i] # NoReq => cc[j].responses[i] = cs[j].responses[i]
            BY <3>4, Zenon DEF Emptied
          <5> DEFINE v == cr[j]
                     w == cc[j]
          <5>2. v = w
            BY <4>2
          <5> HIDE DEF v, w
          <5> QED
            BY <5>1, <5>2, SMT DEF v, w
        <4> QED
          BY <4>1, <4>2, <3>4
      <3> QED
        BY <3>5 DEF cr, cs
    <2>17. Sheds(r, s, due, o)
      <3>1. /\ due \subseteq Waits(s1) /\ c.missing = s1.missing /\ c.short = s1.short
            /\ c.out = s1.out \cup EventsOf(s1, due, o)
        BY <2>9 DEF Sheds
      <3>2. /\ r.missing = s.missing /\ r.short = s.short
            /\ r.out = s.out \cup EventsOf(s, due, o)
        BY <3>1, <2>2, <2>f, <2>12, <2>15, <2>16
      <3> QED
        BY <3>1, <3>2, <2>2, <2>e, <2>15 DEF Sheds
    <2> QED
      BY <2>15, <2>17 DEF r, o
  <1> QED
    BY <1>1, <1>2

(* Close keeps the books.                                                  *)
LEMMA CloseIs ==
  ASSUME NEW s, Kept(s)
  PROVE  LET r == EvictConnection(s) IN
         /\ \E due : Sheds(r, s, due, "connection_closed")
         /\ \A k \in Times : r.conns[k] = NoConn
  <1> DEFINE r == EvictConnection(s)
             o == "connection_closed"
             due == Waits(s)
             a == Report(s, due, o)
             c == Drop(a, Times)
             f == ForgetEarly(c, Times)
             bo == Unborn
             pr == {}
  <1>1. r = [f EXCEPT !.prefix = {}, !.known = {}, !.born = Unborn]
    BY DEF EvictConnection
  <1>o. o \in Outcomes
    BY DEF Outcomes
  <1> HIDE DEF o
  <1>2. due \in SUBSET Waits(s) /\ \A p \in Waits(s) : p[1] \in Times => p \in due
    OBVIOUS
  <1> HIDE DEF due
  <1>3. IsReport(a, s, due, o)
    BY <1>2, <1>o, ReportIs
  <1>4. Sound(a)
    BY <1>3 DEF IsReport, Kept
  <1> HIDE DEF a
  <1>5. IsDrop(c, a, Times)
    BY <1>4, DropIs
  <1> HIDE DEF c
  <1>6. Sheds(c, s, due, o) /\ \A k \in Times : c.conns[k] = NoConn
    BY <1>2, <1>3, <1>5, <1>o, ShedIs
  <1>7. IsForget(f, c, Times)
    BY <1>6, ForgetIs DEF Sheds
  <1> HIDE DEF f
  <1>8. Kept(f) /\ f \in State
    BY <1>7 DEF IsForget
  <1>9. r = Marked(f, {}, Unborn, {}, f.missing) /\ f.missing \in SUBSET Dirs
    BY <1>1, <1>8 DEF State, Marked
  <1> HIDE DEF r
  <1>m. Marks(r, f, {}, Unborn, {}, f.missing)
    BY <1>8, <1>9, MarkedIs
  <1>10. /\ r \in State /\ Kept(r) /\ r.conns = f.conns /\ r.missing = f.missing
         /\ r.short = f.short /\ r.out = f.out
    BY <1>m DEF Marks
  <1>11. Sheds(r, s, due, o) /\ \A k \in Times : r.conns[k] = NoConn
    <2>1. f.conns = c.conns /\ f.missing = c.missing /\ f.short = c.short /\ f.out = c.out
      BY <1>7 DEF IsForget, Ledgers
    <2> QED
      BY <2>1, <1>6, <1>10 DEF Sheds
  <1> QED
    BY <1>11 DEF r, o

(* Shutdown keeps the books.                                               *)
LEMMA ShutdownIs ==
  ASSUME NEW s, Kept(s)
  PROVE  \E due : Sheds(Report(s, Waits(s), "sensor_shutdown"), s, due, "sensor_shutdown")
  <1> DEFINE o == "sensor_shutdown"
             due == Waits(s)
             r == Report(s, due, o)
  <1>1. o \in Outcomes
    BY DEF Outcomes
  <1>2. IsReport(r, s, due, o)
    BY <1>1, ReportIs
  <1> HIDE DEF r, o
  <1>e. Emptied(r.conns, s.conns, due)
    BY <1>1, <1>2, ReportEmpties
  <1>3. Sheds(r, s, due, o)
    BY <1>2, <1>e DEF IsReport, Sheds, Frame
  <1> QED
    BY <1>3 DEF r, o

(* What HoldEarly does.                                                    *)
IsHold(r, s, k) ==
    /\ r \in State /\ Kept(r) /\ Ledgers(r, s) /\ r.short = s.short /\ r.conns = s.conns
    /\ r.prefix = s.prefix /\ r.known = s.known /\ r.born = s.born
    /\ r.last = s.last /\ r.missing = s.missing

(* Server frames are charged when they are held.                           *)
LEMMA HoldIs ==
  ASSUME NEW s, Kept(s), NEW k \in Times, NEW c, NEW t \in Times
  PROVE  IsHold(HoldEarly(s, k, c, t), s, k)
  <1> DEFINE r == HoldEarly(s, k, c, t)
             e == IF s.early[k] = NoEarly THEN [len |-> 0, seen |-> t, part |-> FALSE]
                  ELSE s.early[k]
             n == IF e.len + 1 > MaxEarly \/ Full(s, 1) THEN 0 ELSE 1
             pt == e.part \/ (n = 1 /\ c.piece = "tail1")
             v == [len |-> e.len + n, seen |-> t, part |-> pt]
             es == [s.early EXCEPT ![k] = v]
             tt == s.total + n
  <1>0. /\ s \in State /\ Sound(s) /\ Accounts(s) /\ s.total \in Int /\ Numbered(s)
        /\ s.total <= MaxTotal /\ (\A j \in Times : Good(s.conns[j]))
        /\ s.early \in [Times -> Held \cup {NoEarly}]
    BY DEF Kept, Sound, State, Memory, EarlyMap
  <1>1. r = [s EXCEPT !.early = es, !.total = @ + n]
    BY DEF HoldEarly
  <1>2. e \in Held /\ e.len \in Nat /\ e.len = EarlySize(s.early[k])
    BY <1>0 DEF Held, EarlySize
  <1>3. n \in 0..1 /\ (n = 1 => ~Full(s, 1))
    OBVIOUS
  <1>p. pt \in BOOLEAN
    BY <1>2 DEF Held
  <1> HIDE DEF e, n, pt
  <1>4. v \in Held /\ v # NoEarly /\ EarlySize(v) = EarlySize(s.early[k]) + n
    BY <1>2, <1>3, <1>p DEF Held, EarlySize, NoEarly
  <1> HIDE DEF v
  <1>5. es \in EarlyMap /\ es[k] = v /\ \A j \in Times \ {k} : es[j] = s.early[j]
    BY <1>0, <1>4 DEF EarlyMap
  <1>6. tt \in Int /\ tt <= MaxTotal
    BY <1>0, <1>3, Constants DEF Full
  <1>7. r = [s EXCEPT !.early = es, !.total = tt]
    BY <1>1
  <1> HIDE DEF es, tt, r
  <1>8. r \in State
    BY <1>0, <1>5, <1>6, <1>7, Zenon DEF State
  <1>9. /\ r.prefix = s.prefix /\ r.known = s.known /\ r.born = s.born
        /\ r.last = s.last /\ r.missing = s.missing /\ r.early = es
        /\ r.short = s.short /\ r.conns = s.conns /\ r.total = tt /\ Ledgers(r, s)
    BY <1>0, <1>7 DEF State, Ledgers
  <1>10. /\ Sizes(r) = Sizes(s) /\ Parsing(r) = Parsing(s) /\ Waits(r) = Waits(s)
         /\ Earlies(r)[k] = Earlies(s)[k] + n
         /\ \A j \in Times \ {k} : Earlies(r)[j] = Earlies(s)[j]
    BY <1>4, <1>5, <1>9 DEF Sizes, Parsing, Earlies, Waits
  <1>11. /\ \A j \in Times : Earlies(s)[j] \in Nat
         /\ Total(Sizes(s), Slots) \in Nat /\ Total(Parsing(s), Times) \in Nat
         /\ Total(Earlies(s), Times) \in Nat
    BY <1>0, SizesType
  <1>12. Total(Earlies(r), Times) = Total(Earlies(s), Times) + n
    <2>1. Earlies(r)[k] \in Nat
      BY <1>3, <1>10, <1>11
    <2>2. Total(Earlies(r), Times) = Total(Earlies(s), Times) - Earlies(s)[k] + Earlies(r)[k]
      BY <2>1, <1>10, <1>11, Finite, TotalChange
    <2> QED
      BY <2>1, <2>2, <1>3, <1>10, <1>11
  <1>13. Memory(r)
    <2> DEFINE T == Total(Sizes(s), Slots)
               U == Total(Parsing(s), Times)
               V == Total(Earlies(s), Times)
               V2 == Total(Earlies(r), Times)
    <2>1. /\ T \in Nat /\ U \in Nat /\ V \in Nat /\ s.total = T + U + V
          /\ V2 = V + n /\ tt = s.total + n
      BY <1>0, <1>11, <1>12 DEF Sound, Memory, tt
    <2> HIDE DEF T, U, V, V2
    <2>2. tt = T + U + V2
      BY <2>1, <1>0, <1>3
    <2> QED
      BY <2>2, <1>6, <1>9, <1>10 DEF Memory, T, U, V2
  <1>14. Kept(r)
    BY <1>0, <1>8, <1>9, <1>10, <1>13 DEF Kept, Sound, Numbered, Ledgers, Accounts
  <1> QED
    BY <1>8, <1>9, <1>14 DEF IsHold, r

(* The preface opens a connection: the server frames held for it go        *)
(* through the parser, then the chunk.                                     *)
LEMMA OpenIs ==
  ASSUME NEW s, Kept(s), NEW k \in Times, NEW c \in Openings, NEW t \in Times,
         NEW r \in Open(s, k, c, t)
  PROVE  \E x, y : /\ Kept(x) /\ Kept(y) /\ IsForget(y, x, {k})
                   /\ x = s \/ \E u \in HeldFrames, n \in Nat \ {0} :
                                  x \in Process(s, k, "resp", u, "captured", n, t)
                   /\ r \in Process(y, k, "req", c, "captured", 1, t)
                   /\ IsProcess(r, y, k, "req", t)
                   /\ x = s \/ IsProcess(x, s, k, "resp", t)
  <1> DEFINE held == s.early[k]
             p == IF held.part THEN "tail1" ELSE "whole"
             settings == [c EXCEPT !.what = "settings", !.piece = p]
             fed == IF EarlySize(held) = 0 THEN {s}
                    ELSE Process(s, k, "resp", settings, "captured", held.len, t)
  <1>p. p \in {"whole", "tail1"}
    OBVIOUS
  <1>q. r \in UNION {Process(ForgetEarly(x, {k}), k, "req", c, "captured", 1, t) : x \in fed}
    BY DEF Open
  <1> HIDE DEF p
  <1>1. settings \in HeldFrames
    BY <1>p DEF Openings, Prefatory, Settings, HeldFrames
  <1>2. settings \in Chunk /\ c \in Chunk
    BY <1>1 DEF Chunk, Openings, HeldFrames
  <1>3. held \in Held \cup {NoEarly}
    BY DEF Kept, Sound, State, EarlyMap
  <1>4. EarlySize(held) # 0 => held.len \in Nat \ {0}
    BY <1>3 DEF EarlySize, Held
  <1> HIDE DEF settings
  <1>6. PICK x \in fed : r \in Process(ForgetEarly(x, {k}), k, "req", c, "captured", 1, t)
    BY <1>q
  <1>7. /\ x = s \/ (/\ \E n \in Nat \ {0} : x \in Process(s, k, "resp", settings, "captured", n, t)
                     /\ IsProcess(x, s, k, "resp", t))
        /\ Kept(x)
    <2>1. CASE EarlySize(held) = 0
      BY <2>1, <1>6
    <2>2. CASE EarlySize(held) # 0
      <3>1. x \in Process(s, k, "resp", settings, "captured", held.len, t)
        BY <2>2, <1>6
      <3>2. held.len \in Nat \ {0} /\ "resp" \in Dirs
        BY <2>2, <1>4 DEF Dirs
      <3> HIDE DEF held
      <3>3. IsProcess(x, s, k, "resp", t)
        BY <3>1, <3>2, <1>2, ProcessIs
      <3> QED
        BY <3>1, <3>2, <3>3 DEF IsProcess
    <2> QED
      BY <2>1, <2>2
  <1> DEFINE y == ForgetEarly(x, {k})
  <1>8. IsForget(y, x, {k})
    BY <1>7, ForgetIs
  <1>9. r \in Process(y, k, "req", c, "captured", 1, t)
    BY <1>6
  <1>10. Kept(y)
    BY <1>8 DEF IsForget
  <1> HIDE DEF y
  <1>11. IsProcess(r, y, k, "req", t)
    <2>1. "req" \in Dirs /\ 1 \in Nat \ {0}
      BY DEF Dirs
    <2> QED
      BY <2>1, <1>2, <1>9, <1>10, ProcessIs
  <1> QED
    BY <1>1, <1>7, <1>8, <1>9, <1>10, <1>11

(* State q is s after a possible eviction, f is q as the chunk meets it.   *)
Swept(q, s) ==
    /\ Kept(q) /\ q.missing = s.missing /\ q.short = s.short
    /\ \/ q.conns = s.conns /\ q.out = s.out
       \/ \E due : Sheds(q, s, due, "no_response_observed")

Met(f, q, dir, cut) ==
    /\ Kept(f) /\ f.conns = q.conns /\ f.early = q.early
    /\ f.missing = q.missing \cup (IF cut THEN {dir} ELSE {})
    /\ f.short = q.short /\ f.out = q.out /\ f.last = q.last

(* The chunk a connection begins with.                                     *)
Opens(c) == c \in Prefatory /\ c.piece \in {"whole", "token1", "magic2"}

(* What handle_event does with a chunk, by its arms.                       *)
Arms(r, f, k, dir, c, fate, t) ==
    \/ f.conns[k] # NoConn /\ fate = "truncated" /\ r = Discard(f, k)
    \/ f.conns[k] # NoConn /\ fate # "truncated" /\ r \in Process(f, k, dir, c, fate, 1, t)
    \/ f.conns[k] = NoConn /\ c \in Prefatory /\ c.piece = "magic1" /\ r = f
    \/ f.conns[k] = NoConn /\ c.what = "settings" /\ dir = "resp" /\ r = HoldEarly(f, k, c, t)
    \/ f.conns[k] = NoConn /\ dir = "req" /\ Opens(c) /\ r \in Open(f, k, c, t)
    \/ f.conns[k] = NoConn /\ Marks(r, f, f.known, f.born, f.prefix, f.missing \cup {dir})

(* A chunk meets the connection after a sweep, and takes one of the arms.  *)
LEMMA HandleEventIs ==
  ASSUME NEW s, Kept(s), NEW dir \in Dirs, NEW c \in Chunk, NEW fate,
         NEW over \in Times \cup {Unborn}, NEW t \in Times,
         NEW r \in HandleEvent(s, dir, c, fate, over, t)
  PROVE  \E k \in Times : \E q, f, cut : /\ Swept(q, s) /\ Met(f, q, dir, cut)
                                         /\ cut = Severed(q, k, dir, c)
                                         /\ Arms(r, f, k, dir, c, fate, t)
  <1> DEFINE k == IF s.born = Unborn THEN t ELSE s.born
             b == [s EXCEPT !.born = k]
             truncated == fate = "truncated"
             q == EvictStale(b, over, t)
             cut == Severed(q, k, dir, c)
             tm == IF cut THEN {dir} ELSE {}
             met == [q EXCEPT !.known = @ \cup {k}, !.missing = @ \cup tm]
             isKnown == met.conns[k] # NoConn
             held == dir = "req" /\ k \in met.prefix
             free == IF dir = "req" THEN [met EXCEPT !.prefix = @ \ {k}] ELSE met
             starts == /\ ~isKnown /\ dir = "req"
                       /\ \/ c.what = "preface" /\ c.piece \in {"whole", "token1"}
                          \/ c.piece = "magic2" /\ held
  <1>0. s \in State /\ s.born \in Times \cup {Unborn}
    BY DEF Kept, Sound, State
  <1>1. k \in Times
    BY <1>0
  <1> HIDE DEF k
  <1>2. b = Marked(s, s.known, k, s.prefix, s.missing)
        /\ s.known \in SUBSET Times /\ s.prefix \in SUBSET Times /\ s.missing \in SUBSET Dirs
    BY <1>0 DEF Marked, State
  <1>3. Marks(b, s, s.known, k, s.prefix, s.missing)
    BY <1>1, <1>2, MarkedIs
  <1> HIDE DEF b
  <1>4. /\ Kept(b) /\ b.conns = s.conns /\ b.missing = s.missing /\ b.short = s.short
        /\ b.out = s.out
    BY <1>3 DEF Marks
  <1>u. truncated <=> fate = "truncated"
    OBVIOUS
  <1>5. Kept(q) /\ (q = b \/ \E due : Sheds(q, b, due, "no_response_observed"))
    BY <1>4, EvictIs
  <1> HIDE DEF q
  <1>6. Swept(q, s)
    <2>1. CASE q = b
      BY <2>1, <1>4, <1>5 DEF Swept
    <2>2. CASE q # b
      <3>1. PICK due : Sheds(q, b, due, "no_response_observed")
        BY <2>2, <1>5
      <3>2. Waits(b) = Waits(s) /\ EventsOf(b, due, "no_response_observed")
                                    = EventsOf(s, due, "no_response_observed")
        BY <1>4 DEF Waits, EventsOf, EventOf
      <3>3. Sheds(q, s, due, "no_response_observed")
        BY <3>1, <3>2, <1>4 DEF Sheds
      <3>4. q.missing = s.missing /\ q.short = s.short
        BY <3>3 DEF Sheds
      <3> QED
        BY <3>3, <3>4, <1>5 DEF Swept
    <2> QED
      BY <2>1, <2>2
  <1>7. /\ q \in State /\ q.known \cup {k} \in SUBSET Times /\ q.born \in Times \cup {Unborn}
        /\ q.prefix \in SUBSET Times /\ q.missing \cup tm \in SUBSET Dirs
        /\ met = Marked(q, q.known \cup {k}, q.born, q.prefix, q.missing \cup tm)
    BY <1>1, <1>5 DEF Kept, Sound, State, Marked
  <1> DEFINE kn == q.known \cup {k}
             ms == q.missing \cup tm
  <1> HIDE DEF kn, ms
  <1>8. Marks(met, q, kn, q.born, q.prefix, ms)
    BY <1>5, <1>7, MarkedIs DEF kn, ms
  <1> HIDE DEF met
  <1>9. Met(met, q, dir, cut)
    BY <1>8 DEF Marks, Met, ms
  <1>10. \E pr \in SUBSET Times : Marks(free, met, met.known, met.born, pr, met.missing)
    <2>1. /\ met \in State /\ Kept(met) /\ met.known \in SUBSET Times
          /\ met.born \in Times \cup {Unborn}
          /\ met.prefix \in SUBSET Times /\ met.missing \in SUBSET Dirs
      BY <1>8 DEF Marks, State
    <2> DEFINE pr == IF dir = "req" THEN met.prefix \ {k} ELSE met.prefix
    <2>2. free = Marked(met, met.known, met.born, pr, met.missing)
      BY <2>1 DEF Marked, State
    <2>3. pr \in SUBSET Times
      BY <2>1
    <2> HIDE DEF pr, free
    <2>4. Marks(free, met, met.known, met.born, pr, met.missing)
      BY <2>1, <2>2, <2>3, MarkedIs
    <2> QED
      BY <2>3, <2>4
  <1>11. Met(free, q, dir, cut) /\ free.conns = met.conns /\ free \in State /\ Kept(free)
    BY <1>9, <1>10 DEF Met, Marks
  <1>c. /\ c.piece = "magic1" => c.what = "preface"
        /\ c.piece = "magic2" => c.what = "preface"
        /\ c.what = "preface" => c \in Prefatory
    BY DEF Chunk, Frames, Openings, Prefatory, Settings, PieceNames
  <1>d. dir = "req" \/ dir = "resp"
    BY DEF Dirs
  <1> DEFINE g1 == ~isKnown /\ c.piece = "magic1" /\ ~held
             g2 == /\ ~isKnown /\ dir = "resp"
                   /\ c.what = "settings" /\ c.piece # "tail2" /\ fate # "oversized"
  <1>h. r \in CASE isKnown /\ truncated -> {Discard(met, k)}
                [] isKnown /\ ~truncated -> Process(free, k, dir, c, fate, 1, t)
                [] g1 -> {[free EXCEPT !.prefix = @ \cup {k}]}
                [] g2 -> {HoldEarly(free, k, c, t)}
                [] starts -> Open(free, k, c, t)
                [] OTHER -> {[free EXCEPT !.missing = @ \cup {dir}]}
    <2>1. r \in Route(Meet(q, k, dir, c), k, dir, c, fate, t)
      BY DEF HandleEvent, k, b, q
    <2>2. Meet(q, k, dir, c) = met
      BY DEF Meet, met
    <2>3. r \in Route(met, k, dir, c, fate, t)
      BY <2>1, <2>2
    <2> QED
      BY <2>3 DEF Route
  <1>x. ~(isKnown /\ g1) /\ ~(isKnown /\ g2) /\ ~(isKnown /\ starts)
        /\ ~(g1 /\ g2) /\ ~(g1 /\ starts) /\ ~(g2 /\ starts)
    BY <1>c, <1>d
  <1>y. starts => dir = "req" /\ Opens(c)
    BY <1>c DEF Opens
  <1>z. /\ g1 => c \in Prefatory /\ c.piece = "magic1"
        /\ g2 => c.what = "settings" /\ dir = "resp"
    BY <1>c
  <1>k. isKnown <=> free.conns[k] # NoConn
    BY <1>11
  <1>m. isKnown <=> met.conns[k] # NoConn
    OBVIOUS
  <1> HIDE DEF isKnown, starts, g1, g2, free, held, cut, truncated
  <1>12. CASE isKnown /\ truncated
    <2>1. r = Discard(met, k)
      BY <1>12, <1>h, <1>x
    <2>2. Arms(r, met, k, dir, c, fate, t)
      BY <2>1, <1>12, <1>m, <1>u DEF Arms
    <2> QED
      BY <2>2, <1>1, <1>6, <1>9 DEF cut
  <1>13. CASE isKnown /\ ~truncated
    <2>1. r \in Process(free, k, dir, c, fate, 1, t)
      BY <1>13, <1>h, <1>x
    <2>2. Arms(r, free, k, dir, c, fate, t)
      BY <2>1, <1>13, <1>k, <1>u DEF Arms
    <2> QED
      BY <2>2, <1>1, <1>6, <1>11 DEF cut
  <1>14. CASE g1
    <2> DEFINE pr == free.prefix \cup {k}
    <2>1. r = [free EXCEPT !.prefix = pr]
      BY <1>14, <1>h, <1>x
    <2>2. r = Marked(free, free.known, free.born, pr, free.missing)
          /\ free.known \in SUBSET Times /\ free.born \in Times \cup {Unborn}
          /\ pr \in SUBSET Times /\ free.missing \in SUBSET Dirs
      BY <2>1, <1>1, <1>11 DEF Marked, State
    <2> HIDE DEF pr
    <2>3. Marks(r, free, free.known, free.born, pr, free.missing)
      BY <2>2, <1>11, MarkedIs
    <2>4. Met(r, q, dir, cut) /\ r.conns = free.conns
      BY <2>3, <1>11 DEF Marks, Met
    <2>5. Arms(r, r, k, dir, c, fate, t)
      BY <2>4, <1>14, <1>k, <1>x, <1>z DEF Arms
    <2> QED
      BY <2>4, <2>5, <1>1, <1>6 DEF cut
  <1>15. CASE g2
    <2>1. r = HoldEarly(free, k, c, t)
      BY <1>15, <1>h, <1>x
    <2>2. Arms(r, free, k, dir, c, fate, t)
      BY <2>1, <1>15, <1>k, <1>x, <1>z DEF Arms
    <2> QED
      BY <2>2, <1>1, <1>6, <1>11 DEF cut
  <1>16. CASE starts
    <2>1. r \in Open(free, k, c, t)
      BY <1>16, <1>h, <1>x
    <2>2. Arms(r, free, k, dir, c, fate, t)
      BY <2>1, <1>16, <1>k, <1>x, <1>y DEF Arms
    <2> QED
      BY <2>2, <1>1, <1>6, <1>11 DEF cut
  <1>17. CASE ~isKnown /\ ~g1 /\ ~g2 /\ ~starts
    <2> DEFINE mi == free.missing \cup {dir}
    <2>1. r = [free EXCEPT !.missing = mi]
      BY <1>17, <1>h
    <2>2. r = Marked(free, free.known, free.born, free.prefix, mi)
          /\ free.known \in SUBSET Times /\ free.born \in Times \cup {Unborn}
          /\ free.prefix \in SUBSET Times /\ mi \in SUBSET Dirs
      BY <2>1, <1>11 DEF Marked, State
    <2> HIDE DEF mi
    <2>3. Marks(r, free, free.known, free.born, free.prefix, mi)
      BY <2>2, <1>11, MarkedIs
    <2>4. Arms(r, free, k, dir, c, fate, t)
      BY <2>3, <1>17, <1>k DEF Arms, mi
    <2> QED
      BY <2>4, <1>1, <1>6, <1>11 DEF cut
  <1> QED
    BY <1>12, <1>13, <1>14, <1>15, <1>16, <1>17

(* A chunk keeps the books.                                                *)
LEMMA HandledKept ==
  ASSUME NEW s, Kept(s), NEW dir \in Dirs, NEW c \in Chunk, NEW fate,
         NEW over \in Times \cup {Unborn}, NEW t \in Times,
         NEW r \in HandleEvent(s, dir, c, fate, over, t)
  PROVE  Kept(r)
  <1>0. \E k \in Times : \E q, f, cut : /\ Swept(q, s) /\ Met(f, q, dir, cut)
                                        /\ Arms(r, f, k, dir, c, fate, t)
    BY HandleEventIs
  <1>k. PICK k \in Times : \E q, f, cut : /\ Swept(q, s) /\ Met(f, q, dir, cut)
                                     /\ Arms(r, f, k, dir, c, fate, t)
    BY <1>0
  <1>1. PICK q, f, cut : /\ Swept(q, s) /\ Met(f, q, dir, cut)
                    /\ Arms(r, f, k, dir, c, fate, t)
    BY <1>k
  <1>2. Kept(f)
    BY <1>1 DEF Met
  <1>3. CASE r = Discard(f, k)
    BY <1>2, <1>3, DiscardIs DEF IsDiscard
  <1>4. CASE r \in Process(f, k, dir, c, fate, 1, t)
    <2>1. 1 \in Nat \ {0}
      OBVIOUS
    <2>2. IsProcess(r, f, k, dir, t)
      BY <2>1, <1>2, <1>4, ProcessIs
    <2> QED
      BY <2>2 DEF IsProcess
  <1>5. CASE r = HoldEarly(f, k, c, t)
    BY <1>2, <1>5, HoldIs DEF IsHold
  <1>6. CASE c \in Prefatory /\ r \in Open(f, k, c, t)
    <2>1. c \in Openings
      BY <1>6 DEF Openings
    <2>2. PICK y : IsProcess(r, y, k, "req", t)
      BY <2>1, <1>2, <1>6, OpenIs
    <2> QED
      BY <2>2 DEF IsProcess
  <1>7. CASE Marks(r, f, f.known, f.born, f.prefix, f.missing \cup {dir})
    BY <1>7 DEF Marks
  <1> QED
    BY <1>1, <1>2, <1>3, <1>4, <1>5, <1>6, <1>7 DEF Arms, Opens

-----------------------------------------------------------------------------
(* The peers and the wire.                                                 *)

Stages == [req : {"none", "open", "done"}, resp : {"none", "begun", "open", "done"},
           data : Nat, trailers : BOOLEAN]

(* The frames a peer sends.                                                *)
Heads(kind) == [what : {"headers"}, sid : Streams, kind : {kind}, end : BOOLEAN,
                piece : PieceNames]
Interims == [what : {"headers"}, sid : Streams, kind : {"interim", "promise"}, end : {FALSE},
             piece : {"whole"}]
Bodies == [what : {"data"}, sid : Streams, kind : {"plain"}, end : BOOLEAN, piece : {"whole"}]
Trailing == [what : {"headers"}, sid : Streams, kind : {"plain"}, end : {TRUE},
             piece : {"whole"}]
Resets == [what : {"reset"}, sid : Streams, kind : {"plain"}, end : {FALSE}, piece : {"whole"}]
Goaways == [what : {"goaway"}, sid : Streams, kind : {"plain"}, end : {FALSE},
            piece : {"whole"}]
ReqFrames == Heads("method") \cup Bodies \cup Trailing \cup Resets
RespFrames == Heads("status") \cup Interims \cup Bodies \cup Trailing \cup Resets \cup Goaways
Chunks(dir) == IF dir = "req" THEN Prefatory \cup ReqFrames ELSE Settings \cup RespFrames

(* The types of what is outside StreamState.                               *)
EnvType ==
    /\ now \in Times
    /\ running \in BOOLEAN
    /\ wire \in Seq(Chunks("req"))
    /\ rest \in [Dirs -> Chunk \cup {NoItem}]
    /\ \A d \in Dirs : rest[d] \in Chunks(d) \cup {NoItem}
    /\ sent \in [Streams -> Stages]
    /\ opened \in BOOLEAN
    /\ budget \in Nat
    /\ late \in SUBSET Streams

(* The peers send chunks.                                                  *)
LEMMA ChunksAre ==
  ASSUME NEW dir \in Dirs, NEW c \in Chunks(dir)
  PROVE  /\ c \in Chunk
         /\ c.what \in {"preface", "settings"} \/ (c \in Frames /\ c.sid \in Streams)
         /\ c.end \in BOOLEAN
  <1>1. ReqFrames \subseteq Frames /\ RespFrames \subseteq Frames
    BY DEF Frames, ReqFrames, RespFrames, Heads, Interims, Bodies, Trailing, Resets, Goaways,
           PieceNames, Kinds
  <1>2. c \in Prefatory \/ c \in Settings \/ c \in Frames
    BY <1>1 DEF Chunks
  <1>3. c \in Frames => c.sid \in Streams /\ c.end \in BOOLEAN
    BY DEF Frames
  <1>4. c \in Prefatory => c.what = "preface" /\ c.end \in BOOLEAN
    BY DEF Prefatory
  <1>5. c \in Settings => c.what = "settings" /\ c.end \in BOOLEAN
    BY DEF Settings
  <1> QED
    BY <1>2, <1>3, <1>4, <1>5 DEF Chunk, Openings

(* HEADERS frames may be split.                                            *)
LEMMA SplitIs ==
  ASSUME NEW kind, NEW i \in Streams, NEW e \in BOOLEAN, NEW f, NEW b
  PROVE  Split(Whole("headers", i, kind, e), f, b) \subseteq Heads(kind)
  <1> DEFINE c == Whole("headers", i, kind, e)
  <1>1. c \in Heads(kind)
    BY DEF Whole, Heads, PieceNames
  <1> HIDE DEF c
  <1>2. [c EXCEPT !.piece = "frame1"] \in Heads(kind) /\ [c EXCEPT !.piece = "block1"] \in Heads(kind)
    BY <1>1 DEF Heads, PieceNames
  <1> QED
    BY <1>1, <1>2 DEF Split, c

(* The peers send chunks.                                                  *)
LEMMA NextChunksAre ==
  ASSUME EnvType, NEW dir \in Dirs, NEW c \in NextChunks(dir)
  PROVE  c \in Chunks(dir)
  <1>0. rest[dir] \in Chunks(dir) \cup {NoItem}
    BY DEF EnvType
  <1>1. Prefaces \subseteq Prefatory
    <2>1. \A p \in PrefacePieces :
             [Whole("preface", 0, "none", FALSE) EXCEPT !.piece = p] \in Prefatory
      BY DEF Whole, Prefatory
    <2>2. Whole("preface", 0, "none", FALSE) \in Prefatory
      BY DEF Whole, Prefatory, PrefacePieces
    <2>3. "magic1" \in PrefacePieces /\ "token1" \in PrefacePieces
      BY DEF PrefacePieces
    <2> QED
      BY <2>1, <2>2, <2>3 DEF Prefaces
  <1>2. ASSUME NEW i \in Streams PROVE Requests(i) \subseteq ReqFrames
    <2>2. \A e \in BOOLEAN : Split(Whole("headers", i, "method", e), "req_frame", "req_block")
                            \subseteq ReqFrames
      BY SplitIs DEF ReqFrames
    <2>3. /\ Whole("data", i, "plain", TRUE) \in ReqFrames
          /\ Whole("headers", i, "plain", TRUE) \in ReqFrames
          /\ Whole("reset", i, "plain", FALSE) \in ReqFrames
      BY DEF ReqFrames, Whole, Bodies, Trailing, Resets
    <2>4. CASE sent[i].req = "none"
      BY <2>2, <2>4 DEF Requests
    <2>5. CASE sent[i].req = "open"
      BY <2>3, <2>5 DEF Requests, Extra
    <2>6. CASE sent[i].req \notin {"none", "open"}
      BY <2>6 DEF Requests
    <2> QED
      BY <2>4, <2>5, <2>6
  <1>3. ASSUME NEW i \in Streams PROVE Responses(i) \subseteq RespFrames
    <2>1. \A e \in BOOLEAN : Whole("data", i, "plain", e) \in RespFrames
      BY DEF RespFrames, Whole, Bodies
    <2>2. \A e \in BOOLEAN : Split(Whole("headers", i, "status", e), "resp_frame", "resp_block")
                            \subseteq RespFrames
      BY SplitIs DEF RespFrames
    <2>3. /\ Whole("headers", i, "plain", TRUE) \in RespFrames
          /\ Whole("headers", i, "interim", FALSE) \in RespFrames
          /\ Whole("headers", i, "promise", FALSE) \in RespFrames
          /\ Whole("reset", i, "plain", FALSE) \in RespFrames
          /\ \A j \in Streams : Whole("goaway", j, "plain", FALSE) \in RespFrames
      BY DEF RespFrames, Whole, Trailing, Interims, Resets, Goaways
    <2> DEFINE r1 == sent[i].req
               r2 == sent[i].resp
               A == UNION {Split(Whole("headers", i, "status", e), "resp_frame", "resp_block") :
                             e \in BOOLEAN}
               B == IF r2 = "begun" THEN {}
                    ELSE Extra("interim", {Whole("headers", i, "interim", FALSE)})
                         \cup Extra("promise", {Whole("headers", i, "promise", FALSE)})
                         \cup Extra("goaway", {Whole("goaway", j, "plain", FALSE) :
                                                 j \in {j \in Streams : j < i}})
               C == Extra("data", {Whole("data", i, "plain", e) :
                                     e \in IF sent[i].data < MaxBody THEN BOOLEAN ELSE {TRUE}})
                    \cup Extra("trailers", {Whole("headers", i, "plain", TRUE)})
                    \cup Extra("reset", {Whole("reset", i, "plain", FALSE)})
    <2>4. A \subseteq RespFrames
      BY <2>2
    <2>5. B \subseteq RespFrames
      BY <2>3 DEF Extra
    <2>6. C \subseteq RespFrames
      BY <2>1, <2>3 DEF Extra
    <2>7. Responses(i) = CASE r1 = "none" -> {}
                           [] r1 # "none" /\ r2 \in {"none", "begun"} -> A \cup B
                           [] r1 # "none" /\ r2 = "open" -> C
                           [] OTHER -> {}
      BY DEF Responses
    <2> HIDE DEF A, B, C, r1, r2
    <2> QED
      BY <2>4, <2>5, <2>6, <2>7
  <1>4. Connecting \subseteq Settings
    <2> DEFINE w == Whole("settings", 0, "none", FALSE)
    <2>1. w \in Settings
      BY DEF Whole, Settings
    <2>2. Connecting \subseteq {w, [w EXCEPT !.piece = "tail1"]}
      BY DEF Connecting
    <2>3. [w EXCEPT !.piece = "tail1"] \in Settings
      BY DEF Whole, Settings
    <2> HIDE DEF w
    <2> QED
      BY <2>1, <2>2, <2>3
  <1>5. CASE rest[dir] # NoItem
    BY <1>0, <1>5 DEF NextChunks
  <1>6. CASE rest[dir] = NoItem /\ dir = "req"
    <2>1. c \in IF opened THEN UNION {Requests(i) : i \in Streams} ELSE Prefaces
      BY <1>6 DEF NextChunks
    <2> QED
      BY <2>1, <1>1, <1>2, <1>6 DEF Chunks
  <1>7. CASE rest[dir] = NoItem /\ dir # "req"
    <2>1. c \in (IF \A i \in Streams : sent[i].req = "none"
                 THEN Extra("settings", Connecting) ELSE {})
                \cup UNION {Responses(i) : i \in Streams}
      BY <1>7 DEF NextChunks
    <2> QED
      BY <2>1, <1>3, <1>4, <1>7 DEF Chunks, Extra
  <1> QED
    BY <1>5, <1>6, <1>7

(* A peer's step keeps the types.                                          *)
LEMMA EmitType ==
  ASSUME EnvType, NEW dir \in Dirs, NEW c \in Chunks(dir), NEW cost \in Nat, budget > cost,
         Emit(dir, c, cost)
  PROVE  /\ rest' \in [Dirs -> Chunk \cup {NoItem}]
         /\ \A d \in Dirs : rest'[d] \in Chunks(d) \cup {NoItem}
         /\ sent' \in [Streams -> Stages]
         /\ opened' \in BOOLEAN /\ budget' \in Nat
  <1>1. budget' \in Nat
    BY DEF Emit, EnvType
  <1>2. opened' \in BOOLEAN
    BY DEF Emit, EnvType
  <1>3. c.piece \in DOMAIN Second => [c EXCEPT !.piece = Second[c.piece]] \in Chunks(dir)
    <2>1. DOMAIN Second = {"frame1", "block1", "magic1", "token1", "tail1"}
          /\ Second["frame1"] = "frame2" /\ Second["block1"] = "block2"
          /\ Second["magic1"] = "magic2" /\ Second["token1"] = "token2"
          /\ Second["tail1"] = "tail2"
      BY DEF Second
    <2> DEFINE p == Second[c.piece]
    <2> SUFFICES ASSUME c.piece \in DOMAIN Second PROVE [c EXCEPT !.piece = p] \in Chunks(dir)
      OBVIOUS
    <2>2. ASSUME NEW kind, c \in Heads(kind) PROVE [c EXCEPT !.piece = p] \in Heads(kind)
      <3>1. p \in PieceNames
        BY <2>1, <2>2 DEF Heads, PieceNames
      <3> HIDE DEF p
      <3> QED
        BY <2>2, <3>1 DEF Heads
    <2>3. CASE c \in Prefatory
      <3>1. p \in PrefacePieces
        BY <2>1, <2>3 DEF Prefatory, PrefacePieces
      <3> HIDE DEF p
      <3>2. [c EXCEPT !.piece = p] \in Prefatory
        BY <2>3, <3>1 DEF Prefatory
      <3>3. c \notin Settings /\ c \notin RespFrames
        BY <2>3 DEF Prefatory, Settings, RespFrames, Heads, Interims, Bodies, Trailing, Resets,
                    Goaways
      <3> QED
        BY <3>2, <3>3 DEF Chunks
    <2>s. CASE c \in Settings
      <3>1. p \in {"whole", "tail1", "tail2"}
        BY <2>1, <2>s DEF Settings
      <3> HIDE DEF p
      <3>2. [c EXCEPT !.piece = p] \in Settings
        BY <2>s, <3>1 DEF Settings
      <3>3. c \notin Prefatory /\ c \notin ReqFrames
        BY <2>s DEF Prefatory, Settings, ReqFrames, Heads, Bodies, Trailing, Resets
      <3> QED
        BY <3>2, <3>3 DEF Chunks
    <2>4. c \notin Interims /\ c \notin Bodies /\ c \notin Trailing
          /\ c \notin Resets /\ c \notin Goaways
      BY <2>1 DEF Interims, Bodies, Trailing, Resets, Goaways
    <2> HIDE DEF p
    <2> QED
      BY <2>2, <2>3, <2>s, <2>4 DEF Chunks, ReqFrames, RespFrames
  <1>4. /\ rest' \in [Dirs -> Chunk \cup {NoItem}]
        /\ \A d \in Dirs : rest'[d] \in Chunks(d) \cup {NoItem}
    <2> DEFINE v == IF c.piece \in DOMAIN Second THEN [c EXCEPT !.piece = Second[c.piece]]
                    ELSE NoItem
    <2>1. rest' = [rest EXCEPT ![dir] = v]
      BY DEF Emit
    <2>2. v \in Chunks(dir) \cup {NoItem}
      BY <1>3
    <2> HIDE DEF v
    <2>3. v \in Chunk \cup {NoItem}
      BY <2>2, ChunksAre
    <2> QED
      BY <2>1, <2>2, <2>3 DEF EnvType
  <1>5. sent' \in [Streams -> Stages]
    <2> DEFINE stage == IF c.end THEN "done" ELSE "open"
               id == c.sid
    <2>0. sent \in [Streams -> Stages]
      BY DEF EnvType
    <2>1. sent' = sent \/ sent' = Stage(dir, c)
      BY DEF Emit
    <2>2. CASE c.what \in {"preface", "settings"}
      <3>0. c.kind = "none"
        BY <2>2 DEF Chunks, ReqFrames, RespFrames, Heads, Interims, Bodies, Trailing, Resets,
                    Goaways, Prefatory, Settings
      <3>1. Stage(dir, c) = sent
        BY <2>2, <3>0 DEF Stage
      <3> QED
        BY <2>0, <2>1, <3>1
    <2>3. CASE c.what \notin {"preface", "settings"}
      <3>0. /\ c.end \in BOOLEAN /\ c \in Frames /\ id \in Streams
        BY <2>3, ChunksAre
      <3>1. /\ c \in Frames /\ id \in Streams
            /\ c.what \in {"headers", "data", "reset", "goaway"}
        BY <3>0 DEF Frames
      <3>s. stage \in {"open", "done"}
        OBVIOUS
      <3>x. /\ c.what \in {"goaway", "reset"} => c.kind \notin {"interim", "promise"}
            /\ c.kind \in {"interim", "promise"} => dir # "req" /\ c.what = "headers"
        BY <2>3 DEF Chunks, ReqFrames, RespFrames, Heads, Interims, Bodies, Trailing, Resets,
                    Goaways, Prefatory, Settings
      <3>2. CASE c.what = "goaway"
        <4>1. Stage(dir, c) = [i \in Streams |-> IF i > c.sid /\ sent[i].req # "none"
                               THEN [sent[i] EXCEPT !.resp = "done"] ELSE sent[i]]
          BY <3>2, <3>x DEF Stage
        <4>2. \A i \in Streams : [sent[i] EXCEPT !.resp = "done"] \in Stages
          BY <2>0 DEF Stages
        <4> QED
          BY <2>0, <2>1, <4>1, <4>2
      <3>3. CASE c.what # "goaway" /\ c.kind \in {"interim", "promise"}
        <4>1. Stage(dir, c) = [sent EXCEPT ![id].resp = "begun"]
          BY <2>3, <3>3, <3>x DEF Stage
        <4>2. [sent[id] EXCEPT !.resp = "begun"] \in Stages
          BY <2>0, <3>1, <3>s DEF Stages
        <4> QED
          BY <2>0, <2>1, <4>1, <4>2
      <3>4. CASE c.what # "goaway" /\ c.kind \notin {"interim", "promise"} /\ c.what = "reset"
        <4>1. Stage(dir, c) = [sent EXCEPT ![id].req = "done", ![id].resp = "done"]
          BY <2>3, <3>4, <3>x DEF Stage
        <4>2. ASSUME NEW u \in Stages PROVE [u EXCEPT !.req = "done", !.resp = "done"] \in Stages
          BY DEF Stages
        <4>3. Stage(dir, c) = [sent EXCEPT ![id] = [sent[id] EXCEPT !.req = "done", !.resp = "done"]]
          BY <2>0, <3>1, <4>1
        <4>4. sent[id] \in Stages
          BY <2>0, <3>1
        <4> DEFINE v == [sent[id] EXCEPT !.req = "done", !.resp = "done"]
        <4>5. v \in Stages
          BY <4>2, <4>4, Zenon
        <4>6. Stage(dir, c) = [sent EXCEPT ![id] = v]
          BY <4>3
        <4> HIDE DEF v
        <4> QED
          BY <2>0, <2>1, <4>5, <4>6
      <3>5. CASE c.what \in {"headers", "data"} /\ c.kind \notin {"interim", "promise"} /\ dir = "req"
        <4>1. Stage(dir, c) = [sent EXCEPT ![id].req = stage]
          BY <2>3, <3>5 DEF Stage
        <4>2. [sent[id] EXCEPT !.req = stage] \in Stages
          BY <2>0, <3>1, <3>s DEF Stages
        <4> QED
          BY <2>0, <2>1, <4>1, <4>2
      <3>6. CASE c.what \in {"headers", "data"} /\ c.kind \notin {"interim", "promise"} /\ dir # "req"
        <4> DEFINE n == sent[id].data + (IF c.what = "data" THEN 1 ELSE 0)
                   b == sent[id].trailers \/ (c.what = "headers" /\ c.kind = "plain")
        <4>1. Stage(dir, c) = [sent EXCEPT ![id].resp = stage, ![id].data = n, ![id].trailers = b]
          BY <2>0, <2>3, <3>1, <3>6 DEF Stage
        <4>2. n \in Nat /\ b \in BOOLEAN /\ sent[id] \in Stages
          BY <2>0, <3>1, <3>s DEF Stages
        <4> HIDE DEF n, b, stage
        <4>3. [sent[id] EXCEPT !.resp = stage, !.data = n, !.trailers = b] \in Stages
          BY <4>2, <3>s DEF Stages
        <4>4. Stage(dir, c) = [sent EXCEPT ![id] = [sent[id] EXCEPT !.resp = stage, !.data = n, !.trailers = b]]
          BY <2>0, <3>1, <4>1
        <4> QED
          BY <2>0, <2>1, <4>3, <4>4
      <3> QED
        BY <3>1, <3>2, <3>3, <3>4, <3>5, <3>6
    <2> QED
      BY <2>2, <2>3
  <1> QED
    BY <1>1, <1>2, <1>4, <1>5

-----------------------------------------------------------------------------
(* The invariant.                                                          *)

(* The types, and the books of StreamState.                                *)
Books == EnvType /\ Kept(st)

(* Nothing is held at first.                                               *)
LEMMA BooksInit ==
  ASSUME Init
  PROVE  Books
  <1> DEFINE cs == [k \in Times |-> NoConn]
             es == [k \in Times |-> NoEarly]
  <1>1. /\ cs \in ConnMap /\ es \in EarlyMap
        /\ \A k \in Times : cs[k] = NoConn /\ es[k] = NoEarly
    BY EmptyConn DEF ConnMap, EarlyMap
  <1>2. /\ st.conns = cs /\ st.early = es /\ st.prefix = {} /\ st.known = {}
        /\ st.born = Unborn /\ st.last = 0 /\ st.total = 0 /\ st.missing = {}
        /\ st.short = FALSE /\ st.parsed = 0 /\ st.refused = 0 /\ st.cancelled = 0
        /\ st.silent = 0 /\ st.out = {}
    BY DEF Init
  <1>s. st = [conns |-> cs, early |-> es, prefix |-> {}, known |-> {}, born |-> Unborn,
              last |-> 0, total |-> 0, missing |-> {}, short |-> FALSE, parsed |-> 0,
              refused |-> 0, cancelled |-> 0, silent |-> 0, out |-> {}]
    BY DEF Init
  <1> HIDE DEF cs, es
  <1>3. st \in State
    BY <1>1, <1>s, Constants DEF State
  <1>4. \A k \in Times : Good(st.conns[k])
    BY <1>1, <1>2, EmptyConn
  <1>5. \A k \in Times, i \in Streams : /\ st.conns[k].pending[i] = NoReq
                                        /\ st.conns[k].responses[i] = NoResp
                                        /\ st.conns[k].buffered = 0
    BY <1>1, <1>2, EmptyConn
  <1>6. Memory(st)
    <2>1. Total(Sizes(st), Slots) = 0
      <3>1. \A p \in Slots : Sizes(st)[p] = 0
        BY <1>5 DEF Sizes, ReqSize, RespSize, Slots
      <3>2. Units(Sizes(st), Slots) = {}
        BY <3>1 DEF Units
      <3> QED
        BY <3>2, FS_EmptySet DEF Total
    <2>2. Total(Parsing(st), Times) = 0
      <3>1. \A k \in Times : Parsing(st)[k] = 0
        BY <1>1, <1>2, EmptyConn DEF Parsing
      <3>2. Units(Parsing(st), Times) = {}
        BY <3>1 DEF Units
      <3> QED
        BY <3>2, FS_EmptySet DEF Total
    <2>3. Total(Earlies(st), Times) = 0
      <3>1. \A k \in Times : Earlies(st)[k] = 0
        BY <1>1, <1>2 DEF Earlies, EarlySize
      <3>2. Units(Earlies(st), Times) = {}
        BY <3>1 DEF Units
      <3> QED
        BY <3>2, FS_EmptySet DEF Total
    <2> QED
      BY <2>1, <2>2, <2>3, <1>2, Constants DEF Memory
  <1>7. Numbered(st)
    BY <1>2, FS_EmptySet DEF Numbered
  <1>8. Accounts(st)
    <2>1. Waits(st) = {}
      BY <1>5 DEF Waits, Slots
    <2> QED
      BY <2>1, <1>2, FS_EmptySet DEF Accounts
  <1>9. Kept(st)
    BY <1>3, <1>4, <1>6, <1>7, <1>8 DEF Kept, Sound
  <1>10. EnvType
    <2>1. sent \in [Streams -> Stages]
      BY DEF Init, Stages
    <2>2. rest \in [Dirs -> Chunk \cup {NoItem}] /\ \A d \in Dirs : rest[d] = NoItem
      BY DEF Init, NoRest
    <2>3. budget \in Nat
      BY Http2Assumption DEF Init
    <2>4. /\ now \in Times /\ running \in BOOLEAN /\ opened \in BOOLEAN /\ late \in SUBSET Streams
          /\ wire = <<>>
      BY Constants DEF Init
    <2>5. wire \in Seq(Chunks("req"))
      <3> DEFINE C == Chunks("req")
      <3> HIDE DEF C
      <3>1. wire \in Seq(C)
        BY <2>4
      <3> QED
        BY <3>1 DEF C
    <2> QED
      BY <2>1, <2>2, <2>3, <2>4, <2>5 DEF EnvType
  <1> QED
    BY <1>9, <1>10 DEF Books

(* Every step keeps the types and the books.                               *)
LEMMA BooksStep ==
  ASSUME Books, [Next]_vars
  PROVE  Books'
  <1>0. EnvType /\ Kept(st) /\ now \in Times /\ "req" \in Dirs /\ "resp" \in Dirs
    BY DEF Books, EnvType, Dirs
  <1>s. st \in State
    BY <1>0 DEF Kept, Sound
  <1>h. ASSUME NEW dir \in Dirs, NEW c \in Chunk, NEW fate, Handle(dir, c, fate) PROVE Kept(st')
    <2>1. CASE fate = "lost"
      <3> DEFINE ms == st.missing \cup {dir}
      <3>1. st' = Marked(st, st.known, st.born, st.prefix, ms)
            /\ st.known \in SUBSET Times /\ st.born \in Times \cup {Unborn}
            /\ st.prefix \in SUBSET Times /\ ms \in SUBSET Dirs
        BY <2>1, <1>h, <1>s DEF Handle, Marked, State
      <3> HIDE DEF ms
      <3>2. Marks(st', st, st.known, st.born, st.prefix, ms)
        BY <3>1, <1>0, MarkedIs
      <3> QED
        BY <3>2 DEF Marks
    <2>2. CASE fate # "lost"
      <3> DEFINE m == IF fate = "captured" THEN {} ELSE {dir}
      <3>1. PICK over \in Excess(st, now) : \E s \in HandleEvent(st, dir, c, fate, over, now) :
                                          st' = [s EXCEPT !.missing = @ \cup m]
        BY <2>2, <1>h DEF Handle
      <3>2. PICK s \in HandleEvent(st, dir, c, fate, over, now) :
                 st' = [s EXCEPT !.missing = @ \cup m]
        BY <3>1
      <3>3. over \in Times \cup {Unborn}
        BY DEF Excess
      <3>4. Kept(s)
        BY <3>2, <3>3, <1>0, HandledKept
      <3> DEFINE ms == s.missing \cup m
      <3>5. st' = Marked(s, s.known, s.born, s.prefix, ms)
            /\ s.known \in SUBSET Times /\ s.born \in Times \cup {Unborn}
            /\ s.prefix \in SUBSET Times /\ ms \in SUBSET Dirs
        BY <3>2, <3>4 DEF Marked, State, Kept, Sound
      <3> HIDE DEF ms
      <3>6. Marks(st', s, s.known, s.born, s.prefix, ms)
        BY <3>4, <3>5, MarkedIs
      <3> QED
        BY <3>6 DEF Marks
    <2> QED
      BY <2>1, <2>2
  <1>c. ASSUME NEW fate PROVE Cost(fate) \in Nat
    BY Http2Assumption DEF Cost
  <1>n. NoRest \in [Dirs -> Chunk \cup {NoItem}] /\ \A d \in Dirs : NoRest[d] = NoItem
    BY DEF NoRest
  <1>1. CASE Call
    <2>1. PICK c \in NextChunks("req") : Emit("req", c, 0) /\ wire' = Append(wire, c)
      BY <1>1 DEF Call
    <2>2. c \in Chunks("req")
      BY <1>0, NextChunksAre
    <2>3. 0 \in Nat /\ budget > 0
      BY <1>1 DEF Call
    <2>4. /\ rest' \in [Dirs -> Chunk \cup {NoItem}]
          /\ \A d \in Dirs : rest'[d] \in Chunks(d) \cup {NoItem}
          /\ sent' \in [Streams -> Stages]
          /\ opened' \in BOOLEAN /\ budget' \in Nat
      BY <2>1, <2>2, <2>3, <1>0, EmitType
    <2>5. wire' \in Seq(Chunks("req"))
      BY <2>1, <2>2, <1>0 DEF EnvType
    <2>6. UNCHANGED <<st, now, running, late>>
      BY <1>1 DEF Call
    <2> QED
      BY <2>4, <2>5, <2>6, <1>0 DEF Books, EnvType
  <1>2. ASSUME NEW fate \in Fates, ReceiveRequest(fate) PROVE Books'
    <2>1. /\ wire # <<>> /\ Handle("req", Head(wire), fate) /\ wire' = Tail(wire)
          /\ budget' = budget - Cost(fate) /\ budget >= Cost(fate)
          /\ UNCHANGED <<now, running, rest, sent, opened, late>>
      BY <1>2 DEF ReceiveRequest
    <2>2. Head(wire) \in Chunks("req") /\ Tail(wire) \in Seq(Chunks("req"))
      BY <2>1, <1>0 DEF EnvType
    <2>3. Head(wire) \in Chunk
      BY <2>2, <1>0, ChunksAre
    <2>4. Kept(st')
      BY <2>1, <2>3, <1>0, <1>h
    <2>5. budget' \in Nat
      BY <2>1, <1>0, <1>c DEF EnvType
    <2> QED
      BY <2>1, <2>2, <2>4, <2>5, <1>0 DEF Books, EnvType
  <1>3. ASSUME NEW fate \in Fates, ReceiveResponse(fate) PROVE Books'
    <2>1. PICK c \in NextChunks("resp") : Emit("resp", c, Cost(fate)) /\ Handle("resp", c, fate)
            /\ late' = late \cup {i \in Streams : ~Received(i) /\ (i = c.sid \/ c.what = "goaway")}
      BY <1>3 DEF ReceiveResponse
    <2>2. c \in Chunks("resp")
      BY <1>0, NextChunksAre
    <2>3. c \in Chunk
      BY <2>2, <1>0, ChunksAre
    <2>4. budget > Cost(fate) /\ Cost(fate) \in Nat
      BY <1>3, <1>c DEF ReceiveResponse
    <2>5. /\ rest' \in [Dirs -> Chunk \cup {NoItem}]
          /\ \A d \in Dirs : rest'[d] \in Chunks(d) \cup {NoItem}
          /\ sent' \in [Streams -> Stages]
          /\ opened' \in BOOLEAN /\ budget' \in Nat
      BY <2>1, <2>2, <2>4, <1>0, EmitType
    <2>6. Kept(st')
      BY <2>1, <2>3, <1>0, <1>h
    <2>7. UNCHANGED <<now, running, wire>>
      BY <1>3 DEF ReceiveResponse
    <2>8. late' \in SUBSET Streams
      BY <2>1, <1>0 DEF EnvType
    <2> QED
      BY <2>5, <2>6, <2>7, <2>8, <1>0 DEF Books, EnvType
  <1>4. CASE HandleClose
    <2> DEFINE x == EvictConnection(st)
    <2>1. Kept(x)
      BY <1>0, CloseIs DEF Sheds
    <2>2. st' = [x EXCEPT !.missing = Dirs]
      BY <1>4 DEF HandleClose
    <2> HIDE DEF x
    <2>3. st' = Marked(x, x.known, x.born, x.prefix, Dirs)
          /\ x.known \in SUBSET Times /\ x.born \in Times \cup {Unborn}
          /\ x.prefix \in SUBSET Times /\ Dirs \in SUBSET Dirs
      BY <2>1, <2>2 DEF Marked, State, Kept, Sound
    <2>4. Marks(st', x, x.known, x.born, x.prefix, Dirs)
      BY <2>1, <2>3, MarkedIs
    <2>5. Kept(st')
      BY <2>4 DEF Marks
    <2>6. budget' = 0 /\ rest' = NoRest /\ UNCHANGED <<now, running, wire, sent, opened, late>>
      BY <1>4 DEF HandleClose
    <2> QED
      BY <2>5, <2>6, <1>0, <1>n DEF Books, EnvType
  <1>5. CASE Sweep
    <2>1. UNCHANGED <<now, running, wire, rest, sent, opened, budget, late>>
      BY <1>5 DEF Sweep, envVars
    <2>2. PICK k \in Excess(st, now) : st' = EvictStale(st, k, now)
      BY <1>5 DEF Sweep
    <2>3. k \in Times \cup {Unborn}
      BY DEF Excess
    <2>4. Kept(st')
      BY <2>2, <2>3, <1>0, EvictIs
    <2> QED
      BY <2>1, <2>4, <1>0 DEF Books, EnvType
  <1>6. CASE Shutdown
    <2>1. /\ st' = Report(st, Waits(st), "sensor_shutdown") /\ running' = FALSE /\ wire' = <<>>
          /\ rest' = NoRest /\ budget' = 0 /\ UNCHANGED <<now, sent, opened, late>>
      BY <1>6 DEF Shutdown
    <2>2. PICK due : Sheds(Report(st, Waits(st), "sensor_shutdown"), st, due, "sensor_shutdown")
      BY <1>0, ShutdownIs
    <2>3. Kept(st')
      BY <2>1, <2>2 DEF Sheds
    <2>4. wire' \in Seq(Chunks("req"))
      <3> DEFINE C == Chunks("req")
      <3> HIDE DEF C
      <3>1. wire' \in Seq(C)
        BY <2>1
      <3> QED
        BY <3>1 DEF C
    <2>5. running' \in BOOLEAN /\ budget' \in Nat
      BY <2>1
    <2> QED
      BY <2>1, <2>3, <2>4, <2>5, <1>0, <1>n DEF Books, EnvType
  <1>7. CASE Tick
    <2>1. now' \in Times
      BY <1>7, <1>0, Constants DEF Tick, Times
    <2>2. UNCHANGED <<st, running, wire, rest, sent, opened, budget, late>>
      BY <1>7 DEF Tick, envVars
    <2> QED
      BY <2>1, <2>2, <1>0 DEF Books, EnvType
  <1>8. CASE UNCHANGED vars
    BY <1>8, <1>0 DEF Books, EnvType, vars, envVars
  <1> QED
    BY <1>1, <1>2, <1>3, <1>4, <1>5, <1>6, <1>7, <1>8 DEF Next

(* What the two parsers of a connection hold is what it has charged.       *)
LEMMA ParsersCharged ==
  ASSUME NEW s, Kept(s)
  PROVE  SumFunctionOnSet(Framed(s), Times) = Total(Parsing(s), Times)
  <1>1. s \in State /\ \A k \in Times : Good(s.conns[k])
    BY DEF Kept, Sound
  <1>2. ASSUME NEW k \in Times PROVE Framed(s)[k] = Parsing(s)[k] /\ Framed(s)[k] \in Nat
    <2> DEFINE a == s.conns[k].dirs["req"]
               b == s.conns[k].dirs["resp"]
    <2>1. Parsing(s)[k] = Buffered(a) + Buffered(b)
      BY <1>1 DEF Parsing, Good
    <2>2. s.conns[k] \in Connection
      BY <1>1 DEF State, ConnMap
    <2>3. a \in Parser /\ b \in Parser
      BY <2>2, ConnParts
    <2>4. Framed(s)[k] = a.buf + b.buf + (IF a.open = NoBlock THEN 0 ELSE 1)
                                       + (IF b.open = NoBlock THEN 0 ELSE 1)
      BY DEF Framed
    <2> HIDE DEF a, b
    <2>5. a.buf \in Nat /\ b.buf \in Nat
      BY <2>3 DEF Parser
    <2> QED
      BY <2>1, <2>4, <2>5 DEF Buffered
  <1>3. SumFunctionOnSet(Framed(s), Times) = Total(Framed(s), Times)
    BY <1>2, Finite, SumIs
  <1>4. Total(Framed(s), Times) = Total(Parsing(s), Times)
    BY <1>2, TotalSame
  <1> QED
    BY <1>3, <1>4

(* The types of the model and the books of StreamState hold in every       *)
(* reachable state: this invariant is inductive.                           *)
THEOREM BooksBalance == Spec => []Books
  <1>1. Init => Books
    BY BooksInit
  <1>2. Books /\ [Next]_vars => Books'
    BY BooksStep
  <1> QED
    BY <1>1, <1>2, PTL DEF Spec

(* stream.rs, PendingBytes: the HTTP/2 maps charge to the memory ceiling   *)
(* exactly what they hold and never exceed it, and no connection exceeds   *)
(* its limit of streams, whatever the peers send and however it is split,  *)
(* lost, truncated or refused.                                             *)
THEOREM MemoryIsExact == Spec => []MemoryExact
  <1>1. Books => MemoryExact
    <2> SUFFICES ASSUME Books PROVE MemoryExact
      OBVIOUS
    <2>1. Kept(st) /\ st \in State /\ Memory(st) /\ \A k \in Times : Good(st.conns[k])
      BY DEF Books, Kept, Sound
    <2>2. SumFunctionOnSet(Framed(st), Times) = Total(Parsing(st), Times)
      BY <2>1, ParsersCharged
    <2>3. /\ SumFunctionOnSet(Sizes(st), Slots) = Total(Sizes(st), Slots)
          /\ SumFunctionOnSet(Earlies(st), Times) = Total(Earlies(st), Times)
          /\ Total(Sizes(st), Slots) \in Nat /\ Total(Parsing(st), Times) \in Nat
          /\ Total(Earlies(st), Times) \in Nat
      BY <2>1, SizesType
    <2>4. /\ st.total = Total(Sizes(st), Slots) + Total(Parsing(st), Times)
                        + Total(Earlies(st), Times)
          /\ st.total <= MaxTotal
      BY <2>1 DEF Memory
    <2>5. st.total = Total(Sizes(st), Slots) + Total(Earlies(st), Times)
                     + Total(Parsing(st), Times)
      <3> DEFINE a == Total(Sizes(st), Slots)
                 b == Total(Parsing(st), Times)
                 c == Total(Earlies(st), Times)
      <3>1. a \in Nat /\ b \in Nat /\ c \in Nat /\ st.total = a + b + c
        BY <2>3, <2>4
      <3> HIDE DEF a, b, c
      <3>2. st.total = a + c + b
        BY <3>1
      <3> QED
        BY <3>2 DEF a, b, c
    <2> QED
      BY <2>1, <2>2, <2>3, <2>4, <2>5 DEF MemoryExact, Good
  <1> QED
    BY <1>1, BooksBalance, PTL

(* stream.rs: every request of an HTTP/2 connection waits, left in one     *)
(* event, is counted as dropped or was cancelled by the peers, or went     *)
(* silently in one of three ways: with a connection dropped for a          *)
(* truncated chunk or because the shard has more than MAX_STREAM_ENTRIES,  *)
(* or for a second request on its stream.                                  *)
THEOREM RequestsAreAccounted == Spec => []RequestsAccounted
  <1>1. Books => RequestsAccounted
    BY DEF Books, Kept, Accounts, RequestsAccounted
  <1> QED
    BY <1>1, BooksBalance, PTL

-----------------------------------------------------------------------------
(* What an undamaged connection makes of a chunk.                          *)

(* The item of a chunk that ends a frame, and what the parser yields.      *)
ItemOf(c) == [what |-> c.what, sid |-> c.sid, kind |-> c.kind, end |-> c.end]
Silent(c) ==
    \/ c.piece \in {"frame1", "block1"} \/ c.what \in {"preface", "settings"}
    \/ c.kind = "promise"
Yields(c) == IF Silent(c) THEN NoItem ELSE ItemOf(c)

(* A parser that can take chunk c of its direction.                        *)
Ready(d, c) ==
    /\ ~d.broken
    /\ d.expects <=> c.what = "preface"
    /\ c.piece = "token2" => d.buf = 1
    /\ d.open # NoBlock <=> c.piece = "block2"

(* A parser that has taken it.                                             *)
Parsed(d, c) ==
    /\ ~d.broken
    /\ d.expects <=> c.piece = "token1"
    /\ d.expects => d.buf = 1
    /\ d.open # NoBlock <=> c.piece = "block1"

(* The shapes of a chunk.                                                  *)
LEMMA Shapes ==
  ASSUME NEW dir \in Dirs, NEW c \in Chunks(dir)
  PROVE  /\ c.what = "preface" => c \in Prefatory /\ c.piece \in PrefacePieces /\ dir = "req"
         /\ c.what = "settings" => c \in Settings /\ c.kind = "none" /\ dir = "resp"
         /\ c.what \notin {"preface", "settings"} => c.piece \in PieceNames
         /\ c.what \notin {"preface", "settings"} =>
               IF dir = "req" THEN c \in ReqFrames ELSE c \in RespFrames
         /\ c.piece # "whole" => \/ c.what \in {"preface", "settings"}
                                 \/ c.what = "headers" /\ c.kind \in {"method", "status"}
         /\ c.what \in {"preface", "settings", "headers", "data", "reset", "goaway"}
         /\ c.kind \in Kinds
  <1>1. CASE c \in Prefatory
    <2>1. c.what = "preface" /\ c.piece \in PrefacePieces /\ c.kind \in Kinds
      BY <1>1 DEF Prefatory, Kinds
    <2>2. c \notin Settings /\ c \notin RespFrames
      BY <2>1 DEF Settings, RespFrames, Heads, Interims, Bodies, Trailing, Resets, Goaways
    <2>3. dir = "req"
      BY <2>2 DEF Chunks
    <2> QED
      BY <1>1, <2>1, <2>3
  <1>2. CASE c \in Settings
    <2>1. c.what = "settings" /\ c.kind = "none"
      BY <1>2 DEF Settings
    <2>2. c \notin Prefatory /\ c \notin ReqFrames
      BY <2>1 DEF Prefatory, ReqFrames, Heads, Bodies, Trailing, Resets
    <2>3. dir = "resp"
      BY <2>2 DEF Chunks, Dirs
    <2> QED
      BY <1>2, <2>1, <2>3 DEF Kinds
  <1>3. CASE dir = "req" /\ c \in ReqFrames
    BY <1>3 DEF ReqFrames, Heads, Bodies, Trailing, Resets, PieceNames, Kinds
  <1>4. CASE dir # "req" /\ c \in RespFrames
    BY <1>4 DEF RespFrames, Heads, Interims, Bodies, Trailing, Resets, Goaways, PieceNames, Kinds
  <1> QED
    BY <1>1, <1>2, <1>3, <1>4 DEF Chunks

(* A whole frame is shown for what it is, or the parser fails.             *)
LEMMA FrameYields ==
  ASSUME NEW f \in Parser, ~f.broken, NEW dir \in Dirs, NEW c \in Chunks(dir), c.piece # "frame1",
         NEW o, o = OnFrame(f, c, "captured")
  PROVE  /\ \/ o.dir.broken /\ o.item = NoItem
            \/ ~o.dir.broken /\ o.item = Yields(c)
         /\ /\ c.what # "preface" /\ ~f.expects
            /\ f.open # NoBlock <=> c.piece = "block2"
            => Parsed(o.dir, c)
  <1>c. /\ c.what \notin {"preface", "settings"} => c.piece \in PieceNames
        /\ c.what = "settings" => c.piece \in {"whole", "tail1", "tail2"}
        /\ c.piece \in {"block1", "block2"} => c.kind # "promise" /\ c.kind # "none"
    <2>1. /\ c.what \notin {"preface", "settings"} => c.piece \in PieceNames
          /\ c.what = "settings" => c \in Settings
          /\ c.what = "preface" => c.piece \in PrefacePieces
          /\ c.piece # "whole" => \/ c.what \in {"preface", "settings"}
                                  \/ c.what = "headers" /\ c.kind \in {"method", "status"}
      BY Shapes
    <2>2. c.what = "settings" => c.piece \in {"whole", "tail1", "tail2"}
      BY <2>1 DEF Settings
    <2> QED
      BY <2>1, <2>2 DEF PrefacePieces
  <1> DEFINE block == [sid |-> c.sid, kind |-> c.kind, end |-> c.end]
             violation == \/ c.what = "preface"
                          \/ f.open # NoBlock /\ c.piece # "block2"
                          \/ f.open = NoBlock /\ c.piece = "block2"
  <1>1. CASE violation
    <2>1. o = Outcome(Fail(f), NoItem)
      BY <1>1 DEF OnFrame
    <2>2. Fail(f).broken
      BY DEF Fail, Parser
    <2> QED
      BY <2>1, <2>2, <1>1 DEF Outcome
  <1>2. CASE ~violation /\ c.piece = "block2"
    <2> DEFINE g == [f EXCEPT !.open = NoBlock]
    <2>1. o = Outcome(g, ItemOf(c))
      BY <1>2, <1>c DEF OnFrame, ItemOf
    <2>2. g.open = NoBlock /\ g.broken = f.broken /\ g.expects = f.expects
      BY DEF Parser
    <2> HIDE DEF g
    <2> QED
      BY <2>1, <2>2, <1>2, <1>c DEF Outcome, Parsed, Yields, Silent
  <1>3. CASE ~violation /\ c.piece = "block1"
    <2> DEFINE g == [f EXCEPT !.open = block]
    <2>1. o = Outcome(g, NoItem)
      BY <1>3, <1>c DEF OnFrame
    <2>2. block # NoBlock
      BY <1>3, <1>c DEF NoBlock
    <2> HIDE DEF block
    <2>3. g.open = block /\ g.broken = f.broken /\ g.expects = f.expects
      BY DEF Parser
    <2> HIDE DEF g
    <2> QED
      BY <2>1, <2>2, <2>3, <1>3 DEF Outcome, Parsed, Yields, Silent
  <1>4. CASE ~violation /\ c.piece \notin {"block1", "block2"}
    <2>p. c.piece \in {"whole", "frame2", "tail1", "tail2"}
      BY <1>4, <1>c DEF PieceNames
    <2>1. CASE c.what = "settings"
      <3>1. o = Outcome(f, NoItem)
        BY <1>4, <2>1 DEF OnFrame
      <3> QED
        BY <3>1, <2>1, <2>p, <1>4 DEF Outcome, Parsed, Yields, Silent
    <2>2. CASE c.what # "settings"
      <3>1. o = Outcome(f, IF c.kind = "promise" THEN NoItem ELSE ItemOf(c))
        BY <1>4, <2>2 DEF OnFrame, ItemOf
      <3> QED
        BY <3>1, <2>2, <2>p, <1>4 DEF Outcome, Parsed, Yields, Silent
    <2> QED
      BY <2>1, <2>2
  <1> QED
    BY <1>1, <1>2, <1>3, <1>4

(* A parser that misses no bytes yields what was sent or has failed for    *)
(* good; one that is in step with its direction stays in step.             *)
LEMMA FeedYields ==
  ASSUME NEW s, NEW d \in Parser, NEW dir \in Dirs, dir \notin s.missing, NEW c \in Chunks(dir),
         NEW o \in Feed(s, d, dir, c, "captured")
  PROVE  /\ \/ o.dir.broken /\ o.item = NoItem
            \/ ~d.broken /\ ~o.dir.broken /\ o.item = Yields(c)
         /\ Ready(d, c) => Parsed(o.dir, c)
  <1>c. /\ c.piece \in {"token1", "token2"} => c.what = "preface"
        /\ c.piece \in {"frame1", "tail1", "block1", "block2"} => c.what # "preface"
        /\ c.piece = "tail1" => c.what = "settings"
        /\ c.what = "preface" => c.piece \in PrefacePieces
    <2>1. /\ c.what \notin {"preface", "settings"} => c.piece \in PieceNames
          /\ c.what = "settings" => c \in Settings
          /\ c.what = "preface" => c.piece \in PrefacePieces
      BY Shapes
    <2>2. c.what = "settings" => c.piece \in {"whole", "tail1", "tail2"}
      BY <2>1 DEF Settings
    <2> QED
      BY <2>1, <2>2 DEF PieceNames, PrefacePieces
  <1>1. CASE d.broken
    <2>1. o = Outcome(d, NoItem)
      BY <1>1 DEF Feed
    <2> QED
      BY <2>1, <1>1 DEF Outcome, Ready
  <1>2. CASE ~d.broken /\ d.expects /\ c.piece = "token1"
    <2> DEFINE f == [d EXCEPT !.buf = 1]
    <2>1. o = Outcome(f, NoItem)
      BY <1>2 DEF Feed
    <2>2. f.buf = 1 /\ f.open = d.open /\ f.broken = d.broken /\ f.expects = d.expects
      BY BufIs
    <2> HIDE DEF f
    <2> QED
      BY <2>1, <2>2, <1>2, <1>c DEF Outcome, Yields, Silent, Ready, Parsed
  <1>3. CASE ~d.broken /\ d.expects /\ c.piece # "token1" /\ c.what = "preface"
             /\ (c.piece = "token2" => d.buf = 1)
    <2> DEFINE f == [d EXCEPT !.buf = 0, !.expects = FALSE]
    <2>1. o = Outcome(f, NoItem)
      BY <1>3 DEF Feed
    <2>2. f.open = d.open /\ f.broken = d.broken /\ ~f.expects
      BY DEF Parser
    <2> HIDE DEF f
    <2> QED
      BY <2>1, <2>2, <1>3, <1>c DEF Outcome, Yields, Silent, Ready, Parsed, PrefacePieces
  <1>4. CASE ~d.broken /\ d.expects
             /\ ~(c.what = "preface" /\ (c.piece = "token2" => d.buf = 1))
    <2>1. o = Outcome(Fail(d), NoItem)
      BY <1>4, <1>c DEF Feed
    <2>2. Fail(d).broken
      BY DEF Fail, Parser
    <2> QED
      BY <2>1, <2>2, <1>4 DEF Outcome, Ready
  <1>5. CASE ~d.broken /\ ~d.expects /\ c.piece \in {"frame1", "tail1"}
    <2> DEFINE f == [d EXCEPT !.buf = 1]
    <2>1. o = Outcome(f, NoItem)
      BY <1>5 DEF Feed
    <2>2. f.buf = 1 /\ f.open = d.open /\ f.broken = d.broken /\ f.expects = d.expects
      BY BufIs
    <2> HIDE DEF f
    <2> QED
      BY <2>1, <2>2, <1>5, <1>c DEF Outcome, Yields, Silent, Ready, Parsed
  <1>6. CASE ~d.broken /\ ~d.expects /\ c.piece \notin {"frame1", "tail1"}
    <2> DEFINE f == [d EXCEPT !.buf = 0]
    <2>1. o = OnFrame(f, c, "captured")
      BY <1>6 DEF Feed
    <2>2. f \in Parser /\ f.open = d.open /\ f.broken = d.broken /\ f.expects = d.expects
      BY BufIs
    <2> HIDE DEF f
    <2>3. /\ \/ o.dir.broken /\ o.item = NoItem
             \/ ~o.dir.broken /\ o.item = Yields(c)
          /\ /\ c.what # "preface" /\ ~f.expects
             /\ f.open # NoBlock <=> c.piece = "block2"
             => Parsed(o.dir, c)
      BY <2>1, <2>2, <1>6, FrameYields
    <2> QED
      BY <2>2, <2>3, <1>6 DEF Ready
  <1> QED
    BY <1>1, <1>2, <1>3, <1>4, <1>5, <1>6

-----------------------------------------------------------------------------
(* What an item does to the streams of its connection while there is room. *)

Keeps(r, x, k, i) ==
    /\ r.conns[k].pending[i] = x.conns[k].pending[i]
    /\ r.conns[k].responses[i] = x.conns[k].responses[i]

Clears(r, k, i) == r.conns[k].pending[i] = NoReq /\ r.conns[k].responses[i] = NoResp

(* The response of stream id is b pieces and t trailers long, and ends or  *)
(* not.                                                                    *)
Replies(r, x, k, id, b, t, end) ==
    LET v == [body |-> b, trailers |-> t] IN
    \/ end /\ Clears(r, k, id)
       /\ \/ x.conns[k].pending[id] = NoReq /\ r.out = x.out
          \/ x.conns[k].pending[id] # NoReq
             /\ r.out = x.out \cup {Event(Cardinality(x.out), id, "paired", v)}
    \/ ~end /\ r.out = x.out /\ r.conns[k].pending[id] = x.conns[k].pending[id]
       /\ r.conns[k].responses[id] = v

Same(r, x, k, id) == Keeps(r, x, k, id) /\ r.out = x.out

ReqEffect(r, x, k, c) ==
    LET id == c.sid IN
    /\ r.out = x.out
    /\ \A i \in Streams \ {id} : Keeps(r, x, k, i)
    /\ \/ c.what = "reset" /\ Clears(r, k, id)
       \/ /\ c.what # "reset" /\ c.kind = "method" /\ r.conns[k].pending[id] # NoReq
          /\ r.conns[k].responses[id] = x.conns[k].responses[id]
       \/ /\ c.what # "reset" /\ c.kind # "method"
          /\ r.conns[k].pending[id] = NoReq <=> x.conns[k].pending[id] = NoReq
          /\ r.conns[k].responses[id] = x.conns[k].responses[id]

(* The body of a response after another piece.                             *)
Longer(n) == IF n >= MaxBody THEN n ELSE n + 1
Trailed(n) == n + 1

RespEffect(r, x, k, c) ==
    LET id == c.sid
        req == x.conns[k].pending[id]
        resp == x.conns[k].responses[id]
    IN /\ c.what # "goaway" => \A i \in Streams \ {id} : Keeps(r, x, k, i)
       /\ \/ /\ c.what = "goaway" /\ r.out = x.out
             /\ \A i \in Streams : IF x.conns[k].pending[i] # NoReq /\ i > id THEN Clears(r, k, i)
                                   ELSE Keeps(r, x, k, i)
          \/ c.what = "reset" /\ Clears(r, k, id) /\ r.out = x.out
          \/ c.what = "headers" /\ c.kind = "interim" /\ Same(r, x, k, id)
          \/ c.what = "headers" /\ c.kind = "status" /\ req = NoReq /\ Same(r, x, k, id)
          \/ /\ c.what = "headers" /\ c.kind = "status" /\ req # NoReq
             /\ Replies(r, x, k, id, 0, 0, c.end)
          \/ c.what = "headers" /\ c.kind = "plain" /\ resp = NoResp /\ Same(r, x, k, id)
          \/ /\ c.what = "headers" /\ c.kind = "plain" /\ resp # NoResp
             /\ Replies(r, x, k, id, resp.body, Trailed(resp.trailers), c.end)
          \/ c.what = "data" /\ resp = NoResp /\ Same(r, x, k, id)
          \/ /\ c.what = "data" /\ resp # NoResp
             /\ Replies(r, x, k, id, Longer(resp.body), resp.trailers, c.end)

(* A stream whose response grows, and perhaps ends.                        *)
LEMMA RepliesIs ==
  ASSUME NEW x, NEW y, NEW r, NEW k \in Times, NEW id \in Streams, NEW b \in Nat, NEW t \in Nat,
         NEW end \in BOOLEAN, Answers(y, x, k, id, [body |-> b, trailers |-> t]),
         IF end THEN IsFinish(r, y, k, id) ELSE r = y
  PROVE  /\ Replies(r, x, k, id, b, t, end) /\ At(r, x, k)
         /\ \A i \in Streams \ {id} : Keeps(r, x, k, i)
  <1> DEFINE v == [body |-> b, trailers |-> t]
  <1>1. v # NoResp
    BY DEF NoResp
  <1> HIDE DEF v
  <1>2. /\ Only(y, x, k, id) /\ y.out = x.out /\ y.conns[k].pending = x.conns[k].pending
        /\ y.conns[k].responses[id] = v
    BY DEF Answers, Ledgers, v
  <1>3. At(y, x, k) /\ \A i \in Streams \ {id} : Keeps(y, x, k, i)
    BY <1>2 DEF Only, Keeps
  <1>4. CASE ~end
    BY <1>2, <1>3, <1>4 DEF Replies, v
  <1>5. CASE end
    <2>1. /\ Ended(r, y, k, {id})
          /\ \/ y.conns[k].pending[id] = NoReq /\ r.out = y.out
             \/ /\ y.conns[k].pending[id] # NoReq
                /\ r.out = y.out \cup {Event(Cardinality(y.out), id, "paired", v)}
      BY <1>1, <1>2, <1>5 DEF IsFinish
    <2>2. At(r, y, k) /\ Clears(r, k, id) /\ \A i \in Streams \ {id} : Keeps(r, y, k, i)
      BY <2>1 DEF Ended, Clears, Keeps
    <2>3. At(r, x, k)
      BY <2>2, <1>3, AtTrans
    <2>4. \A i \in Streams \ {id} : Keeps(r, x, k, i)
      BY <2>2, <1>3 DEF Keeps
    <2>5. Replies(r, x, k, id, b, t, end)
      BY <2>1, <2>2, <1>2, <1>5 DEF Replies, v
    <2> QED
      BY <2>3, <2>4, <2>5
  <1> QED
    BY <1>4, <1>5

(* An item of the client.                                                  *)
LEMMA ReqItemIs ==
  ASSUME NEW x, Kept(x), NEW k \in Times, NEW c \in ReqFrames, NEW t \in Times,
         NEW r, r = OnItem(x, k, "req", ItemOf(c), t), ~r.short
  PROVE  ReqEffect(r, x, k, c) /\ Kept(r)
  <1> DEFINE item == ItemOf(c)
             id == c.sid
  <1>1. /\ item.what = c.what /\ item.sid = id /\ item.kind = c.kind /\ item.end = c.end
    BY DEF ItemOf
  <1>2. id \in Streams
    BY DEF ReqFrames, Heads, Bodies, Trailing, Resets
  <1>c. \/ c.what = "headers" /\ c.kind = "method"
        \/ c.what = "data" /\ c.kind = "plain"
        \/ c.what = "headers" /\ c.kind = "plain"
        \/ c.what = "reset" /\ c.kind = "plain"
    BY DEF ReqFrames, Heads, Bodies, Trailing, Resets
  <1>r. r = OnItem(x, k, "req", item, t)
    OBVIOUS
  <1> HIDE DEF item, id
  <1>0. At(x, x, k)
    BY DEF At, Frame, Kept, Sound
  <1>3. CASE c.what = "reset"
    <2>1. r = Cancel(x, k, {id})
      BY <1>r, <1>1, <1>3 DEF OnItem
    <2>2. IsCancel(r, x, k, {id}) /\ Kept(r)
      BY <2>1, <1>2, CancelIs
    <2>3. At(r, x, k) /\ r.out = x.out /\ Clears(r, k, id)
          /\ \A i \in Streams \ {id} : Keeps(r, x, k, i)
      BY <2>2, <1>2 DEF IsCancel, Clears, Keeps
    <2> QED
      BY <2>2, <2>3, <1>3 DEF ReqEffect, id
  <1>4. CASE c.what = "headers" /\ c.kind = "method"
    <2>1. r = Insert(x, k, id, t)
      BY <1>r, <1>1, <1>4 DEF OnItem
    <2>2. IsInsert(r, x, k, id, t) /\ Kept(r)
      BY <2>1, <1>2, InsertIs
    <2>3. [ts |-> t, body |-> 0] # NoReq
      BY Constants DEF NoReq
    <2> DEFINE v == [ts |-> t, body |-> 0]
    <2> HIDE DEF v
    <2>4. /\ Only(r, x, k, id) /\ r.out = x.out /\ r.conns[k].responses = x.conns[k].responses
          /\ r.conns[k].pending[id] = v
      BY <2>2 DEF IsInsert, v
    <2>5. At(r, x, k) /\ r.out = x.out /\ \A i \in Streams \ {id} : Keeps(r, x, k, i)
      BY <2>4 DEF Only, Keeps
    <2> QED
      BY <2>2, <2>3, <2>4, <2>5, <1>4 DEF ReqEffect, id, v
  <1>5. CASE c.what = "headers" /\ c.kind = "plain"
    <2>1. r = x
      BY <1>r, <1>1, <1>5 DEF OnItem
    <2> QED
      BY <2>1, <1>0, <1>5 DEF ReqEffect, Keeps
  <1>6. CASE c.what = "data" /\ c.kind = "plain"
    <2>1. r = AppendBody(x, k, id)
      BY <1>r, <1>1, <1>6 DEF OnItem
    <2>2. IsAppendBody(r, x, k, id) /\ Kept(r)
      BY <2>1, <1>2, AppendBodyIs
    <2>3. /\ Only(r, x, k, id) /\ r.out = x.out /\ r.conns[k].responses = x.conns[k].responses
          /\ r.conns[k].pending[id] = NoReq <=> x.conns[k].pending[id] = NoReq
      BY <2>2 DEF IsAppendBody, Ledgers
    <2>4. At(r, x, k) /\ \A i \in Streams \ {id} : Keeps(r, x, k, i)
      BY <2>3 DEF Only, Keeps
    <2> QED
      BY <2>2, <2>3, <2>4, <1>6 DEF ReqEffect, id
  <1> QED
    BY <1>c, <1>3, <1>4, <1>5, <1>6

(* An item of the server.                                                  *)
LEMMA RespItemIs ==
  ASSUME NEW x, Kept(x), NEW k \in Times, NEW c \in RespFrames, c.kind # "promise",
         NEW t \in Times, NEW r, r = OnItem(x, k, "resp", ItemOf(c), t), ~r.short
  PROVE  RespEffect(r, x, k, c) /\ Kept(r)
  <1> DEFINE item == ItemOf(c)
             id == c.sid
             old == x.conns[k].responses[id]
  <1>1. /\ item.what = c.what /\ item.sid = id /\ item.kind = c.kind /\ item.end = c.end
    BY DEF ItemOf
  <1>2. id \in Streams
    BY DEF RespFrames, Heads, Interims, Bodies, Trailing, Resets, Goaways
  <1>e. c.end \in BOOLEAN
    BY DEF RespFrames, Heads, Interims, Bodies, Trailing, Resets, Goaways
  <1>c. \/ c.what = "headers" /\ c.kind = "status"
        \/ c.what = "headers" /\ c.kind = "interim"
        \/ c.what = "headers" /\ c.kind = "plain"
        \/ c.what = "data" /\ c.kind = "plain"
        \/ c.what = "reset" /\ c.kind = "plain"
        \/ c.what = "goaway" /\ c.kind = "plain"
    BY DEF RespFrames, Heads, Interims, Bodies, Trailing, Resets, Goaways
  <1>r. r = OnItem(x, k, "resp", item, t)
    OBVIOUS
  <1>o. old \in Answered \cup {NoResp} /\ (old # NoResp => old \in Answered)
    <2>1. x.conns[k] \in Connection
      BY DEF Kept, Sound, State, ConnMap
    <2> QED
      BY <2>1, <1>2, ConnParts
  <1>w. id \in Waiting(x.conns[k]) <=> x.conns[k].pending[id] # NoReq
    BY <1>2 DEF Waiting
  <1>a. id \in Answering(x.conns[k]) <=> old # NoResp
    BY <1>2 DEF Answering
  <1> HIDE DEF item, id, old
  <1>0. At(x, x, k)
    BY DEF At, Frame, Kept, Sound
  <1>i. item.sid \in Streams
    BY <1>1, <1>2
  <1>3. CASE c.what = "reset"
    <2>1. r = Cancel(x, k, {id})
      BY <1>r, <1>1, <1>3 DEF OnItem
    <2>2. IsCancel(r, x, k, {id}) /\ Kept(r)
      BY <2>1, <1>2, CancelIs
    <2>3. At(r, x, k) /\ r.out = x.out /\ Clears(r, k, id)
          /\ \A i \in Streams \ {id} : Keeps(r, x, k, i)
      BY <2>2, <1>2 DEF IsCancel, Clears, Keeps
    <2> QED
      BY <2>2, <2>3, <1>3 DEF RespEffect, id
  <1>4. CASE c.what = "goaway"
    <2> DEFINE ids == {i \in Waiting(x.conns[k]) : i > id}
    <2>1. r = Cancel(x, k, ids)
      BY <1>r, <1>1, <1>4 DEF OnItem
    <2>2. ids \in SUBSET Streams
      BY DEF Waiting
    <2>3. \A i \in Streams : i \in ids <=> x.conns[k].pending[i] # NoReq /\ i > id
      BY DEF Waiting
    <2> HIDE DEF ids
    <2>4. IsCancel(r, x, k, ids) /\ Kept(r)
      BY <2>1, <2>2, CancelIs
    <2>5. At(r, x, k) /\ r.out = x.out
          /\ \A i \in Streams : IF x.conns[k].pending[i] # NoReq /\ i > id THEN Clears(r, k, i)
                                ELSE Keeps(r, x, k, i)
      BY <2>3, <2>4 DEF IsCancel, Clears, Keeps
    <2> QED
      BY <2>4, <2>5, <1>4 DEF RespEffect, id
  <1>5. CASE c.what = "headers" /\ c.kind = "interim"
    <2>1. r = x
      BY <1>r, <1>1, <1>5 DEF OnItem
    <2> QED
      BY <2>1, <1>0, <1>5 DEF RespEffect, Keeps, Same
  <1>6. CASE c.what = "headers" /\ c.kind = "status"
    <2> DEFINE y == Start(x, k, id)
    <2>1. r = IF id \notin Waiting(x.conns[k]) THEN x ELSE Answer(y, k, item)
      BY <1>r, <1>1, <1>6 DEF OnItem
    <2>2. CASE id \notin Waiting(x.conns[k])
      BY <2>1, <2>2, <1>w, <1>0, <1>6 DEF RespEffect, Keeps, Same, id
    <2>3. CASE id \in Waiting(x.conns[k])
      <3>1. IsStart(y, x, k, id) /\ Kept(y)
        BY <1>2, StartIs
      <3> HIDE DEF y
      <3>2. /\ IF c.end THEN IsFinish(r, y, k, id) ELSE r = y
            /\ At(r, y, k) /\ Kept(r)
        BY <2>1, <2>3, <3>1, <1>1, <1>i, AnswerIs
      <3>3. ~y.short
        BY <3>2 DEF At
      <3>4. Answers(y, x, k, id, [body |-> 0, trailers |-> 0])
        BY <3>1, <3>3 DEF IsStart
      <3>5. 0 \in Nat
        OBVIOUS
      <3>6. /\ Replies(r, x, k, id, 0, 0, c.end) /\ At(r, x, k)
            /\ \A i \in Streams \ {id} : Keeps(r, x, k, i)
        BY <3>2, <3>4, <3>5, <1>2, <1>e, RepliesIs
      <3> QED
        BY <3>2, <3>6, <2>3, <1>w, <1>6 DEF RespEffect, id
    <2> QED
      BY <2>2, <2>3
  <1>7. CASE c.what = "headers" /\ c.kind = "plain"
    <2> DEFINE y == MergeTrailers(x, k, id)
    <2>1. r = IF id \notin Answering(x.conns[k]) THEN x ELSE Answer(y, k, item)
      BY <1>r, <1>1, <1>7 DEF OnItem
    <2>2. CASE id \notin Answering(x.conns[k])
      BY <2>1, <2>2, <1>a, <1>0, <1>7 DEF RespEffect, Keeps, Same, id, old
    <2>3. CASE id \in Answering(x.conns[k])
      <3>1. IsMergeTrailers(y, x, k, id) /\ Kept(y)
        BY <2>3, <1>2, <1>a, MergeTrailersIs DEF old
      <3> HIDE DEF y
      <3>2. /\ IF c.end THEN IsFinish(r, y, k, id) ELSE r = y
            /\ At(r, y, k) /\ Kept(r)
        BY <2>1, <2>3, <3>1, <1>1, <1>i, AnswerIs
      <3>3. ~y.short
        BY <3>2 DEF At
      <3>4. Answers(y, x, k, id, [old EXCEPT !.trailers = @ + 1])
        BY <3>1, <3>3 DEF IsMergeTrailers, old
      <3> DEFINE b == old.body
                 n == Trailed(old.trailers)
      <3>5. /\ [old EXCEPT !.trailers = @ + 1] = [body |-> b, trailers |-> n]
            /\ b \in Nat /\ n \in Nat
        BY <2>3, <1>a, <1>o DEF Answered, Trailed
      <3> HIDE DEF b, n
      <3>6. Answers(y, x, k, id, [body |-> b, trailers |-> n])
        BY <3>4, <3>5
      <3>n. b \in Nat /\ n \in Nat
        BY <3>5
      <3>e. IF c.end THEN IsFinish(r, y, k, id) ELSE r = y
        BY <3>2
      <3>7. /\ Replies(r, x, k, id, b, n, c.end) /\ At(r, x, k)
            /\ \A i \in Streams \ {id} : Keeps(r, x, k, i)
        BY <3>e, <3>n, <3>6, <1>2, <1>e, RepliesIs
      <3>8. /\ x.conns[k].responses[c.sid] # NoResp
            /\ Replies(r, x, k, c.sid, x.conns[k].responses[c.sid].body,
                       Trailed(x.conns[k].responses[c.sid].trailers), c.end)
        BY <3>7, <2>3, <1>a, Zenon DEF id, old, b, n
      <3>9. \A i \in Streams \ {c.sid} : Keeps(r, x, k, i)
        BY <3>7 DEF id
      <3>10. RespEffect(r, x, k, c)
        BY <3>8, <3>9, <1>7, Zenon DEF RespEffect
      <3> QED
        BY <3>2, <3>10
    <2> QED
      BY <2>2, <2>3
  <1>8. CASE c.what = "data"
    <2> DEFINE y == AppendData(x, k, id)
    <2>1. r = IF id \notin Answering(x.conns[k]) THEN x ELSE Answer(y, k, item)
      BY <1>r, <1>1, <1>8 DEF OnItem
    <2>2. CASE id \notin Answering(x.conns[k])
      BY <2>1, <2>2, <1>a, <1>0, <1>8 DEF RespEffect, Keeps, Same, id, old
    <2>3. CASE id \in Answering(x.conns[k])
      <3>1. IsAppendData(y, x, k, id) /\ Kept(y)
        BY <2>3, <1>2, <1>a, AppendDataIs DEF old
      <3> HIDE DEF y
      <3>2. /\ IF c.end THEN IsFinish(r, y, k, id) ELSE r = y
            /\ At(r, y, k) /\ Kept(r)
        BY <2>1, <2>3, <3>1, <1>1, <1>i, AnswerIs
      <3>3. ~y.short
        BY <3>2 DEF At
      <3> DEFINE b == Longer(old.body)
                 n == old.trailers
      <3>4. \/ Answers(y, x, k, id, old) /\ old.body >= MaxBody
            \/ Answers(y, x, k, id, [old EXCEPT !.body = @ + 1]) /\ ~(old.body >= MaxBody)
        BY <3>1, <3>3 DEF IsAppendData, old
      <3>5. /\ old.body >= MaxBody => old = [body |-> b, trailers |-> n]
            /\ ~(old.body >= MaxBody) => [old EXCEPT !.body = @ + 1] = [body |-> b, trailers |-> n]
            /\ b \in Nat /\ n \in Nat
        BY <2>3, <1>a, <1>o, Constants DEF Answered, Longer
      <3> HIDE DEF b, n
      <3>6. Answers(y, x, k, id, [body |-> b, trailers |-> n])
        BY <3>4, <3>5
      <3>n. b \in Nat /\ n \in Nat
        BY <3>5
      <3>e. IF c.end THEN IsFinish(r, y, k, id) ELSE r = y
        BY <3>2
      <3>7. /\ Replies(r, x, k, id, b, n, c.end) /\ At(r, x, k)
            /\ \A i \in Streams \ {id} : Keeps(r, x, k, i)
        BY <3>e, <3>n, <3>6, <1>2, <1>e, RepliesIs
      <3>8. /\ x.conns[k].responses[c.sid] # NoResp
            /\ Replies(r, x, k, c.sid, Longer(x.conns[k].responses[c.sid].body),
                       x.conns[k].responses[c.sid].trailers, c.end)
        BY <3>7, <2>3, <1>a, Zenon DEF id, old, b, n
      <3>9. \A i \in Streams \ {c.sid} : Keeps(r, x, k, i)
        BY <3>7 DEF id
      <3>10. RespEffect(r, x, k, c)
        BY <3>8, <3>9, <1>8, Zenon DEF RespEffect
      <3> QED
        BY <3>2, <3>10
    <2> QED
      BY <2>2, <2>3
  <1> QED
    BY <1>c, <1>3, <1>4, <1>5, <1>6, <1>7, <1>8

-----------------------------------------------------------------------------
(* What an undamaged connection makes of a chunk.                          *)

(* No chunk was missed and the ceiling was not met, in state s.            *)
Clean(s) == s.missing = {} /\ ~s.short

Untouched(r, s, k) == r.out = s.out /\ \A i \in Streams : Keeps(r, s, k, i)

Effect(r, s, k, dir, c) ==
    IF Silent(c) THEN Untouched(r, s, k)
    ELSE IF dir = "req" THEN ReqEffect(r, s, k, c) ELSE RespEffect(r, s, k, c)

(* The chunk goes through the parser of its direction, and its item to the *)
(* streams, unless the parser has failed.                                  *)
Took(r, s, k, dir, c) ==
    /\ Clean(s)
    /\ r.conns[k] # NoConn
    /\ \A j \in Times \ {k} : r.conns[j] = s.conns[j]
    /\ \A d \in Dirs \ {dir} : r.conns[k].dirs[d] = s.conns[k].dirs[d]
    /\ Ready(s.conns[k].dirs[dir], c) => Parsed(r.conns[k].dirs[dir], c)
    /\ \/ r.conns[k].dirs[dir].broken /\ Untouched(r, s, k)
       \/ /\ ~s.conns[k].dirs[dir].broken /\ ~r.conns[k].dirs[dir].broken
          /\ Effect(r, s, k, dir, c)

(* What is parsed does not depend on the parser's buffers.                 *)
LEMMA EffectFrom ==
  ASSUME NEW r, NEW x, NEW s, NEW k, NEW c, x.out = s.out,
         x.conns[k].pending = s.conns[k].pending, x.conns[k].responses = s.conns[k].responses
  PROVE  /\ ReqEffect(r, x, k, c) => ReqEffect(r, s, k, c)
         /\ RespEffect(r, x, k, c) => RespEffect(r, s, k, c)
  <1>1. \A i : Keeps(r, x, k, i) <=> Keeps(r, s, k, i)
    BY DEF Keeps
  <1>2. ReqEffect(r, x, k, c) => ReqEffect(r, s, k, c)
    BY <1>1, Zenon DEF ReqEffect
  <1>3. ASSUME NEW i, NEW b, NEW t, NEW e
        PROVE  Replies(r, x, k, i, b, t, e) <=> Replies(r, s, k, i, b, t, e)
    <2> DEFINE v == [body |-> b, trailers |-> t]
    <2>1. /\ Event(Cardinality(x.out), i, "paired", v) = Event(Cardinality(s.out), i, "paired", v)
          /\ x.conns[k].pending[i] = s.conns[k].pending[i]
      OBVIOUS
    <2> HIDE DEF v
    <2> QED
      BY <2>1 DEF Replies, v
  <1>4. \A i : Same(r, x, k, i) <=> Same(r, s, k, i)
    BY <1>1 DEF Same
  <1>5. RespEffect(r, x, k, c) => RespEffect(r, s, k, c)
    BY <1>1, <1>3, <1>4, Zenon DEF RespEffect
  <1> QED
    BY <1>2, <1>5

(* process_http2_event on an undamaged connection.                         *)
LEMMA ProcessTook ==
  ASSUME NEW s, Kept(s), NEW k \in Times, NEW dir \in Dirs, NEW c \in Chunks(dir),
         NEW n \in Nat \ {0}, NEW t \in Times,
         NEW r \in Process(s, k, dir, c, "captured", n, t), Clean(r)
  PROVE  Took(r, s, k, dir, c)
  <1> DEFINE d == s.conns[k].dirs[dir]
  <1>1. c \in Chunk
    BY ChunksAre
  <1>2. /\ IsProcess(r, s, k, dir, t)
        /\ \/ IsRefused(r, s, k, dir, t)
           \/ \E o \in Feed(s, d, dir, c, "captured") : \E x :
                /\ IsOutcome(o, d) /\ IsFed(x, s, k, dir, o.dir, t)
                /\ r = OnItem(x, k, dir, o.item, t)
    BY <1>1, ProcessIs
  <1>3. ~IsRefused(r, s, k, dir, t)
    BY DEF IsRefused, Clean
  <1>4. PICK o \in Feed(s, d, dir, c, "captured") : \E x :
           /\ IsOutcome(o, d) /\ IsFed(x, s, k, dir, o.dir, t)
           /\ r = OnItem(x, k, dir, o.item, t)
    BY <1>2, <1>3
  <1>5. PICK x : /\ IsOutcome(o, d) /\ IsFed(x, s, k, dir, o.dir, t)
                 /\ r = OnItem(x, k, dir, o.item, t)
    BY <1>4
  <1>6. /\ Kept(x) /\ x.missing = s.missing /\ x.short = s.short /\ x.out = s.out
        /\ x.conns[k].dirs = [s.conns[k].dirs EXCEPT ![dir] = o.dir]
        /\ x.conns[k].pending = s.conns[k].pending /\ x.conns[k].responses = s.conns[k].responses
        /\ \A j \in Times \ {k} : x.conns[j] = s.conns[j]
    BY <1>5 DEF IsFed, IsProcess
  <1>7. o.item \in Item /\ o.dir \in Parser
    BY <1>5 DEF IsOutcome
  <1>8. At(r, x, k)
    BY <1>5, <1>6, <1>7, OnItemIs
  <1>9. Clean(s)
    BY <1>6, <1>8 DEF Clean, At, Frame
  <1>c. s.conns[k] \in Connection
    BY DEF Kept, Sound, State, ConnMap
  <1>10. s.conns[k].dirs \in [Dirs -> Parser] /\ d \in Parser
    BY <1>c, ConnParts
  <1>11. /\ r.conns[k].dirs[dir] = o.dir
         /\ \A e \in Dirs \ {dir} : r.conns[k].dirs[e] = s.conns[k].dirs[e]
    BY <1>6, <1>8, <1>10 DEF At
  <1>12. r.conns[k] # NoConn
    <2>1. r.conns[k].last = t /\ t # -1
      BY <1>2, Constants DEF IsProcess, Times
    <2> QED
      BY <2>1, EmptyConn
  <1>13. \A j \in Times \ {k} : r.conns[j] = s.conns[j]
    BY <1>6, <1>8 DEF At
  <1> HIDE DEF d
  <1>14. /\ \/ o.dir.broken /\ o.item = NoItem
            \/ ~d.broken /\ ~o.dir.broken /\ o.item = Yields(c)
         /\ Ready(d, c) => Parsed(o.dir, c)
    BY <1>4, <1>9, <1>10, FeedYields DEF Clean
  <1>15. o.item = NoItem => Untouched(r, s, k)
    <2> SUFFICES ASSUME o.item = NoItem PROVE Untouched(r, s, k)
      OBVIOUS
    <2>1. o.item.what = "none"
      BY DEF NoItem
    <2>2. r = x
      BY <2>1, <1>5 DEF OnItem
    <2> QED
      BY <2>2, <1>6 DEF Untouched, Keeps
  <1>16. o.item = Yields(c) => Effect(r, s, k, dir, c)
    <2> SUFFICES ASSUME o.item = Yields(c) PROVE Effect(r, s, k, dir, c)
      OBVIOUS
    <2>1. CASE Silent(c)
      BY <2>1, <1>15 DEF Yields, Effect
    <2>2. CASE ~Silent(c)
      <3>1. o.item = ItemOf(c) /\ c.kind # "promise" /\ c.what \notin {"preface", "settings"}
        BY <2>2 DEF Yields, Silent
      <3>2. IF dir = "req" THEN c \in ReqFrames ELSE c \in RespFrames
        BY <3>1, Shapes
      <3>3. ~r.short
        BY DEF Clean
      <3>4. CASE dir = "req"
        <4>1. r = OnItem(x, k, "req", ItemOf(c), t)
          BY <3>1, <3>4, <1>5
        <4>2. ReqEffect(r, x, k, c)
          BY <4>1, <3>2, <3>3, <3>4, <1>6, ReqItemIs
        <4>3. ReqEffect(r, s, k, c)
          BY <4>2, <1>6, EffectFrom
        <4> QED
          BY <4>3, <2>2, <3>4 DEF Effect
      <3>5. CASE dir # "req"
        <4>0. dir = "resp"
          BY <3>5 DEF Dirs
        <4>1. r = OnItem(x, k, "resp", ItemOf(c), t)
          BY <4>0, <3>1, <1>5
        <4>2. RespEffect(r, x, k, c)
          BY <4>1, <3>1, <3>2, <3>3, <3>5, <1>6, RespItemIs
        <4>3. RespEffect(r, s, k, c)
          BY <4>2, <1>6, EffectFrom
        <4> QED
          BY <4>3, <2>2, <3>5 DEF Effect
      <3> QED
        BY <3>4, <3>5
    <2> QED
      BY <2>1, <2>2
  <1> QED
    BY <1>9, <1>11, <1>12, <1>13, <1>14, <1>15, <1>16 DEF Took, d

(* A connection that has just been opened by chunk c.                      *)
Idle(d) == ~d.broken /\ ~d.expects /\ d.open = NoBlock

Opened(r, s, k, c) ==
    /\ Clean(s)
    /\ s.conns[k] = NoConn /\ r.conns[k] # NoConn
    /\ \A j \in Times \ {k} : r.conns[j] = s.conns[j]
    /\ Untouched(r, s, k)
    /\ Parsed(r.conns[k].dirs["req"], c) /\ Idle(r.conns[k].dirs["resp"])

(* process_http2_event opens the connection on the client preface: nothing *)
(* waits on it yet, and its request parser has taken the preface.          *)
LEMMA OpenTook ==
  ASSUME NEW s, Kept(s), NEW k \in Times, s.conns[k] = NoConn, NEW c, Opens(c), NEW t \in Times,
         NEW r \in Open(s, k, c, t), Clean(r)
  PROVE  Opened(r, s, k, c)
  <1>0. "req" \in Dirs /\ "resp" \in Dirs /\ "req" # "resp"
    BY DEF Dirs
  <1>1. c \in Openings /\ c \in Chunks("req") /\ c.what = "preface" /\ c.piece # "token2"
        /\ c.piece # "block2"
    BY DEF Opens, Openings, Chunks, Prefatory
  <1>2. PICK x, y : /\ Kept(x) /\ Kept(y) /\ IsForget(y, x, {k})
                    /\ x = s \/ \E u \in HeldFrames, n \in Nat \ {0} :
                                   x \in Process(s, k, "resp", u, "captured", n, t)
                    /\ r \in Process(y, k, "req", c, "captured", 1, t)
                    /\ IsProcess(r, y, k, "req", t)
                    /\ x = s \/ IsProcess(x, s, k, "resp", t)
    BY <1>1, OpenIs
  <1>3. 1 \in Nat \ {0}
    OBVIOUS
  <1>4. Took(r, y, k, "req", c)
    BY <1>0, <1>1, <1>2, <1>3, ProcessTook
  <1>5. y.conns = x.conns /\ y.out = x.out /\ y.missing = x.missing /\ y.short = x.short
    BY <1>2 DEF IsForget, Ledgers
  <1>6. Clean(x)
    BY <1>4, <1>5 DEF Took, Clean
  <1>7. /\ s.conns[k].dirs["req"] = NewDir(TRUE) /\ s.conns[k].dirs["resp"] = NewDir(FALSE)
    BY EmptyConn
  <1>8. /\ Clean(s) /\ Untouched(x, s, k)
        /\ \A j \in Times \ {k} : x.conns[j] = s.conns[j]
        /\ x.conns[k].dirs["req"] = NewDir(TRUE) /\ Idle(x.conns[k].dirs["resp"])
    <2>1. CASE x = s
      <3>1. Idle(NewDir(FALSE))
        BY DEF Idle, NewDir
      <3> QED
        BY <2>1, <3>1, <1>6, <1>7 DEF Untouched, Keeps
    <2>2. CASE x # s
      <3>1. PICK u \in HeldFrames, n \in Nat \ {0} :
                 x \in Process(s, k, "resp", u, "captured", n, t)
        BY <2>2, <1>2
      <3>2. u \in Chunks("resp") /\ u.what = "settings"
            /\ u.piece \in {"whole", "tail1"}
        BY DEF Chunks, Settings, HeldFrames
      <3>3. Took(x, s, k, "resp", u)
        BY <3>1, <3>2, <1>0, <1>6, ProcessTook
      <3>4. Silent(u)
        BY <3>2 DEF Silent
      <3>5. Ready(NewDir(FALSE), u)
        BY <3>2 DEF Ready, NewDir
      <3>6. Untouched(x, s, k)
        BY <3>3, <3>4 DEF Took, Effect
      <3>7. Parsed(x.conns[k].dirs["resp"], u)
        BY <3>3, <3>5, <1>7 DEF Took
      <3>8. Idle(x.conns[k].dirs["resp"])
        BY <3>2, <3>7 DEF Parsed, Idle
      <3> QED
        BY <3>3, <3>6, <3>8, <1>0, <1>7 DEF Took
    <2> QED
      BY <2>1, <2>2
  <1>9. Silent(c)
    BY <1>1 DEF Silent
  <1>10. Untouched(r, y, k)
    BY <1>4, <1>9 DEF Took, Effect
  <1>11. Untouched(r, s, k)
    BY <1>5, <1>8, <1>10 DEF Untouched, Keeps
  <1>12. Ready(NewDir(TRUE), c)
    BY <1>1 DEF Ready, NewDir
  <1>13. Parsed(r.conns[k].dirs["req"], c) /\ Idle(r.conns[k].dirs["resp"])
    BY <1>0, <1>4, <1>5, <1>8, <1>12 DEF Took
  <1>14. r.conns[k] # NoConn /\ \A j \in Times \ {k} : r.conns[j] = s.conns[j]
    BY <1>4, <1>5, <1>8 DEF Took
  <1> QED
    BY <1>8, <1>11, <1>13, <1>14 DEF Opened

(* handle_event with a whole chunk, after a sweep: the chunk is set aside, *)
(* goes to the connection, or opens it.                                    *)
Handled(r, f, k, dir, c) ==
    \/ /\ Clean(f) /\ r.conns = f.conns /\ r.out = f.out
       /\ \/ dir = "resp" /\ c.what = "settings"
          \/ dir = "req" /\ c.what = "preface" /\ c.piece = "magic1"
    \/ f.conns[k] # NoConn /\ Took(r, f, k, dir, c)
    \/ dir = "req" /\ Opens(c) /\ Opened(r, f, k, c)

(* What handle_event does with a chunk that leaves the connection          *)
(* undamaged: it sweeps, and the chunk is dropped, taken or opens the      *)
(* connection.                                                             *)
LEMMA HandledIs ==
  ASSUME NEW s, Kept(s), NEW dir \in Dirs, NEW c \in Chunks(dir),
         NEW over \in Times \cup {Unborn}, NEW t \in Times,
         NEW r \in HandleEvent(s, dir, c, "captured", over, t), Clean(r)
  PROVE  \E k \in Times : \E f : Swept(f, s) /\ Handled(r, f, k, dir, c)
  <1>1. c \in Chunk
    BY ChunksAre
  <1>2. \E k \in Times : \E q, f, cut : /\ Swept(q, s) /\ Met(f, q, dir, cut)
                                   /\ Arms(r, f, k, dir, c, "captured", t)
    BY <1>1, HandleEventIs
  <1>3. PICK k \in Times : \E q, f, cut : /\ Swept(q, s) /\ Met(f, q, dir, cut)
                                     /\ Arms(r, f, k, dir, c, "captured", t)
    BY <1>2
  <1>4. PICK q, f, cut : /\ Swept(q, s) /\ Met(f, q, dir, cut)
                    /\ Arms(r, f, k, dir, c, "captured", t)
    BY <1>3
  <1>5. Kept(f) /\ f \in State
    BY <1>4 DEF Met, Kept, Sound
  <1>6. (cut => f.missing # {}) /\ (~cut => Swept(f, s))
    <2>1. cut => f.missing # {}
      BY <1>4 DEF Met
    <2>2. ASSUME ~cut PROVE Swept(f, s)
      <3>1. /\ Kept(f) /\ f.conns = q.conns /\ f.missing = q.missing /\ f.short = q.short
            /\ f.out = q.out
        BY <1>4, <2>2 DEF Met
      <3>2. ASSUME NEW due, Sheds(q, s, due, "no_response_observed")
            PROVE  Sheds(f, s, due, "no_response_observed")
        BY <3>1, <3>2, <1>5 DEF Sheds
      <3> QED
        BY <3>1, <3>2, <1>4 DEF Swept
    <2> QED
      BY <2>1, <2>2
  <1>8. CASE f.conns[k] # NoConn /\ r \in Process(f, k, dir, c, "captured", 1, t)
    <2>1. 1 \in Nat \ {0}
      OBVIOUS
    <2>2. Took(r, f, k, dir, c)
      BY <2>1, <1>5, <1>8, ProcessTook
    <2> QED
      BY <2>2, <1>6, <1>8 DEF Handled, Took, Clean
  <1>9. CASE f.conns[k] = NoConn /\ c \in Prefatory /\ c.piece = "magic1" /\ r = f
    <2>1. ~cut /\ Clean(f)
      BY <1>6, <1>9 DEF Clean
    <2>2. c.what = "preface" /\ dir = "req"
      BY <1>9, Shapes DEF Prefatory
    <2> QED
      BY <2>1, <2>2, <1>6, <1>9 DEF Handled
  <1>10. CASE f.conns[k] = NoConn /\ c.what = "settings" /\ dir = "resp" /\ r = HoldEarly(f, k, c, t)
    <2>1. IsHold(r, f, k)
      BY <1>5, <1>10, HoldIs
    <2>2. r.missing = f.missing /\ r.short = f.short /\ r.conns = f.conns /\ r.out = f.out
      BY <2>1 DEF IsHold, Ledgers
    <2>3. ~cut /\ Clean(f)
      BY <2>2, <1>6 DEF Clean
    <2> QED
      BY <2>2, <2>3, <1>6, <1>10 DEF Handled
  <1>11. CASE f.conns[k] = NoConn /\ dir = "req" /\ Opens(c) /\ r \in Open(f, k, c, t)
    <2>1. Opened(r, f, k, c)
      BY <1>5, <1>11, OpenTook
    <2>2. ~cut
      BY <2>1, <1>6 DEF Opened, Clean
    <2> QED
      BY <2>1, <2>2, <1>6, <1>11 DEF Handled
  <1>12. CASE f.conns[k] = NoConn /\ Marks(r, f, f.known, f.born, f.prefix, f.missing \cup {dir})
    BY <1>12 DEF Marks, Clean
  <1> QED
    BY <1>4, <1>8, <1>9, <1>10, <1>11, <1>12 DEF Arms

-----------------------------------------------------------------------------
(* What the peers send.                                                    *)

Firsts == {"frame1", "block1", "magic1", "token1", "tail1"}

(* Chunk c makes the parser show the request of stream i.                  *)
Asks(c, i) == c.kind = "method" /\ c.sid = i /\ c.piece \notin {"frame1", "block1"}
Asked(w, i) == \E j \in DOMAIN w : Asks(w[j], i)

(* Chunk c comes before the frames of the client.                          *)
Early(c) == c.what = "preface" /\ c.piece # "token2"
Quiet(a) == \A j \in DOMAIN a : ~Early(a[j])

(* Request chunks that are on the wire or begun.                           *)
AheadOf(w, x) == IF x = NoItem THEN w ELSE Append(w, x)
Ordered(a) == \A j, l \in DOMAIN a : j < l /\ Opens(a[j]) => ~Early(a[l])

(* What the client and the server may send next.                           *)
ReqSent(c) ==
    \/ rest["req"] # NoItem /\ c = rest["req"]
    \/ rest["req"] = NoItem /\ ~opened /\ c \in Prefatory /\ c.piece \in {"whole", "magic1", "token1"}
    \/ /\ rest["req"] = NoItem /\ opened /\ c \in ReqFrames /\ c.piece \in {"whole", "frame1", "block1"}
       /\ c.kind = "method" => sent[c.sid].req = "none"
       /\ c.kind # "method" => sent[c.sid].req = "open"

RespSent(c) ==
    \/ rest["resp"] # NoItem /\ c = rest["resp"]
    \/ rest["resp"] = NoItem /\ c \in HeldFrames
    \/ /\ rest["resp"] = NoItem
       /\ \E i \in Streams :
            /\ sent[i].req # "none"
            /\ \/ /\ sent[i].resp \in {"none", "begun"} /\ c \in Heads("status") /\ c.sid = i
                  /\ c.piece \in {"whole", "frame1", "block1"}
               \/ sent[i].resp = "none" /\ c \in Interims /\ c.sid = i
               \/ sent[i].resp = "none" /\ c \in Goaways /\ c.sid < i
               \/ sent[i].resp = "open" /\ c \in Bodies \cup Trailing \cup Resets /\ c.sid = i

(* HEADERS frames may be split.                                            *)
LEMMA SplitParts ==
  ASSUME NEW kind, NEW i \in Streams, NEW e \in BOOLEAN, NEW f, NEW b,
         NEW c \in Split(Whole("headers", i, kind, e), f, b)
  PROVE  c \in Heads(kind) /\ c.sid = i /\ c.kind = kind /\ c.piece \in {"whole", "frame1", "block1"}
  <1> DEFINE w == Whole("headers", i, kind, e)
  <1>1. w.sid = i /\ w.kind = kind /\ w.piece = "whole"
    BY DEF Whole
  <1>2. w \in Heads(kind)
    BY DEF Whole, Heads, PieceNames
  <1>3. c = w \/ c = [w EXCEPT !.piece = "frame1"] \/ c = [w EXCEPT !.piece = "block1"]
    BY DEF Split
  <1> HIDE DEF w
  <1>4. c.sid = w.sid /\ c.kind = w.kind /\ c.piece \in {w.piece, "frame1", "block1"}
    BY <1>2, <1>3 DEF Heads
  <1>5. c \in Heads(kind)
    BY SplitIs
  <1> QED
    BY <1>1, <1>4, <1>5

(* Every chunk the client emits is one that it may send next.              *)
LEMMA ReqSentIs ==
  ASSUME EnvType, NEW c \in NextChunks("req")
  PROVE  ReqSent(c)
  <1>1. CASE rest["req"] # NoItem
    BY <1>1 DEF NextChunks, ReqSent
  <1>2. CASE rest["req"] = NoItem /\ ~opened
    <2>1. c \in Prefaces
      BY <1>2 DEF NextChunks
    <2> DEFINE w == Whole("preface", 0, "none", FALSE)
    <2>2. c = w \/ c = [w EXCEPT !.piece = "magic1"] \/ c = [w EXCEPT !.piece = "token1"]
      BY <2>1 DEF Prefaces
    <2>3. w \in Prefatory /\ w.piece = "whole"
      BY DEF Whole, Prefatory, PrefacePieces
    <2> HIDE DEF w
    <2>4. c \in Prefatory /\ c.piece \in {"whole", "magic1", "token1"}
      BY <2>2, <2>3 DEF Prefatory, PrefacePieces
    <2> QED
      BY <2>4, <1>2 DEF ReqSent
  <1>3. CASE rest["req"] = NoItem /\ opened
    <2>1. PICK i \in Streams : c \in Requests(i)
      BY <1>3 DEF NextChunks
    <2>2. CASE sent[i].req = "none"
      <3>1. PICK e \in BOOLEAN : c \in Split(Whole("headers", i, "method", e), "req_frame", "req_block")
        BY <2>1, <2>2 DEF Requests
      <3>2. c \in Heads("method") /\ c.sid = i /\ c.kind = "method"
            /\ c.piece \in {"whole", "frame1", "block1"}
        BY <3>1, SplitParts
      <3> QED
        BY <3>2, <2>2, <1>3 DEF ReqSent, ReqFrames
    <2>3. CASE sent[i].req = "open"
      <3>1. c \in {Whole("data", i, "plain", TRUE), Whole("headers", i, "plain", TRUE),
                   Whole("reset", i, "plain", FALSE)}
        BY <2>1, <2>3 DEF Requests, Extra
      <3>2. c.sid = i /\ c.kind = "plain" /\ c.piece = "whole"
        BY <3>1 DEF Whole
      <3>3. c \in ReqFrames
        <4>1. /\ Whole("data", i, "plain", TRUE) \in ReqFrames
              /\ Whole("headers", i, "plain", TRUE) \in ReqFrames
              /\ Whole("reset", i, "plain", FALSE) \in ReqFrames
          BY DEF ReqFrames, Whole, Bodies, Trailing, Resets
        <4> QED
          BY <3>1, <4>1
      <3> QED
        BY <3>2, <3>3, <2>3, <1>3 DEF ReqSent
    <2>4. CASE sent[i].req \notin {"none", "open"}
      BY <2>1, <2>4 DEF Requests
    <2> QED
      BY <2>2, <2>3, <2>4
  <1> QED
    BY <1>1, <1>2, <1>3 DEF EnvType

(* Every chunk the server emits is one that it may send next.              *)
LEMMA RespSentIs ==
  ASSUME EnvType, NEW c \in NextChunks("resp")
  PROVE  RespSent(c)
  <1>1. CASE rest["resp"] # NoItem
    BY <1>1 DEF NextChunks, RespSent
  <1>2. CASE rest["resp"] = NoItem
    <2>1. c \in (IF \A i \in Streams : sent[i].req = "none"
                 THEN Extra("settings", Connecting) ELSE {})
                \cup UNION {Responses(i) : i \in Streams}
      BY <1>2 DEF NextChunks
    <2>2. CASE c \in Connecting
      <3> DEFINE w == Whole("settings", 0, "none", FALSE)
      <3>1. w \in HeldFrames
        BY DEF Whole, Settings, HeldFrames
      <3>2. c \in {w, [w EXCEPT !.piece = "tail1"]}
        BY <2>2 DEF Connecting
      <3> HIDE DEF w
      <3>3. c \in HeldFrames
        BY <3>1, <3>2 DEF Settings, HeldFrames
      <3> QED
        BY <3>3, <1>2 DEF RespSent
    <2>3. CASE c \notin Connecting
      <3>1. PICK i \in Streams : c \in Responses(i)
        BY <2>1, <2>3 DEF Extra
      <3> DEFINE r1 == sent[i].req
                 r2 == sent[i].resp
                 A == UNION {Split(Whole("headers", i, "status", e), "resp_frame", "resp_block") :
                               e \in BOOLEAN}
                 B == IF r2 = "begun" THEN {}
                      ELSE Extra("interim", {Whole("headers", i, "interim", FALSE)})
                           \cup Extra("promise", {Whole("headers", i, "promise", FALSE)})
                           \cup Extra("goaway", {Whole("goaway", j, "plain", FALSE) :
                                                   j \in {j \in Streams : j < i}})
                 C == Extra("data", {Whole("data", i, "plain", e) :
                                       e \in IF sent[i].data < MaxBody THEN BOOLEAN ELSE {TRUE}})
                      \cup Extra("trailers", {Whole("headers", i, "plain", TRUE)})
                      \cup Extra("reset", {Whole("reset", i, "plain", FALSE)})
      <3>2. Responses(i) = CASE r1 = "none" -> {}
                             [] r1 # "none" /\ r2 \in {"none", "begun"} -> A \cup B
                             [] r1 # "none" /\ r2 = "open" -> C
                             [] OTHER -> {}
        BY DEF Responses
      <3>a. ASSUME c \in A PROVE c \in Heads("status") /\ c.sid = i
                                 /\ c.piece \in {"whole", "frame1", "block1"}
        <4>1. PICK e \in BOOLEAN : c \in Split(Whole("headers", i, "status", e), "resp_frame", "resp_block")
          BY <3>a
        <4> QED
          BY <4>1, SplitParts
      <3>b. ASSUME c \in B
            PROVE  /\ r2 # "begun"
                   /\ \/ c \in Interims /\ c.sid = i
                      \/ c \in Goaways /\ c.sid < i
        <4>1. r2 # "begun" /\ (\/ c = Whole("headers", i, "interim", FALSE)
                               \/ c = Whole("headers", i, "promise", FALSE)
                               \/ \E j \in Streams : j < i /\ c = Whole("goaway", j, "plain", FALSE))
          BY <3>b DEF Extra
        <4>2. /\ Whole("headers", i, "interim", FALSE) \in Interims
              /\ Whole("headers", i, "promise", FALSE) \in Interims
              /\ Whole("headers", i, "interim", FALSE).sid = i
              /\ Whole("headers", i, "promise", FALSE).sid = i
          BY DEF Whole, Interims
        <4>3. \A j \in Streams : /\ Whole("goaway", j, "plain", FALSE) \in Goaways
                                 /\ Whole("goaway", j, "plain", FALSE).sid = j
          BY DEF Whole, Goaways
        <4> QED
          BY <4>1, <4>2, <4>3
      <3>c. ASSUME c \in C PROVE c \in Bodies \cup Trailing \cup Resets /\ c.sid = i
        <4>1. \/ \E e \in BOOLEAN : c = Whole("data", i, "plain", e)
              \/ c = Whole("headers", i, "plain", TRUE)
              \/ c = Whole("reset", i, "plain", FALSE)
          BY <3>c DEF Extra
        <4>2. \A e \in BOOLEAN : Whole("data", i, "plain", e) \in Bodies
                                 /\ Whole("data", i, "plain", e).sid = i
          BY DEF Whole, Bodies
        <4>3. /\ Whole("headers", i, "plain", TRUE) \in Trailing
              /\ Whole("headers", i, "plain", TRUE).sid = i
              /\ Whole("reset", i, "plain", FALSE) \in Resets
              /\ Whole("reset", i, "plain", FALSE).sid = i
          BY DEF Whole, Trailing, Resets
        <4> QED
          BY <4>1, <4>2, <4>3
      <3> HIDE DEF A, B, C
      <3>3. \/ /\ r1 # "none" /\ r2 \in {"none", "begun"} /\ c \in A \cup B
            \/ r1 # "none" /\ r2 = "open" /\ c \in C
        BY <3>1, <3>2
      <3> QED
        BY <3>3, <3>a, <3>b, <3>c, <1>2 DEF RespSent
    <2> QED
      BY <2>2, <2>3
  <1> QED
    BY <1>1, <1>2

(* What a chunk of the client, or of the server, does to the record of     *)
(* what was sent.                                                          *)
ReqMoves(T, S, c) ==
    IF c.piece \in Firsts \/ c.what = "preface" THEN T = S
    ELSE /\ \A i \in Streams \ {c.sid} : T[i] = S[i]
         /\ T[c.sid].req # "none"
         /\ T[c.sid].resp = IF c.what = "reset" THEN "done" ELSE S[c.sid].resp
         /\ T[c.sid].data = S[c.sid].data /\ T[c.sid].trailers = S[c.sid].trailers

RespMoves(T, S, c) ==
    IF c.piece \in Firsts \/ c.what = "settings" THEN T = S
    ELSE IF c.what = "goaway"
    THEN \A i \in Streams :
           /\ T[i].req = S[i].req /\ T[i].data = S[i].data /\ T[i].trailers = S[i].trailers
           /\ T[i].resp = IF i > c.sid /\ S[i].req # "none" THEN "done" ELSE S[i].resp
    ELSE /\ \A i \in Streams \ {c.sid} : T[i] = S[i]
         /\ T[c.sid].req = IF c.what = "reset" THEN "done" ELSE S[c.sid].req
         /\ T[c.sid].resp = IF c.kind \in {"interim", "promise"} THEN "begun"
                            ELSE IF c.what = "reset" \/ c.end THEN "done" ELSE "open"
         /\ T[c.sid].data = IF c.what = "data" THEN S[c.sid].data + 1 ELSE S[c.sid].data
         /\ T[c.sid].trailers <=> \/ S[c.sid].trailers
                                  \/ c.what = "headers" /\ c.kind = "plain"

(* Which piece comes second.                                               *)
LEMMA Seconds ==
  /\ DOMAIN Second = Firsts
  /\ Second["frame1"] = "frame2" /\ Second["block1"] = "block2"
  /\ Second["magic1"] = "magic2" /\ Second["token1"] = "token2"
  /\ Second["tail1"] = "tail2"
  BY DEF Second, Firsts

(* One field, or more, of one record changes.                              *)
LEMMA StageSet ==
  ASSUME NEW S \in [Streams -> Stages], NEW id \in Streams, NEW v \in Stages, NEW T,
         T = [S EXCEPT ![id] = v]
  PROVE  T[id] = v /\ \A i \in Streams \ {id} : T[i] = S[i]
  OBVIOUS

(* How far the client is on each stream once it has sent a chunk.          *)
LEMMA ReqMovesIs ==
  ASSUME EnvType, NEW c \in Chunks("req"), NEW cost, Emit("req", c, cost)
  PROVE  ReqMoves(sent', sent, c)
  <1> DEFINE stage == IF c.end THEN "done" ELSE "open"
             id == c.sid
             x == sent[id]
  <1>0. sent \in [Streams -> Stages] /\ "req" \in Dirs
    BY DEF EnvType, Dirs
  <1>1. CASE c.piece \in Firsts
    BY <1>1, Seconds DEF Emit, ReqMoves
  <1>2. CASE c.piece \notin Firsts /\ c.what = "preface"
    <2>0. c.kind = "none"
      BY <1>0, <1>2, Shapes DEF Prefatory
    <2>1. sent' = Stage("req", c)
      BY <1>2, Seconds DEF Emit
    <2>2. Stage("req", c) = sent
      BY <2>0, <1>2 DEF Stage
    <2> QED
      BY <2>1, <2>2, <1>2 DEF ReqMoves
  <1>3. CASE c.piece \notin Firsts /\ c.what # "preface"
    <2>1. sent' = Stage("req", c)
      BY <1>3, Seconds DEF Emit
    <2>2. c \in ReqFrames
      BY <1>0, <1>3, Shapes
    <2>3. /\ id \in Streams /\ c.end \in BOOLEAN /\ c.what \in {"headers", "data", "reset"}
          /\ c.kind \in {"method", "plain"}
      BY <2>2 DEF ReqFrames, Heads, Bodies, Trailing, Resets
    <2>4. x \in Stages
      BY <1>0, <2>3
    <2>5. CASE c.what = "reset"
      <3> DEFINE v == [x EXCEPT !.req = "done", !.resp = "done"]
      <3>1. Stage("req", c) = [sent EXCEPT ![id].req = "done", ![id].resp = "done"]
        BY <2>3, <2>5 DEF Stage
      <3>2. Stage("req", c) = [sent EXCEPT ![id] = v]
        BY <3>1, <2>3, <1>0
      <3>3. v \in Stages
        BY <2>4, Zenon DEF Stages
      <3>4. v.req = "done" /\ v.resp = "done" /\ v.data = x.data /\ v.trailers = x.trailers
        BY <2>4 DEF Stages
      <3> HIDE DEF v
      <3>5. sent'[id] = v /\ \A i \in Streams \ {id} : sent'[i] = sent[i]
        BY <3>2, <3>3, <2>1, <2>3, <1>0, StageSet
      <3> QED
        BY <3>4, <3>5, <2>5, <1>3 DEF ReqMoves
    <2>6. CASE c.what # "reset"
      <3> DEFINE v == [x EXCEPT !.req = stage]
      <3>1. Stage("req", c) = [sent EXCEPT ![id].req = stage]
        BY <2>3, <2>6 DEF Stage
      <3>s. stage \in {"open", "done"}
        OBVIOUS
      <3> HIDE DEF stage
      <3>2. Stage("req", c) = [sent EXCEPT ![id] = v]
        BY <3>1, <2>3, <1>0
      <3>3. v \in Stages
        BY <2>4, <3>s DEF Stages
      <3>4. v.req = stage /\ v.resp = x.resp /\ v.data = x.data /\ v.trailers = x.trailers
        BY <2>4 DEF Stages
      <3> HIDE DEF v
      <3>5. sent'[id] = v /\ \A i \in Streams \ {id} : sent'[i] = sent[i]
        BY <3>2, <3>3, <2>1, <2>3, <1>0, StageSet
      <3> QED
        BY <3>4, <3>5, <3>s, <2>6, <1>3 DEF ReqMoves
    <2> QED
      BY <2>5, <2>6
  <1> QED
    BY <1>1, <1>2, <1>3

(* How far the server is on each stream once it has sent a chunk.          *)
LEMMA RespMovesIs ==
  ASSUME EnvType, NEW c \in Chunks("resp"), NEW cost, Emit("resp", c, cost)
  PROVE  RespMoves(sent', sent, c)
  <1> DEFINE stage == IF c.end THEN "done" ELSE "open"
             id == c.sid
             x == sent[id]
  <1>0. sent \in [Streams -> Stages] /\ "resp" \in Dirs /\ "resp" # "req"
    BY DEF EnvType, Dirs
  <1>1. CASE c.piece \in Firsts
    BY <1>1, Seconds DEF Emit, RespMoves
  <1>2. CASE c.piece \notin Firsts /\ c.what = "settings"
    <2>0. c.kind = "none"
      BY <1>0, <1>2, Shapes
    <2>1. sent' = Stage("resp", c)
      BY <1>2, Seconds DEF Emit
    <2>2. Stage("resp", c) = sent
      BY <2>0, <1>2 DEF Stage
    <2> QED
      BY <2>1, <2>2, <1>2 DEF RespMoves
  <1>3. CASE c.piece \notin Firsts /\ c.what # "settings"
    <2>1. sent' = Stage("resp", c)
      BY <1>3, Seconds DEF Emit
    <2>0. c.what # "preface"
      BY <1>0, Shapes
    <2>2. c \in RespFrames
      BY <1>0, <1>3, <2>0, Shapes
    <2>3. /\ id \in Streams /\ c.end \in BOOLEAN /\ c.what \in {"headers", "data", "reset", "goaway"}
          /\ c.kind \in {"status", "interim", "promise", "plain"}
          /\ c.what # "headers" => c.kind = "plain"
          /\ c.what \in {"reset", "goaway"} => ~c.end
      BY <2>2 DEF RespFrames, Heads, Interims, Bodies, Trailing, Resets, Goaways
    <2>4. x \in Stages
      BY <1>0, <2>3
    <2>5. CASE c.what = "goaway"
      <3>1. Stage("resp", c) = [i \in Streams |-> IF i > id /\ sent[i].req # "none"
                                THEN [sent[i] EXCEPT !.resp = "done"] ELSE sent[i]]
        BY <2>3, <2>5 DEF Stage
      <3>2. ASSUME NEW i \in Streams
            PROVE  LET v == [sent[i] EXCEPT !.resp = "done"] IN
                   /\ v.req = sent[i].req /\ v.resp = "done" /\ v.data = sent[i].data
                   /\ v.trailers = sent[i].trailers
        BY <1>0 DEF Stages
      <3>3. ASSUME NEW i \in Streams
            PROVE  /\ sent'[i].req = sent[i].req /\ sent'[i].data = sent[i].data
                   /\ sent'[i].trailers = sent[i].trailers
                   /\ sent'[i].resp = IF i > id /\ sent[i].req # "none" THEN "done" ELSE sent[i].resp
        <4>1. sent'[i] = IF i > id /\ sent[i].req # "none"
                         THEN [sent[i] EXCEPT !.resp = "done"] ELSE sent[i]
          BY <2>1, <3>1
        <4> QED
          BY <4>1, <3>2
      <3> QED
        BY <3>3, <2>5, <1>3 DEF RespMoves
    <2>6. CASE c.kind \in {"interim", "promise"}
      <3> DEFINE v == [x EXCEPT !.resp = "begun"]
      <3>1. Stage("resp", c) = [sent EXCEPT ![id].resp = "begun"]
        BY <2>3, <2>6, <2>0, <1>3 DEF Stage
      <3>2. Stage("resp", c) = [sent EXCEPT ![id] = v]
        BY <3>1, <2>3, <1>0
      <3>3. v \in Stages
        BY <2>4 DEF Stages
      <3>4. v.req = x.req /\ v.resp = "begun" /\ v.data = x.data /\ v.trailers = x.trailers
        BY <2>4 DEF Stages
      <3> HIDE DEF v
      <3>5. sent'[id] = v /\ \A i \in Streams \ {id} : sent'[i] = sent[i]
        BY <3>2, <3>3, <2>1, <2>3, <1>0, StageSet
      <3>6. c.what = "headers" /\ c.kind # "plain"
        BY <2>3, <2>6
      <3> QED
        BY <3>4, <3>5, <3>6, <2>6, <1>3 DEF RespMoves
    <2>7. CASE c.what = "reset"
      <3> DEFINE v == [x EXCEPT !.req = "done", !.resp = "done"]
      <3>1. Stage("resp", c) = [sent EXCEPT ![id].req = "done", ![id].resp = "done"]
        BY <2>3, <2>7 DEF Stage
      <3>2. Stage("resp", c) = [sent EXCEPT ![id] = v]
        BY <3>1, <2>3, <1>0
      <3>3. v \in Stages
        BY <2>4, Zenon DEF Stages
      <3>4. v.req = "done" /\ v.resp = "done" /\ v.data = x.data /\ v.trailers = x.trailers
        BY <2>4 DEF Stages
      <3> HIDE DEF v
      <3>5. sent'[id] = v /\ \A i \in Streams \ {id} : sent'[i] = sent[i]
        BY <3>2, <3>3, <2>1, <2>3, <1>0, StageSet
      <3>6. c.kind = "plain"
        BY <2>3, <2>7
      <3> QED
        BY <3>4, <3>5, <3>6, <2>7, <1>3 DEF RespMoves
    <2>8. CASE c.what \in {"headers", "data"} /\ c.kind \notin {"interim", "promise"}
      <3> DEFINE n == x.data + (IF c.what = "data" THEN 1 ELSE 0)
                 b == x.trailers \/ (c.what = "headers" /\ c.kind = "plain")
                 v == [x EXCEPT !.resp = stage, !.data = n, !.trailers = b]
      <3>1. Stage("resp", c) = [sent EXCEPT ![id].resp = stage, ![id].data = n, ![id].trailers = b]
        BY <2>3, <2>8, <1>0 DEF Stage
      <3>s. stage \in {"open", "done"} /\ n \in Nat /\ b \in BOOLEAN
        BY <2>4 DEF Stages
      <3>n. n = IF c.what = "data" THEN x.data + 1 ELSE x.data
        BY <2>4 DEF Stages
      <3>b. b <=> x.trailers \/ (c.what = "headers" /\ c.kind = "plain")
        OBVIOUS
      <3> HIDE DEF n, b
      <3>t. stage = IF c.end THEN "done" ELSE "open"
        OBVIOUS
      <3> HIDE DEF stage
      <3>2. Stage("resp", c) = [sent EXCEPT ![id] = v]
        BY <3>1, <2>3, <1>0
      <3>3. v \in Stages
        BY <2>4, <3>s DEF Stages
      <3>4. v.req = x.req /\ v.resp = stage /\ v.data = n /\ v.trailers = b
        BY <2>4, <3>s DEF Stages
      <3> HIDE DEF v
      <3>5. sent'[id] = v /\ \A i \in Streams \ {id} : sent'[i] = sent[i]
        BY <3>2, <3>3, <2>1, <2>3, <1>0, StageSet
      <3>6. /\ sent'[id].req = x.req /\ sent'[id].resp = IF c.end THEN "done" ELSE "open"
            /\ sent'[id].data = IF c.what = "data" THEN x.data + 1 ELSE x.data
            /\ sent'[id].trailers <=> x.trailers \/ (c.what = "headers" /\ c.kind = "plain")
        BY <3>4, <3>5, <3>n, <3>b, <3>t
      <3> QED
        BY <3>5, <3>6, <2>8, <1>3 DEF RespMoves
    <2> QED
      BY <2>3, <2>5, <2>6, <2>7, <2>8
  <1> QED
    BY <1>1, <1>2, <1>3

-----------------------------------------------------------------------------
(* Sequences of chunks.                                                    *)

(* The elements of a sequence with one more at its end.                    *)
LEMMA AppendIs ==
  ASSUME NEW C, NEW w \in Seq(C), NEW c \in C, NEW a, a = Append(w, c)
  PROVE  /\ a \in Seq(C) /\ Len(a) = Len(w) + 1 /\ Len(w) \in Nat /\ a # <<>>
         /\ DOMAIN a = 1..(Len(w) + 1) /\ DOMAIN w = 1..Len(w)
         /\ a[Len(w) + 1] = c /\ \A j \in 1..Len(w) : a[j] = w[j]
  OBVIOUS

(* The elements of a sequence without its first.                           *)
LEMMA TailIs ==
  ASSUME NEW C, NEW w \in Seq(C), w # <<>>
  PROVE  /\ Tail(w) \in Seq(C) /\ Len(Tail(w)) = Len(w) - 1 /\ Len(w) \in Nat \ {0}
         /\ DOMAIN w = 1..Len(w) /\ DOMAIN Tail(w) = 1..(Len(w) - 1)
         /\ Head(w) = w[1] /\ Head(w) \in C
         /\ \A j \in 1..(Len(w) - 1) : Tail(w)[j] = w[j + 1]
  OBVIOUS

(* Taking a chunk off the wire takes it off what is ahead.                 *)
LEMMA AheadTail ==
  ASSUME NEW C, NEW w \in Seq(C), w # <<>>, NEW x, x = NoItem \/ x \in C
  PROVE  /\ AheadOf(w, x) \in Seq(C) /\ AheadOf(w, x) # <<>> /\ Head(AheadOf(w, x)) = Head(w)
         /\ AheadOf(Tail(w), x) = Tail(AheadOf(w, x))
  <1>1. CASE x = NoItem
    BY <1>1 DEF AheadOf
  <1>2. CASE x # NoItem
    <2> DEFINE a == Append(w, x)
               b == Append(Tail(w), x)
    <2>1. a = AheadOf(w, x) /\ b = AheadOf(Tail(w), x) /\ x \in C
      BY <1>2 DEF AheadOf
    <2>2. Tail(w) \in Seq(C) /\ Len(Tail(w)) = Len(w) - 1 /\ Len(w) \in Nat \ {0}
          /\ \A j \in 1..(Len(w) - 1) : Tail(w)[j] = w[j + 1]
      BY TailIs
    <2>3. a \in Seq(C) /\ Len(a) = Len(w) + 1 /\ a # <<>> /\ a[Len(w) + 1] = x
          /\ \A j \in 1..Len(w) : a[j] = w[j]
      BY <2>1, AppendIs
    <2>4. b \in Seq(C) /\ Len(b) = Len(w) /\ b[Len(w)] = x
          /\ \A j \in 1..(Len(w) - 1) : b[j] = Tail(w)[j]
      BY <2>1, <2>2, AppendIs
    <2>5. Tail(a) \in Seq(C) /\ Len(Tail(a)) = Len(w) /\ Head(a) = a[1]
          /\ \A j \in 1..Len(w) : Tail(a)[j] = a[j + 1]
      BY <2>2, <2>3, TailIs
    <2>6. Head(a) = Head(w)
      BY <2>2, <2>3, <2>5
    <2> HIDE DEF a, b
    <2>7. ASSUME NEW j \in 1..Len(w) PROVE Tail(a)[j] = b[j]
      BY <2>2, <2>3, <2>4, <2>5
    <2>8. Tail(a) = b
      BY <2>2, <2>4, <2>5, <2>7
    <2> QED
      BY <2>1, <2>3, <2>6, <2>8
  <1> QED
    BY <1>1, <1>2

(* The order of the preface.                                               *)
LEMMA OrderedTail ==
  ASSUME NEW C, NEW a \in Seq(C), a # <<>>, Ordered(a)
  PROVE  /\ Ordered(Tail(a))
         /\ Opens(Head(a)) => Quiet(Tail(a))
         /\ Quiet(a) => Quiet(Tail(a)) /\ ~Early(Head(a))
  <1>1. /\ DOMAIN a = 1..Len(a) /\ Len(a) \in Nat \ {0} /\ DOMAIN Tail(a) = 1..(Len(a) - 1)
        /\ Head(a) = a[1] /\ \A j \in 1..(Len(a) - 1) : Tail(a)[j] = a[j + 1]
    BY TailIs
  <1>2. Ordered(Tail(a))
    BY <1>1 DEF Ordered
  <1>3. Opens(Head(a)) => Quiet(Tail(a))
    BY <1>1 DEF Ordered, Quiet
  <1>4. Quiet(a) => Quiet(Tail(a)) /\ ~Early(Head(a))
    BY <1>1 DEF Quiet
  <1> QED
    BY <1>2, <1>3, <1>4

(* What is ahead stays in order when a chunk is put at its end.            *)
LEMMA OrderedAppend ==
  ASSUME NEW C, NEW w \in Seq(C), NEW c \in C, NEW a, a = Append(w, c)
  PROVE  /\ Ordered(w) /\ (~Early(c) \/ \A j \in DOMAIN w : ~Opens(w[j])) => Ordered(a)
         /\ Ordered(a) => Ordered(w)
         /\ Quiet(a) <=> Quiet(w) /\ ~Early(c)
  <1>1. /\ Len(w) \in Nat /\ DOMAIN a = 1..(Len(w) + 1) /\ DOMAIN w = 1..Len(w)
        /\ a[Len(w) + 1] = c /\ \A j \in 1..Len(w) : a[j] = w[j]
    BY AppendIs
  <1>2. Ordered(w) /\ (~Early(c) \/ \A j \in DOMAIN w : ~Opens(w[j])) => Ordered(a)
    BY <1>1 DEF Ordered
  <1>3. Ordered(a) => Ordered(w)
    BY <1>1 DEF Ordered
  <1>4. Quiet(a) <=> Quiet(w) /\ ~Early(c)
    BY <1>1 DEF Quiet
  <1> QED
    BY <1>2, <1>3, <1>4

-----------------------------------------------------------------------------
(* The peers.                                                              *)

(* A stream is asked for once, and answered after that.                    *)
AskedOnce(w, S) ==
    /\ \A i \in Streams : S[i].req = "none" => S[i].resp = "none" /\ ~Asked(w, i)
    /\ \A i \in Streams : \A j, l \in DOMAIN w : Asks(w[j], i) /\ Asks(w[l], i) => j = l

Begun(S) ==
    \A i \in Streams : S[i].resp \in {"none", "begun"} => S[i].data = 0 /\ ~S[i].trailers

(* What is left of a split chunk.                                          *)
ReqRest(x, S) ==
    x # NoItem => x.piece \notin Firsts /\ (x.kind = "method" => S[x.sid].req = "none")
RespRest(x, S) ==
    x # NoItem => /\ x.piece \notin Firsts
                  /\ \/ x.what = "settings" /\ x.piece = "tail2"
                     \/ /\ x.kind = "status" /\ x.what = "headers"
                        /\ S[x.sid].req # "none" /\ S[x.sid].data = 0 /\ ~S[x.sid].trailers

Peers ==
    /\ AskedOnce(wire, sent) /\ Begun(sent)
    /\ ReqRest(rest["req"], sent) /\ RespRest(rest["resp"], sent)
    /\ ~opened => wire = <<>> /\ rest["req"] = NoItem
    /\ Ordered(AheadOf(wire, rest["req"]))

(* The chunk a split leaves.                                               *)
LEMMA EmitRest ==
  ASSUME EnvType, NEW dir \in Dirs, NEW c \in Chunks(dir), NEW cost, Emit(dir, c, cost)
  PROVE  /\ \A d \in Dirs \ {dir} : rest'[d] = rest[d]
         /\ c.piece \notin Firsts => rest'[dir] = NoItem
         /\ c.piece \in Firsts =>
              /\ rest'[dir] # NoItem /\ rest'[dir] \in Chunks(dir)
              /\ rest'[dir].piece = Second[c.piece] /\ rest'[dir].what = c.what
              /\ rest'[dir].sid = c.sid /\ rest'[dir].kind = c.kind /\ rest'[dir].end = c.end
  <1> DEFINE v == [c EXCEPT !.piece = Second[c.piece]]
  <1>1. rest' = [rest EXCEPT ![dir] = IF c.piece \in Firsts THEN v ELSE NoItem]
    BY Seconds DEF Emit
  <1>2. rest \in [Dirs -> Chunk \cup {NoItem}]
    BY DEF EnvType
  <1>3. ASSUME c.piece \in Firsts
        PROVE  /\ v.piece = Second[c.piece] /\ v.what = c.what /\ v.sid = c.sid /\ v.kind = c.kind
               /\ v.end = c.end
    <2>1. CASE c.what = "preface"
      <3>1. c \in Prefatory
        BY <2>1, Shapes
      <3> QED
        BY <3>1 DEF Prefatory
    <2>s. CASE c.what = "settings"
      <3>1. c \in Settings
        BY <2>s, Shapes
      <3> QED
        BY <3>1 DEF Settings
    <2>2. CASE c.what \notin {"preface", "settings"}
      <3>1. c.what = "headers" /\ c.piece # "whole"
        BY <2>2, <1>3, Shapes DEF Firsts
      <3>2. c \in Frames
        BY <3>1, ChunksAre
      <3> QED
        BY <3>2 DEF Frames
    <2> QED
      BY <2>1, <2>s, <2>2
  <1>4. c.piece \in Firsts => v # NoItem
    <2> SUFFICES ASSUME c.piece \in Firsts PROVE v # NoItem
      OBVIOUS
    <2>1. v.what = c.what
      BY <1>3
    <2>2. c.what # "none"
      BY Shapes
    <2> QED
      BY <2>1, <2>2 DEF NoItem
  <1>5. c.piece \in Firsts => v \in Chunks(dir)
    <2> SUFFICES ASSUME c.piece \in Firsts PROVE v \in Chunks(dir)
      OBVIOUS
    <2> DEFINE p == Second[c.piece]
    <2>2. ASSUME NEW kind, c \in Heads(kind) PROVE [c EXCEPT !.piece = p] \in Heads(kind)
      <3>1. p \in PieceNames
        BY <2>2, Seconds DEF Heads, PieceNames, Firsts
      <3> HIDE DEF p
      <3> QED
        BY <2>2, <3>1 DEF Heads
    <2>3. CASE c \in Prefatory
      <3>1. p \in PrefacePieces
        BY <2>3, Seconds DEF Prefatory, PrefacePieces, Firsts
      <3> HIDE DEF p
      <3>2. [c EXCEPT !.piece = p] \in Prefatory
        BY <2>3, <3>1 DEF Prefatory
      <3>3. dir = "req"
        BY <2>3, Shapes DEF Prefatory
      <3> QED
        BY <3>2, <3>3 DEF Chunks, p
    <2>s. CASE c \in Settings
      <3>1. p \in {"whole", "tail1", "tail2"}
        BY <2>s, Seconds DEF Settings, Firsts
      <3> HIDE DEF p
      <3>2. [c EXCEPT !.piece = p] \in Settings
        BY <2>s, <3>1 DEF Settings
      <3>3. dir = "resp"
        BY <2>s, Shapes DEF Settings
      <3> QED
        BY <3>2, <3>3 DEF Chunks, p
    <2>4. c \notin Interims /\ c \notin Bodies /\ c \notin Trailing
          /\ c \notin Resets /\ c \notin Goaways
      BY DEF Interims, Bodies, Trailing, Resets, Goaways, Firsts
    <2>5. v = [c EXCEPT !.piece = p]
      OBVIOUS
    <2> HIDE DEF p, v
    <2> QED
      BY <2>2, <2>3, <2>s, <2>4, <2>5 DEF Chunks, ReqFrames, RespFrames
  <1> HIDE DEF v
  <1> QED
    BY <1>1, <1>2, <1>3, <1>4, <1>5

(* How the request chunks grow.                                            *)
Grows(c, a, b) ==
    \/ rest["req"] # NoItem /\ c = rest["req"] /\ rest'["req"] = NoItem /\ b = a
    \/ /\ rest["req"] = NoItem /\ a = wire /\ c.piece = "whole" /\ rest'["req"] = NoItem
       /\ b = Append(a, c)
    \/ /\ rest["req"] = NoItem /\ a = wire /\ c.piece \in Firsts
       /\ rest'["req"].piece = Second[c.piece] /\ rest'["req"].what = c.what
       /\ rest'["req"].kind = c.kind /\ rest'["req"].sid = c.sid
       /\ rest'["req"] # NoItem /\ b = Append(Append(a, c), rest'["req"])

(* What the client emits goes to the end of what is ahead, with the second *)
(* piece of a split chunk.                                                 *)
LEMMA CallGrows ==
  ASSUME EnvType, Peers, NEW c \in NextChunks("req"), Emit("req", c, 0), wire' = Append(wire, c)
  PROVE  /\ c \in Chunks("req") /\ ReqSent(c) /\ ReqMoves(sent', sent, c)
         /\ rest'["resp"] = rest["resp"] /\ rest'["req"] \in Chunks("req") \cup {NoItem}
         /\ opened' = (opened \/ c.what = "preface")
         /\ Grows(c, AheadOf(wire, rest["req"]), AheadOf(wire', rest'["req"]))
  <1>0. "req" \in Dirs /\ "resp" \in Dirs \ {"req"}
    BY DEF Dirs
  <1>1. c \in Chunks("req") /\ ReqSent(c)
    BY <1>0, NextChunksAre, ReqSentIs
  <1>2. ReqMoves(sent', sent, c)
    BY <1>1, ReqMovesIs
  <1>3. /\ rest'["resp"] = rest["resp"]
        /\ c.piece \notin Firsts => rest'["req"] = NoItem
        /\ c.piece \in Firsts =>
             /\ rest'["req"] # NoItem /\ rest'["req"] \in Chunks("req")
             /\ rest'["req"].piece = Second[c.piece] /\ rest'["req"].what = c.what
             /\ rest'["req"].sid = c.sid /\ rest'["req"].kind = c.kind
    BY <1>0, <1>1, EmitRest
  <1>4. opened' = (opened \/ c.what = "preface")
    BY DEF Emit
  <1>5. rest["req"] # NoItem => rest["req"].piece \notin Firsts
    BY DEF Peers, ReqRest
  <1>6. Grows(c, AheadOf(wire, rest["req"]), AheadOf(wire', rest'["req"]))
    <2>1. CASE rest["req"] # NoItem
      <3>1. c = rest["req"]
        BY <2>1, <1>1 DEF ReqSent
      <3> QED
        BY <2>1, <3>1, <1>3, <1>5 DEF Grows, AheadOf
    <2>2. CASE rest["req"] = NoItem /\ c.piece \in Firsts
      BY <2>2, <1>3 DEF Grows, AheadOf
    <2>3. CASE rest["req"] = NoItem /\ c.piece \notin Firsts
      <3>1. c.piece = "whole"
        BY <2>3, <1>1 DEF ReqSent, Firsts
      <3> QED
        BY <2>3, <3>1, <1>3 DEF Grows, AheadOf
    <2> QED
      BY <2>1, <2>2, <2>3
  <1> QED
    BY <1>1, <1>2, <1>3, <1>4, <1>6

(* A chunk of the client.                                                  *)
LEMMA CallPeers ==
  ASSUME EnvType, Peers, NEW c \in NextChunks("req"), Emit("req", c, 0), wire' = Append(wire, c)
  PROVE  /\ Peers'
         /\ \A i \in Streams : /\ sent[i].req # "none" /\ ~Asked(wire, i)
                               => sent'[i].req # "none" /\ ~Asked(wire', i)
         /\ opened /\ Quiet(AheadOf(wire, rest["req"]))
              => opened' /\ Quiet(AheadOf(wire', rest'["req"]))
  <1> DEFINE C == Chunks("req")
             a == AheadOf(wire, rest["req"])
             b == AheadOf(wire', rest'["req"])
             y == rest'["req"]
  <1>1. /\ c \in C /\ ReqSent(c) /\ ReqMoves(sent', sent, c) /\ rest'["resp"] = rest["resp"]
        /\ y \in C \cup {NoItem} /\ opened' = (opened \/ c.what = "preface") /\ Grows(c, a, b)
    BY CallGrows
  <1>2. wire \in Seq(C) /\ sent \in [Streams -> Stages] /\ opened \in BOOLEAN
        /\ rest["req"] \in C \cup {NoItem}
    BY DEF EnvType, Dirs
  <1>p. /\ AskedOnce(wire, sent) /\ Begun(sent)
        /\ ReqRest(rest["req"], sent) /\ RespRest(rest["resp"], sent)
        /\ ~opened => wire = <<>> /\ rest["req"] = NoItem
        /\ Ordered(a)
    BY DEF Peers
  <1>c. /\ c.kind = "method" => c.sid \in Streams /\ c.what = "headers"
        /\ c.what # "preface" => c.sid \in Streams
        /\ c.piece \in {"magic1", "token1"} => c.what = "preface"
        /\ c.what = "preface" => c.kind = "none"
        /\ c.piece \in {"frame1", "block1"} => c.what # "preface"
        /\ c.piece # "tail1"
    <2>1. c \in Prefatory \/ c \in ReqFrames
      BY <1>1 DEF Chunks
    <2>2. c \in Prefatory => c.what = "preface" /\ c.kind = "none" /\ c.piece \in PrefacePieces
      BY DEF Prefatory
    <2>3. c \in ReqFrames => /\ c.sid \in Streams /\ c.what # "preface" /\ c.piece \in PieceNames
                             /\ c.kind = "method" => c.what = "headers"
      BY DEF ReqFrames, Heads, Bodies, Trailing, Resets, PieceNames
    <2> QED
      BY <2>1, <2>2, <2>3 DEF PieceNames, PrefacePieces
  <1>w. /\ wire' \in Seq(C) /\ Len(wire) \in Nat /\ DOMAIN wire' = 1..(Len(wire) + 1)
        /\ DOMAIN wire = 1..Len(wire) /\ wire'[Len(wire) + 1] = c
        /\ \A j \in 1..Len(wire) : wire'[j] = wire[j]
    BY <1>1, <1>2, AppendIs
  <1> HIDE DEF a, b, C
  <1>m. c.kind = "method" => sent[c.sid].req = "none"
    BY <1>1, <1>p DEF ReqSent, ReqRest, Prefatory
  <1>a. \A i \in Streams : Asked(wire', i) <=> Asked(wire, i) \/ Asks(c, i)
    BY <1>w DEF Asked
  <1>s. \A i \in Streams : Asks(c, i) => sent[i].req = "none" /\ sent'[i].req # "none"
    <2> SUFFICES ASSUME NEW i \in Streams, Asks(c, i)
                 PROVE  sent[i].req = "none" /\ sent'[i].req # "none"
      OBVIOUS
    <2>1. c.kind = "method" /\ c.sid = i /\ c.piece \notin Firsts /\ c.what # "preface"
      BY <1>c DEF Asks, Firsts
    <2> QED
      BY <2>1, <1>1, <1>m DEF ReqMoves
  <1>r. \A i \in Streams : /\ sent'[i].req = "none" => sent[i] = sent'[i]
                           /\ sent[i].req # "none" => sent'[i].req # "none"
                           /\ sent'[i].data = sent[i].data /\ sent'[i].trailers = sent[i].trailers
                           /\ sent'[i].resp \in {sent[i].resp, "done"}
    <2>1. CASE c.piece \in Firsts \/ c.what = "preface"
      BY <2>1, <1>1 DEF ReqMoves
    <2>2. CASE ~(c.piece \in Firsts \/ c.what = "preface")
      BY <2>2, <1>1 DEF ReqMoves
    <2> QED
      BY <2>1, <2>2
  <1>3. AskedOnce(wire', sent')
    <2>1. ASSUME NEW i \in Streams, sent'[i].req = "none"
          PROVE  sent'[i].resp = "none" /\ ~Asked(wire', i)
      BY <2>1, <1>a, <1>s, <1>r, <1>p DEF AskedOnce
    <2>2. ASSUME NEW i \in Streams, NEW j \in DOMAIN wire', NEW l \in DOMAIN wire',
                 Asks(wire'[j], i), Asks(wire'[l], i)
          PROVE  j = l
      <3>1. CASE j \in DOMAIN wire /\ l \in DOMAIN wire
        BY <3>1, <2>2, <1>w, <1>p DEF AskedOnce
      <3>2. CASE j = Len(wire) + 1 /\ l \in DOMAIN wire
        BY <3>2, <2>2, <1>w, <1>s, <1>p DEF AskedOnce, Asked
      <3>3. CASE j \in DOMAIN wire /\ l = Len(wire) + 1
        BY <3>3, <2>2, <1>w, <1>s, <1>p DEF AskedOnce, Asked
      <3> QED
        BY <3>1, <3>2, <3>3, <1>w
    <2> QED
      BY <2>1, <2>2 DEF AskedOnce
  <1>4. Begun(sent')
    BY <1>r, <1>p DEF Begun
  <1>5. ReqRest(y, sent')
    <2> SUFFICES ASSUME y # NoItem
                 PROVE  y.piece \notin Firsts /\ (y.kind = "method" => sent'[y.sid].req = "none")
      BY DEF ReqRest
    <2>1. c.piece \in Firsts /\ y.piece = Second[c.piece] /\ y.kind = c.kind /\ y.sid = c.sid
      BY <1>1 DEF Grows
    <2>2. y.piece \notin Firsts
      BY <2>1, Seconds DEF Firsts
    <2>3. sent' = sent
      BY <2>1, <1>1 DEF ReqMoves
    <2> QED
      BY <2>1, <2>2, <2>3, <1>m
  <1>6. RespRest(rest'["resp"], sent')
    <2> DEFINE x == rest["resp"]
    <2> SUFFICES ASSUME x # NoItem PROVE RespRest(x, sent')
      BY <1>1 DEF RespRest
    <2>0. CASE x.what = "settings"
      BY <2>0, <1>p DEF RespRest
    <2>1. ASSUME x.what # "settings" PROVE x.sid \in Streams
      <3>1. x \in Chunks("resp") /\ x.kind = "status" /\ "resp" \in Dirs
        BY <2>1, <1>p DEF EnvType, RespRest, Dirs
      <3>2. x.what # "settings" /\ x.what # "preface"
        BY <3>1, Shapes
      <3> QED
        BY <3>1, <3>2, ChunksAre
    <2> QED
      BY <2>0, <2>1, <1>r, <1>p DEF RespRest
  <1>7. opened'
    BY <1>1, <1>2 DEF ReqSent, Prefatory, Peers
  <1>8. Ordered(b) /\ (opened /\ Quiet(a) => Quiet(b))
    <2>1. CASE rest["req"] # NoItem
      BY <2>1, <1>1, <1>p DEF Grows
    <2>2. CASE rest["req"] = NoItem
      <3>1. a = wire
        BY <2>2 DEF a, AheadOf
      <3>2. CASE opened
        <4>1. c.what # "preface"
          BY <2>2, <3>2, <1>1 DEF ReqSent, ReqFrames, Heads, Bodies, Trailing, Resets
        <4>2. ~Early(c) /\ (y # NoItem => ~Early(y))
          BY <4>1, <1>1 DEF Early, Grows
        <4>3. Ordered(wire') /\ (Quiet(a) => Quiet(wire'))
          BY <4>2, <3>1, <1>1, <1>2, <1>p, OrderedAppend
        <4>4. b = wire' \/ (b = Append(wire', y) /\ y # NoItem)
          BY <2>2, <3>1, <1>1 DEF Grows
        <4> QED
          BY <4>2, <4>3, <4>4, <1>1, <1>w, OrderedAppend
      <3>3. CASE ~opened
        <4>1. wire = <<>> /\ c \in Prefatory /\ c.piece \in {"whole", "magic1", "token1"}
          BY <2>2, <3>3, <1>p, <1>1 DEF ReqSent
        <4>2. Ordered(wire')
          BY <4>1, <1>w DEF Ordered
        <4>3. b = wire' \/ (b = Append(wire', y) /\ y # NoItem /\ c.piece \in Firsts
                            /\ y.piece = Second[c.piece])
          BY <2>2, <3>1, <1>1 DEF Grows
        <4>4. CASE b # wire'
          <5>1. c.piece = "magic1" \/ y.piece = "token2"
            BY <4>1, <4>3, <4>4, Seconds DEF Firsts
          <5>2. ~Early(y) \/ \A j \in DOMAIN wire' : ~Opens(wire'[j])
            BY <5>1, <4>1, <1>w DEF Early, Opens
          <5>3. b = Append(wire', y) /\ y \in C /\ wire' \in Seq(C)
            BY <4>3, <4>4, <1>1, <1>w
          <5>4. CASE ~Early(y)
            <6> DEFINE w == wire'
                       z == y
            <6>1. w \in Seq(C) /\ z \in C /\ b = Append(w, z) /\ Ordered(w) /\ ~Early(z)
              BY <5>3, <5>4, <4>2
            <6> HIDE DEF w, z
            <6>2. Ordered(b)
              BY <6>1, OrderedAppend
            <6> QED
              BY <6>2, <3>3
          <5>5. CASE \A j \in DOMAIN wire' : ~Opens(wire'[j])
            <6> DEFINE w == wire'
            <6>1. w \in Seq(C) /\ y \in C /\ b = Append(w, y) /\ Ordered(w)
              BY <5>3, <4>2
            <6>2. \A j \in DOMAIN w : ~Opens(w[j])
              BY <5>5
            <6> HIDE DEF w
            <6>3. Ordered(b)
              BY <6>1, <6>2, OrderedAppend
            <6> QED
              BY <6>3, <3>3
          <5> QED
            BY <5>2, <5>4, <5>5, <3>3
        <4> QED
          BY <4>2, <4>4, <3>3
      <3> QED
        BY <3>2, <3>3
    <2> QED
      BY <2>1, <2>2
  <1>9. Peers'
    BY <1>3, <1>4, <1>5, <1>6, <1>7, <1>8 DEF Peers, b
  <1>10. \A i \in Streams : sent[i].req # "none" /\ ~Asked(wire, i)
                            => sent'[i].req # "none" /\ ~Asked(wire', i)
    BY <1>a, <1>s, <1>r
  <1> QED
    BY <1>7, <1>8, <1>9, <1>10 DEF a, b

(* A chunk of the client is handled or lost.                               *)
LEMMA ReceivePeers ==
  ASSUME EnvType, Peers, wire # <<>>, wire' = Tail(wire), UNCHANGED <<rest, sent, opened>>
  PROVE  /\ Peers' /\ opened
         /\ \A i \in Streams : Asked(wire', i) => Asked(wire, i)
         /\ \A i \in Streams : Asks(Head(wire), i) => sent[i].req # "none" /\ ~Asked(wire', i)
         /\ LET a == AheadOf(wire, rest["req"])
                b == AheadOf(wire', rest["req"])
            IN /\ Opens(Head(wire)) => ~Quiet(a) /\ Quiet(b)
               /\ Quiet(a) => Quiet(b) /\ ~Early(Head(wire))
  <1> DEFINE C == Chunks("req")
             a == AheadOf(wire, rest["req"])
             b == AheadOf(wire', rest["req"])
  <1>1. wire \in Seq(C) /\ (rest["req"] = NoItem \/ rest["req"] \in C)
    BY DEF EnvType, Dirs
  <1> HIDE DEF C
  <1>2. a \in Seq(C) /\ a # <<>> /\ Head(a) = Head(wire) /\ b = Tail(a)
    BY <1>1, AheadTail
  <1>3. /\ DOMAIN wire = 1..Len(wire) /\ DOMAIN wire' = 1..(Len(wire) - 1)
        /\ Head(wire) = wire[1] /\ Len(wire) \in Nat \ {0}
        /\ \A j \in 1..(Len(wire) - 1) : wire'[j] = wire[j + 1]
    BY <1>1, TailIs
  <1>p. /\ AskedOnce(wire, sent) /\ Ordered(a) /\ (~opened => wire = <<>>)
    BY DEF Peers
  <1>4. opened
    BY <1>p
  <1>5. \A i \in Streams : Asked(wire', i) => Asked(wire, i)
    <2> SUFFICES ASSUME NEW i \in Streams, NEW j \in DOMAIN wire', Asks(wire'[j], i)
                 PROVE  Asked(wire, i)
      BY DEF Asked
    <2>1. j + 1 \in DOMAIN wire /\ wire'[j] = wire[j + 1]
      BY <1>3
    <2> QED
      BY <2>1 DEF Asked
  <1>6. AskedOnce(wire', sent)
    <2>1. ASSUME NEW i \in Streams, NEW j \in DOMAIN wire', NEW l \in DOMAIN wire',
                 Asks(wire'[j], i), Asks(wire'[l], i)
          PROVE  j = l
      <3>1. j + 1 \in DOMAIN wire /\ wire'[j] = wire[j + 1] /\ l + 1 \in DOMAIN wire
            /\ wire'[l] = wire[l + 1] /\ j \in Int /\ l \in Int
        BY <1>3
      <3>2. j + 1 = l + 1
        BY <3>1, <2>1, <1>p DEF AskedOnce
      <3> QED
        BY <3>1, <3>2
    <2> QED
      BY <2>1, <1>5, <1>p DEF AskedOnce
  <1>7. ASSUME NEW i \in Streams, Asks(Head(wire), i) PROVE sent[i].req # "none" /\ ~Asked(wire', i)
    <2>1. 1 \in DOMAIN wire /\ Asks(wire[1], i)
      BY <1>3, <1>7
    <2>2. sent[i].req # "none"
      BY <2>1, <1>p DEF AskedOnce, Asked
    <2>3. ASSUME NEW j \in DOMAIN wire', Asks(wire'[j], i) PROVE FALSE
      <3>1. j + 1 \in DOMAIN wire /\ Asks(wire[j + 1], i) /\ j + 1 # 1
        BY <1>3, <2>3
      <3> QED
        BY <3>1, <2>1, <1>p DEF AskedOnce
    <2> QED
      BY <2>2, <2>3 DEF Asked
  <1> HIDE DEF a, b
  <1>8. /\ Ordered(b) /\ (Opens(Head(wire)) => Quiet(b))
        /\ Quiet(a) => Quiet(b) /\ ~Early(Head(wire))
    BY <1>2, <1>p, OrderedTail
  <1>9. Opens(Head(wire)) => Early(Head(wire))
    BY DEF Opens, Early, Prefatory
  <1>10. Peers'
    BY <1>4, <1>6, <1>8 DEF Peers, b
  <1> QED
    BY <1>4, <1>5, <1>7, <1>8, <1>9, <1>10 DEF a, b

(* A chunk of the server.                                                  *)
LEMMA AnswerPeers ==
  ASSUME EnvType, Peers, NEW c \in NextChunks("resp"), NEW cost, Emit("resp", c, cost),
         UNCHANGED wire
  PROVE  /\ Peers'
         /\ c \in Chunks("resp") /\ RespSent(c) /\ RespMoves(sent', sent, c)
         /\ rest'["req"] = rest["req"] /\ opened' = opened
         /\ c.piece \notin Firsts => rest'["resp"] = NoItem
         /\ c.piece \in Firsts => rest'["resp"].sid = c.sid
         /\ c.what \notin {"settings", "goaway"} => c.sid \in Streams /\ sent[c.sid].req # "none"
         /\ \A i \in Streams : sent[i].req # "none" => sent'[i].req # "none"
  <1> DEFINE y == rest'["resp"]
             x == rest["resp"]
  <1>0. "req" \in Dirs \ {"resp"} /\ "resp" \in Dirs
    BY DEF Dirs
  <1>1. c \in Chunks("resp") /\ RespSent(c)
    BY <1>0, NextChunksAre, RespSentIs
  <1>2. RespMoves(sent', sent, c)
    BY <1>1, RespMovesIs
  <1>3. /\ rest'["req"] = rest["req"]
        /\ c.piece \notin Firsts => y = NoItem
        /\ c.piece \in Firsts =>
             /\ y # NoItem /\ y.piece = Second[c.piece] /\ y.what = c.what
             /\ y.sid = c.sid /\ y.kind = c.kind
    BY <1>0, <1>1, EmitRest
  <1>p. /\ AskedOnce(wire, sent) /\ Begun(sent)
        /\ ReqRest(rest["req"], sent) /\ RespRest(x, sent)
        /\ ~opened => wire = <<>> /\ rest["req"] = NoItem
        /\ Ordered(AheadOf(wire, rest["req"]))
    BY DEF Peers
  <1>4. c.what # "preface" /\ opened \in BOOLEAN
    BY <1>0, <1>1, Shapes DEF EnvType
  <1>5. opened' = opened
    BY <1>4 DEF Emit
  <1>x. x # NoItem => /\ x \in Chunks("resp") /\ x.piece \notin Firsts
                      /\ \/ x.what = "settings" /\ x.kind = "none"
                         \/ x.what = "headers" /\ x.kind = "status"
    <2>1. x # NoItem => x \in Chunks("resp")
      BY <1>0 DEF EnvType
    <2>2. x # NoItem /\ x.what = "settings" => x.kind = "none"
      BY <2>1, <1>0, Shapes
    <2> QED
      BY <2>1, <2>2, <1>p DEF RespRest
  <1>h. /\ c \in Heads("status") => /\ c.what = "headers" /\ c.kind = "status" /\ c.sid \in Streams
        /\ c \in Interims => /\ c.what = "headers" /\ c.kind \in {"interim", "promise"}
                             /\ c.sid \in Streams /\ c.piece = "whole"
        /\ c \in Goaways => c.what = "goaway" /\ c.kind = "plain" /\ c.piece = "whole"
        /\ c \in Bodies => c.what = "data" /\ c.kind = "plain" /\ c.piece = "whole"
        /\ c \in Trailing => c.what = "headers" /\ c.kind = "plain" /\ c.piece = "whole"
        /\ c \in Resets => c.what = "reset" /\ c.kind = "plain" /\ c.piece = "whole"
        /\ c \in HeldFrames => c.what = "settings" /\ c.kind = "none"
    BY DEF Heads, Interims, Goaways, Bodies, Trailing, Resets, Settings, HeldFrames
  <1>6. c.what \notin {"settings", "goaway"} => c.sid \in Streams /\ sent[c.sid].req # "none"
    <2>1. CASE x # NoItem
      <3>1. c = x /\ (x.what # "settings" => sent[x.sid].req # "none")
        BY <2>1, <1>1, <1>p DEF RespSent, RespRest
      <3>2. c.what # "settings" => c.sid \in Streams
        BY <2>1, <3>1, <1>x, <1>0, ChunksAre
      <3> QED
        BY <3>1, <3>2
    <2>2. CASE x = NoItem
      BY <2>2, <1>1, <1>h DEF RespSent
    <2> QED
      BY <2>1, <2>2
  (* Only a new response or an interim one leaves a stream begun.            *)
  <1>7. /\ c.kind \in {"interim", "promise"} =>
             c.what = "headers" /\ c.sid \in Streams /\ sent[c.sid].resp = "none"
        /\ c.piece \in Firsts /\ c.what # "settings" =>
                                 /\ c.what = "headers" /\ c.kind = "status" /\ c.sid \in Streams
                                 /\ sent[c.sid].resp \in {"none", "begun"}
                                 /\ sent[c.sid].req # "none"
    <2>1. CASE x # NoItem
      <3>1. c = x
        BY <2>1, <1>1 DEF RespSent
      <3> QED
        BY <2>1, <3>1, <1>x
    <2>2. CASE x = NoItem
      <3>1. c \in HeldFrames \/ \E i \in Streams :
              /\ sent[i].req # "none"
              /\ \/ sent[i].resp \in {"none", "begun"} /\ c \in Heads("status") /\ c.sid = i
                 \/ sent[i].resp = "none" /\ c \in Interims /\ c.sid = i
                 \/ c \in Goaways \cup Bodies \cup Trailing \cup Resets
        BY <2>2, <1>1 DEF RespSent
      <3>3. "whole" \notin Firsts
        BY DEF Firsts
      <3> QED
        BY <3>1, <3>3, <1>h
    <2> QED
      BY <2>1, <2>2
  <1>k. c.kind \in {"interim", "promise"} => c.piece \notin Firsts
    BY <1>7
  <1>g. c.what \notin {"settings", "goaway"} => c.what \in {"headers", "data", "reset"}
    BY <1>0, <1>1, <1>4, Shapes
  (* What happens to a stream.                                               *)
  <1>8. ASSUME NEW i \in Streams
        PROVE  /\ sent[i].req # "none" => sent'[i].req # "none"
               /\ sent[i].req = "none" => sent'[i].req = "none" /\ sent'[i].resp = sent[i].resp
               /\ sent'[i].resp \in {"none", "begun"} =>
                    /\ sent'[i].data = sent[i].data /\ (sent'[i].trailers <=> sent[i].trailers)
                    /\ sent[i].resp \in {"none", "begun"}
    <2>1. CASE c.piece \in Firsts \/ c.what = "settings"
      BY <2>1, <1>2 DEF RespMoves
    <2>2. CASE ~(c.piece \in Firsts \/ c.what = "settings") /\ c.what = "goaway"
      BY <2>2, <1>2 DEF RespMoves
    <2>3. CASE ~(c.piece \in Firsts \/ c.what = "settings") /\ c.what # "goaway" /\ i # c.sid
      BY <2>3, <1>2 DEF RespMoves
    <2>4. CASE ~(c.piece \in Firsts \/ c.what = "settings") /\ c.what # "goaway" /\ i = c.sid
      <3>1. /\ sent'[i].req = IF c.what = "reset" THEN "done" ELSE sent[i].req
            /\ sent'[i].resp = IF c.kind \in {"interim", "promise"} THEN "begun"
                               ELSE IF c.what = "reset" \/ c.end THEN "done" ELSE "open"
            /\ sent'[i].data = IF c.what = "data" THEN sent[i].data + 1 ELSE sent[i].data
            /\ sent'[i].trailers <=> sent[i].trailers \/ (c.what = "headers" /\ c.kind = "plain")
        BY <2>4, <1>2 DEF RespMoves
      <3>2. sent[i].req # "none"
        BY <2>4, <1>6
      <3>3. sent'[i].req # "none"
        BY <3>1, <3>2
      <3>4. CASE c.kind \in {"interim", "promise"}
        <4>1. sent'[i].data = sent[i].data /\ (sent'[i].trailers <=> sent[i].trailers)
          BY <3>1, <3>4, <1>7
        <4> QED
          BY <4>1, <3>2, <3>3, <3>4, <2>4, <1>7
      <3>5. CASE c.kind \notin {"interim", "promise"}
        BY <3>1, <3>2, <3>3, <3>5
      <3> QED
        BY <3>4, <3>5
    <2> QED
      BY <2>1, <2>2, <2>3, <2>4
  <1>9. AskedOnce(wire', sent')
    BY <1>8, <1>p DEF AskedOnce
  <1>10. Begun(sent')
    BY <1>8, <1>p DEF Begun
  <1>11. ReqRest(rest'["req"], sent')
    <2> DEFINE z == rest["req"]
    <2> SUFFICES ASSUME z # NoItem, z.kind = "method" PROVE sent'[z.sid].req = "none"
      BY <1>3, <1>p DEF ReqRest
    <2>1. z \in Chunks("req") /\ sent[z.sid].req = "none" /\ "req" \in Dirs
      BY <1>0, <1>p DEF EnvType, ReqRest
    <2>2. z.what \notin {"preface", "settings"}
      BY <2>1, Shapes DEF Prefatory
    <2>3. z.sid \in Streams
      BY <2>1, <2>2, ChunksAre
    <2> QED
      BY <2>1, <2>3, <1>8
  <1>12. RespRest(y, sent')
    <2> SUFFICES ASSUME y # NoItem PROVE RespRest(y, sent')
      BY DEF RespRest
    <2>1. /\ c.piece \in Firsts /\ y.piece = Second[c.piece] /\ y.what = c.what
          /\ y.sid = c.sid /\ y.kind = c.kind
      BY <1>3
    <2>2. y.piece \notin Firsts
      BY <2>1, Seconds DEF Firsts
    <2>3. sent' = sent
      BY <2>1, <1>2 DEF RespMoves
    <2>4. CASE c.what # "settings"
      <3>1. sent[c.sid].data = 0 /\ ~sent[c.sid].trailers
        BY <2>1, <2>4, <1>7, <1>p DEF Begun
      <3> QED
        BY <2>1, <2>2, <2>3, <2>4, <3>1, <1>7 DEF RespRest
    <2>5. CASE c.what = "settings"
      <3>1. c.piece = "tail1"
        <4>1. c \in Settings
          BY <2>5, <1>0, <1>1, Shapes
        <4> QED
          BY <4>1, <2>1 DEF Settings, Firsts
      <3> QED
        BY <2>1, <2>2, <2>5, <3>1, Seconds DEF RespRest
    <2> QED
      BY <2>4, <2>5
  <1>13. Peers'
    BY <1>3, <1>5, <1>9, <1>10, <1>11, <1>12, <1>p DEF Peers
  <1>14. c.piece \in Firsts => y.sid = c.sid
    BY <1>3
  <1> QED
    BY <1>1, <1>2, <1>3, <1>5, <1>6, <1>8, <1>13, <1>14

-----------------------------------------------------------------------------
(* What an undamaged connection holds and has reported.                    *)

(* A body of n pieces, as far as it is captured.                           *)
Capped(n) == IF n <= MaxBody THEN n ELSE MaxBody

(* The capture limit of a body, counted in pieces.                         *)
LEMMA CappedIs ==
  /\ Capped(0) = 0
  /\ \A n \in Nat : /\ Capped(n) \in Nat /\ Min({n, MaxBody}) = Capped(n)
                    /\ Longer(Capped(n)) = Capped(n + 1)
  <1>1. MaxBody \in Nat
    BY Constants
  <1>2. ASSUME NEW n \in Nat PROVE Min({n, MaxBody}) = Capped(n)
    <2>1. Min({n, MaxBody}) = CHOOSE x \in {n, MaxBody} : \A y \in {n, MaxBody} : x <= y
      BY DEF Min
    <2>2. CASE n <= MaxBody
      <3>1. \A x \in {n, MaxBody} : (\A y \in {n, MaxBody} : x <= y) => x = n
        BY <1>1, <2>2
      <3>2. \A y \in {n, MaxBody} : n <= y
        BY <1>1, <2>2
      <3>3. (CHOOSE x \in {n, MaxBody} : \A y \in {n, MaxBody} : x <= y) = n
        BY <3>1, <3>2
      <3> QED
        BY <2>1, <2>2, <3>3 DEF Capped
    <2>3. CASE ~(n <= MaxBody)
      <3>1. \A x \in {n, MaxBody} : (\A y \in {n, MaxBody} : x <= y) => x = MaxBody
        BY <1>1, <2>3
      <3>2. \A y \in {n, MaxBody} : MaxBody <= y
        BY <1>1, <2>3
      <3>3. (CHOOSE x \in {n, MaxBody} : \A y \in {n, MaxBody} : x <= y) = MaxBody
        BY <3>1, <3>2
      <3> QED
        BY <2>1, <2>3, <3>3 DEF Capped
    <2> QED
      BY <2>2, <2>3
  <1> QED
    BY <1>1, <1>2 DEF Capped, Longer

(* One connection lives at a time, and only after its preface.             *)
Live(s, a, op) ==
    \A k \in Times : s.conns[k] # NoConn =>
        op /\ Quiet(a) /\ \A j \in Times : s.conns[j] # NoConn => j = k

(* The request of stream i was sent and has been handled or lost.          *)
Said(S, w, i) == S[i].req # "none" /\ ~Asked(w, i)

(* A request that waits or has left was sent once and handled.             *)
Once(s, S, w) ==
    /\ \A k \in Times, i \in Streams : s.conns[k].pending[i] # NoReq => Said(S, w, i)
    /\ \A e \in s.out : /\ Said(S, w, e.sid)
                        /\ \A k \in Times : s.conns[k].pending[e.sid] = NoReq
    /\ \A e, f \in s.out : e.sid = f.sid => e = f

(* A response so far is what the server has sent, unless its parser has    *)
(* failed; a reported one is all of it, and the server is done with it.    *)
Growing(r, m) == r.trailers = 0 /\ ~m.trailers /\ r.body = Capped(m.data)
Told(e, m) == e.trailers = (IF m.trailers THEN 1 ELSE 0) /\ e.body = Capped(m.data)
Settled(S, R, i) == S[i].resp = "done" /\ (R # NoItem => R.sid # i)
Matched(s, S, R) ==
    /\ \A k \in Times, i \in Streams : s.conns[k].responses[i] # NoResp =>
         s.conns[k].dirs["resp"].broken \/ Growing(s.conns[k].responses[i], S[i])
    /\ \A e \in s.out : e.outcome = "paired" => Told(e, S[e.sid]) /\ Settled(S, R, e.sid)

Faithful(s, S, w, a, op, R) == Live(s, a, op) /\ Once(s, S, w) /\ Matched(s, S, R)

(* A connection that is gone holds nothing.                                *)
LEMMA Gone ==
  ASSUME NEW s, NEW k \in Times, NEW i \in Streams
  PROVE  /\ s.conns[k].pending[i] # NoReq => s.conns[k] # NoConn
         /\ s.conns[k].responses[i] # NoResp => s.conns[k] # NoConn
  BY EmptyConn

(* Requests age out, and connections with them.                            *)
LEMMA ShedFaithful ==
  ASSUME NEW s, Kept(s), NEW S, NEW w, NEW a, NEW op, NEW R, Faithful(s, S, w, a, op, R),
         NEW due, NEW o \in Outcomes, NEW r, Sheds(r, s, due, o)
  PROVE  Faithful(r, S, w, a, op, R)
  <1>0. /\ Live(s, a, op) /\ Once(s, S, w) /\ Matched(s, S, R)
        /\ r.out = s.out \cup EventsOf(s, due, o) /\ Emptied(r.conns, s.conns, due)
        /\ due \subseteq Waits(s) /\ due \in SUBSET Slots
    BY WaitsFinite DEF Faithful, Sheds
  <1>1. \A k \in Times :
          /\ r.conns[k] # NoConn => s.conns[k] # NoConn /\ r.conns[k].dirs = s.conns[k].dirs
          /\ \A i \in Streams :
               /\ r.conns[k].pending[i] \in {NoReq, s.conns[k].pending[i]}
               /\ <<k, i>> \in due => r.conns[k].pending[i] = NoReq
               /\ r.conns[k].responses[i] \in {NoResp, s.conns[k].responses[i]}
    BY <1>0 DEF Emptied
  <1>n. \A k \in Times, i \in Streams : s.conns[k].pending[i] = NoReq => r.conns[k].pending[i] = NoReq
    BY <1>1
  (* A request that leaves is the only one on its stream.                    *)
  <1>2. \A p \in due : /\ p[1] \in Times /\ p[2] \in Streams /\ p = <<p[1], p[2]>>
                       /\ s.conns[p[1]].pending[p[2]] # NoReq /\ s.conns[p[1]] # NoConn
    <2> SUFFICES ASSUME NEW p \in due
                 PROVE  /\ p[1] \in Times /\ p[2] \in Streams /\ p = <<p[1], p[2]>>
                        /\ s.conns[p[1]].pending[p[2]] # NoReq /\ s.conns[p[1]] # NoConn
      OBVIOUS
    <2>1. p \in Waits(s) /\ p[1] \in Times /\ p[2] \in Streams /\ p = <<p[1], p[2]>>
      BY <1>0 DEF Slots
    <2>2. s.conns[p[1]].pending[p[2]] # NoReq
      BY <2>1 DEF Waits
    <2> QED
      BY <2>1, <2>2, Gone
  <1>3. \A j, k \in Times : s.conns[j] # NoConn /\ s.conns[k] # NoConn => j = k
    BY <1>0 DEF Live
  <1>4. Live(r, a, op)
    BY <1>0, <1>1 DEF Live
  <1>5. \A e \in EventsOf(s, due, o) :
          \E p \in due : e = EventOf(s, due, o, p) /\ e.sid = p[2] /\ e.outcome = o
    BY DEF EventsOf, EventOf, Shown, Event
  <1>6. Once(r, S, w)
    <2>1. ASSUME NEW k \in Times, NEW i \in Streams, r.conns[k].pending[i] # NoReq
          PROVE  Said(S, w, i)
      <3>1. s.conns[k].pending[i] # NoReq
        BY <2>1, <1>n
      <3> QED
        BY <3>1, <1>0 DEF Once
    <2>2. ASSUME NEW e \in EventsOf(s, due, o)
          PROVE  Said(S, w, e.sid) /\ \A k \in Times : r.conns[k].pending[e.sid] = NoReq
      <3>1. PICK p \in due : e.sid = p[2]
        BY <1>5
      <3>2. Said(S, w, e.sid)
        BY <3>1, <1>2, <1>0 DEF Once
      <3>3. ASSUME NEW k \in Times PROVE r.conns[k].pending[e.sid] = NoReq
        <4>1. CASE k = p[1]
          BY <4>1, <3>1, <1>1, <1>2
        <4>2. CASE k # p[1]
          <5>1. s.conns[k] = NoConn
            BY <4>2, <1>2, <1>3
          <5>2. s.conns[k].pending[p[2]] = NoReq
            BY <5>1, <1>2, Gone
          <5> QED
            BY <5>2, <3>1, <1>n, <1>2
        <4> QED
          BY <4>1, <4>2
      <3> QED
        BY <3>2, <3>3
    <2>3. ASSUME NEW e \in s.out
          PROVE  Said(S, w, e.sid) /\ \A k \in Times : r.conns[k].pending[e.sid] = NoReq
      <3>1. e.sid \in Streams
        BY DEF Kept, Sound, State, Reported
      <3>2. Said(S, w, e.sid) /\ \A k \in Times : s.conns[k].pending[e.sid] = NoReq
        BY <1>0 DEF Once
      <3> QED
        BY <3>1, <3>2, <1>n
    <2>4. ASSUME NEW e \in s.out, NEW f \in EventsOf(s, due, o) PROVE e.sid # f.sid
      <3>1. PICK p \in due : f.sid = p[2]
        BY <1>5
      <3> QED
        BY <3>1, <1>2, <1>0 DEF Once
    <2>5. ASSUME NEW e \in EventsOf(s, due, o), NEW f \in EventsOf(s, due, o), e.sid = f.sid
          PROVE  e = f
      <3>1. PICK p \in due : e = EventOf(s, due, o, p) /\ e.sid = p[2]
        BY <1>5
      <3>2. PICK q \in due : f = EventOf(s, due, o, q) /\ f.sid = q[2]
        BY <1>5
      <3>3. p = q
        <4>1. p[2] = q[2]
          BY <3>1, <3>2, <2>5
        <4>2. p[1] = q[1]
          BY <1>2, <1>3
        <4> QED
          BY <4>1, <4>2, <1>2
      <3> QED
        BY <3>1, <3>2, <3>3
    <2>6. \A e, f \in s.out : e.sid = f.sid => e = f
      BY <1>0 DEF Once
    <2>7. \A e, f \in r.out : e.sid = f.sid => e = f
      BY <2>4, <2>5, <2>6, <1>0
    <2> QED
      BY <2>1, <2>2, <2>3, <2>7, <1>0 DEF Once
  <1>7. Matched(r, S, R)
    <2>1. ASSUME NEW k \in Times, NEW i \in Streams, r.conns[k].responses[i] # NoResp
          PROVE  r.conns[k].dirs["resp"].broken \/ Growing(r.conns[k].responses[i], S[i])
      <3>1. r.conns[k] # NoConn
        BY <2>1, Gone
      <3>2. r.conns[k].responses[i] = s.conns[k].responses[i] /\ r.conns[k].dirs = s.conns[k].dirs
        BY <2>1, <3>1, <1>1
      <3> QED
        BY <2>1, <3>2, <1>0 DEF Matched
    <2>2. ASSUME NEW e \in EventsOf(s, due, o) PROVE e.outcome # "paired"
      BY <1>5 DEF Outcomes
    <2> QED
      BY <2>1, <2>2, <1>0 DEF Matched
  <1> QED
    BY <1>4, <1>6, <1>7 DEF Faithful

(* Eviction of stale streams keeps what is reported faithful.              *)
LEMMA SweptFaithful ==
  ASSUME NEW s, Kept(s), NEW S, NEW w, NEW a, NEW op, NEW R, Faithful(s, S, w, a, op, R),
         NEW r, Swept(r, s)
  PROVE  Faithful(r, S, w, a, op, R)
  <1>1. CASE r.conns = s.conns /\ r.out = s.out
    BY <1>1 DEF Faithful, Live, Once, Matched
  <1>2. CASE \E due : Sheds(r, s, due, "no_response_observed")
    BY <1>2, ShedFaithful DEF Outcomes
  <1> QED
    BY <1>1, <1>2 DEF Swept

(* The peers stay as far on stream i as they were.                         *)
Level(T, S, i) == T[i].data = S[i].data /\ (T[i].trailers <=> S[i].trailers)

(* What was sent and handled, or settled, stays so.                        *)
Lasts(T, S, v, w, Q, R) ==
    \A i \in Streams : /\ Said(S, w, i) => Said(T, v, i)
                       /\ Settled(S, R, i) => Settled(T, Q, i) /\ Level(T, S, i)

(* A stream waits longer or for the first time, and its response is the    *)
(* one it was.                                                             *)
Carries(r, f, T, S, v, w) ==
    \A k \in Times, i \in Streams :
      /\ r.conns[k].pending[i] # NoReq =>
           f.conns[k].pending[i] # NoReq \/ (Said(T, v, i) /\ ~Said(S, w, i))
      /\ r.conns[k].responses[i] # NoResp =>
           \/ r.conns[k].dirs["resp"].broken
           \/ /\ r.conns[k].responses[i] = f.conns[k].responses[i] /\ Level(T, S, i)
              /\ f.conns[k].dirs["resp"].broken => r.conns[k].dirs["resp"].broken

(* A step that reports nothing, and adds a request only when the wire      *)
(* shows it, keeps what is reported faithful.                              *)
LEMMA CarriedFaithful ==
  ASSUME NEW f, Kept(f), NEW S, NEW w, NEW a, NEW op, NEW R, Faithful(f, S, w, a, op, R),
         NEW r, NEW T, NEW v, NEW b, NEW on, NEW Q, Live(r, b, on), r.out = f.out,
         Lasts(T, S, v, w, Q, R), Carries(r, f, T, S, v, w)
  PROVE  Faithful(r, T, v, b, on, Q)
  <1>0. Once(f, S, w) /\ Matched(f, S, R)
    BY DEF Faithful
  <1>s. \A e \in f.out : e.sid \in Streams
    BY DEF Kept, Sound, State, Reported
  <1>1. Once(r, T, v)
    <2>1. ASSUME NEW k \in Times, NEW i \in Streams, r.conns[k].pending[i] # NoReq
          PROVE  Said(T, v, i)
      BY <2>1, <1>0 DEF Once, Carries, Lasts
    <2>2. ASSUME NEW e \in f.out, NEW k \in Times PROVE r.conns[k].pending[e.sid] = NoReq
      <3>1. Said(S, w, e.sid) /\ f.conns[k].pending[e.sid] = NoReq
        BY <1>0 DEF Once
      <3> QED
        BY <3>1, <1>s DEF Carries
    <2>3. \A e \in f.out : Said(T, v, e.sid)
      BY <1>0, <1>s DEF Once, Lasts
    <2>4. \A e, g \in f.out : e.sid = g.sid => e = g
      BY <1>0 DEF Once
    <2> QED
      BY <2>1, <2>2, <2>3, <2>4 DEF Once
  <1>2. Matched(r, T, Q)
    <2>1. ASSUME NEW k \in Times, NEW i \in Streams, r.conns[k].responses[i] # NoResp
          PROVE  r.conns[k].dirs["resp"].broken \/ Growing(r.conns[k].responses[i], T[i])
      <3>1. CASE r.conns[k].dirs["resp"].broken
        BY <3>1
      <3>2. CASE ~r.conns[k].dirs["resp"].broken
        <4>1. /\ r.conns[k].responses[i] = f.conns[k].responses[i] /\ Level(T, S, i)
              /\ ~f.conns[k].dirs["resp"].broken
          BY <2>1, <3>2 DEF Carries
        <4>2. Growing(f.conns[k].responses[i], S[i])
          BY <2>1, <4>1, <1>0 DEF Matched
        <4> QED
          BY <4>1, <4>2 DEF Growing, Level
      <3> QED
        BY <3>1, <3>2
    <2>2. ASSUME NEW e \in f.out, e.outcome = "paired"
          PROVE  Told(e, T[e.sid]) /\ Settled(T, Q, e.sid)
      <3>1. Told(e, S[e.sid]) /\ Settled(S, R, e.sid)
        BY <2>2, <1>0 DEF Matched
      <3>2. Settled(T, Q, e.sid) /\ Level(T, S, e.sid)
        BY <3>1, <1>s DEF Lasts
      <3> QED
        BY <3>1, <3>2 DEF Told, Level
    <2> QED
      BY <2>1, <2>2 DEF Matched
  <1> QED
    BY <1>1, <1>2 DEF Faithful

(* A chunk of the client is handled.                                       *)
LEMMA AskFaithful ==
  ASSUME NEW f, Kept(f), NEW S, NEW w, NEW a, NEW R, Faithful(f, S, w, a, TRUE, R),
         NEW v, NEW b, NEW c, NEW k \in Times, NEW r, Handled(r, f, k, "req", c),
         \A i \in Streams : Asked(v, i) => Asked(w, i),
         \A i \in Streams : Asks(c, i) => Asked(w, i) /\ Said(S, v, i),
         c \in Chunks("req"), Opens(c) => ~Quiet(a) /\ Quiet(b), Quiet(a) => Quiet(b)
  PROVE  Faithful(r, S, v, b, TRUE, R)
  <1>0. Live(f, a, TRUE)
    BY DEF Faithful
  <1>d. "resp" \in Dirs \ {"req"} /\ "req" \in Dirs
    BY DEF Dirs
  <1>1. Lasts(S, S, v, w, R, R)
    BY DEF Lasts, Said, Level
  <1>l. \A i \in Streams : Level(S, S, i)
    BY DEF Level
  <1>2. CASE r.conns = f.conns /\ r.out = f.out
    <2>1. Live(r, b, TRUE)
      BY <1>2, <1>0 DEF Live
    <2>2. Carries(r, f, S, S, v, w)
      BY <1>2, <1>l DEF Carries
    <2> QED
      BY <1>1, <1>2, <2>1, <2>2, CarriedFaithful
  <1>3. CASE f.conns[k] # NoConn /\ Took(r, f, k, "req", c)
    <2>1. /\ r.conns[k] # NoConn /\ \A j \in Times \ {k} : r.conns[j] = f.conns[j]
          /\ r.conns[k].dirs["resp"] = f.conns[k].dirs["resp"]
      BY <1>3, <1>d DEF Took
    <2>2. Live(r, b, TRUE)
      BY <2>1, <1>3, <1>0 DEF Live
    <2>3. Untouched(r, f, k) \/ (~Silent(c) /\ ReqEffect(r, f, k, c))
      BY <1>3 DEF Took, Effect
    <2>4. r.out = f.out
      BY <2>3 DEF Untouched, ReqEffect
    <2>5. ASSUME NEW i \in Streams
          PROVE  /\ r.conns[k].pending[i] # NoReq => f.conns[k].pending[i] # NoReq \/ Asks(c, i)
                 /\ r.conns[k].responses[i] \in {NoResp, f.conns[k].responses[i]}
      <3>1. CASE Untouched(r, f, k)
        BY <3>1 DEF Untouched, Keeps
      <3>2. CASE ~Silent(c) /\ ReqEffect(r, f, k, c) /\ i # c.sid
        BY <3>2 DEF ReqEffect, Keeps
      <3>3. CASE ~Silent(c) /\ ReqEffect(r, f, k, c) /\ i = c.sid
        BY <3>3 DEF ReqEffect, Clears, Asks, Silent
      <3> QED
        BY <3>1, <3>2, <3>3, <2>3
    <2>6. Carries(r, f, S, S, v, w)
      <3>1. ASSUME NEW i \in Streams, Asks(c, i) PROVE Said(S, v, i) /\ ~Said(S, w, i)
        BY <3>1 DEF Said
      <3> QED
        BY <3>1, <2>1, <2>5, <1>l DEF Carries
    <2> QED
      BY <1>1, <2>2, <2>4, <2>6, CarriedFaithful
  <1>4. CASE Opens(c) /\ Opened(r, f, k, c)
    <2>1. /\ r.conns[k] # NoConn /\ \A j \in Times \ {k} : r.conns[j] = f.conns[j]
          /\ r.out = f.out /\ f.conns[k] = NoConn
          /\ \A i \in Streams : Keeps(r, f, k, i)
      BY <1>4 DEF Opened, Untouched
    <2>2. \A j \in Times : f.conns[j] = NoConn
      BY <1>4, <1>0 DEF Live
    <2>3. Live(r, b, TRUE)
      BY <2>1, <2>2, <1>4 DEF Live
    <2>4. \A j \in Times, i \in Streams : /\ r.conns[j].pending[i] = NoReq
                                          /\ r.conns[j].responses[i] = NoResp
      BY <2>1, <2>2, Gone DEF Keeps
    <2>5. Carries(r, f, S, S, v, w)
      BY <2>4 DEF Carries
    <2> QED
      BY <1>1, <2>1, <2>3, <2>5, CarriedFaithful
  <1> QED
    BY <1>2, <1>3, <1>4 DEF Handled

(* The response of stream id grows, or ends with its request.              *)
LEMMA ReplyFaithful ==
  ASSUME NEW f, Kept(f), NEW S, NEW w, NEW a, NEW op, NEW R, Faithful(f, S, w, a, op, R),
         NEW r, NEW T, NEW Q, Live(r, a, op), Lasts(T, S, w, w, Q, R),
         NEW k \in Times, f.conns[k] # NoConn, ~f.conns[k].dirs["resp"].broken,
         \A j \in Times \ {k} : r.conns[j] = f.conns[j],
         NEW id \in Streams, \A i \in Streams \ {id} : Keeps(r, f, k, i) /\ Level(T, S, i),
         NEW b, NEW t, NEW end \in BOOLEAN, Replies(r, f, k, id, b, t, end),
         Told([body |-> b, trailers |-> t], T[id]),
         end => Settled(T, Q, id), ~end => ~T[id].trailers
  PROVE  Faithful(r, T, w, a, op, Q)
  <1> DEFINE v == [body |-> b, trailers |-> t]
             e == Event(Cardinality(f.out), id, "paired", v)
  <1>0. Once(f, S, w) /\ Matched(f, S, R) /\ Live(f, a, op)
    BY DEF Faithful
  <1>s. \A g \in f.out : g.sid \in Streams
    BY DEF Kept, Sound, State, Reported
  <1>v. v.body = b /\ v.trailers = t /\ Told(v, T[id])
    OBVIOUS
  <1>e. e.sid = id /\ e.outcome = "paired" /\ e.body = v.body /\ e.trailers = v.trailers
    BY DEF Event
  <1>r. \/ /\ end /\ Clears(r, k, id)
           /\ \/ f.conns[k].pending[id] = NoReq /\ r.out = f.out
              \/ f.conns[k].pending[id] # NoReq /\ r.out = f.out \cup {e}
        \/ /\ ~end /\ r.out = f.out /\ r.conns[k].pending[id] = f.conns[k].pending[id]
           /\ r.conns[k].responses[id] = v
    BY DEF Replies
  <1> HIDE DEF v, e
  <1>1. \A j \in Times \ {k}, i \in Streams : /\ r.conns[j].pending[i] = NoReq
                                              /\ r.conns[j].responses[i] = NoResp
    <2>1. \A j \in Times \ {k} : f.conns[j] = NoConn
      BY <1>0 DEF Live
    <2> QED
      BY <2>1, Gone
  <1>2. \A i \in Streams : r.conns[k].pending[i] # NoReq => f.conns[k].pending[i] # NoReq
    BY <1>r DEF Keeps, Clears
  <1>3. r.out = f.out \/ (r.out = f.out \cup {e} /\ f.conns[k].pending[id] # NoReq /\ end
                          /\ r.conns[k].pending[id] = NoReq)
    BY <1>r DEF Clears
  <1>4. Once(r, T, w)
    <2>1. ASSUME NEW j \in Times, NEW i \in Streams, r.conns[j].pending[i] # NoReq
          PROVE  Said(T, w, i)
      <3>1. j = k /\ f.conns[k].pending[i] # NoReq
        BY <2>1, <1>1, <1>2
      <3> QED
        BY <3>1, <1>0 DEF Once, Lasts
    <2>2. ASSUME NEW g \in f.out
          PROVE  Said(T, w, g.sid) /\ \A j \in Times : r.conns[j].pending[g.sid] = NoReq
      <3>1. Said(S, w, g.sid) /\ f.conns[k].pending[g.sid] = NoReq /\ g.sid \in Streams
        BY <1>0, <1>s DEF Once
      <3>2. Said(T, w, g.sid)
        BY <3>1 DEF Lasts
      <3> QED
        BY <3>1, <3>2, <1>1, <1>2
    <2>3. \A g, h \in f.out : g.sid = h.sid => g = h
      BY <1>0 DEF Once
    <2>4. CASE r.out = f.out
      BY <2>1, <2>2, <2>3, <2>4 DEF Once
    <2>5. CASE /\ r.out = f.out \cup {e} /\ f.conns[k].pending[id] # NoReq /\ end
               /\ r.conns[k].pending[id] = NoReq
      <3>1. Said(T, w, id)
        BY <2>5, <1>0 DEF Once, Lasts
      <3>2. \A j \in Times : r.conns[j].pending[id] = NoReq
        BY <2>5, <1>1
      <3>3. \A g \in f.out : g.sid # id
        BY <2>5, <1>0 DEF Once
      <3>4. \A g, h \in r.out : g.sid = h.sid => g = h
        BY <2>3, <2>5, <3>3, <1>e
      <3> QED
        BY <2>1, <2>2, <2>5, <3>1, <3>2, <3>4, <1>e DEF Once
    <2> QED
      BY <2>4, <2>5, <1>3
  <1>5. Matched(r, T, Q)
    <2>1. ASSUME NEW j \in Times, NEW i \in Streams, r.conns[j].responses[i] # NoResp
          PROVE  Growing(r.conns[j].responses[i], T[i])
      <3>1. j = k
        BY <2>1, <1>1
      <3>2. CASE i = id
        <4>1. ~end /\ r.conns[k].responses[id] = v
          BY <2>1, <3>1, <3>2, <1>r DEF Clears
        <4> QED
          BY <4>1, <3>1, <3>2, <1>v DEF Growing, Told
      <3>3. CASE i # id
        <4>1. r.conns[k].responses[i] = f.conns[k].responses[i] /\ Level(T, S, i)
          BY <3>3 DEF Keeps
        <4>2. Growing(f.conns[k].responses[i], S[i])
          BY <2>1, <3>1, <4>1, <1>0 DEF Matched
        <4> QED
          BY <3>1, <4>1, <4>2 DEF Growing, Level
      <3> QED
        BY <3>2, <3>3
    <2>2. ASSUME NEW g \in f.out, g.outcome = "paired"
          PROVE  Told(g, T[g.sid]) /\ Settled(T, Q, g.sid)
      <3>1. Told(g, S[g.sid]) /\ Settled(S, R, g.sid)
        BY <2>2, <1>0 DEF Matched
      <3>2. Settled(T, Q, g.sid) /\ Level(T, S, g.sid)
        BY <3>1, <1>s DEF Lasts
      <3> QED
        BY <3>1, <3>2 DEF Told, Level
    <2>3. end => Told(e, T[e.sid]) /\ Settled(T, Q, e.sid)
      BY <1>e, <1>v DEF Told
    <2>4. CASE r.out = f.out
      BY <2>1, <2>2, <2>4 DEF Matched
    <2>5. CASE r.out = f.out \cup {e} /\ end
      BY <2>1, <2>2, <2>3, <2>5 DEF Matched
    <2> QED
      BY <2>4, <2>5, <1>3
  <1> QED
    BY <1>4, <1>5 DEF Faithful

(* How chunk c of the server moves the peers.                              *)
Goes(T, S, w, Q, R, c) ==
    /\ RespMoves(T, S, c)
    /\ c.kind = "status" => S[c.sid].data = 0 /\ ~S[c.sid].trailers
    /\ c.piece \notin Firsts => Q = NoItem
    /\ Lasts(T, S, w, w, Q, R)

(* A chunk of the server is handled.                                       *)
LEMMA AnswerFaithful ==
  ASSUME NEW f, Kept(f), NEW S \in [Streams -> Stages], NEW w, NEW a, NEW op, NEW R,
         Faithful(f, S, w, a, op, R), NEW c \in Chunks("resp"), NEW k \in Times,
         NEW r, Handled(r, f, k, "resp", c), NEW T, NEW Q, Goes(T, S, w, Q, R, c)
  PROVE  Faithful(r, T, w, a, op, Q)
  <1> DEFINE id == c.sid
             resp == f.conns[k].responses[id]
  <1>0. Live(f, a, op) /\ Matched(f, S, R)
    BY DEF Faithful
  <1>g. /\ RespMoves(T, S, c) /\ Lasts(T, S, w, w, Q, R)
        /\ c.kind = "status" => S[id].data = 0 /\ ~S[id].trailers
        /\ c.piece \notin Firsts => Q = NoItem
    BY DEF Goes
  <1>d. "resp" \in Dirs /\ "resp" # "req"
    BY DEF Dirs
  <1>c. /\ c.what # "preface"
        /\ c.what # "settings" => c \in RespFrames
    BY <1>d, Shapes
  <1>f. c \in RespFrames =>
          /\ id \in Streams /\ c.end \in BOOLEAN
          /\ c.kind = "status" => c.what = "headers"
          /\ c.what = "headers" => c.kind \in {"status", "interim", "promise", "plain"}
          /\ c.what = "headers" /\ c.kind = "plain" => c.end /\ c.piece = "whole"
          /\ c.what \in {"data", "reset", "goaway"} => c.kind = "plain" /\ c.piece = "whole"
          /\ c.piece \in PieceNames
    BY DEF RespFrames, Heads, Interims, Bodies, Trailing, Resets, Goaways, PieceNames
  (* Only data and trailers change what there is to report.                  *)
  <1>l. ASSUME NEW i \in Streams,
               ~(i = id /\ (c.what = "data" \/ (c.what = "headers" /\ c.kind = "plain")))
        PROVE  Level(T, S, i)
    <2>1. CASE c.piece \in Firsts \/ c.what = "settings"
      BY <2>1, <1>g DEF RespMoves, Level
    <2>2. CASE ~(c.piece \in Firsts \/ c.what = "settings") /\ c.what = "goaway"
      BY <2>2, <1>g DEF RespMoves, Level
    <2>3. CASE ~(c.piece \in Firsts \/ c.what = "settings") /\ c.what # "goaway" /\ i # id
      BY <2>3, <1>g DEF RespMoves, Level
    <2>4. CASE ~(c.piece \in Firsts \/ c.what = "settings") /\ c.what # "goaway" /\ i = id
      BY <2>4, <1>l, <1>g DEF RespMoves, Level
    <2> QED
      BY <2>1, <2>2, <2>3, <2>4
  <1>1. CASE r.conns = f.conns /\ r.out = f.out /\ c.what = "settings"
    <2>1. Live(r, a, op)
      BY <1>1, <1>0 DEF Live
    <2>2. Carries(r, f, T, S, w, w)
      BY <1>1, <1>l DEF Carries
    <2> QED
      BY <1>1, <1>g, <2>1, <2>2, CarriedFaithful
  <1>2. ASSUME f.conns[k] # NoConn, Took(r, f, k, "resp", c)
        PROVE  Faithful(r, T, w, a, op, Q)
    <2>1. /\ r.conns[k] # NoConn /\ \A j \in Times \ {k} : r.conns[j] = f.conns[j]
      BY <1>2 DEF Took
    <2>2. Live(r, a, op)
      BY <2>1, <1>2, <1>0 DEF Live
    <2>g. \A j \in Times \ {k}, i \in Streams : /\ r.conns[j].pending[i] = NoReq
                                                /\ r.conns[j].responses[i] = NoResp
      <3>1. \A j \in Times \ {k} : f.conns[j] = NoConn
        BY <1>0, <1>2 DEF Live
      <3> QED
        BY <3>1, <2>1, Gone
    <2>3. CASE r.conns[k].dirs["resp"].broken /\ Untouched(r, f, k)
      <3>1. Carries(r, f, T, S, w, w)
        BY <2>3, <2>g DEF Carries, Untouched, Keeps
      <3>2. r.out = f.out
        BY <2>3 DEF Untouched
      <3> QED
        BY <3>1, <3>2, <1>g, <2>2, CarriedFaithful
    <2>4. ASSUME ~f.conns[k].dirs["resp"].broken, ~r.conns[k].dirs["resp"].broken,
                 Effect(r, f, k, "resp", c)
          PROVE  Faithful(r, T, w, a, op, Q)
      (* Streams that are cleared or left alone.                             *)
      <3>a. ASSUME r.out = f.out,
                   \A i \in Streams : \/ Clears(r, k, i)
                                      \/ Keeps(r, f, k, i) /\ Level(T, S, i)
                                      \/ Keeps(r, f, k, i) /\ f.conns[k].responses[i] = NoResp
            PROVE  Faithful(r, T, w, a, op, Q)
        <4>1. ASSUME NEW i \in Streams
              PROVE  /\ r.conns[k].pending[i] # NoReq => f.conns[k].pending[i] # NoReq
                     /\ r.conns[k].responses[i] # NoResp =>
                          r.conns[k].responses[i] = f.conns[k].responses[i] /\ Level(T, S, i)
          BY <3>a DEF Clears, Keeps
        <4>2. Carries(r, f, T, S, w, w)
          BY <4>1, <2>4, <2>g DEF Carries
        <4> QED
          BY <4>2, <3>a, <1>g, <2>2, CarriedFaithful
      <3>1. CASE Silent(c)
        <4>1. Untouched(r, f, k)
          BY <3>1, <2>4 DEF Effect
        <4>2. ~(c.what = "data" \/ (c.what = "headers" /\ c.kind = "plain"))
          BY <3>1, <1>c, <1>f DEF Silent
        <4> QED
          BY <4>1, <4>2, <1>l, <3>a DEF Untouched
      <3>2. ASSUME ~Silent(c) PROVE Faithful(r, T, w, a, op, Q)
        <4>1. RespEffect(r, f, k, c) /\ c \in RespFrames /\ c.piece \notin Firsts /\ Q = NoItem
          <5>1. RespEffect(r, f, k, c)
            BY <3>2, <2>4, <1>d DEF Effect
          <5>2. c.what # "settings" /\ c.piece \notin {"frame1", "block1"}
            BY <3>2 DEF Silent
          <5>3. c \in RespFrames /\ c.piece \notin Firsts
            BY <5>2, <1>c, <1>f DEF PieceNames, Firsts
          <5> QED
            BY <5>1, <5>3, <1>g
        <4>2. id \in Streams /\ c.end \in BOOLEAN
          BY <4>1, <1>f
        <4>k. c.what # "goaway" => \A i \in Streams \ {id} : Keeps(r, f, k, i) /\ Level(T, S, i)
          BY <4>1, <1>l DEF RespEffect
        <4>m. c.what # "goaway" =>
                /\ T[id].resp = IF c.kind \in {"interim", "promise"} THEN "begun"
                                ELSE IF c.what = "reset" \/ c.end THEN "done" ELSE "open"
                /\ T[id].data = IF c.what = "data" THEN S[id].data + 1 ELSE S[id].data
                /\ T[id].trailers <=> \/ S[id].trailers
                                      \/ c.what = "headers" /\ c.kind = "plain"
          BY <4>1, <1>c, <1>f, <1>g, <3>2 DEF RespMoves, Silent
        <4>e. c.end /\ c.what # "goaway" /\ c.kind \notin {"interim", "promise"}
              => Settled(T, Q, id)
          BY <4>1, <4>m DEF Settled
        <4>o. resp # NoResp => Growing(resp, S[id]) /\ resp.body \in Nat
          <5>1. resp # NoResp => Growing(resp, S[id])
            BY <4>2, <2>4, <1>0 DEF Matched
          <5>2. S[id].data \in Nat
            BY <4>2 DEF Stages
          <5> QED
            BY <5>1, <5>2, CappedIs DEF Growing
        <4>n. S[id].data \in Nat
          BY <4>2 DEF Stages
        <4>3. CASE c.what = "goaway"
          <5>1. /\ r.out = f.out
                /\ \A i \in Streams : Clears(r, k, i) \/ Keeps(r, f, k, i)
            BY <4>1, <4>3 DEF RespEffect
          <5> QED
            BY <5>1, <4>3, <1>l, <3>a
        <4>4. CASE c.what = "reset"
          <5>1. r.out = f.out /\ Clears(r, k, id)
            BY <4>1, <4>4 DEF RespEffect
          <5> QED
            BY <5>1, <4>4, <4>k, <3>a
        <4>5. CASE c.what # "goaway" /\ Same(r, f, k, id) /\ (resp = NoResp \/ Level(T, S, id))
          BY <4>5, <4>k, <3>a DEF Same
        <4>6. ASSUME c.what # "goaway", NEW b, NEW t, Replies(r, f, k, id, b, t, c.end),
                     Told([body |-> b, trailers |-> t], T[id]),
                     c.kind \notin {"interim", "promise"}, ~c.end => ~T[id].trailers
              PROVE  Faithful(r, T, w, a, op, Q)
          BY <4>6, <4>k, <4>e, <4>2, <2>1, <2>2, <2>4, <1>2, <1>g, ReplyFaithful
        <4>7. CASE c.what = "headers" /\ c.kind = "status" /\ Replies(r, f, k, id, 0, 0, c.end)
          <5>1. T[id].data = 0 /\ ~T[id].trailers
            BY <4>7, <4>m, <1>g
          <5>2. Told([body |-> 0, trailers |-> 0], T[id])
            BY <5>1, CappedIs DEF Told
          <5> QED
            BY <5>1, <5>2, <4>6, <4>7
        <4>8. CASE /\ c.what = "headers" /\ c.kind = "plain" /\ resp # NoResp
                   /\ Replies(r, f, k, id, resp.body, Trailed(resp.trailers), c.end)
          <5>1. T[id].data = S[id].data /\ T[id].trailers /\ c.end
            BY <4>8, <4>1, <4>m, <1>f
          <5>2. Trailed(resp.trailers) = 1 /\ resp.body = Capped(S[id].data)
            <6>1. Growing(resp, S[id])
              BY <4>8, <4>o
            <6> HIDE DEF resp
            <6>2. resp.trailers = 0 /\ resp.body = Capped(S[id].data)
              BY <6>1 DEF Growing
            <6> QED
              BY <6>2 DEF Trailed
          <5>3. Told([body |-> resp.body, trailers |-> Trailed(resp.trailers)], T[id])
            BY <5>1, <5>2 DEF Told
          <5> QED
            BY <5>1, <5>3, <4>6, <4>8
        <4>9. CASE /\ c.what = "data" /\ resp # NoResp
                   /\ Replies(r, f, k, id, Longer(resp.body), resp.trailers, c.end)
          <5>1. T[id].data = S[id].data + 1 /\ ~T[id].trailers /\ c.kind = "plain"
            BY <4>9, <4>1, <4>m, <4>o, <1>f DEF Growing
          <5>2. resp.trailers = 0 /\ Longer(resp.body) = Capped(S[id].data + 1)
            BY <4>9, <4>o, <4>n, CappedIs DEF Growing
          <5>3. Told([body |-> Longer(resp.body), trailers |-> resp.trailers], T[id])
            BY <5>1, <5>2 DEF Told
          <5> QED
            BY <5>1, <5>3, <4>6, <4>9
        <4>10. \/ c.what = "goaway" \/ c.what = "reset"
               \/ c.what # "goaway" /\ Same(r, f, k, id) /\ (resp = NoResp \/ Level(T, S, id))
               \/ c.what = "headers" /\ c.kind = "status" /\ Replies(r, f, k, id, 0, 0, c.end)
               \/ /\ c.what = "headers" /\ c.kind = "plain" /\ resp # NoResp
                  /\ Replies(r, f, k, id, resp.body, Trailed(resp.trailers), c.end)
               \/ /\ c.what = "data" /\ resp # NoResp
                  /\ Replies(r, f, k, id, Longer(resp.body), resp.trailers, c.end)
          <5>1. c.what = "headers" /\ c.kind \in {"interim", "status"} => Level(T, S, id)
            BY <4>2, <1>l
          <5> QED
            BY <5>1, <4>1 DEF RespEffect
        <4> QED
          BY <4>3, <4>4, <4>5, <4>7, <4>8, <4>9, <4>10
      <3> QED
        BY <3>1, <3>2
    <2> QED
      BY <2>3, <2>4, <1>2 DEF Took
  <1> QED
    BY <1>1, <1>2, <1>d DEF Handled

(* A chunk that leaves the connection undamaged finds it so.               *)
LEMMA HandleIs ==
  ASSUME Books, NEW dir \in Dirs, NEW c \in Chunks(dir), NEW fate, Handle(dir, c, fate),
         Clean(st')
  PROVE  /\ Clean(st)
         /\ \E k \in Times : \E f : Kept(f) /\ Swept(f, st) /\ Handled(st', f, k, dir, c)
  <1>0. Kept(st) /\ st \in State /\ now \in Times
    BY DEF Books, EnvType, Kept, Sound
  <1>1. fate # "lost"
    <2> SUFFICES ASSUME fate = "lost" PROVE FALSE
      OBVIOUS
    <2>1. st' = [st EXCEPT !.missing = st.missing \cup {dir}]
      BY DEF Handle
    <2>2. st'.missing = st.missing \cup {dir}
      BY <2>1, <1>0 DEF State
    <2> QED
      BY <2>2 DEF Clean
  <1> DEFINE m == IF fate = "captured" THEN {} ELSE {dir}
  <1>a. PICK over \in Excess(st, now) :
          \E s \in HandleEvent(st, dir, c, fate, over, now) :
            st' = [s EXCEPT !.missing = s.missing \cup m]
    BY <1>1 DEF Handle
  <1>b. PICK s \in HandleEvent(st, dir, c, fate, over, now) :
          st' = [s EXCEPT !.missing = s.missing \cup m]
    BY <1>a
  <1> HIDE DEF m
  <1>c. over \in Times \cup {Unborn}
    BY DEF Excess
  <1>d. s \in State
    <2>1. c \in Chunk
      BY ChunksAre
    <2> QED
      BY <2>1, <1>0, <1>b, <1>c, HandledKept DEF Kept, Sound
  <1>e. st'.missing = s.missing \cup m
    BY <1>b, <1>d DEF State
  <1>f. fate = "captured"
    <2> SUFFICES ASSUME fate # "captured" PROVE FALSE
      OBVIOUS
    <2> QED
      BY <1>e DEF m, Clean
  <1>g. st' = s
    <2>1. s.missing \cup m = s.missing
      BY <1>f DEF m
    <2> QED
      BY <2>1, <1>b, <1>d DEF State
  <1>2. st' \in HandleEvent(st, dir, c, "captured", over, now)
    BY <1>b, <1>f, <1>g
  <1>3. PICK k \in Times : \E f : Swept(f, st) /\ Handled(st', f, k, dir, c)
    BY <1>0, <1>2, <1>c, HandledIs
  <1>4. PICK f : Swept(f, st) /\ Handled(st', f, k, dir, c)
    BY <1>3
  <1>5. Clean(f) /\ Kept(f) /\ f.missing = st.missing /\ f.short = st.short
    BY <1>4 DEF Handled, Took, Opened, Swept
  <1>6. Clean(st)
    BY <1>5 DEF Clean
  <1> QED
    BY <1>4, <1>5, <1>6

(* The server's next chunk moves the peers as they may move.               *)
LEMMA GoesIs ==
  ASSUME EnvType, Peers, NEW c \in NextChunks("resp"), NEW cost, Emit("resp", c, cost),
         UNCHANGED wire
  PROVE  /\ Peers' /\ c \in Chunks("resp") /\ rest'["req"] = rest["req"] /\ opened' = opened
         /\ Goes(sent', sent, wire, rest'["resp"], rest["resp"], c)
  <1> DEFINE x == rest["resp"]
             y == rest'["resp"]
  <1>1. /\ Peers' /\ c \in Chunks("resp") /\ RespSent(c) /\ RespMoves(sent', sent, c)
        /\ rest'["req"] = rest["req"] /\ opened' = opened
        /\ c.piece \notin Firsts => y = NoItem
        /\ c.piece \in Firsts => y.sid = c.sid
        /\ c.what \notin {"settings", "goaway"} => c.sid \in Streams /\ sent[c.sid].req # "none"
        /\ \A i \in Streams : sent[i].req # "none" => sent'[i].req # "none"
    BY AnswerPeers
  <1>p. Begun(sent) /\ RespRest(x, sent)
    BY DEF Peers
  (* The chunk opens the response of its stream, or its stream is open.      *)
  <1>2. x = NoItem =>
          \/ c.what = "settings" /\ c.kind = "none" /\ c.sid = 0
          \/ c.what = "goaway" /\ c.piece = "whole" /\ c.kind = "plain"
          \/ c.sid \in Streams /\ sent[c.sid].resp \in {"none", "begun"}
          \/ /\ c.sid \in Streams /\ sent[c.sid].resp = "open" /\ c.kind = "plain"
             /\ c.piece = "whole"
    <2> SUFFICES ASSUME x = NoItem
                 PROVE  \/ c.what = "settings" /\ c.kind = "none" /\ c.sid = 0
                        \/ c.what = "goaway" /\ c.piece = "whole" /\ c.kind = "plain"
                        \/ c.sid \in Streams /\ sent[c.sid].resp \in {"none", "begun"}
                        \/ /\ c.sid \in Streams /\ sent[c.sid].resp = "open" /\ c.kind = "plain"
                           /\ c.piece = "whole"
      OBVIOUS
    <2>1. /\ c \in HeldFrames => c.what = "settings" /\ c.kind = "none" /\ c.sid = 0
          /\ c \in Goaways => c.what = "goaway" /\ c.piece = "whole" /\ c.kind = "plain"
          /\ c \in Bodies \cup Trailing \cup Resets => c.kind = "plain" /\ c.piece = "whole"
      BY DEF HeldFrames, Settings, Goaways, Bodies, Trailing, Resets
    <2> QED
      BY <2>1, <1>1 DEF RespSent
  <1>3. x # NoItem => /\ c = x /\ c.piece \notin Firsts
                      /\ c.what = "settings" \/ (c.what = "headers" /\ c.kind = "status")
    BY <1>1, <1>p DEF RespSent, RespRest
  <1>w. "whole" \notin Firsts
    BY DEF Firsts
  <1>4. c.kind = "status" => sent[c.sid].data = 0 /\ ~sent[c.sid].trailers
    <2>1. CASE x # NoItem
      <3>1. c.what = "settings" => c.kind = "none"
        BY <1>1, Shapes DEF Dirs
      <3> QED
        BY <2>1, <3>1, <1>3, <1>p DEF RespRest
    <2>2. CASE x = NoItem
      BY <2>2, <1>2, <1>p DEF Begun
    <2> QED
      BY <2>1, <2>2
  <1>5. ASSUME NEW i \in Streams, Settled(sent, x, i)
        PROVE  Settled(sent', y, i) /\ Level(sent', sent, i)
    <2>1. sent[i].resp = "done" /\ (x # NoItem => x.sid # i)
      BY <1>5 DEF Settled
    <2>2. c.what \notin {"settings", "goaway"} => c.sid # i
      BY <2>1, <1>2, <1>3
    <2>3. c.piece \in Firsts => c.sid # i
      <3>1. 0 \notin Streams
        BY Constants
      <3> QED
        BY <3>1, <2>1, <1>2, <1>3, <1>w
    <2>4. y # NoItem => y.sid # i
      BY <2>3, <1>1
    <2>5. sent'[i].resp = "done" /\ Level(sent', sent, i)
      <3>1. CASE c.piece \in Firsts \/ c.what = "settings"
        BY <3>1, <2>1, <1>1 DEF RespMoves, Level
      <3>2. CASE ~(c.piece \in Firsts \/ c.what = "settings") /\ c.what = "goaway"
        BY <3>2, <2>1, <1>1 DEF RespMoves, Level
      <3>3. CASE ~(c.piece \in Firsts \/ c.what = "settings") /\ c.what # "goaway"
        BY <3>3, <2>1, <2>2, <1>1 DEF RespMoves, Level
      <3> QED
        BY <3>1, <3>2, <3>3
    <2> QED
      BY <2>4, <2>5 DEF Settled
  <1>6. Lasts(sent', sent, wire, wire, y, x)
    BY <1>1, <1>5 DEF Lasts, Said
  <1> QED
    BY <1>1, <1>4, <1>6 DEF Goes

(* The inductive invariant behind WholeResponses.                          *)
Intact ==
    Clean(st) => Faithful(st, sent, wire, AheadOf(wire, rest["req"]), opened, rest["resp"])
Reporting == Books /\ Peers /\ Intact

(* Reporting holds of the first state.                                     *)
LEMMA ReportingInit ==
  ASSUME Init
  PROVE  Reporting
  <1>1. Books
    BY BooksInit
  <1>2. /\ wire = <<>> /\ rest["req"] = NoItem /\ rest["resp"] = NoItem /\ ~opened
        /\ st.out = {} /\ \A k \in Times : st.conns[k] = NoConn
        /\ \A i \in Streams : /\ sent[i].req = "none" /\ sent[i].resp = "none"
                              /\ sent[i].data = 0 /\ sent[i].trailers = FALSE
    BY DEF Init, NoRest, Dirs
  <1>3. AheadOf(wire, rest["req"]) = <<>> /\ DOMAIN wire = {}
    BY <1>2 DEF AheadOf
  <1>4. Peers
    BY <1>2, <1>3 DEF Peers, AskedOnce, Asked, Begun, ReqRest, RespRest, Ordered
  <1>5. \A k \in Times, i \in Streams : /\ st.conns[k].pending[i] = NoReq
                                        /\ st.conns[k].responses[i] = NoResp
    BY <1>2, Gone
  <1>6. Intact
    BY <1>2, <1>5 DEF Intact, Faithful, Live, Once, Matched
  <1> QED
    BY <1>1, <1>4, <1>6 DEF Reporting

(* The client sends a chunk.                                               *)
LEMMA CallReports ==
  ASSUME Reporting, Call
  PROVE  Peers' /\ Intact'
  <1>0. EnvType /\ Peers /\ Kept(st)
    BY DEF Reporting, Books
  <1>1. PICK c \in NextChunks("req") : Emit("req", c, 0) /\ wire' = Append(wire, c)
    BY DEF Call
  <1>2. UNCHANGED st
    BY DEF Call
  <1>3. /\ Peers'
        /\ \A i \in Streams : Said(sent, wire, i) => Said(sent', wire', i)
        /\ opened /\ Quiet(AheadOf(wire, rest["req"]))
             => opened' /\ Quiet(AheadOf(wire', rest'["req"]))
    BY <1>0, <1>1, CallPeers DEF Said
  <1>4. ReqMoves(sent', sent, c) /\ rest'["resp"] = rest["resp"]
    BY <1>0, <1>1, CallGrows
  <1>5. Intact'
    <2> SUFFICES ASSUME Clean(st)
                 PROVE  Faithful(st, sent', wire', AheadOf(wire', rest'["req"]), opened',
                                 rest'["resp"])
      BY <1>2 DEF Intact
    <2>1. Faithful(st, sent, wire, AheadOf(wire, rest["req"]), opened, rest["resp"])
      BY DEF Reporting, Intact
    <2>2. Live(st, AheadOf(wire', rest'["req"]), opened')
      BY <2>1, <1>3 DEF Faithful, Live
    <2>3. ASSUME NEW i \in Streams
          PROVE  /\ Level(sent', sent, i)
                 /\ Settled(sent, rest["resp"], i) => Settled(sent', rest'["resp"], i)
      <3>1. CASE c.piece \in Firsts \/ c.what = "preface"
        BY <3>1, <1>4 DEF ReqMoves, Level, Settled
      <3>2. CASE ~(c.piece \in Firsts \/ c.what = "preface") /\ i # c.sid
        BY <3>2, <1>4 DEF ReqMoves, Level, Settled
      <3>3. CASE ~(c.piece \in Firsts \/ c.what = "preface") /\ i = c.sid
        BY <3>3, <1>4 DEF ReqMoves, Level, Settled
      <3> QED
        BY <3>1, <3>2, <3>3
    <2>4. Lasts(sent', sent, wire', wire, rest'["resp"], rest["resp"])
      BY <2>3, <1>3 DEF Lasts
    <2>5. Carries(st, st, sent', sent, wire', wire)
      BY <2>3 DEF Carries
    <2> QED
      BY <2>1, <2>2, <2>4, <2>5, <1>0, CarriedFaithful
  <1> QED
    BY <1>3, <1>5

(* The next chunk of the client is handled, cut or lost.                   *)
LEMMA RequestReports ==
  ASSUME Reporting, NEW fate, ReceiveRequest(fate)
  PROVE  Peers' /\ Intact'
  <1> DEFINE c == Head(wire)
             a == AheadOf(wire, rest["req"])
             b == AheadOf(wire', rest["req"])
  <1>0. EnvType /\ Peers /\ Kept(st) /\ Books /\ "req" \in Dirs
    BY DEF Reporting, Books, Dirs
  <1>1. /\ wire # <<>> /\ Handle("req", c, fate) /\ wire' = Tail(wire)
        /\ UNCHANGED <<rest, sent, opened>>
    BY DEF ReceiveRequest
  <1>2. c \in Chunks("req") /\ c = wire[1] /\ 1 \in DOMAIN wire
    BY <1>0, <1>1, TailIs DEF EnvType
  <1>3. /\ Peers' /\ opened
        /\ \A i \in Streams : Asked(wire', i) => Asked(wire, i)
        /\ \A i \in Streams : Asks(c, i) => sent[i].req # "none" /\ ~Asked(wire', i)
        /\ Opens(c) => ~Quiet(a) /\ Quiet(b)
        /\ Quiet(a) => Quiet(b)
    BY <1>0, <1>1, ReceivePeers
  <1>4. \A i \in Streams : Asks(c, i) => Asked(wire, i) /\ Said(sent, wire', i)
    BY <1>2, <1>3 DEF Asked, Said
  <1> HIDE DEF a, b, c
  <1>5. Intact'
    <2> SUFFICES ASSUME Clean(st') PROVE Faithful(st', sent, wire', b, TRUE, rest["resp"])
      <3>1. opened = TRUE
        BY <1>0, <1>3 DEF EnvType
      <3> QED
        BY <3>1, <1>1 DEF Intact, b
    <2>1. PICK k \in Times : \E f : Kept(f) /\ Swept(f, st) /\ Handled(st', f, k, "req", c)
      BY <1>0, <1>1, <1>2, HandleIs
    <2>2. PICK f : Kept(f) /\ Swept(f, st) /\ Handled(st', f, k, "req", c)
      BY <2>1
    <2>3. Faithful(st, sent, wire, a, TRUE, rest["resp"])
      <3>1. Clean(st) /\ opened = TRUE
        BY <1>0, <1>1, <1>2, <1>3, HandleIs DEF EnvType
      <3> QED
        BY <3>1 DEF Reporting, Intact, a
    <2>4. Faithful(f, sent, wire, a, TRUE, rest["resp"])
      BY <2>2, <2>3, <1>0, SweptFaithful
    <2> QED
      BY <2>2, <2>4, <1>2, <1>3, <1>4, AskFaithful
  <1> QED
    BY <1>3, <1>5

(* The server sends a chunk, which is handled, cut or lost.                *)
LEMMA ResponseReports ==
  ASSUME Reporting, NEW fate, ReceiveResponse(fate)
  PROVE  Peers' /\ Intact'
  <1> DEFINE a == AheadOf(wire, rest["req"])
  <1>0. EnvType /\ Peers /\ Kept(st) /\ Books /\ "resp" \in Dirs /\ sent \in [Streams -> Stages]
    BY DEF Reporting, Books, Dirs, EnvType
  <1>1. PICK c \in NextChunks("resp") : Emit("resp", c, Cost(fate)) /\ Handle("resp", c, fate)
    BY DEF ReceiveResponse
  <1>2. UNCHANGED wire
    BY DEF ReceiveResponse
  <1>3. /\ Peers' /\ c \in Chunks("resp") /\ rest'["req"] = rest["req"] /\ opened' = opened
        /\ Goes(sent', sent, wire, rest'["resp"], rest["resp"], c)
    BY <1>0, <1>1, <1>2, GoesIs
  <1> HIDE DEF a
  <1>4. Intact'
    <2> SUFFICES ASSUME Clean(st') PROVE Faithful(st', sent', wire, a, opened, rest'["resp"])
      BY <1>2, <1>3 DEF Intact, a
    <2>1. PICK k \in Times : \E f : Kept(f) /\ Swept(f, st) /\ Handled(st', f, k, "resp", c)
      BY <1>0, <1>1, <1>3, HandleIs
    <2>2. PICK f : Kept(f) /\ Swept(f, st) /\ Handled(st', f, k, "resp", c)
      BY <2>1
    <2>3. Faithful(st, sent, wire, a, opened, rest["resp"])
      <3>1. Clean(st)
        BY <1>0, <1>1, <1>3, HandleIs
      <3> QED
        BY <3>1 DEF Reporting, Intact, a
    <2>4. Faithful(f, sent, wire, a, opened, rest["resp"])
      BY <2>2, <2>3, <1>0, SweptFaithful
    <2> QED
      BY <2>2, <2>4, <1>0, <1>3, AnswerFaithful
  <1> QED
    BY <1>3, <1>4

(* Every step keeps Reporting.                                             *)
LEMMA ReportingStep ==
  ASSUME Reporting, [Next]_vars
  PROVE  Reporting'
  <1>0. EnvType /\ Peers /\ Kept(st) /\ Books /\ now \in Times /\ st \in State
    BY DEF Reporting, Books, EnvType, Kept, Sound
  <1>1. Books'
    BY <1>0, BooksStep
  <1> SUFFICES Peers' /\ Intact'
    BY <1>1 DEF Reporting
  <1>n. NoRest["req"] = NoItem /\ NoRest["resp"] = NoItem
    BY DEF NoRest, Dirs
  <1>2. CASE Call
    BY <1>2, CallReports
  <1>3. ASSUME NEW fate \in Fates, ReceiveRequest(fate) PROVE Peers' /\ Intact'
    BY <1>3, RequestReports
  <1>4. ASSUME NEW fate \in Fates, ReceiveResponse(fate) PROVE Peers' /\ Intact'
    BY <1>4, ResponseReports
  <1>5. CASE HandleClose
    <2>1. /\ st' = [EvictConnection(st) EXCEPT !.missing = Dirs]
          /\ rest' = NoRest /\ UNCHANGED <<wire, sent, opened>>
      BY <1>5 DEF HandleClose
    <2>2. ~Clean(st')
      <3> DEFINE x == EvictConnection(st)
      <3>1. x \in State
        BY <1>0, CloseIs DEF Sheds
      <3> HIDE DEF x
      <3>2. st'.missing = Dirs
        BY <2>1, <3>1 DEF x, State
      <3> QED
        BY <3>2 DEF Clean, Dirs
    <2>3. Ordered(wire)
      <3>1. wire \in Seq(Chunks("req")) /\ rest["req"] \in Chunks("req") \cup {NoItem}
        BY <1>0 DEF EnvType, Dirs
      <3>2. Ordered(AheadOf(wire, rest["req"]))
        BY <1>0 DEF Peers
      <3> QED
        BY <3>1, <3>2, OrderedAppend DEF AheadOf
    <2>4. Peers'
      BY <2>1, <2>3, <1>0, <1>n DEF Peers, ReqRest, RespRest, AheadOf
    <2> QED
      BY <2>2, <2>4 DEF Intact
  <1>6. CASE Sweep
    <2>0. PICK k \in Excess(st, now) : st' = EvictStale(st, k, now)
      BY <1>6 DEF Sweep
    <2>1. k \in Times \cup {Unborn} /\ UNCHANGED envVars
      BY <1>6 DEF Sweep, Excess
    <2>2. UNCHANGED <<wire, rest, sent, opened>>
      BY <2>1 DEF envVars
    <2>3. Peers'
      BY <2>2, <1>0 DEF Peers
    <2>4. CASE st' = st
      BY <2>2, <2>3, <2>4 DEF Reporting, Intact
    <2>5. CASE \E due : Sheds(st', st, due, "no_response_observed")
      <3> DEFINE a == AheadOf(wire, rest["req"])
      <3>1. PICK due : Sheds(st', st, due, "no_response_observed")
        BY <2>5
      <3> SUFFICES ASSUME Clean(st') PROVE Faithful(st', sent, wire, a, opened, rest["resp"])
        BY <2>2, <2>3 DEF Intact
      <3>2. Clean(st)
        BY <3>1 DEF Sheds, Clean
      <3>3. Faithful(st, sent, wire, a, opened, rest["resp"])
        BY <3>2 DEF Reporting, Intact
      <3> HIDE DEF a
      <3> QED
        BY <3>1, <3>3, <1>0, ShedFaithful DEF Outcomes
    <2> QED
      BY <2>0, <2>1, <2>4, <2>5, <1>0, EvictIs
  <1>7. CASE Shutdown
    <2>1. /\ st' = Report(st, Waits(st), "sensor_shutdown") /\ wire' = <<>> /\ rest' = NoRest
          /\ UNCHANGED <<sent, opened>>
      BY <1>7 DEF Shutdown
    <2>2. PICK due : Sheds(st', st, due, "sensor_shutdown")
      BY <2>1, <1>0, ShutdownIs
    <2>3. AheadOf(wire', rest'["req"]) = <<>> /\ DOMAIN wire' = {}
      BY <2>1, <1>n DEF AheadOf
    <2>4. \A i \in Streams : ~Asked(wire', i)
      BY <2>3 DEF Asked
    <2>5. Peers'
      BY <2>1, <2>3, <2>4, <1>0, <1>n DEF Peers, AskedOnce, ReqRest, RespRest, Ordered
    <2>6. Intact'
      <3> DEFINE a == AheadOf(wire, rest["req"])
      <3> SUFFICES ASSUME Clean(st') PROVE Faithful(st', sent, wire', <<>>, opened, NoItem)
        BY <2>1, <2>3, <1>n DEF Intact
      <3>1. Clean(st)
        BY <2>2 DEF Sheds, Clean
      <3>2. Faithful(st, sent, wire, a, opened, rest["resp"])
        BY <3>1 DEF Reporting, Intact
      <3> HIDE DEF a
      <3>3. Faithful(st', sent, wire, a, opened, rest["resp"])
        BY <2>2, <3>2, <1>0, ShedFaithful DEF Outcomes
      <3>4. Quiet(<<>>)
        BY DEF Quiet
      <3>5. Live(st', <<>>, opened)
        BY <3>3, <3>4 DEF Faithful, Live
      <3>6. Lasts(sent, sent, wire', wire, NoItem, rest["resp"])
        BY <2>4 DEF Lasts, Said, Settled, Level
      <3>7. Carries(st', st', sent, sent, wire', wire)
        BY DEF Carries, Level
      <3>8. Kept(st')
        BY <1>1 DEF Books
      <3> QED
        BY <3>3, <3>5, <3>6, <3>7, <3>8, CarriedFaithful
    <2> QED
      BY <2>5, <2>6
  <1>8. CASE Tick \/ UNCHANGED vars
    <2>1. UNCHANGED <<st, wire, rest, sent, opened>>
      BY <1>8 DEF Tick, vars, envVars
    <2> QED
      BY <2>1 DEF Reporting, Peers, Intact
  <1> QED
    BY <1>2, <1>3, <1>4, <1>5, <1>6, <1>7, <1>8 DEF Next

(* finish_h2_response, "Completion is END_STREAM only": whatever the peers *)
(* send and however it is split, the response of an undamaged connection   *)
(* (see Unharmed) is reported once, with its body up to the capture limit  *)
(* and with its trailers.                                                  *)
THEOREM ResponsesAreWhole == Spec => []WholeResponses
  <1>1. Reporting => WholeResponses
    <2> SUFFICES ASSUME Reporting, Unharmed,
                        NEW e \in st.out, NEW f \in st.out
                 PROVE  /\ e.sid = f.sid => e = f
                        /\ e.outcome = "paired" =>
                              /\ e.trailers = (IF sent[e.sid].trailers THEN 1 ELSE 0)
                              /\ e.body = Min({sent[e.sid].data, MaxBody})
      BY DEF WholeResponses
    <2>1. Once(st, sent, wire) /\ Matched(st, sent, rest["resp"])
      BY DEF Reporting, Intact, Clean, Unharmed, Faithful
    <2>2. e.sid \in Streams
      BY DEF Reporting, Books, Kept, Sound, State, Reported
    <2>3. sent[e.sid].data \in Nat
      BY <2>2 DEF Reporting, Books, EnvType, Stages
    <2>4. e.sid = f.sid => e = f
      BY <2>1 DEF Once
    <2>5. e.outcome = "paired" => Told(e, sent[e.sid])
      BY <2>1 DEF Matched
    <2> QED
      BY <2>3, <2>4, <2>5, CappedIs DEF Told
  <1>2. Init => Reporting
    BY ReportingInit
  <1>3. Reporting /\ [Next]_vars => Reporting'
    BY ReportingStep
  <1> QED
    BY <1>1, <1>2, <1>3, PTL DEF Spec

-----------------------------------------------------------------------------
(* Parsers in step with their peers.                                       *)

(* The next request chunk is piece p of a split.                           *)
Leads(a, p) == a # <<>> /\ Head(a).piece = p

SameLead(b, a) ==
    (Leads(b, "block2") <=> Leads(a, "block2")) /\ (Leads(b, "token2") <=> Leads(a, "token2"))

(* Chunk y is the second piece of x if and only if x is a first one.       *)
Links(x, y) ==
    /\ x.piece = "block1" <=> y.piece = "block2"
    /\ x.piece = "token1" <=> y.piece = "token2"

(* The second piece of a split block or preface comes right after the      *)
(* first.                                                                  *)
Follows(a) ==
    \A j \in DOMAIN a :
      /\ a[j].piece = "block1" <=> (j + 1 \in DOMAIN a /\ a[j + 1].piece = "block2")
      /\ a[j].piece = "token1" <=> (j + 1 \in DOMAIN a /\ a[j + 1].piece = "token2")

(* Taking the first chunk keeps the pieces together.                       *)
LEMMA FollowsTail ==
  ASSUME NEW C, NEW a \in Seq(C), a # <<>>, Follows(a)
  PROVE  /\ Follows(Tail(a))
         /\ Head(a).piece = "block1" <=> Leads(Tail(a), "block2")
         /\ Head(a).piece = "token1" <=> Leads(Tail(a), "token2")
  <1> DEFINE b == Tail(a)
             n == Len(a)
  <1>1. /\ b \in Seq(C) /\ n \in Nat \ {0} /\ DOMAIN a = 1..n /\ DOMAIN b = 1..(n - 1)
        /\ Head(a) = a[1] /\ \A j \in 1..(n - 1) : b[j] = a[j + 1]
        /\ Len(b) = n - 1
    BY TailIs
  <1> HIDE DEF b, n
  <1>2. Follows(b)
    <2> SUFFICES ASSUME NEW j \in DOMAIN b
                 PROVE  /\ b[j].piece = "block1" <=> (j + 1 \in DOMAIN b /\ b[j + 1].piece = "block2")
                        /\ b[j].piece = "token1" <=> (j + 1 \in DOMAIN b /\ b[j + 1].piece = "token2")
      BY DEF Follows
    <2>1. j \in Nat /\ j + 1 \in DOMAIN a /\ b[j] = a[j + 1]
          /\ (j + 1 \in DOMAIN b <=> j + 1 + 1 \in DOMAIN a)
      BY <1>1
    <2>2. j + 1 \in DOMAIN b => b[j + 1] = a[j + 1 + 1]
      BY <1>1, <2>1
    <2> QED
      BY <2>1, <2>2 DEF Follows
  <1>3. b # <<>> <=> 2 \in DOMAIN a
    <2>1. b = <<>> <=> Len(b) = 0
      BY <1>1
    <2> QED
      BY <2>1, <1>1
  <1>4. b # <<>> => Head(b) = a[2]
    <2>1. b # <<>> => Head(b) = b[1]
      BY <1>1
    <2>2. b # <<>> => 1 \in 1..(n - 1)
      BY <1>1, <1>3
    <2> QED
      BY <2>1, <2>2, <1>1
  <1>5. /\ a[1].piece = "block1" <=> (2 \in DOMAIN a /\ a[2].piece = "block2")
        /\ a[1].piece = "token1" <=> (2 \in DOMAIN a /\ a[2].piece = "token2")
    <2>1. 1 \in DOMAIN a /\ 1 + 1 = 2
      BY <1>1
    <2> QED
      BY <2>1 DEF Follows
  <1> QED
    BY <1>1, <1>2, <1>3, <1>4, <1>5 DEF Leads, b

(* A chunk that is no second piece is sent.                                *)
LEMMA FollowsAppend ==
  ASSUME NEW C, NEW w \in Seq(C), Follows(w), NEW c \in C, c.piece \notin {"block2", "token2"},
         NEW a, a = Append(w, c)
  PROVE  /\ \A b \in Seq(C) : b # <<>> /\ b[1] = a[1] =>
              SameLead(b, w)
         /\ \A j \in 1..Len(w) : Links(a[j], a[j + 1])
  <1> DEFINE n == Len(w)
  <1>1. /\ a \in Seq(C) /\ n \in Nat /\ DOMAIN a = 1..(n + 1) /\ DOMAIN w = 1..n
        /\ a[n + 1] = c /\ \A j \in 1..n : a[j] = w[j]
        /\ a # <<>> /\ Len(a) = n + 1
    BY AppendIs
  <1> HIDE DEF n
  <1>h. ASSUME NEW b \in Seq(C), b # <<>>, b[1] = a[1]
        PROVE  SameLead(b, w)
    <2>1. Head(b) = b[1]
      BY <1>h
    <2>2. CASE w = <<>>
      <3>1. n = 0
        BY <2>2 DEF n
      <3>2. a[1] = c
        BY <3>1, <1>1
      <3> QED
        BY <3>2, <2>1, <2>2, <1>h DEF SameLead, Leads
    <2>3. CASE w # <<>>
      <3>1. Head(w) = w[1] /\ n # 0
        BY <2>3 DEF n
      <3>2. a[1] = w[1]
        BY <3>1, <1>1
      <3> QED
        BY <3>1, <3>2, <2>1, <2>3, <1>h DEF SameLead, Leads
    <2> QED
      BY <2>2, <2>3
  <1>f. \A j \in 1..n :
          /\ w[j].piece = "block1" <=> (j + 1 \in 1..n /\ w[j + 1].piece = "block2")
          /\ w[j].piece = "token1" <=> (j + 1 \in 1..n /\ w[j + 1].piece = "token2")
    BY <1>1 DEF Follows
  <1>g. ASSUME NEW j \in 1..n
        PROVE  Links(a[j], a[j + 1])
    <2>1. CASE j = n
      <3>1. j + 1 \notin 1..n /\ a[j + 1] = c /\ a[j] = w[j]
        BY <2>1, <1>1
      <3> QED
        BY <3>1, <1>f DEF Links
    <2>2. CASE j # n
      <3>1. j + 1 \in 1..n /\ a[j + 1] = w[j + 1] /\ a[j] = w[j]
        BY <2>2, <1>1
      <3> QED
        BY <3>1, <1>f DEF Links
    <2> QED
      BY <2>1, <2>2
  <1> QED
    BY <1>g, <1>h DEF n

(* A whole chunk is sent.                                                  *)
LEMMA FollowsWhole ==
  ASSUME NEW C, NEW w \in Seq(C), Follows(w), NEW c \in C, c.piece = "whole",
         NEW a, a = Append(w, c)
  PROVE  Follows(a) /\ SameLead(a, w)
  <1> DEFINE n == Len(w)
  <1>1. /\ a \in Seq(C) /\ n \in Nat /\ DOMAIN a = 1..(n + 1) /\ DOMAIN w = 1..n
        /\ a[n + 1] = c /\ \A j \in 1..n : a[j] = w[j]
        /\ a # <<>> /\ Len(a) = n + 1
    BY AppendIs
  <1> HIDE DEF n
  <1>c. c.piece \notin {"block2", "token2"} /\ c.piece \notin {"block1", "token1"}
    OBVIOUS
  <1>h. \A b \in Seq(C) : b # <<>> /\ b[1] = a[1] =>
              SameLead(b, w)
    BY <1>c, FollowsAppend
  <1>g. \A j \in 1..n : Links(a[j], a[j + 1])
    BY <1>c, FollowsAppend DEF n
  <1>2. Follows(a)
    <2> SUFFICES ASSUME NEW j \in DOMAIN a
                 PROVE  /\ a[j].piece = "block1" <=> (j + 1 \in DOMAIN a /\ a[j + 1].piece = "block2")
                        /\ a[j].piece = "token1" <=> (j + 1 \in DOMAIN a /\ a[j + 1].piece = "token2")
      BY DEF Follows
    <2>1. CASE j = n + 1
      <3>1. j + 1 \notin DOMAIN a /\ a[j] = c
        BY <2>1, <1>1
      <3> QED
        BY <3>1, <1>c
    <2>2. CASE j # n + 1
      <3>1. j \in 1..n /\ j + 1 \in DOMAIN a
        BY <2>2, <1>1
      <3> QED
        BY <3>1, <1>g DEF Links
    <2> QED
      BY <2>1, <2>2
  <1> QED
    BY <1>1, <1>2, <1>h

(* The two pieces of a chunk are sent.                                     *)
LEMMA FollowsSplit ==
  ASSUME NEW C, NEW w \in Seq(C), Follows(w), NEW c \in C, c.piece \in Firsts,
         NEW y \in C, y.piece = Second[c.piece], NEW b, b = Append(Append(w, c), y)
  PROVE  Follows(b) /\ SameLead(b, w)
  <1>c. /\ c.piece \notin {"block2", "token2"} /\ y.piece \notin {"block1", "token1"}
        /\ c.piece = "block1" <=> y.piece = "block2"
        /\ c.piece = "token1" <=> y.piece = "token2"
    BY Seconds DEF Firsts
  <1> DEFINE a == Append(w, c)
             n == Len(w)
  <1>a. a = Append(w, c) /\ b = Append(a, y)
    OBVIOUS
  <1> HIDE DEF a
  <1>1. /\ a \in Seq(C) /\ n \in Nat /\ DOMAIN a = 1..(n + 1) /\ DOMAIN w = 1..n
        /\ a[n + 1] = c /\ \A j \in 1..n : a[j] = w[j]
        /\ a # <<>> /\ Len(a) = n + 1
    BY <1>a, AppendIs
  <1>h. \A z \in Seq(C) : z # <<>> /\ z[1] = a[1] =>
              SameLead(z, w)
    BY <1>a, <1>c, FollowsAppend
  <1>g. \A j \in 1..n : Links(a[j], a[j + 1])
    BY <1>a, <1>c, FollowsAppend
  <1> HIDE DEF n
  <1>b1. /\ b \in Seq(C) /\ DOMAIN b = 1..(n + 1 + 1) /\ b # <<>>
        /\ b[n + 1 + 1] = y /\ \A j \in 1..(n + 1) : b[j] = a[j]
    BY <1>1, <1>a, AppendIs
  <1>b2. b[1] = a[1]
    BY <1>b1, <1>1
  <1>b3. SameLead(b, w)
    BY <1>b1, <1>b2, <1>h
  <1>b4. Follows(b)
    <2> SUFFICES ASSUME NEW j \in DOMAIN b
                 PROVE  /\ b[j].piece = "block1" <=> (j + 1 \in DOMAIN b /\ b[j + 1].piece = "block2")
                        /\ b[j].piece = "token1" <=> (j + 1 \in DOMAIN b /\ b[j + 1].piece = "token2")
      BY DEF Follows
    <2>1. CASE j = n + 1 + 1
      <3>1. j + 1 \notin DOMAIN b /\ b[j] = y
        BY <1>b1, <2>1, <1>1
      <3> QED
        BY <3>1, <1>c
    <2>2. CASE j = n + 1
      <3>1. j + 1 \in DOMAIN b /\ b[j + 1] = y /\ b[j] = c
        BY <1>b1, <2>2, <1>1
      <3> QED
        BY <3>1, <1>c
    <2>3. CASE j # n + 1 /\ j # n + 1 + 1
      <3>1. j \in 1..n /\ j + 1 \in DOMAIN b /\ b[j] = a[j] /\ b[j + 1] = a[j + 1]
        BY <1>b1, <2>3, <1>1
      <3> QED
        BY <3>1, <1>g DEF Links
    <2> QED
      BY <2>1, <2>2, <2>3
  <1> QED
    BY <1>b3, <1>b4

(* The parsers of a connection wait for what its peers send next.          *)
InStep(s, a, R) ==
    \A k \in Times : s.conns[k] # NoConn =>
      LET req == s.conns[k].dirs["req"]
          resp == s.conns[k].dirs["resp"]
      IN /\ ~req.broken /\ (req.expects <=> Leads(a, "token2")) /\ (req.expects => req.buf = 1)
         /\ req.open # NoBlock <=> Leads(a, "block2")
         /\ ~resp.broken /\ ~resp.expects
         /\ resp.open # NoBlock <=> R # NoItem /\ R.piece = "block2"

(* Before its preface a connection has at most the rest of a SETTINGS     *)
(* frame outstanding.                                                      *)
Settling(R) == R = NoItem \/ R.piece = "tail2"

Aligned(s, a, op, R) ==
    Follows(a) /\ InStep(s, a, R) /\ (Settling(R) \/ (op /\ Quiet(a)))

(* Eviction of stale streams leaves the parsers alone.                     *)
LEMMA SweptAligned ==
  ASSUME NEW s, NEW a, NEW op, NEW R, Aligned(s, a, op, R), NEW r,
         Swept(r, s) \/ \E due, o : Sheds(r, s, due, o)
  PROVE  Aligned(r, a, op, R)
  <1>1. CASE r.conns = s.conns
    BY <1>1 DEF Aligned, InStep
  <1>2. CASE \E due, o : Sheds(r, s, due, o)
    <2>1. \A k \in Times : r.conns[k] # NoConn => s.conns[k] # NoConn
                                                 /\ r.conns[k].dirs = s.conns[k].dirs
      <3>1. PICK due : Emptied(r.conns, s.conns, due)
        BY <1>2 DEF Sheds
      <3> QED
        BY <3>1 DEF Emptied
    <2> QED
      BY <2>1 DEF Aligned, InStep
  <1> QED
    BY <1>1, <1>2 DEF Swept

(* The client sends a chunk.                                               *)
LEMMA CallAligned ==
  ASSUME EnvType, Peers, NEW c \in NextChunks("req"), Emit("req", c, 0), wire' = Append(wire, c),
         NEW s, NEW R, Aligned(s, AheadOf(wire, rest["req"]), opened, R)
  PROVE  Aligned(s, AheadOf(wire', rest'["req"]), opened', R)
  <1> DEFINE C == Chunks("req")
             a == AheadOf(wire, rest["req"])
             b == AheadOf(wire', rest'["req"])
             y == rest'["req"]
  <1>1. c \in C /\ y \in C \cup {NoItem} /\ Grows(c, a, b)
    BY CallGrows
  <1>2. opened /\ Quiet(a) => opened' /\ Quiet(b)
    BY CallPeers
  <1>3. wire \in Seq(C)
    BY DEF EnvType
  <1>4. Follows(a) /\ InStep(s, a, R) /\ (Settling(R) \/ (opened /\ Quiet(a)))
    BY DEF Aligned
  <1>5. Follows(b) /\ SameLead(b, a)
    <2> HIDE DEF C, a, b, y
    <2>1. CASE b = a
      BY <2>1, <1>4 DEF SameLead
    <2>2. CASE a = wire /\ c.piece = "whole" /\ b = Append(a, c)
      <3>1. a \in Seq(C) /\ c \in C /\ Follows(a)
        BY <2>2, <1>1, <1>3, <1>4
      <3> QED
        BY <3>1, <2>2, FollowsWhole
    <2>3. CASE a = wire /\ c.piece \in Firsts /\ y.piece = Second[c.piece] /\ y # NoItem
               /\ b = Append(Append(a, c), y)
      <3>1. a \in Seq(C) /\ y \in C /\ c \in C /\ Follows(a)
        BY <2>3, <1>1, <1>3, <1>4
      <3> QED
        BY <3>1, <2>3, FollowsSplit
    <2> QED
      BY <2>1, <2>2, <2>3, <1>1 DEF Grows, y
  <1> HIDE DEF a, b
  <1>6. InStep(s, b, R)
    BY <1>4, <1>5 DEF InStep, SameLead
  <1>7. Aligned(s, b, opened', R)
    BY <1>2, <1>4, <1>5, <1>6 DEF Aligned
  <1> QED
    BY <1>7 DEF b

(* A chunk of the client is handled: its parser was ready for it, so it    *)
(* has its effect.                                                         *)
LEMMA AskAligned ==
  ASSUME NEW f, NEW a \in Seq(Chunks("req")), a # <<>>, NEW R, Aligned(f, a, TRUE, R),
         Live(f, a, TRUE), NEW c, c = Head(a), NEW k \in Times, NEW r, Handled(r, f, k, "req", c),
         Ordered(a)
  PROVE  /\ Aligned(r, Tail(a), TRUE, R)
         /\ Took(r, f, k, "req", c) /\ f.conns[k] # NoConn => Effect(r, f, k, "req", c)
  <1> DEFINE b == Tail(a)
  <1>0. "req" \in Dirs /\ "resp" \in Dirs \ {"req"}
    BY DEF Dirs
  <1>1. c \in Chunks("req")
    BY TailIs
  <1>2. /\ Follows(b) /\ (c.piece = "block1" <=> Leads(b, "block2"))
        /\ (c.piece = "token1" <=> Leads(b, "token2"))
    BY FollowsTail DEF Aligned
  <1>3. Quiet(a) => Quiet(b) /\ ~Early(c)
    BY OrderedTail
  <1>4. Opens(c) => ~Quiet(a)
    BY <1>3 DEF Opens, Early, Prefatory
  <1>5. Leads(a, c.piece) /\ \A p : Leads(a, p) => p = c.piece
    BY DEF Leads
  <1>a. InStep(f, a, R) /\ (Settling(R) \/ Quiet(a))
    BY DEF Aligned
  <1>c. c.piece = "token2" => c.what = "preface"
    BY <1>0, <1>1, Shapes DEF PieceNames
  <1> HIDE DEF b
  <1>6. ASSUME InStep(r, b, R) PROVE Aligned(r, b, TRUE, R)
    BY <1>2, <1>3, <1>6, <1>a DEF Aligned
  <1>7. CASE r.conns = f.conns /\ c.what = "preface" /\ c.piece = "magic1"
    <2>1. \A j \in Times : f.conns[j] = NoConn
      BY <1>7, <1>3 DEF Live, Early
    <2>2. InStep(r, b, R)
      BY <2>1, <1>7 DEF InStep
    <2>3. f.conns[k] = NoConn
      BY <2>1
    <2> QED
      BY <2>2, <2>3, <1>6 DEF b
  <1>8. CASE f.conns[k] # NoConn /\ Took(r, f, k, "req", c)
    <2> DEFINE d == f.conns[k].dirs["req"]
               e == r.conns[k].dirs["req"]
    <2>1. Quiet(a) /\ \A j \in Times \ {k} : f.conns[j] = NoConn
      BY <1>8 DEF Live
    <2>2. /\ ~d.broken /\ (d.expects <=> Leads(a, "token2")) /\ (d.expects => d.buf = 1)
          /\ d.open # NoBlock <=> Leads(a, "block2")
      BY <1>8, <1>a DEF InStep
    <2>3. c.what = "preface" <=> c.piece = "token2"
      BY <2>1, <1>3, <1>c DEF Early
    <2>4. Ready(d, c)
      BY <2>2, <2>3, <1>5 DEF Ready
    <2>5. Parsed(e, c) /\ r.conns[k].dirs["resp"] = f.conns[k].dirs["resp"]
          /\ \A j \in Times \ {k} : r.conns[j] = f.conns[j]
      BY <2>4, <1>8, <1>0 DEF Took
    <2>6. /\ ~e.broken /\ (e.expects <=> Leads(b, "token2")) /\ (e.expects => e.buf = 1)
          /\ e.open # NoBlock <=> Leads(b, "block2")
      BY <2>5, <1>2 DEF Parsed
    <2>7. InStep(r, b, R)
      <3>1. LET q == f.conns[k].dirs["resp"] IN
            /\ ~q.broken /\ ~q.expects
            /\ q.open # NoBlock <=> R # NoItem /\ R.piece = "block2"
        BY <1>8, <1>a DEF InStep
      <3>2. \A j \in Times : r.conns[j] # NoConn => j = k
        BY <2>1, <2>5
      <3> QED
        BY <3>1, <3>2, <2>5, <2>6 DEF InStep
    <2>8. Effect(r, f, k, "req", c)
      BY <2>6, <1>8 DEF Took
    <2> QED
      BY <2>7, <2>8, <1>6 DEF b
  <1>9. CASE Opens(c) /\ Opened(r, f, k, c)
    <2>1. \A j \in Times : f.conns[j] = NoConn
      BY <1>9, <1>4 DEF Live
    <2>2. R = NoItem \/ R.piece # "block2"
      BY <1>9, <1>4, <1>a DEF Settling
    <2>3. /\ Parsed(r.conns[k].dirs["req"], c) /\ Idle(r.conns[k].dirs["resp"])
          /\ \A j \in Times \ {k} : r.conns[j] = f.conns[j]
      BY <1>9 DEF Opened
    <2>4. InStep(r, b, R)
      BY <2>1, <2>2, <2>3, <1>2 DEF InStep, Parsed, Idle
    <2>5. f.conns[k] = NoConn
      BY <2>1
    <2> QED
      BY <2>4, <2>5, <1>6 DEF b
  <1> QED
    BY <1>7, <1>8, <1>9 DEF Handled

(* The server's next chunk is the rest of a split one or a new one, and    *)
(* leaves the rest of its own.                                             *)
Onward(c, R, Q) ==
    /\ R # NoItem => c = R /\ c.piece \notin Firsts
    /\ R = NoItem => c.piece \in {"whole", "frame1", "block1", "tail1"}
    /\ IF c.piece \in Firsts THEN Q # NoItem /\ Q.piece = Second[c.piece] ELSE Q = NoItem

(* What the server emits is its next chunk.                                *)
LEMMA OnwardIs ==
  ASSUME EnvType, Peers, NEW c \in NextChunks("resp"), NEW cost, Emit("resp", c, cost)
  PROVE  /\ Onward(c, rest["resp"], rest'["resp"])
         /\ c.kind = "plain" /\ c.what # "goaway" => sent[c.sid].resp = "open"
  <1>0. "resp" \in Dirs
    BY DEF Dirs
  <1>1. c \in Chunks("resp") /\ RespSent(c)
    BY <1>0, NextChunksAre, RespSentIs
  <1>2. IF c.piece \in Firsts THEN rest'["resp"] # NoItem /\ rest'["resp"].piece = Second[c.piece]
        ELSE rest'["resp"] = NoItem
    BY <1>0, <1>1, EmitRest
  <1>3. RespRest(rest["resp"], sent)
    BY DEF Peers
  <1>4. CASE rest["resp"] # NoItem
    <2>1. c.what = "settings" => c.kind = "none"
      BY <1>0, <1>1, Shapes
    <2> QED
      BY <2>1, <1>1, <1>2, <1>3, <1>4 DEF RespSent, RespRest, Onward
  <1>5. CASE rest["resp"] = NoItem
    <2>1. /\ c \in HeldFrames => c.kind = "none" /\ c.piece \in {"whole", "tail1"}
          /\ c \in Heads("status") => c.kind = "status"
          /\ c \in Interims => c.kind \in {"interim", "promise"} /\ c.piece = "whole"
          /\ c \in Goaways => c.what = "goaway" /\ c.piece = "whole"
          /\ c \in Bodies \cup Trailing \cup Resets => c.piece = "whole"
      BY DEF HeldFrames, Settings, Heads, Interims, Goaways, Bodies, Trailing, Resets
    <2>2. c.piece \in {"whole", "frame1", "block1", "tail1"}
      BY <2>1, <1>1, <1>5 DEF RespSent
    <2>3. c.kind = "plain" /\ c.what # "goaway" => sent[c.sid].resp = "open"
      BY <2>1, <1>1, <1>5 DEF RespSent
    <2> QED
      BY <2>2, <2>3, <1>2, <1>5 DEF Onward
  <1> QED
    BY <1>4, <1>5

(* A chunk of the server is handled.                                       *)
LEMMA AnswerAligned ==
  ASSUME NEW f, NEW a, NEW op, NEW R, Aligned(f, a, op, R), Live(f, a, op),
         NEW c \in Chunks("resp"), NEW k \in Times, NEW r, Handled(r, f, k, "resp", c),
         NEW Q, Onward(c, R, Q)
  PROVE  /\ Aligned(r, a, op, Q)
         /\ Took(r, f, k, "resp", c) /\ f.conns[k] # NoConn => Effect(r, f, k, "resp", c)
  <1>0. "resp" \in Dirs /\ "req" \in Dirs \ {"resp"}
    BY DEF Dirs
  <1>a. Follows(a) /\ InStep(f, a, R)
    BY DEF Aligned
  <1>c. /\ c.what # "preface" /\ c.piece # "token1" /\ c.piece # "token2"
        /\ c.what = "settings" => c.piece \in {"whole", "tail1", "tail2"}
    <2>1. /\ c.what # "preface" /\ (c.what = "settings" => c \in Settings)
          /\ c.what # "settings" => c.piece \in PieceNames
      BY <1>0, Shapes
    <2>2. c \in Settings => c.piece \in {"whole", "tail1", "tail2"}
      BY DEF Settings
    <2> QED
      BY <2>1, <2>2 DEF PieceNames
  <1>s. c.piece = "block1" => c.piece \in Firsts
    BY DEF Firsts
  <1>q. Q # NoItem /\ Q.piece = "block2" <=> c.piece = "block1"
    BY <1>s, Seconds DEF Onward, Firsts
  <1>1. ASSUME f.conns[k] # NoConn, Took(r, f, k, "resp", c)
        PROVE  Aligned(r, a, op, Q) /\ Effect(r, f, k, "resp", c)
    <2> DEFINE d == f.conns[k].dirs["resp"]
               e == r.conns[k].dirs["resp"]
    <2>1. op /\ Quiet(a) /\ \A j \in Times \ {k} : f.conns[j] = NoConn
      BY <1>1 DEF Live
    <2>2. ~d.broken /\ ~d.expects /\ (d.open # NoBlock <=> R # NoItem /\ R.piece = "block2")
      BY <1>1, <1>a DEF InStep
    <2>3. R # NoItem /\ R.piece = "block2" <=> c.piece = "block2"
      BY DEF Onward
    <2>4. Ready(d, c)
      BY <2>2, <2>3, <1>c DEF Ready
    <2>5. Parsed(e, c) /\ r.conns[k].dirs["req"] = f.conns[k].dirs["req"]
          /\ \A j \in Times \ {k} : r.conns[j] = f.conns[j]
      BY <2>4, <1>1, <1>0 DEF Took
    <2>6. ~e.broken /\ ~e.expects /\ (e.open # NoBlock <=> Q # NoItem /\ Q.piece = "block2")
      BY <2>5, <1>c, <1>q DEF Parsed
    <2>7. InStep(r, a, Q)
      BY <2>1, <2>5, <2>6, <1>1, <1>a DEF InStep
    <2>8. Effect(r, f, k, "resp", c)
      BY <2>6, <1>1 DEF Took
    <2> QED
      BY <2>1, <2>7, <2>8, <1>a DEF Aligned
  <1>2. CASE r.conns = f.conns /\ c.what = "settings"
    <2>1. /\ ~(R # NoItem /\ R.piece = "block2") /\ ~(Q # NoItem /\ Q.piece = "block2")
          /\ Settling(Q)
      BY <1>2, <1>c, Seconds DEF Onward, Firsts, Settling
    <2>2. Aligned(r, a, op, Q)
      BY <2>1, <1>2, <1>a DEF Aligned, InStep
    <2> QED
      BY <2>2, <1>1
  <1> QED
    BY <1>0, <1>1, <1>2 DEF Handled

-----------------------------------------------------------------------------
(* Requests that wait.                                                     *)

(* Chunk c is the client's reset of stream i.                              *)
Stops(c, i) == c.what = "reset" /\ c.sid = i
Resetting(w, i) == \E j \in DOMAIN w : Stops(w[j], i)

(* A stream is reset after its request.                                    *)
ResetLast(w, S) ==
    \A i \in Streams : /\ Resetting(w, i) => S[i].req # "none"
                       /\ \A j, l \in DOMAIN w : Stops(w[j], i) /\ Asks(w[l], i) => l < j

(* What the server sent before a request was handled, on a stream that it  *)
(* has not answered early.                                                 *)
Owing(S, w, i) ==
    Asked(w, i) => S[i].resp \in {"none", "begun"} \/ (S[i].resp = "done" /\ Resetting(w, i))

(* A request that waits is being answered once its answer has begun, and   *)
(* is not answered in full.                                                *)
Served(conn, S, w, i) ==
    conn.pending[i] # NoReq =>
      /\ S[i].resp = "open" => conn.responses[i] # NoResp
      /\ S[i].resp = "done" => Resetting(w, i)

Awaits(s, S, w, L) ==
    \A i \in Streams \ L : Owing(S, w, i) /\ \A k \in Times : Served(s.conns[k], S, w, i)

(* Eviction of stale streams takes requests away and adds none.            *)
LEMMA SweptAwaits ==
  ASSUME NEW s, NEW S, NEW w, NEW L, Awaits(s, S, w, L), NEW r,
         Swept(r, s) \/ \E due, o : Sheds(r, s, due, o)
  PROVE  Awaits(r, S, w, L)
  <1>1. CASE r.conns = s.conns
    BY <1>1 DEF Awaits
  <1>2. CASE \E due, o : Sheds(r, s, due, o)
    <2>1. \A k \in Times, i \in Streams : r.conns[k].pending[i] # NoReq =>
            s.conns[k].pending[i] # NoReq /\ r.conns[k].responses[i] = s.conns[k].responses[i]
      <3>1. PICK due : Emptied(r.conns, s.conns, due)
        BY <1>2 DEF Sheds
      <3> QED
        BY <3>1 DEF Emptied
    <2> QED
      BY <2>1 DEF Awaits, Served
  <1> QED
    BY <1>1, <1>2 DEF Swept

(* The client sends a chunk.                                               *)
LEMMA CallAwaits ==
  ASSUME EnvType, Peers, NEW c \in NextChunks("req"), Emit("req", c, 0), wire' = Append(wire, c),
         ResetLast(wire, sent)
  PROVE  /\ ResetLast(wire', sent')
         /\ \A s, L : Awaits(s, sent, wire, L) => Awaits(s, sent', wire', L)
  <1> DEFINE C == Chunks("req")
             n == Len(wire)
  <1>0. "req" \in Dirs
    BY DEF Dirs
  <1>1. c \in C /\ ReqSent(c) /\ ReqMoves(sent', sent, c)
    BY CallGrows
  <1>2. /\ n \in Nat /\ DOMAIN wire' = 1..(n + 1) /\ DOMAIN wire = 1..n
        /\ wire'[n + 1] = c /\ \A j \in 1..n : wire'[j] = wire[j]
    <2>1. wire \in Seq(C)
      BY DEF EnvType
    <2> QED
      BY <2>1, <1>1, AppendIs
  <1> HIDE DEF n
  <1>c. /\ c.what = "reset" => c.piece \notin Firsts /\ c.kind # "method" /\ c.sid \in Streams
        /\ c.kind = "method" => c.what = "headers" /\ c.sid \in Streams
        /\ c.piece \in {"magic1", "token1"} => c.what = "preface"
    <2>1. c \in Prefatory \/ c \in ReqFrames
      BY <1>1 DEF Chunks
    <2>2. c \in Prefatory => c.what = "preface" /\ c.kind = "none"
      BY DEF Prefatory
    <2>3. c \in ReqFrames => /\ c.sid \in Streams
                             /\ c.piece \in PieceNames
                             /\ c.kind = "method" => c.what = "headers"
                             /\ c.what = "reset" => c.piece = "whole" /\ c.kind = "plain"
      BY DEF ReqFrames, Heads, Bodies, Trailing, Resets, PieceNames
    <2> QED
      BY <2>1, <2>2, <2>3 DEF PieceNames, Firsts
  <1>p. AskedOnce(wire, sent) /\ ReqRest(rest["req"], sent)
    BY DEF Peers
  <1>m. c.kind = "method" => sent[c.sid].req = "none"
    BY <1>1, <1>p DEF ReqSent, ReqRest, Prefatory
  <1>3. \A i \in Streams : /\ Asked(wire', i) => Asked(wire, i) \/ Asks(c, i)
                           /\ Resetting(wire', i) <=> Resetting(wire, i) \/ Stops(c, i)
    BY <1>2 DEF Asked, Resetting
  <1>4. ASSUME NEW i \in Streams
        PROVE  /\ sent[i].req # "none" => sent'[i].req # "none"
               /\ Stops(c, i) => sent'[i].req # "none" /\ sent'[i].resp = "done"
               /\ ~Stops(c, i) => sent'[i].resp = sent[i].resp
    <2>1. CASE c.piece \in Firsts \/ c.what = "preface"
      BY <2>1, <1>1, <1>c DEF ReqMoves, Stops
    <2>2. CASE ~(c.piece \in Firsts \/ c.what = "preface") /\ i # c.sid
      BY <2>2, <1>1 DEF ReqMoves, Stops
    <2>3. CASE ~(c.piece \in Firsts \/ c.what = "preface") /\ i = c.sid
      BY <2>3, <1>1 DEF ReqMoves, Stops
    <2> QED
      BY <2>1, <2>2, <2>3
  <1>5. ASSUME NEW i \in Streams, Asks(c, i)
        PROVE  sent[i].req = "none" /\ sent[i].resp = "none" /\ ~Stops(c, i)
    BY <1>5, <1>m, <1>c, <1>p DEF Asks, AskedOnce, Stops
  <1>6. ResetLast(wire', sent')
    <2> SUFFICES ASSUME NEW i \in Streams
                 PROVE  /\ Resetting(wire', i) => sent'[i].req # "none"
                        /\ \A j, l \in DOMAIN wire' :
                             Stops(wire'[j], i) /\ Asks(wire'[l], i) => l < j
      BY DEF ResetLast
    <2>1. /\ Resetting(wire, i) => sent[i].req # "none"
          /\ \A j, l \in DOMAIN wire : Stops(wire[j], i) /\ Asks(wire[l], i) => l < j
      BY DEF ResetLast
    <2>2. ASSUME NEW j \in DOMAIN wire', NEW l \in DOMAIN wire', Stops(wire'[j], i),
                 Asks(wire'[l], i)
          PROVE  l < j
      <3>1. CASE l = n + 1
        <4>1. Asks(c, i)
          BY <3>1, <2>2, <1>2
        <4>2. ~Resetting(wire, i) /\ ~Stops(c, i)
          BY <4>1, <2>1, <1>5
        <4>3. j # n + 1
          BY <4>2, <2>2, <1>2
        <4>4. j \in DOMAIN wire /\ wire'[j] = wire[j]
          BY <4>3, <2>2, <1>2
        <4> QED
          BY <4>2, <4>4, <2>2 DEF Resetting
      <3>2. CASE l # n + 1 /\ j = n + 1
        BY <3>2, <2>2, <1>2
      <3>3. CASE l # n + 1 /\ j # n + 1
        <4>1. j \in DOMAIN wire /\ wire'[j] = wire[j] /\ l \in DOMAIN wire /\ wire'[l] = wire[l]
          BY <3>3, <2>2, <1>2
        <4> QED
          BY <4>1, <2>1, <2>2
      <3> QED
        BY <3>1, <3>2, <3>3
    <2> QED
      BY <2>1, <2>2, <1>3, <1>4
  <1>7. ASSUME NEW s, NEW L, Awaits(s, sent, wire, L) PROVE Awaits(s, sent', wire', L)
    <2> SUFFICES ASSUME NEW i \in Streams \ L
                 PROVE  /\ Owing(sent', wire', i)
                        /\ \A k \in Times : Served(s.conns[k], sent', wire', i)
      BY DEF Awaits
    <2>1. Owing(sent, wire, i) /\ \A k \in Times : Served(s.conns[k], sent, wire, i)
      BY <1>7 DEF Awaits
    <2>2. CASE Stops(c, i)
      BY <2>2, <1>3, <1>4 DEF Owing, Served
    <2>3. CASE ~Stops(c, i)
      <3>1. sent'[i].resp = sent[i].resp
        BY <2>3, <1>4
      <3>2. Owing(sent', wire', i)
        BY <3>1, <2>1, <1>3, <1>5 DEF Owing
      <3> QED
        BY <3>1, <3>2, <2>1, <1>3 DEF Served
    <2> QED
      BY <2>2, <2>3
  <1> QED
    BY <1>6, <1>7

(* The next chunk of the client is taken off the wire.                     *)
LEMMA ReceiveResets ==
  ASSUME EnvType, wire # <<>>, wire' = Tail(wire), ResetLast(wire, sent)
  PROVE  /\ ResetLast(wire', sent)
         /\ \A i \in Streams : /\ Resetting(wire, i) => Resetting(wire', i) \/ Stops(Head(wire), i)
                               /\ Stops(Head(wire), i) => ~Asked(wire', i)
  <1>1. /\ DOMAIN wire = 1..Len(wire) /\ DOMAIN wire' = 1..(Len(wire) - 1)
        /\ Head(wire) = wire[1] /\ Len(wire) \in Nat \ {0}
        /\ \A j \in 1..(Len(wire) - 1) : wire'[j] = wire[j + 1]
    <2>1. wire \in Seq(Chunks("req"))
      BY DEF EnvType
    <2> QED
      BY <2>1, TailIs
  <1>2. ASSUME NEW i \in Streams, Resetting(wire, i), ~Stops(Head(wire), i)
        PROVE  Resetting(wire', i)
    <2>1. PICK j \in DOMAIN wire : Stops(wire[j], i)
      BY <1>2 DEF Resetting
    <2>2. j # 1
      BY <2>1, <1>1, <1>2
    <2>3. j - 1 \in DOMAIN wire' /\ (j - 1) + 1 = j
      BY <2>2, <1>1
    <2>4. wire'[j - 1] = wire[j]
      BY <2>3, <1>1
    <2> QED
      BY <2>1, <2>3, <2>4 DEF Resetting
  <1>3. ASSUME NEW i \in Streams, Stops(Head(wire), i), NEW j \in DOMAIN wire', Asks(wire'[j], i)
        PROVE  FALSE
    <2>1. 1 \in DOMAIN wire /\ j + 1 \in DOMAIN wire /\ wire'[j] = wire[j + 1] /\ j \in Nat \ {0}
      BY <1>1, <1>3
    <2>2. j + 1 < 1
      BY <2>1, <1>1, <1>3 DEF ResetLast
    <2> QED
      BY <2>1, <2>2
  <1>4. ResetLast(wire', sent)
    <2> SUFFICES ASSUME NEW i \in Streams
                 PROVE  /\ Resetting(wire', i) => sent[i].req # "none"
                        /\ \A j, l \in DOMAIN wire' :
                             Stops(wire'[j], i) /\ Asks(wire'[l], i) => l < j
      BY DEF ResetLast
    <2>1. Resetting(wire', i) => Resetting(wire, i)
      <3> SUFFICES ASSUME NEW j \in DOMAIN wire', Stops(wire'[j], i) PROVE Resetting(wire, i)
        BY DEF Resetting
      <3>1. j + 1 \in DOMAIN wire /\ wire'[j] = wire[j + 1]
        BY <1>1
      <3> QED
        BY <3>1 DEF Resetting
    <2>2. ASSUME NEW j \in DOMAIN wire', NEW l \in DOMAIN wire', Stops(wire'[j], i),
                 Asks(wire'[l], i)
          PROVE  l < j
      <3>1. /\ j + 1 \in DOMAIN wire /\ wire'[j] = wire[j + 1] /\ j \in Nat
            /\ l + 1 \in DOMAIN wire /\ wire'[l] = wire[l + 1] /\ l \in Nat
        BY <1>1, <2>2
      <3>2. l + 1 < j + 1
        BY <3>1, <2>2 DEF ResetLast
      <3> QED
        BY <3>1, <3>2
    <2> QED
      BY <2>1, <2>2 DEF ResetLast
  <1> QED
    BY <1>2, <1>3, <1>4 DEF Asked

(* The stream's request is or was waiting, and its response is the one it  *)
(* was; a reset clears both.                                               *)
LEMMA AskAwaits ==
  ASSUME NEW f, NEW S, NEW w, NEW L, Awaits(f, S, w, L), NEW a, Live(f, a, TRUE),
         NEW k \in Times, NEW c \in Chunks("req"), NEW r, Handled(r, f, k, "req", c),
         Took(r, f, k, "req", c) /\ f.conns[k] # NoConn => Effect(r, f, k, "req", c),
         Opens(c) => ~Quiet(a), NEW v,
         \A i \in Streams : Asked(v, i) => Asked(w, i),
         \A i \in Streams : Asks(c, i) => Asked(w, i),
         \A i \in Streams : Resetting(w, i) => Resetting(v, i) \/ Stops(c, i),
         \A i \in Streams : Stops(c, i) => ~Asked(v, i)
  PROVE  Awaits(r, S, v, L)
  <1>0. ASSUME NEW i \in Streams \ L PROVE Owing(S, v, i)
    BY DEF Awaits, Owing
  <1>c. /\ c.what = "preface" => \A i \in Streams : ~Stops(c, i)
        /\ c.what = "reset" => ~Silent(c) /\ c.kind # "method"
    <2>2. c \in Prefatory \/ c \in ReqFrames
      BY DEF Chunks
    <2>3. c \in Prefatory => c.what = "preface"
      BY DEF Prefatory
    <2>4. c \in ReqFrames /\ c.what = "reset" => c.piece = "whole" /\ c.kind = "plain"
      BY DEF ReqFrames, Heads, Bodies, Trailing, Resets
    <2> QED
      BY <2>2, <2>3, <2>4 DEF Stops, Silent
  <1>1. CASE r.conns = f.conns /\ c.what = "preface"
    <2>1. \A i \in Streams : Resetting(w, i) => Resetting(v, i)
      BY <1>1, <1>c
    <2>2. ASSUME NEW i \in Streams \ L, NEW j \in Times PROVE Served(r.conns[j], S, v, i)
      BY <2>1, <1>1 DEF Awaits, Served
    <2> QED
      BY <2>2, <1>0 DEF Awaits
  <1>2. CASE f.conns[k] # NoConn /\ Took(r, f, k, "req", c)
    <2>0. Effect(r, f, k, "req", c)
      BY <1>2
    <2>1. (Silent(c) /\ Untouched(r, f, k)) \/ (~Silent(c) /\ ReqEffect(r, f, k, c))
      BY <2>0 DEF Effect
    <2>2. ASSUME NEW i \in Streams \ L, NEW j \in Times \ {k} PROVE Served(r.conns[j], S, v, i)
      <3>1. r.conns[j] = NoConn
        BY <1>2 DEF Took, Live
      <3>2. r.conns[j].pending[i] = NoReq
        BY <3>1, Gone
      <3> QED
        BY <3>2 DEF Served
    <2>3. ASSUME NEW i \in Streams \ L PROVE Served(r.conns[k], S, v, i)
      <3>0. Owing(S, w, i) /\ Served(f.conns[k], S, w, i)
        BY DEF Awaits
      <3>1. CASE Stops(c, i)
        <4>1. Clears(r, k, i)
          BY <3>1, <2>1, <1>c DEF ReqEffect, Stops
        <4> QED
          BY <4>1 DEF Clears, Served
      <3>2. CASE ~Stops(c, i)
        <4>0. Resetting(w, i) => Resetting(v, i)
          BY <3>2
        <4>1. CASE Asks(c, i)
          <5>1. S[i].resp \in {"none", "begun"} \/ (S[i].resp = "done" /\ Resetting(w, i))
            BY <4>1, <3>0 DEF Owing
          <5> QED
            BY <5>1, <4>0 DEF Served
        <4>2. CASE ~Asks(c, i)
          <5>1. /\ r.conns[k].responses[i] = f.conns[k].responses[i]
                /\ r.conns[k].pending[i] # NoReq => f.conns[k].pending[i] # NoReq
            <6>1. CASE Untouched(r, f, k)
              BY <6>1 DEF Untouched, Keeps
            <6>2. CASE ~Silent(c) /\ ReqEffect(r, f, k, c) /\ i # c.sid
              BY <6>2 DEF ReqEffect, Keeps
            <6>3. CASE ~Silent(c) /\ ReqEffect(r, f, k, c) /\ i = c.sid
              BY <6>3, <4>2, <3>2 DEF ReqEffect, Asks, Silent, Stops
            <6> QED
              BY <6>1, <6>2, <6>3, <2>1
          <5> QED
            BY <5>1, <4>0, <3>0 DEF Served
        <4> QED
          BY <4>1, <4>2
      <3> QED
        BY <3>1, <3>2
    <2> QED
      BY <2>2, <2>3, <1>0 DEF Awaits
  <1>3. CASE Opens(c) /\ Opened(r, f, k, c)
    <2>1. /\ \A j \in Times \ {k} : r.conns[j] = f.conns[j]
          /\ \A i \in Streams : Keeps(r, f, k, i)
      BY <1>3 DEF Opened, Untouched
    <2>2. \A j \in Times : f.conns[j] = NoConn
      BY <1>3 DEF Live
    <2>4. \A j \in Times, i \in Streams : r.conns[j].pending[i] = NoReq
      BY <2>1, <2>2, Gone DEF Keeps
    <2> QED
      BY <2>4, <1>0 DEF Awaits, Served
  <1> QED
    BY <1>1, <1>2, <1>3 DEF Handled

(* A chunk of the server is handled: a stream that it does not answer early *)
(* has had its request handled before.                                     *)
LEMMA AnswerAwaits ==
  ASSUME NEW f, Kept(f), NEW S, NEW w, NEW L, Awaits(f, S, w, L), NEW a, NEW op, Live(f, a, op),
         NEW k \in Times, NEW c \in Chunks("resp"), NEW r, Handled(r, f, k, "resp", c),
         Took(r, f, k, "resp", c) /\ f.conns[k] # NoConn => Effect(r, f, k, "resp", c),
         NEW T, RespMoves(T, S, c), NEW M,
         \A i \in Streams \ M : i \notin L /\ (Asked(w, i) => i # c.sid /\ c.what # "goaway"),
         c.kind = "plain" /\ c.what # "goaway" => S[c.sid].resp = "open"
  PROVE  Awaits(r, T, w, M)
  <1> DEFINE id == c.sid
             resp == f.conns[k].responses[id]
  <1>d. "resp" \in Dirs /\ "resp" # "req"
    BY DEF Dirs
  <1>c. /\ c.what # "preface"
        /\ c.what # "settings" => c \in RespFrames
    BY <1>d, Shapes
  <1>f. c \in RespFrames =>
          /\ id \in Streams /\ c.end \in BOOLEAN
          /\ c.what = "headers" => c.kind \in {"status", "interim", "promise", "plain"}
          /\ c.what = "headers" /\ c.kind = "plain" => c.end /\ c.piece = "whole"
          /\ c.what \in {"data", "reset", "goaway"} => c.kind = "plain" /\ c.piece = "whole"
          /\ c.what \in {"headers", "data", "reset", "goaway"} /\ c.piece \in PieceNames
    BY DEF RespFrames, Heads, Interims, Bodies, Trailing, Resets, Goaways, PieceNames
  <1>s. c.piece \in Firsts \/ c.what = "settings" => T = S /\ Silent(c)
    BY <1>c, <1>f DEF RespMoves, Silent, Firsts, PieceNames
  <1>t. ~(c.piece \in Firsts \/ c.what = "settings") =>
          /\ c.what # "goaway" =>
               /\ \A i \in Streams \ {id} : T[i] = S[i]
               /\ T[id].resp = IF c.kind \in {"interim", "promise"} THEN "begun"
                               ELSE IF c.what = "reset" \/ c.end THEN "done" ELSE "open"
          /\ c.what = "goaway" =>
               \A i \in Streams : T[i].resp = IF i > id /\ S[i].req # "none" THEN "done"
                                               ELSE S[i].resp
    BY DEF RespMoves
  <1>0. ASSUME NEW i \in Streams \ M PROVE Owing(T, w, i)
    <2>1. Asked(w, i) => T[i].resp = S[i].resp
      BY <1>s, <1>t
    <2> QED
      BY <2>1 DEF Awaits, Owing
  <1>1. CASE r.conns = f.conns /\ c.what = "settings"
    BY <1>1, <1>0, <1>s DEF Awaits
  <1>2. CASE f.conns[k] # NoConn /\ Took(r, f, k, "resp", c)
    <2>1. IF Silent(c) THEN Untouched(r, f, k) ELSE RespEffect(r, f, k, c)
      BY <1>2, <1>d DEF Effect
    <2>2. ASSUME NEW i \in Streams \ M, NEW j \in Times \ {k} PROVE Served(r.conns[j], T, w, i)
      <3>1. r.conns[j] = NoConn
        BY <1>2 DEF Took, Live
      <3>2. r.conns[j].pending[i] = NoReq
        BY <3>1, Gone
      <3> QED
        BY <3>2 DEF Served
    <2>3. ASSUME NEW i \in Streams \ M PROVE Served(r.conns[k], T, w, i)
      <3>0. Served(f.conns[k], S, w, i)
        BY DEF Awaits
      <3>k. ASSUME Keeps(r, f, k, i), T[i].resp = S[i].resp PROVE Served(r.conns[k], T, w, i)
        BY <3>0, <3>k DEF Keeps, Served
      <3>n. ASSUME r.conns[k].pending[i] = NoReq PROVE Served(r.conns[k], T, w, i)
        BY <3>n DEF Served
      <3>1. CASE Silent(c)
        <4>1. Keeps(r, f, k, i)
          BY <3>1, <2>1 DEF Untouched
        <4>2. CASE c.piece \in Firsts \/ c.what = "settings"
          BY <4>1, <4>2, <3>k, <1>s
        <4>3. CASE ~(c.piece \in Firsts \/ c.what = "settings")
          <5>1. c.kind = "promise" /\ c \in RespFrames /\ c.what # "goaway"
            BY <4>3, <3>1, <1>c, <1>f DEF Silent, Firsts
          <5>2. i # id => T[i] = S[i]
            BY <5>1, <4>3, <1>t
          <5>3. i = id => T[i].resp = "begun"
            BY <5>1, <4>3, <1>t
          <5> QED
            BY <5>2, <5>3, <4>1, <3>k DEF Served
        <4> QED
          BY <4>2, <4>3
      <3>2. CASE ~Silent(c) /\ c.what = "goaway"
        <4>1. /\ IF f.conns[k].pending[i] # NoReq /\ i > id THEN Clears(r, k, i)
                 ELSE Keeps(r, f, k, i)
              /\ T[i].resp = IF i > id /\ S[i].req # "none" THEN "done" ELSE S[i].resp
          BY <3>2, <2>1, <1>s, <1>t DEF RespEffect
        <4>2. CASE f.conns[k].pending[i] = NoReq
          BY <4>1, <4>2, <3>n DEF Keeps
        <4>3. CASE f.conns[k].pending[i] # NoReq
          BY <4>1, <4>3, <3>n, <3>k DEF Clears
        <4> QED
          BY <4>2, <4>3
      <3>3. CASE ~Silent(c) /\ c.what # "goaway" /\ i # id
        BY <3>3, <2>1, <1>s, <1>t, <3>k DEF RespEffect
      <3>4. CASE ~Silent(c) /\ c.what # "goaway" /\ i = id
        <4>1. /\ RespEffect(r, f, k, c) /\ c \in RespFrames /\ c.what # "settings"
              /\ T[i].resp = IF c.kind \in {"interim", "promise"} THEN "begun"
                             ELSE IF c.what = "reset" \/ c.end THEN "done" ELSE "open"
          BY <3>4, <2>1, <1>s, <1>t, <1>c DEF Silent
        <4>2. CASE c.what = "reset"
          BY <4>1, <4>2, <3>4, <3>n DEF RespEffect, Clears
        <4>3. CASE c.what = "headers" /\ c.kind = "interim"
          BY <4>1, <4>3 DEF Served
        <4>4. CASE Same(r, f, k, id) /\ f.conns[k].pending[id] = NoReq
          BY <4>4, <3>4, <3>n DEF Same, Keeps
        <4>5. ASSUME c.kind = "plain", resp = NoResp PROVE f.conns[k].pending[id] = NoReq
          <5>1. S[i].resp = "open"
            BY <4>5, <3>4
          <5> QED
            BY <5>1, <4>5, <3>0, <3>4 DEF Served
        <4>6. ASSUME NEW b \in Nat, NEW t, Replies(r, f, k, id, b, t, c.end),
                     c.kind \notin {"interim", "promise"}, c.what # "reset"
              PROVE  Served(r.conns[k], T, w, i)
          <5>1. CASE c.end
            BY <5>1, <4>6, <3>4, <3>n DEF Replies, Clears
          <5>2. CASE ~c.end
            <6>1. r.conns[k].responses[i] = [body |-> b, trailers |-> t] /\ T[i].resp = "open"
              BY <5>2, <4>1, <4>6, <3>4 DEF Replies
            <6>2. [body |-> b, trailers |-> t] # NoResp
              BY <4>6 DEF NoResp
            <6> QED
              BY <6>1, <6>2 DEF Served
          <5> QED
            BY <5>1, <5>2
        <4>7. resp # NoResp => resp.body \in Nat /\ Longer(resp.body) \in Nat
          <5>1. f.conns \in ConnMap
            BY DEF Kept, Sound, State
          <5>2. resp \in Answered \cup {NoResp}
            BY <5>1, <3>4 DEF ConnMap, Connection, ResponseMap
          <5>3. resp # NoResp => resp.body \in Nat
            BY <5>2 DEF Answered
          <5> QED
            BY <5>3, Http2Assumption DEF Longer
        <4>8. CASE c.what = "headers" /\ c.kind = "status"
          BY <4>1, <4>4, <4>6, <4>8 DEF RespEffect
        <4>9. CASE c.what = "headers" /\ c.kind = "plain"
          BY <4>1, <4>4, <4>5, <4>6, <4>7, <4>9 DEF RespEffect
        <4>10. CASE c.what = "data"
          <5>1. c.kind = "plain"
            BY <4>10, <4>1, <1>f
          <5> QED
            BY <5>1, <4>1, <4>4, <4>5, <4>6, <4>7, <4>10 DEF RespEffect
        <4>11. c.what = "headers" => c.kind # "promise"
          BY <3>4 DEF Silent
        <4>12. \/ c.what = "reset" \/ c.what = "data"
               \/ c.what = "headers" /\ c.kind \in {"interim", "status", "plain"}
          BY <4>1, <4>11, <3>4, <1>f
        <4> QED
          BY <4>2, <4>3, <4>8, <4>9, <4>10, <4>12
      <3> QED
        BY <3>1, <3>2, <3>3, <3>4
    <2> QED
      BY <2>2, <2>3, <1>0 DEF Awaits
  <1> QED
    BY <1>1, <1>2, <1>d DEF Handled

-----------------------------------------------------------------------------
(* Answered requests do not wait.                                          *)

(* Parsers and streams of an undamaged connection, while the sensor runs.  *)
InOrder ==
    Clean(st) /\ running =>
      /\ Aligned(st, AheadOf(wire, rest["req"]), opened, rest["resp"])
      /\ Awaits(st, sent, wire, late)

(* Nothing waits once the sensor has stopped.                              *)
Drained ==
    ~running => \A k \in Times, i \in Streams : st.conns[k].pending[i] = NoReq

Serving == Reporting /\ ResetLast(wire, sent) /\ Drained /\ InOrder

(* Serving holds of the first state.                                       *)
LEMMA ServingInit ==
  ASSUME Init
  PROVE  Serving
  <1>1. Reporting
    BY ReportingInit
  <1>2. /\ wire = <<>> /\ rest = NoRest /\ sent \in [Streams -> Stages] /\ running = TRUE
        /\ \A i \in Streams : sent[i].resp = "none"
    BY DEF Init, Stages
  <1>n. NoRest["req"] = NoItem /\ NoRest["resp"] = NoItem
    BY DEF NoRest, Dirs
  <1>3. \A k \in Times : st.conns[k] = NoConn
    BY DEF Init
  <1>4. \A k \in Times, i \in Streams : st.conns[k].pending[i] = NoReq
    BY <1>3, Gone
  <1>5. DOMAIN wire = {} /\ AheadOf(wire, rest["req"]) = wire
    BY <1>2, <1>n DEF AheadOf
  <1>6. \A i \in Streams : ~Resetting(wire, i)
    BY <1>5 DEF Resetting
  <1>7. ResetLast(wire, sent)
    BY <1>5, <1>6 DEF ResetLast
  <1>8. Drained
    BY <1>4 DEF Drained
  <1>9. Aligned(st, wire, opened, rest["resp"])
    BY <1>2, <1>3, <1>5, <1>n DEF Aligned, Follows, InStep, Settling
  <1>10. Awaits(st, sent, wire, late)
    BY <1>2, <1>4, <1>5 DEF Awaits, Owing, Served
  <1> QED
    BY <1>1, <1>5, <1>7, <1>8, <1>9, <1>10 DEF Serving, InOrder

(* The client sends a chunk.                                               *)
LEMMA CallServes ==
  ASSUME Serving, Call
  PROVE  ResetLast(wire, sent)' /\ Drained' /\ InOrder'
  <1>0. EnvType /\ Peers /\ ResetLast(wire, sent)
    BY DEF Serving, Reporting, Books
  <1>1. PICK c \in NextChunks("req") : Emit("req", c, 0) /\ wire' = Append(wire, c)
    BY DEF Call
  <1>2. UNCHANGED <<st, running, late>> /\ running
    BY DEF Call
  <1>3. /\ ResetLast(wire', sent')
        /\ \A s, L : Awaits(s, sent, wire, L) => Awaits(s, sent', wire', L)
    BY <1>0, <1>1, CallAwaits
  <1>4. rest'["resp"] = rest["resp"]
    BY <1>0, <1>1, CallGrows
  <1>5. InOrder'
    <2> SUFFICES ASSUME Clean(st)
                 PROVE  /\ Aligned(st, AheadOf(wire', rest'["req"]), opened', rest["resp"])
                        /\ Awaits(st, sent', wire', late)
      BY <1>2, <1>4 DEF InOrder
    <2>1. /\ Aligned(st, AheadOf(wire, rest["req"]), opened, rest["resp"])
          /\ Awaits(st, sent, wire, late)
      BY <1>2 DEF Serving, InOrder
    <2>2. Aligned(st, AheadOf(wire', rest'["req"]), opened', rest["resp"])
      BY <2>1, <1>0, <1>1, CallAligned
    <2> QED
      BY <2>1, <2>2, <1>3
  <1> QED
    BY <1>2, <1>3, <1>5 DEF Drained

(* The next chunk of the client is handled, cut or lost.                   *)
LEMMA RequestServes ==
  ASSUME Serving, NEW fate, ReceiveRequest(fate)
  PROVE  ResetLast(wire, sent)' /\ Drained' /\ InOrder'
  <1> DEFINE c == Head(wire)
             a == AheadOf(wire, rest["req"])
             v == wire'
             R == rest["resp"]
  <1>0. /\ EnvType /\ Peers /\ Kept(st) /\ Books /\ "req" \in Dirs /\ ResetLast(wire, sent)
        /\ Reporting
    BY DEF Serving, Reporting, Books, Dirs
  <1>1. /\ wire # <<>> /\ Handle("req", c, fate) /\ wire' = Tail(wire)
        /\ UNCHANGED <<rest, sent, opened, running, late>> /\ running
    BY DEF ReceiveRequest
  <1>2. c \in Chunks("req") /\ c = wire[1] /\ 1 \in DOMAIN wire
    BY <1>0, <1>1, TailIs DEF EnvType
  <1>3. /\ opened
        /\ \A i \in Streams : Asked(v, i) => Asked(wire, i)
        /\ Opens(c) => ~Quiet(a)
    BY <1>0, <1>1, ReceivePeers
  <1>4. \A i \in Streams : Asks(c, i) => Asked(wire, i)
    BY <1>2 DEF Asked
  <1>5. /\ ResetLast(v, sent)
        /\ \A i \in Streams : Resetting(wire, i) => Resetting(v, i) \/ Stops(c, i)
        /\ \A i \in Streams : Stops(c, i) => ~Asked(v, i)
    BY <1>0, <1>1, ReceiveResets
  <1>6. /\ a \in Seq(Chunks("req")) /\ a # <<>> /\ Head(a) = c
        /\ AheadOf(v, rest["req"]) = Tail(a)
    <2>1. /\ wire \in Seq(Chunks("req"))
          /\ rest["req"] = NoItem \/ rest["req"] \in Chunks("req")
      BY <1>0 DEF EnvType
    <2> QED
      BY <2>1, <1>1, AheadTail
  <1>7. Ordered(a)
    BY <1>0 DEF Peers
  <1>8. opened = TRUE
    BY <1>0, <1>3 DEF EnvType
  <1> HIDE DEF a, c, v, R
  <1>9. InOrder'
    <2> SUFFICES ASSUME Clean(st')
                 PROVE  Aligned(st', Tail(a), TRUE, R) /\ Awaits(st', sent, v, late)
      BY <1>1, <1>6, <1>8 DEF InOrder, v, R
    <2>1. PICK k \in Times : \E f : Kept(f) /\ Swept(f, st) /\ Handled(st', f, k, "req", c)
      BY <1>0, <1>1, <1>2, HandleIs
    <2>2. PICK f : Kept(f) /\ Swept(f, st) /\ Handled(st', f, k, "req", c)
      BY <2>1
    <2>3. Clean(st)
      BY <1>0, <1>1, <1>2, HandleIs
    <2>4. /\ Faithful(st, sent, wire, a, TRUE, R)
          /\ Aligned(st, a, TRUE, R) /\ Awaits(st, sent, wire, late)
      BY <2>3, <1>1, <1>8 DEF Serving, Reporting, Intact, InOrder, a, R
    <2>5. Live(f, a, TRUE)
      BY <2>2, <2>4, <1>0, SweptFaithful DEF Faithful
    <2>6. Aligned(f, a, TRUE, R)
      BY <2>2, <2>4, SweptAligned
    <2>7. Awaits(f, sent, wire, late)
      BY <2>2, <2>4, SweptAwaits
    <2>8. /\ Aligned(st', Tail(a), TRUE, R)
          /\ Took(st', f, k, "req", c) /\ f.conns[k] # NoConn => Effect(st', f, k, "req", c)
      BY <2>2, <2>5, <2>6, <1>6, <1>7, AskAligned
    <2>9. Awaits(st', sent, v, late)
      BY <2>2, <2>5, <2>7, <2>8, <1>2, <1>3, <1>4, <1>5, AskAwaits
    <2> QED
      BY <2>8, <2>9
  <1> QED
    BY <1>1, <1>5, <1>9 DEF Drained, v

(* A request on the wire is one that has not been handled.                 *)
LEMMA AskedIs ==
  ASSUME NEW i \in Streams, Asked(wire, i)
  PROVE  ~Received(i)
  BY DEF Asked, Asks, Received

(* The server sends a chunk, which is handled, cut or lost.                *)
LEMMA ResponseServes ==
  ASSUME Serving, NEW fate, ReceiveResponse(fate)
  PROVE  ResetLast(wire, sent)' /\ Drained' /\ InOrder'
  <1> DEFINE a == AheadOf(wire, rest["req"])
             R == rest["resp"]
             Q == rest'["resp"]
             T == sent'
             M == late'
  <1>0. /\ EnvType /\ Peers /\ Kept(st) /\ Books /\ "resp" \in Dirs /\ ResetLast(wire, sent)
        /\ Reporting
    BY DEF Serving, Reporting, Books, Dirs
  <1>1. PICK c \in NextChunks("resp") :
          /\ Emit("resp", c, Cost(fate)) /\ Handle("resp", c, fate)
          /\ M = late \cup {i \in Streams : ~Received(i) /\ (i = c.sid \/ c.what = "goaway")}
    BY DEF ReceiveResponse
  <1>2. UNCHANGED <<wire, running>> /\ running
    BY DEF ReceiveResponse
  <1>3. /\ c \in Chunks("resp") /\ RespMoves(T, sent, c)
        /\ rest'["req"] = rest["req"] /\ opened' = opened
        /\ \A i \in Streams : sent[i].req # "none" => T[i].req # "none"
    BY <1>0, <1>1, <1>2, AnswerPeers
  <1>4. /\ Onward(c, R, Q)
        /\ c.kind = "plain" /\ c.what # "goaway" => sent[c.sid].resp = "open"
    BY <1>0, <1>1, OnwardIs
  <1>5. ResetLast(wire, T)
    BY <1>0, <1>3 DEF ResetLast
  <1>6. \A i \in Streams \ M :
          i \notin late /\ (Asked(wire, i) => i # c.sid /\ c.what # "goaway")
    BY <1>1, AskedIs
  <1> HIDE DEF a, R, Q, T, M
  <1>7. InOrder'
    <2> SUFFICES ASSUME Clean(st')
                 PROVE  Aligned(st', a, opened, Q) /\ Awaits(st', T, wire, M)
      BY <1>2, <1>3 DEF InOrder, a, Q, T, M
    <2>1. PICK k \in Times : \E f : Kept(f) /\ Swept(f, st) /\ Handled(st', f, k, "resp", c)
      BY <1>0, <1>1, <1>3, HandleIs
    <2>2. PICK f : Kept(f) /\ Swept(f, st) /\ Handled(st', f, k, "resp", c)
      BY <2>1
    <2>3. Clean(st)
      BY <1>0, <1>1, <1>3, HandleIs
    <2>4. /\ Faithful(st, sent, wire, a, opened, R)
          /\ Aligned(st, a, opened, R) /\ Awaits(st, sent, wire, late)
      BY <2>3, <1>2 DEF Serving, Reporting, Intact, InOrder, a, R
    <2>5. Live(f, a, opened)
      BY <2>2, <2>4, <1>0, SweptFaithful DEF Faithful
    <2>6. Aligned(f, a, opened, R)
      BY <2>2, <2>4, SweptAligned
    <2>7. Awaits(f, sent, wire, late)
      BY <2>2, <2>4, SweptAwaits
    <2>8. /\ Aligned(st', a, opened, Q)
          /\ Took(st', f, k, "resp", c) /\ f.conns[k] # NoConn => Effect(st', f, k, "resp", c)
      BY <2>2, <2>5, <2>6, <1>3, <1>4, AnswerAligned
    <2>9. Awaits(st', T, wire, M)
      BY <2>2, <2>5, <2>7, <2>8, <1>3, <1>4, <1>6, AnswerAwaits
    <2> QED
      BY <2>8, <2>9
  <1> QED
    BY <1>2, <1>5, <1>7 DEF Drained, T

(* Every step keeps Serving.                                               *)
LEMMA ServingStep ==
  ASSUME Serving, [Next]_vars
  PROVE  Serving'
  <1>0. /\ Reporting /\ Kept(st) /\ now \in Times /\ st \in State
        /\ ResetLast(wire, sent) /\ Drained /\ InOrder
    BY DEF Serving, Reporting, Books, EnvType, Kept, Sound
  <1>1. Reporting'
    BY <1>0, ReportingStep
  <1> SUFFICES ResetLast(wire, sent)' /\ Drained' /\ InOrder'
    BY <1>1 DEF Serving
  <1>2. CASE Call
    BY <1>2, CallServes
  <1>3. ASSUME NEW fate \in Fates, ReceiveRequest(fate)
        PROVE  ResetLast(wire, sent)' /\ Drained' /\ InOrder'
    BY <1>3, RequestServes
  <1>4. ASSUME NEW fate \in Fates, ReceiveResponse(fate)
        PROVE  ResetLast(wire, sent)' /\ Drained' /\ InOrder'
    BY <1>4, ResponseServes
  <1>5. CASE HandleClose
    <2>1. /\ st' = [EvictConnection(st) EXCEPT !.missing = Dirs]
          /\ UNCHANGED <<wire, sent, running>> /\ running
      BY <1>5 DEF HandleClose
    <2>2. ~Clean(st')
      <3> DEFINE x == EvictConnection(st)
      <3>1. x \in State
        BY <1>0, CloseIs DEF Sheds
      <3> HIDE DEF x
      <3>2. st'.missing = Dirs
        BY <2>1, <3>1 DEF x, State
      <3> QED
        BY <3>2 DEF Clean, Dirs
    <2> QED
      BY <2>1, <2>2, <1>0 DEF InOrder, Drained
  <1>6. CASE Sweep
    <2>0. PICK k \in Excess(st, now) : st' = EvictStale(st, k, now)
      BY <1>6 DEF Sweep
    <2>1. k \in Times \cup {Unborn} /\ UNCHANGED <<envVars, running, late>> /\ running
      BY <1>6 DEF Sweep, Excess
    <2>2. UNCHANGED <<wire, rest, sent, opened, running, late>>
      BY <2>1 DEF envVars
    <2>3. ResetLast(wire, sent)' /\ Drained'
      BY <2>1, <2>2, <1>0 DEF Drained
    <2>4. CASE st' = st
      BY <2>2, <2>3, <2>4, <1>0 DEF InOrder
    <2>5. CASE \E due : Sheds(st', st, due, "no_response_observed")
      <3> DEFINE a == AheadOf(wire, rest["req"])
      <3>1. PICK due : Sheds(st', st, due, "no_response_observed")
        BY <2>5
      <3> SUFFICES ASSUME Clean(st')
                   PROVE  Aligned(st', a, opened, rest["resp"]) /\ Awaits(st', sent, wire, late)
        BY <2>2, <2>3 DEF InOrder
      <3>2. Clean(st)
        BY <3>1 DEF Sheds, Clean
      <3>3. Aligned(st, a, opened, rest["resp"]) /\ Awaits(st, sent, wire, late)
        BY <3>2, <2>1, <1>0 DEF InOrder
      <3> HIDE DEF a
      <3> QED
        BY <3>1, <3>3, SweptAligned, SweptAwaits
    <2> QED
      BY <2>0, <2>1, <2>4, <2>5, <1>0, EvictIs
  <1>7. CASE Shutdown
    <2> DEFINE due == Waits(st)
    <2>1. /\ st' = Report(st, due, "sensor_shutdown") /\ wire' = <<>> /\ running' = FALSE
      BY <1>7 DEF Shutdown
    <2>2. "sensor_shutdown" \in Outcomes /\ due \in SUBSET Waits(st)
      BY DEF Outcomes
    <2>3. ASSUME NEW k \in Times, NEW i \in Streams, st.conns[k].pending[i] # NoReq
          PROVE  <<k, i>> \in due
      BY <2>3 DEF Waits, Slots
    <2> HIDE DEF due
    <2>4. IsReport(st', st, due, "sensor_shutdown")
      BY <2>1, <2>2, <1>0, ReportIs
    <2>5. Emptied(st'.conns, st.conns, due)
      BY <2>2, <2>4, <1>0, ReportEmpties
    <2>6. ASSUME NEW k \in Times, NEW i \in Streams PROVE st'.conns[k].pending[i] = NoReq
      <3>1. /\ st'.conns[k].pending[i] \in {NoReq, st.conns[k].pending[i]}
            /\ <<k, i>> \in due => st'.conns[k].pending[i] = NoReq
        BY <2>5 DEF Emptied
      <3> QED
        BY <3>1, <2>3
    <2>7. DOMAIN wire' = {}
      BY <2>1
    <2>8. ResetLast(wire, sent)'
      BY <2>7 DEF ResetLast, Resetting
    <2> QED
      BY <2>1, <2>6, <2>8 DEF Drained, InOrder
  <1>8. CASE Tick \/ UNCHANGED vars
    <2>1. UNCHANGED <<st, running, wire, rest, sent, opened, late>>
      BY <1>8 DEF Tick, vars, envVars
    <2> QED
      BY <2>1, <1>0 DEF InOrder, Drained
  <1> QED
    BY <1>2, <1>3, <1>4, <1>5, <1>6, <1>7, <1>8 DEF Next

(* process_http2_event: whatever the peers send and however it is split,   *)
(* on an undamaged connection (see Unharmed) a request whose response was  *)
(* handled to its end does not wait any longer, unless the response was    *)
(* handled first.                                                          *)
THEOREM AnsweredRequestsLeave == Spec => []AnsweredIsDone
  <1>1. Serving => AnsweredIsDone
    <2> SUFFICES ASSUME Serving, Unharmed, NEW i \in Streams, sent[i].resp = "done",
                        \A j \in DOMAIN wire : wire[j].sid # i, i \notin late, NEW k \in Times
                 PROVE  st.conns[k].pending[i] = NoReq
      BY DEF AnsweredIsDone, Waiting
    <2>1. CASE ~running
      BY <2>1 DEF Serving, Drained
    <2>2. CASE running
      <3>1. Awaits(st, sent, wire, late)
        BY <2>2 DEF Serving, InOrder, Clean, Unharmed
      <3>2. ~Resetting(wire, i)
        BY DEF Resetting, Stops
      <3>3. Served(st.conns[k], sent, wire, i)
        BY <3>1 DEF Awaits
      <3> QED
        BY <3>2, <3>3 DEF Served
    <2> QED
      BY <2>1, <2>2
  <1>2. Init => Serving
    BY ServingInit
  <1>3. Serving /\ [Next]_vars => Serving'
    BY ServingStep
  <1> QED
    BY <1>1, <1>2, <1>3, PTL DEF Spec
=============================================================================
