---------------------------- MODULE StreamProofs ----------------------------
(***************************************************************************)
(* The stream state's books (TOTAL_BUFFER_BYTES, ACTIVE_CONNECTIONS, the   *)
(* count of requests), the ages a sweep leaves behind, the line of each    *)
(* stream and the pairs of requests and responses, proved for every bound  *)
(* of StreamState.                                                         *)
(*                                                                         *)
(* StreamState's actions are operators on records, so the proof follows    *)
(* the handlers: for each operator, one lemma says what it does to the     *)
(* fields and that the books still balance; Sheds is what close, expiry    *)
(* and shutdown have in common, StreamStep and IsDeliver what a chunk can  *)
(* do.                                                                     *)
(***************************************************************************)
EXTENDS StreamState, SumLemmas

(* What a stream is in the middle of, a buffer, a queued request and an    *)
(* event.                                                                  *)
Message == [msg : Nat, torn : BOOLEAN]
Buffered == [msg : Nat, torn : BOOLEAN, len : Nat, seen : Times]
Request == [gen : Gens, msg : Nat, torn : BOOLEAN, ts : Times]
Event == [gen : Gens, req : Nat, torn : BOOLEAN, resp : Nat,
          outcome : {"paired", "no_response_observed", "connection_closed",
                     "sensor_shutdown"}]

BufferMap == [Streams -> Buffered \cup {NoBuffer}]
DecoderMap == [Streams -> Message]
PendingMap == [Conns -> Seq(Request)]
BornMap == [Gens -> Times \cup {Unborn}]
Losses == [gen : Gens, what : {"unanswered", "partial", "request", "chunk", "buffer",
                              "ambiguous", "forgotten"}]

State == [buffers  : BufferMap,
          decoders : DecoderMap,
          pending  : PendingMap,
          known    : SUBSET Conns,
          born     : BornMap,
          roles    : SUBSET Conns,
          ws       : SUBSET Conns,
          gapped   : SUBSET Streams,
          last     : Times,
          total    : Int,
          active   : Int,
          parsed   : Int,
          refused  : Int,
          out      : Seq(Event),
          gone     : SUBSET Losses]

(* The lengths of the queues.                                              *)
Lens(s) == [c \in Conns |-> Len(s.pending[c])]

(* The books: what TOTAL_BUFFER_BYTES, ACTIVE_CONNECTIONS and the          *)
(* request counters are, with k requests on their way out of a queue.      *)
Books(s, k) ==
    /\ s.total = Total(Sizes(s), Streams) + Total(Lens(s), Conns) + k
    /\ s.total <= MaxTotal
    /\ s.active = Cardinality(s.known)
    /\ s.parsed = Total(Lens(s), Conns) + k + Len(s.out) + s.refused

(* The bounds are numbers, and an age limit is not zero.                   *)
LEMMA Constants ==
  /\ MaxGen \in Nat /\ MaxTime \in Nat /\ TTL \in Nat /\ TTL > 0 /\ MaxTotal \in Nat
  /\ MaxBuffer \in Nat /\ MaxReports \in Nat /\ MaxEntries \in Nat /\ Throttle \in Nat
  BY StreamAssumption

(* There are finitely many connections and streams.                        *)
LEMMA Finite ==
  IsFiniteSet(Conns) /\ IsFiniteSet(Streams)
  <1>1. IsFiniteSet(Gens) /\ IsFiniteSet(Times)
    BY Constants, FS_Interval DEF Gens, Times
  <1>2. IsFiniteSet(Dirs)
    <2>1. Dirs = {"request"} \cup {"response"}
      BY DEF Dirs
    <2> QED
      BY <2>1, FS_Singleton, FS_Union
  <1>3. IsFiniteSet(Gens \X Times) /\ IsFiniteSet(Gens \X Dirs)
    BY <1>1, <1>2, FS_Product
  <1> DEFINE f == [p \in Gens \X Times |-> [gen |-> p[1], born |-> p[2]]]
             e == [p \in Gens \X Dirs |-> [gen |-> p[1], dir |-> p[2]]]
  <1>4. f \in Surjection(Gens \X Times, Conns)
    <2>1. f \in [Gens \X Times -> Conns]
      BY DEF Conns
    <2>2. ASSUME NEW c \in Conns PROVE \E p \in Gens \X Times : f[p] = c
      <3>1. <<c.gen, c.born>> \in Gens \X Times /\ f[<<c.gen, c.born>>] = c
        BY DEF Conns
      <3> QED
        BY <3>1
    <2> QED
      BY <2>1, <2>2 DEF Surjection
  <1>5. e \in Surjection(Gens \X Dirs, Streams)
    <2>1. e \in [Gens \X Dirs -> Streams]
      BY DEF Streams
    <2>2. ASSUME NEW c \in Streams PROVE \E p \in Gens \X Dirs : e[p] = c
      <3>1. <<c.gen, c.dir>> \in Gens \X Dirs /\ e[<<c.gen, c.dir>>] = c
        BY DEF Streams
      <3> QED
        BY <3>1
    <2> QED
      BY <2>1, <2>2 DEF Surjection
  <1> QED
    BY <1>3, <1>4, <1>5, FS_Surjection

(* Reset gives the named keys their new value and keeps the others.        *)
LEMMA ResetIs ==
  ASSUME NEW S, NEW T, NEW f \in [S -> T], NEW D, NEW v \in T
  PROVE  /\ Reset(f, D, v) \in [S -> T]
         /\ \A x \in S : Reset(f, D, v)[x] = IF x \in D THEN v ELSE f[x]
  BY DEF Reset

(* What a state holds is counted in natural numbers.                       *)
LEMMA SizesType ==
  ASSUME NEW s \in State
  PROVE  /\ \A x \in Streams : Sizes(s)[x] \in Nat
         /\ \A c \in Conns : Lens(s)[c] \in Nat
         /\ Total(Sizes(s), Streams) \in Nat
         /\ Total(Lens(s), Conns) \in Nat
         /\ \A D \in SUBSET Streams : Held(s, D) = Total(Sizes(s), D)
  <1>1. \A x \in Streams : Sizes(s)[x] \in Nat
    <2>1. s.buffers \in BufferMap
      BY DEF State
    <2> QED
      BY <2>1 DEF Sizes, Buffered, BufferMap
  <1>2. \A c \in Conns : Lens(s)[c] \in Nat
    <2>1. s.pending \in PendingMap
      BY DEF State
    <2> QED
      BY <2>1, LenProperties DEF Lens, PendingMap
  <1>3. ASSUME NEW D \in SUBSET Streams PROVE Held(s, D) = Total(Sizes(s), D)
    <2>1. IsFiniteSet(D)
      BY Finite, FS_Subset
    <2> QED
      BY <2>1, <1>1, SumIs DEF Held
  <1> QED
    BY <1>1, <1>2, <1>3, Finite, TotalType

(* What DropBuffers does to each field.                                    *)
IsDropBuffers(r, s, D) ==
    /\ r \in State
    /\ \A x \in Streams : r.buffers[x] = IF x \in D THEN NoBuffer ELSE s.buffers[x]
    /\ r.decoders = s.decoders /\ r.pending = s.pending
    /\ r.known = s.known /\ r.born = s.born /\ r.roles = s.roles /\ r.ws = s.ws
    /\ r.gapped = s.gapped /\ r.last = s.last /\ r.out = s.out
    /\ s.gone \subseteq r.gone
    /\ \A l \in r.gone : l \in s.gone \/ l.what = "partial"
    /\ \A x \in D : Current(s, x) # NoMsg => [gen |-> x.gen, what |-> "partial"] \in r.gone
    /\ \A k \in Nat : Books(s, k) => Books(r, k)

(* Dropping buffers gives back exactly what they held.                     *)
LEMMA DropBuffersIs ==
  ASSUME NEW s \in State, NEW D \in SUBSET Streams
  PROVE  IsDropBuffers(DropBuffers(s, D), s, D)
  <1> DEFINE r == DropBuffers(s, D)
             gn == {[gen |-> x.gen, what |-> "partial"] :
                               x \in {x \in D : Current(s, x) # NoMsg}}
             nb == Reset(s.buffers, D, NoBuffer)
  <1>1. Held(s, D) = Total(Sizes(s), D) /\ Total(Sizes(s), D) \in Nat
    BY SizesType, Finite, FS_Subset, TotalType
  <1>2. r = [s EXCEPT !.buffers = nb, !.total = @ - Held(s, D), !.gone = @ \cup gn]
    BY DEF DropBuffers
  <1>3. gn \in SUBSET Losses
    <2>1. ASSUME NEW x \in D PROVE [gen |-> x.gen, what |-> "partial"] \in Losses
      <3>1. x.gen \in Gens
        BY DEF Streams
      <3> QED
        BY <3>1 DEF Losses
    <2> QED
      BY <2>1
  <1>4. s.buffers \in [Streams -> Buffered \cup {NoBuffer}]
    BY DEF State, BufferMap
  <1>5. /\ nb \in BufferMap
        /\ \A x \in Streams : nb[x] = IF x \in D THEN NoBuffer ELSE s.buffers[x]
    BY <1>4 DEF Reset, BufferMap
  <1>g. /\ \A l \in gn : l.what = "partial"
        /\ \A x \in D : Current(s, x) # NoMsg => [gen |-> x.gen, what |-> "partial"] \in gn
    OBVIOUS
  <1> HIDE DEF gn, nb
  <1>t. s.total - Held(s, D) \in Int /\ s.gone \cup gn \in SUBSET Losses
    BY <1>1, <1>3 DEF State
  <1>s. r \in State
    BY <1>2, <1>5, <1>t, ZenonT(60) DEF State
  <1>6. /\ r.buffers = nb /\ r.total = s.total - Total(Sizes(s), D)
        /\ r.pending = s.pending /\ r.out = s.out /\ r.known = s.known /\ r.active = s.active
        /\ r.parsed = s.parsed /\ r.refused = s.refused
    BY <1>1, <1>2 DEF State
  <1>f. /\ r.decoders = s.decoders /\ r.born = s.born /\ r.roles = s.roles /\ r.ws = s.ws
        /\ r.gapped = s.gapped /\ r.last = s.last /\ r.gone = s.gone \cup gn
    BY <1>2 DEF State
  <1> HIDE DEF r
  <1>7. \A x \in Streams : r.buffers[x] = IF x \in D THEN NoBuffer ELSE s.buffers[x]
    BY <1>5, <1>6
  <1>8. \A x \in Streams : Sizes(r)[x] = IF x \in D THEN 0 ELSE Sizes(s)[x]
    BY <1>7 DEF Sizes
  <1>9. Total(Sizes(r), Streams) = Total(Sizes(s), Streams) - Total(Sizes(s), D)
    BY <1>8, SizesType, Finite, TotalDrop
  <1>10. Lens(r) = Lens(s)
    BY <1>6 DEF Lens
  <1>11. ASSUME NEW k \in Nat, Books(s, k) PROVE Books(r, k)
    <2>1. s.total \in Int
      BY DEF State
    <2> QED
    BY <2>1, <1>11, <1>1, <1>6, <1>9, <1>10, SizesType, Constants DEF Books
  <1> QED
    BY <1>s, <1>6, <1>7, <1>11, <1>f, <1>g DEF r, IsDropBuffers

Outcomes == {"no_response_observed", "connection_closed", "sensor_shutdown"}

(* What Incomplete does to each field.                                     *)
Unanswered(req) == [gen |-> req.gen, what |-> "unanswered"]
IsIncomplete(r, s, reqs, o) ==
    /\ r \in State
    /\ r.buffers = s.buffers /\ r.decoders = s.decoders /\ r.pending = s.pending
    /\ r.known = s.known /\ r.born = s.born /\ r.roles = s.roles /\ r.ws = s.ws
    /\ r.gapped = s.gapped /\ r.last = s.last
    /\ r.total = s.total - Len(reqs) /\ r.active = s.active /\ r.parsed = s.parsed
    /\ Len(r.out) + r.refused = Len(s.out) + s.refused + Len(reqs)
    /\ \A i \in DOMAIN r.out :
          \/ i \in DOMAIN s.out /\ r.out[i] = s.out[i]
          \/ \E j \in DOMAIN reqs : /\ r.out[i].gen = reqs[j].gen
                                   /\ r.out[i].torn = reqs[j].torn
                                   /\ r.out[i].outcome = o
    /\ s.gone \subseteq r.gone
    /\ \A l \in r.gone : l \in s.gone \/ l.what = "unanswered"
    /\ \A j \in DOMAIN reqs : Unanswered(reqs[j]) \in r.gone

(* Every request that leaves is in an event or in the count of those       *)
(* dropped.                                                                *)
LEMMA IncompleteIs ==
  ASSUME NEW s \in State, NEW reqs \in Seq(Request), NEW o \in Outcomes
  PROVE  IsIncomplete(Incomplete(s, reqs, o), s, reqs, o)
  <1> DEFINE r == Incomplete(s, reqs, o)
             n == IF Len(reqs) < MaxReports THEN Len(reqs) ELSE MaxReports
             new == [i \in 1..n |-> [gen |-> reqs[i].gen, req |-> reqs[i].msg,
                                     torn |-> reqs[i].torn, resp |-> 0, outcome |-> o]]
             lost == {[gen |-> reqs[i].gen, what |-> "unanswered"] : i \in DOMAIN reqs}
  <1>1. n \in Nat /\ n <= Len(reqs) /\ Len(reqs) \in Nat
    BY LenProperties, Constants
  <1>2. DOMAIN reqs = 1..Len(reqs) /\ \A i \in 1..Len(reqs) : reqs[i] \in Request
    BY LenProperties, ElementOfSeq
  <1>3. ASSUME NEW i \in DOMAIN reqs
        PROVE  /\ reqs[i].gen \in Gens /\ reqs[i].msg \in Nat /\ reqs[i].torn \in BOOLEAN
               /\ [gen |-> reqs[i].gen, req |-> reqs[i].msg, torn |-> reqs[i].torn, resp |-> 0,
                    outcome |-> o] \in Event
               /\ [gen |-> reqs[i].gen, what |-> "unanswered"] \in Losses
    <2>1. reqs[i] \in Request
      BY <1>2
    <2>2. reqs[i].gen \in Gens /\ reqs[i].msg \in Nat /\ reqs[i].torn \in BOOLEAN
      BY <2>1 DEF Request
    <2> QED
      BY <2>2 DEF Event, Outcomes, Losses
  <1>4. new \in [1..n -> Event]
    <2>1. \A i \in 1..n : i \in DOMAIN reqs
      BY <1>1, <1>2
    <2> QED
      BY <2>1, <1>3
  <1>5. new \in Seq(Event) /\ Len(new) = n
    <2> HIDE DEF new, n
    <2> QED
      BY <1>1, <1>4
  <1>6. lost \in SUBSET Losses
    BY <1>3
  <1>7. r = [s EXCEPT !.out = @ \o new, !.gone = @ \cup lost,
                      !.refused = @ + Len(reqs) - n, !.total = @ - Len(reqs)]
    BY DEF Incomplete
  <1>s. s.out \in Seq(Event) /\ s.gone \in SUBSET Losses /\ s.refused \in Int /\ s.total \in Int
    BY DEF State
  <1>8. \A l \in lost : l.what = "unanswered"
    OBVIOUS
  <1>e. \A i \in 1..n : /\ i \in DOMAIN reqs /\ new[i].gen = reqs[i].gen
                        /\ new[i].torn = reqs[i].torn /\ new[i].outcome = o
    BY <1>1, <1>2
  <1>u. \A j \in DOMAIN reqs : Unanswered(reqs[j]) \in lost
    BY DEF Unanswered
  <1> HIDE DEF new, n, lost, r
  <1>9. /\ s.out \o new \in Seq(Event) /\ s.gone \cup lost \in SUBSET Losses
        /\ s.refused + Len(reqs) - n \in Int /\ s.total - Len(reqs) \in Int
    BY <1>s, <1>1, <1>5, <1>6, ConcatProperties
  <1>10. r \in State
    BY <1>7, <1>9, Zenon DEF State
  <1>11. /\ r.buffers = s.buffers /\ r.decoders = s.decoders /\ r.pending = s.pending
         /\ r.known = s.known /\ r.born = s.born /\ r.roles = s.roles /\ r.ws = s.ws
         /\ r.gapped = s.gapped /\ r.last = s.last /\ r.active = s.active /\ r.parsed = s.parsed
    BY <1>7 DEF State
  <1>12. /\ r.out = s.out \o new /\ r.gone = s.gone \cup lost
         /\ r.refused = s.refused + Len(reqs) - n /\ r.total = s.total - Len(reqs)
    BY <1>7 DEF State
  <1>13. /\ Len(s.out \o new) = Len(s.out) + n /\ Len(s.out) \in Nat
         /\ DOMAIN (s.out \o new) = 1..(Len(s.out) + n) /\ DOMAIN s.out = 1..Len(s.out)
         /\ \A i \in 1..(Len(s.out) + n) :
              (s.out \o new)[i] = IF i <= Len(s.out) THEN s.out[i] ELSE new[i - Len(s.out)]
    <2>1. DOMAIN (s.out \o new) = 1..Len(s.out \o new)
      BY <1>9, LenProperties
    <2>2. Len(s.out) \in Nat /\ DOMAIN s.out = 1..Len(s.out)
      BY <1>s, LenProperties
    <2>3. /\ Len(s.out \o new) = Len(s.out) + Len(new)
          /\ \A i \in 1..(Len(s.out) + Len(new)) :
              (s.out \o new)[i] = IF i <= Len(s.out) THEN s.out[i] ELSE new[i - Len(s.out)]
      BY <1>s, <1>5, ConcatProperties
    <2> QED
      BY <2>1, <2>2, <2>3, <1>5
  <1>14. ASSUME NEW i \in DOMAIN r.out
         PROVE  \/ i \in DOMAIN s.out /\ r.out[i] = s.out[i]
                \/ \E j \in DOMAIN reqs : /\ r.out[i].gen = reqs[j].gen
                                         /\ r.out[i].torn = reqs[j].torn
                                         /\ r.out[i].outcome = o
    <2>1. i \in 1..(Len(s.out) + n)
      BY <1>12, <1>13
    <2>2. CASE i <= Len(s.out)
      BY <2>1, <2>2, <1>12, <1>13
    <2>3. CASE ~(i <= Len(s.out))
      <3>1. i - Len(s.out) \in 1..n /\ r.out[i] = new[i - Len(s.out)]
        BY <2>1, <2>3, <1>1, <1>12, <1>13
      <3> QED
        BY <3>1, <1>e
    <2> QED
      BY <2>2, <2>3
  <1>15. Len(r.out) + r.refused = Len(s.out) + s.refused + Len(reqs)
    BY <1>s, <1>1, <1>12, <1>13
  <1> QED
    BY <1>6, <1>8, <1>10, <1>11, <1>12, <1>14, <1>15, <1>u DEF r, IsIncomplete

(* The books, once requests taken out of the queues have left.             *)
LEMMA IncompleteBooks ==
  ASSUME NEW s \in State, NEW reqs \in Seq(Request), NEW o, NEW r,
         IsIncomplete(r, s, reqs, o), Books(s, Len(reqs))
  PROVE  Books(r, 0)
  <1> DEFINE n == Len(reqs)
             S == Total(Sizes(s), Streams)
             W == Total(Lens(s), Conns)
             ro == Len(r.out)
             so == Len(s.out)
             rr == r.refused
             sr == s.refused
             rt == r.total
             tt == s.total
             pp == s.parsed
  <1>1. r \in State /\ Sizes(r) = Sizes(s) /\ Lens(r) = Lens(s)
    BY DEF Sizes, Lens, IsIncomplete
  <1>2. n \in Nat /\ S \in Nat /\ W \in Nat
    BY SizesType, LenProperties
  <1>3. ro \in Nat /\ so \in Nat /\ rr \in Int /\ sr \in Int /\ rt \in Int /\ tt \in Int /\ pp \in Int
    BY <1>1, LenProperties DEF State
  <1>4. rt = tt - n /\ ro + rr = so + sr + n
    BY DEF IsIncomplete
  <1>5. tt = S + W + n /\ tt <= MaxTotal /\ pp = W + n + so + sr
    BY DEF Books
  <1>6. r.active = Cardinality(r.known) /\ r.parsed = pp
    BY DEF Books, IsIncomplete
  <1> HIDE DEF n, S, W, ro, so, rr, sr, rt, tt, pp
  <1>7. rt = S + W + 0 /\ rt <= MaxTotal /\ pp = W + 0 + ro + rr
    BY <1>2, <1>3, <1>4, <1>5, Constants
  <1> QED
    BY <1>1, <1>6, <1>7 DEF Books, S, W, ro, rr, rt

(* What Forget does to each field.                                         *)
IsForget(r, s, C) ==
    /\ r \in State
    /\ r.buffers = s.buffers /\ r.decoders = s.decoders /\ r.pending = s.pending
    /\ r.known = s.known \ C /\ r.born = s.born /\ r.roles = s.roles \ C
    /\ r.ws = s.ws \ C /\ r.gapped = s.gapped /\ r.last = s.last
    /\ r.total = s.total /\ r.parsed = s.parsed /\ r.refused = s.refused
    /\ r.out = s.out /\ r.gone = s.gone
    /\ s.active = Cardinality(s.known) => r.active = Cardinality(r.known)

(* The gauge falls by the connections that were known.                     *)
LEMMA ForgetIs ==
  ASSUME NEW s \in State, NEW C
  PROVE  IsForget(Forget(s, C), s, C)
  <1> DEFINE r == Forget(s, C)
             n == Cardinality(s.known \cap C)
  <1>1. /\ s.known \in SUBSET Conns /\ s.ws \in SUBSET Conns /\ s.roles \in SUBSET Conns
        /\ s.active \in Int
    BY DEF State
  <1>2. IsFiniteSet(s.known)
    BY <1>1, Finite, FS_Subset
  <1>3. n \in Nat /\ Cardinality(s.known \ C) = Cardinality(s.known) - n
    BY <1>2, FS_Difference, FS_Intersection, FS_CardinalityType
  <1>4. r = [s EXCEPT !.known = @ \ C, !.active = @ - n, !.ws = @ \ C, !.roles = @ \ C]
    BY DEF Forget
  <1> HIDE DEF r, n
  <1>5. /\ s.known \ C \in SUBSET Conns /\ s.ws \ C \in SUBSET Conns
        /\ s.roles \ C \in SUBSET Conns /\ s.active - n \in Int
    BY <1>1, <1>3
  <1>6. r \in State
    BY <1>4, <1>5, Zenon DEF State
  <1>7. /\ r.buffers = s.buffers /\ r.decoders = s.decoders /\ r.pending = s.pending
        /\ r.known = s.known \ C /\ r.born = s.born /\ r.roles = s.roles \ C
        /\ r.ws = s.ws \ C /\ r.gapped = s.gapped /\ r.last = s.last
        /\ r.total = s.total /\ r.parsed = s.parsed /\ r.refused = s.refused
        /\ r.out = s.out /\ r.gone = s.gone /\ r.active = s.active - n
    BY <1>4 DEF State
  <1> QED
    BY <1>3, <1>6, <1>7 DEF r, IsForget

(* What ForgetQuiet does to each field.                                    *)
IsForgetQuiet(r, s) ==
    /\ r \in State
    /\ r.buffers = s.buffers /\ r.pending = s.pending
    /\ \A x \in Streams : r.decoders[x] = IF s.buffers[x] = NoBuffer THEN NoMsg ELSE s.decoders[x]
    /\ r.known \subseteq s.known /\ r.ws = s.ws /\ r.roles \subseteq s.roles
    /\ r.gapped = s.gapped /\ r.last = s.last /\ r.out = s.out
    /\ s.gone \subseteq r.gone
    /\ \A l \in r.gone : l \in s.gone \/ l.what = "forgotten"
    /\ \A g \in Gens : \/ r.born[g] = s.born[g]
                       \/ r.born[g] = Unborn /\ [gen |-> g, what |-> "forgotten"] \in r.gone
    /\ \A k \in Nat : Books(s, k) => Books(r, k)

(* ForgetQuiet keeps what waits and what is buffered.                      *)
LEMMA ForgetQuietIs ==
  ASSUME NEW s \in State
  PROVE  IsForgetQuiet(ForgetQuiet(s), s)
  <1> DEFINE quiet == {c \in s.known : s.pending[c] = <<>> /\ c \notin s.ws}
             f == Forget(s, quiet)
             gens == {c.gen : c \in quiet}
             nb == Reset(s.born, gens, Unborn)
             free == {x \in Streams : s.buffers[x] = NoBuffer}
             nd == Reset(s.decoders, free, NoMsg)
             gn == {[gen |-> c.gen, what |-> "forgotten"] : c \in quiet}
             r == ForgetQuiet(s)
  <1>1. quiet \subseteq Conns /\ quiet \cap s.ws = {}
    BY DEF State
  <1>2. gn \in SUBSET Losses
    <2>1. ASSUME NEW c \in quiet PROVE [gen |-> c.gen, what |-> "forgotten"] \in Losses
      <3>1. c.gen \in Gens
        BY <1>1 DEF Conns
      <3> QED
        BY <3>1 DEF Losses
    <2> QED
      BY <2>1
  <1>3. \A l \in gn : l.what = "forgotten"
    OBVIOUS
  <1>4. \A g \in gens : [gen |-> g, what |-> "forgotten"] \in gn
    OBVIOUS
  <1>5. s.born \in BornMap /\ s.decoders \in DecoderMap /\ s.gone \in SUBSET Losses
    BY DEF State
  <1>6. nb \in BornMap /\ \A g \in Gens : nb[g] = IF g \in gens THEN Unborn ELSE s.born[g]
    <2> HIDE DEF gens
    <2> QED
      BY <1>5 DEF Reset, BornMap
  <1>7. nd \in DecoderMap /\ \A x \in Streams : nd[x] = IF x \in free THEN NoMsg ELSE s.decoders[x]
    <2>1. NoMsg \in Message
      BY DEF NoMsg, Message
    <2> HIDE DEF free
    <2> QED
      BY <1>5, <2>1 DEF Reset, DecoderMap
  <1>8. IsForget(f, s, quiet)
    BY ForgetIs
  <1>9. /\ f \in State /\ f.born = s.born /\ f.decoders = s.decoders /\ f.gone = s.gone
        /\ f.buffers = s.buffers
    BY <1>8 DEF IsForget
  <1>10. r = [f EXCEPT !.born = Reset(@, gens, Unborn), !.decoders = Reset(@, free, NoMsg),
                       !.gone = @ \cup gn]
    BY DEF ForgetQuiet
  <1> HIDE DEF quiet, f, gens, free, gn, r
  <1>11. r = [f EXCEPT !.born = nb, !.decoders = nd, !.gone = s.gone \cup gn]
    BY <1>9, <1>10
  <1> HIDE DEF nb, nd
  <1>12. s.gone \cup gn \in SUBSET Losses
    BY <1>2, <1>5
  <1>13. r \in State
    BY <1>6, <1>7, <1>9, <1>11, <1>12, Zenon DEF State
  <1>14. /\ r.buffers = f.buffers /\ r.pending = f.pending /\ r.known = f.known /\ r.ws = f.ws
         /\ r.roles = f.roles /\ r.gapped = f.gapped /\ r.last = f.last /\ r.out = f.out
         /\ r.total = f.total /\ r.active = f.active /\ r.parsed = f.parsed
         /\ r.refused = f.refused
         /\ r.born = nb /\ r.decoders = nd /\ r.gone = s.gone \cup gn
    BY <1>9, <1>11 DEF State
  <1>15. /\ r.buffers = s.buffers /\ r.pending = s.pending /\ r.known = s.known \ quiet
         /\ r.ws = s.ws /\ r.roles = s.roles \ quiet /\ r.gapped = s.gapped
         /\ r.last = s.last /\ r.out = s.out /\ r.total = s.total /\ r.parsed = s.parsed
         /\ r.refused = s.refused
         /\ (s.active = Cardinality(s.known) => r.active = Cardinality(r.known))
    BY <1>1, <1>8, <1>14 DEF IsForget
  <1>16. Sizes(r) = Sizes(s) /\ Lens(r) = Lens(s)
    BY <1>15 DEF Sizes, Lens
  <1>17. \A k \in Nat : Books(s, k) => Books(r, k)
    BY <1>15, <1>16 DEF Books
  <1>18. \A x \in Streams : r.decoders[x] = IF s.buffers[x] = NoBuffer THEN NoMsg ELSE s.decoders[x]
    BY <1>7, <1>14 DEF free
  <1>19. \A g \in Gens : \/ r.born[g] = s.born[g]
                         \/ r.born[g] = Unborn /\ [gen |-> g, what |-> "forgotten"] \in r.gone
    BY <1>4, <1>6, <1>14
  <1>20. s.gone \subseteq r.gone /\ \A l \in r.gone : l \in s.gone \/ l.what = "forgotten"
    BY <1>3, <1>14
  <1> QED
    BY <1>13, <1>15, <1>17, <1>18, <1>19, <1>20 DEF IsForgetQuiet, r

(* What ClearGaps does to each field.                                      *)
IsClearGaps(r, s) ==
    /\ r \in State
    /\ r.buffers = s.buffers /\ r.decoders = s.decoders /\ r.pending = s.pending
    /\ r.known = s.known /\ r.born = s.born /\ r.roles = s.roles /\ r.ws = s.ws
    /\ r.gapped \subseteq s.gapped /\ r.last = s.last /\ r.out = s.out /\ r.gone = s.gone
    /\ \A k \in Nat : Books(s, k) => Books(r, k)

(* ClearGaps touches nothing but the gap marks.                            *)
LEMMA ClearGapsIs ==
  ASSUME NEW s \in State
  PROVE  IsClearGaps(ClearGaps(s), s)
  <1> DEFINE gaps == IF Cardinality(s.gapped) > MaxEntries THEN {} ELSE s.gapped
             r == ClearGaps(s)
  <1>1. r = [s EXCEPT !.gapped = gaps]
    BY DEF ClearGaps
  <1>2. gaps \in SUBSET Streams /\ gaps \in SUBSET s.gapped
    BY DEF State
  <1> HIDE DEF gaps, r
  <1>3. r \in State
    BY <1>1, <1>2, Zenon DEF State
  <1>4. /\ r.buffers = s.buffers /\ r.decoders = s.decoders /\ r.pending = s.pending
        /\ r.known = s.known /\ r.born = s.born /\ r.roles = s.roles /\ r.ws = s.ws
        /\ r.gapped = gaps /\ r.last = s.last /\ r.out = s.out /\ r.gone = s.gone
        /\ r.total = s.total /\ r.active = s.active /\ r.parsed = s.parsed
        /\ r.refused = s.refused
    BY <1>1 DEF State
  <1>5. Sizes(r) = Sizes(s) /\ Lens(r) = Lens(s)
    BY <1>4 DEF Sizes, Lens
  <1>6. \A k \in Nat : Books(s, k) => Books(r, k)
    BY <1>4, <1>5 DEF Books
  <1> QED
    BY <1>2, <1>3, <1>4, <1>6 DEF IsClearGaps, r

(* A non-empty set of naturals has a minimum.                              *)
LEMMA LeastIs ==
  ASSUME NEW S \in SUBSET Nat, S # {}
  PROVE  Min(S) \in S /\ \A y \in S : Min(S) <= y
  <1> DEFINE R == {ss \in Nat \X Nat : ss[1] < ss[2]}
  <1>1. PICK x \in S : \A y \in S : ~(<<y, x>> \in R)
    <2>1. IsWellFoundedOn(R, Nat)
      BY NatLessThanWellFounded DEF OpToRel
    <2> HIDE DEF R
    <2> QED
      BY <2>1, WFMin
  <1>2. ASSUME NEW y \in S PROVE x <= y
    <2>1. x \in Nat /\ y \in Nat /\ <<y, x>> \in Nat \X Nat /\ <<y, x>> \notin R
      BY <1>1
    <2>2. ~(y < x)
      BY <2>1
    <2> QED
      BY <2>1, <2>2
  <1> QED
    BY <1>2 DEF Min

(* Where a queue may be cut: the request after the cut, if there is one,   *)
(* is not expired.                                                         *)
IsExpired(n, q, t) ==
    /\ n \in 0..Len(q)
    /\ n < Len(q) => t - q[n + 1].ts < TTL

(* Expired says where a queue is cut.                                      *)
LEMMA ExpiredIs ==
  ASSUME NEW q \in Seq(Request), NEW t \in Times
  PROVE  IsExpired(Expired(q, t), q, t)
  <1> DEFINE fresh == {i \in DOMAIN q : t - q[i].ts < TTL}
  <1>1. DOMAIN q = 1..Len(q) /\ Len(q) \in Nat
    BY LenProperties
  <1>2. Expired(q, t) = IF fresh = {} THEN Len(q) ELSE Min(fresh) - 1
    BY DEF Expired
  <1>3. fresh \in SUBSET Nat /\ \A i \in fresh : i \in 1..Len(q) /\ t - q[i].ts < TTL
    BY <1>1
  <1> HIDE DEF fresh
  <1>4. CASE fresh = {}
    BY <1>1, <1>2, <1>4 DEF IsExpired
  <1>5. CASE fresh # {}
    <2>1. Min(fresh) \in fresh
      BY <1>3, <1>5, LeastIs
    <2> DEFINE m == Min(fresh)
    <2> HIDE DEF m
    <2>2. m \in 1..Len(q) /\ t - q[m].ts < TTL /\ Expired(q, t) = m - 1
      BY <2>1, <1>2, <1>3, <1>5 DEF m
    <2>3. m - 1 \in 0..Len(q) /\ (m - 1) + 1 = m
      BY <2>2, <1>1
    <2> QED
      BY <2>2, <2>3 DEF IsExpired
  <1> QED
    BY <1>4, <1>5

(* q is w without its first n elements.                                    *)
Suffix(q, w, n) ==
    /\ n \in 0..Len(w)
    /\ Len(q) = Len(w) - n
    /\ \A i \in 1..Len(q) : q[i] = w[n + i]

(* A queue cut at its head: what stays is a suffix, and the lengths add    *)
(* up.                                                                     *)
LEMMA SuffixIs ==
  ASSUME NEW q \in Seq(Request), NEW n \in 0..Len(q),
         NEW W, \A i \in 1..Len(q) : q[i] \in W
  PROVE  /\ n \in Nat /\ n <= Len(q)
         /\ SubSeq(q, 1, n) \in Seq(W)
         /\ Len(SubSeq(q, n + 1, Len(q))) \in Nat
         /\ Len(q) = Len(SubSeq(q, n + 1, Len(q))) + n
         /\ SubSeq(q, n + 1, Len(q)) \in Seq(Request)
         /\ Suffix(SubSeq(q, n + 1, Len(q)), q, n)
         /\ SubSeq(q, 1, n) \in Seq(Request)
         /\ Len(SubSeq(q, 1, n)) = n
         /\ \A i \in 1..n : SubSeq(q, 1, n)[i] = q[i]
  <1>1. Len(q) \in Nat /\ \A i \in 1..Len(q) : q[i] \in Request
    BY LenProperties, ElementOfSeq
  <1>2. \A i \in (n + 1)..Len(q) : q[i] \in Request
    BY <1>1
  <1>3. \A i \in 1..n : q[i] \in Request /\ q[i] \in W
    BY <1>1
  <1>4. n + 1 \in Int /\ n \in Int /\ 1 \in Int /\ Len(q) \in Int
    BY <1>1
  <1>5. /\ SubSeq(q, n + 1, Len(q)) \in Seq(Request)
        /\ Len(SubSeq(q, n + 1, Len(q))) = IF n + 1 <= Len(q) THEN Len(q) - (n + 1) + 1 ELSE 0
        /\ \A i \in 1 .. (Len(q) - (n + 1) + 1) :
              SubSeq(q, n + 1, Len(q))[i] = q[(n + 1) + i - 1]
    BY <1>2, <1>4, SubSeqProperties
  <1>6. /\ SubSeq(q, 1, n) \in Seq(Request)
        /\ Len(SubSeq(q, 1, n)) = IF 1 <= n THEN n - 1 + 1 ELSE 0
        /\ \A i \in 1 .. (n - 1 + 1) : SubSeq(q, 1, n)[i] = q[1 + i - 1]
    BY <1>3, <1>4, SubSeqProperties
  <1>7. Len(SubSeq(q, 1, n)) = n /\ \A i \in 1..n : SubSeq(q, 1, n)[i] = q[i]
    BY <1>6
  <1> DEFINE w == SubSeq(q, n + 1, Len(q))
  <1> HIDE DEF w
  <1>8. Len(w) = Len(q) - n /\ \A i \in 1..Len(w) : w[i] = q[n + i]
    <2>1. Len(w) = Len(q) - n
      BY <1>1, <1>5 DEF w
    <2>2. ASSUME NEW i \in 1..Len(w) PROVE w[i] = q[n + i]
      <3>1. i \in 1 .. (Len(q) - (n + 1) + 1) /\ (n + 1) + i - 1 = n + i
        BY <2>1, <1>1
      <3> QED
        BY <3>1, <1>5 DEF w
    <2> QED
      BY <2>1, <2>2
  <1>9. SubSeq(q, 1, n) \in Seq(W)
    BY <1>3, <1>4, SubSeqProperties
  <1>10. n \in Nat /\ n <= Len(q) /\ Len(w) \in Nat /\ Len(q) = Len(w) + n
    BY <1>1, <1>8
  <1> QED
    BY <1>1, <1>5, <1>6, <1>7, <1>8, <1>9, <1>10 DEF Suffix, w

(* A queue that loses nothing stays, and one that loses something loses    *)
(* its first request.                                                      *)
LEMMA PrefixIs ==
  ASSUME NEW q \in Seq(Request), NEW n \in 0..Len(q)
  PROVE  /\ n = 0 => SubSeq(q, n + 1, Len(q)) = q
         /\ n # 0 => 1 \in DOMAIN q /\ 1 \in DOMAIN SubSeq(q, 1, n) /\ SubSeq(q, 1, n)[1] = q[1]
  <1> DEFINE w == SubSeq(q, n + 1, Len(q))
             v == SubSeq(q, 1, n)
  <1>0. Len(q) \in Nat /\ DOMAIN q = 1..Len(q) /\ \A i \in 1..Len(q) : q[i] \in Request
    BY LenProperties, ElementOfSeq
  <1>1. /\ w \in Seq(Request) /\ Suffix(w, q, n) /\ v \in Seq(Request) /\ Len(v) = n
        /\ \A i \in 1..n : v[i] = q[i]
    BY <1>0, SuffixIs
  <1> HIDE DEF w, v
  <1>2. n \in Nat /\ n <= Len(q)
    BY <1>0
  <1>3. ASSUME n = 0 PROVE w = q
    <2>1. Len(w) = Len(q) /\ \A i \in 1..Len(w) : w[i] = q[n + i]
      BY <1>0, <1>1, <1>3 DEF Suffix
    <2>2. \A i \in 1..Len(w) : w[i] = q[i]
      BY <1>0, <1>3, <2>1
    <2> QED
      BY <1>1, <2>1, <2>2, SeqEqual
  <1>4. ASSUME n # 0 PROVE 1 \in DOMAIN q /\ 1 \in DOMAIN v /\ v[1] = q[1]
    <2>1. 1 \in 1..n /\ 1 \in 1..Len(q)
      BY <1>0, <1>2, <1>4
    <2>2. DOMAIN v = 1..n
      BY <1>1, LenProperties
    <2> QED
      BY <1>0, <1>1, <2>1, <2>2
  <1> QED
    BY <1>3, <1>4 DEF w, v

(* The requests that wait.                                                 *)
Waits(s) == {q \in Request : \E c \in Conns : \E j \in DOMAIN s.pending[c] :
                                q = s.pending[c][j]}

(* r is s with some state given up: buffers, decoders, heads of queues,    *)
(* marks. Every new event is of a request that waited.                     *)
Sheds(r, s) ==
    /\ r \in State
    /\ \A x \in Streams : r.buffers[x] = s.buffers[x] \/ r.buffers[x] = NoBuffer
    /\ \A x \in Streams : r.decoders[x] = s.decoders[x] \/ r.decoders[x] = NoMsg
    /\ \A c \in Conns : \E n \in Nat : Suffix(r.pending[c], s.pending[c], n)
    /\ r.gapped \subseteq s.gapped /\ r.ws \subseteq s.ws
    /\ \A i \in DOMAIN r.out :
          \/ i \in DOMAIN s.out /\ r.out[i] = s.out[i]
          \/ \E q \in Waits(s) : /\ r.out[i].gen = q.gen /\ r.out[i].torn = q.torn
                                 /\ r.out[i].outcome # "paired"
    /\ s.gone \subseteq r.gone
    /\ \A l \in r.gone : l \in s.gone \/ l.what \in {"partial", "unanswered", "forgotten"}
    /\ Books(s, 0) => Books(r, 0)

(* What it says of the streams, queues and connections that lose state:    *)
(* the history tells which generations they belong to.                     *)
Loss(g, what) == [gen |-> g, what |-> what]
Settled(s, x) == s.buffers[x] = NoBuffer => s.decoders[x] = NoMsg
SameMessage(r, s, x) == Settled(s, x) => Current(r, x) = Current(s, x) /\ Settled(r, x)
Silent(s, g) == \A c \in Conns : c.gen = g => s.pending[c] = <<>>
Tidies(r, s) ==
    /\ \A x \in Streams : Loss(x.gen, "partial") \in r.gone \/ SameMessage(r, s, x)
    /\ \A c \in Conns : \/ r.pending[c] = s.pending[c]
                        \/ \E i \in DOMAIN s.pending[c] : Unanswered(s.pending[c][i]) \in r.gone
    /\ \A g \in Gens : \/ r.born[g] = s.born[g]
                       \/ r.born[g] = Unborn /\ (Loss(g, "forgotten") \in r.gone \/ Silent(r, g))

(* A birth that the sweep forgets is in the history.                       *)
Remembers(r, s) ==
    \A g \in Gens : r.born[g] = s.born[g] \/ (r.born[g] = Unborn /\ Loss(g, "forgotten") \in r.gone)

(* A buffer that was dropped was empty, or its message is in the history.  *)
LEMMA DroppedMessage ==
  ASSUME NEW s, NEW r, NEW x, r.buffers[x] = NoBuffer, r.decoders[x] = s.decoders[x] \/ r.decoders[x] = NoMsg,
         Current(s, x) = NoMsg
  PROVE  SameMessage(r, s, x)
  <1>1. s.decoders[x] = NoMsg
    BY DEF Current
  <1>2. r.decoders[x] = NoMsg
    BY <1>1
  <1>3. Current(r, x) = NoMsg
    BY <1>2 DEF Current, NoBuffer, NoMsg
  <1> QED
    BY <1>2, <1>3 DEF SameMessage, Settled

(* A buffer that stays keeps its message.                                  *)
LEMMA KeptMessage ==
  ASSUME NEW s, NEW r, NEW x, r.buffers[x] = s.buffers[x],
         r.decoders[x] = s.decoders[x] \/ (s.buffers[x] = NoBuffer /\ r.decoders[x] = NoMsg)
  PROVE  SameMessage(r, s, x)
  BY DEF SameMessage, Settled, Current

(* No age is above the limit at the last sweep, and no time is in the      *)
(* future. Queues are in the order of time, so the expired requests are    *)
(* at the head.                                                            *)
FreshBuffers(s, t) ==
    \A x \in Streams : s.buffers[x] # NoBuffer =>
        s.last - s.buffers[x].seen < TTL /\ s.buffers[x].seen <= t

FreshQueue(q, last, t) ==
    /\ \A i \in DOMAIN q : last - q[i].ts < TTL /\ q[i].ts <= t
    /\ \A i, j \in DOMAIN q : i <= j => q[i].ts <= q[j].ts

Fresh(s, t) ==
    /\ s.last <= t
    /\ FreshBuffers(s, t)
    /\ \A c \in Conns : FreshQueue(s.pending[c], s.last, t)

(* What the type of a state says of its queues.                            *)
LEMMA QueueFacts ==
  ASSUME NEW s \in State, NEW c \in Conns
  PROVE  /\ s.pending[c] \in Seq(Request) /\ Len(s.pending[c]) \in Nat
         /\ DOMAIN s.pending[c] = 1..Len(s.pending[c])
         /\ \A i \in 1..Len(s.pending[c]) :
               /\ s.pending[c][i] \in Waits(s) /\ s.pending[c][i] \in Request
               /\ s.pending[c][i].ts \in Int /\ s.pending[c][i].torn \in BOOLEAN
               /\ s.pending[c][i].gen \in Gens
  <1>1. s.pending[c] \in Seq(Request)
    BY DEF State, PendingMap
  <1>2. /\ Len(s.pending[c]) \in Nat /\ DOMAIN s.pending[c] = 1..Len(s.pending[c])
        /\ \A i \in 1..Len(s.pending[c]) : s.pending[c][i] \in Request
    BY <1>1, LenProperties, ElementOfSeq
  <1>3. \A q \in Request : q.ts \in Int /\ q.torn \in BOOLEAN /\ q.gen \in Gens
    BY Constants DEF Request, Times
  <1> QED
    BY <1>1, <1>2, <1>3 DEF Waits

(* The sweep only sheds state, and nothing it leaves is too old.           *)
LEMMA EvictStaleIs ==
  ASSUME NEW s \in State, NEW t \in Times, NEW r \in EvictStale(s, t)
  PROVE  Sheds(r, s) /\ (Fresh(s, t) => Fresh(r, t)) /\ Tidies(r, s) /\ Remembers(r, s)
  <1>1. CASE t - s.last < Throttle
    <2>1. r = s
      BY <1>1 DEF EvictStale
    <2>2. ASSUME NEW c \in Conns PROVE \E n \in Nat : Suffix(s.pending[c], s.pending[c], n)
      <3>1. Suffix(s.pending[c], s.pending[c], 0)
        BY QueueFacts DEF Suffix
      <3> QED
        BY <3>1
    <2>3. Tidies(r, s)
      BY <2>1, KeptMessage DEF Tidies
    <2>4. Remembers(r, s)
      BY <2>1 DEF Remembers
    <2> QED
      BY <2>1, <2>2, <2>3, <2>4 DEF Sheds
  <1>2. CASE ~(t - s.last < Throttle)
    <2> DEFINE old == [c \in Conns |-> SubSeq(s.pending[c], 1, Expired(s.pending[c], t))]
               kp == [c \in Conns |-> SubSeq(s.pending[c], Len(old[c]) + 1, Len(s.pending[c]))]
               kept == [s EXCEPT !.last = t, !.pending = kp]
               reqs == FoldSet(LAMBDA c, acc : acc \o old[c], <<>>, Conns)
               a == DropBuffers(kept, IdleBuffers(kept, t))
               left == Incomplete(a, reqs, "no_response_observed")
               lens == [c \in Conns |-> Len(old[c])]
    <2>1. PICK d \in Excess(left) : r = ForgetQuiet(ClearGaps(DropBuffers(left, d)))
      BY <1>2 DEF EvictStale
    <2>2. ASSUME NEW c \in Conns
          PROVE  /\ old[c] \in Seq(Waits(s)) /\ old[c] \in Seq(Request)
                 /\ lens[c] \in Nat /\ Len(old[c]) = Expired(s.pending[c], t)
                 /\ kp[c] \in Seq(Request)
                 /\ Suffix(kp[c], s.pending[c], Expired(s.pending[c], t))
                 /\ Len(kp[c]) \in Nat
                 /\ Len(s.pending[c]) = Len(kp[c]) + lens[c]
                 /\ lens[c] = 0 => kp[c] = s.pending[c]
                 /\ lens[c] # 0 => 1 \in DOMAIN s.pending[c] /\ 1 \in DOMAIN old[c]
                                   /\ old[c][1] = s.pending[c][1]
      <3> DEFINE q == s.pending[c]
                 n == Expired(q, t)
      <3>0. q \in Seq(Request) /\ Len(q) \in Nat /\ \A i \in 1..Len(q) : q[i] \in Waits(s)
        BY QueueFacts
      <3> HIDE DEF q
      <3>1. n \in 0..Len(q)
        BY <3>0, ExpiredIs DEF IsExpired
      <3> HIDE DEF n
      <3>2. /\ n \in Nat
            /\ SubSeq(q, 1, n) \in Seq(Waits(s))
            /\ Len(SubSeq(q, n + 1, Len(q))) \in Nat
            /\ Len(q) = Len(SubSeq(q, n + 1, Len(q))) + n
            /\ SubSeq(q, n + 1, Len(q)) \in Seq(Request)
            /\ Suffix(SubSeq(q, n + 1, Len(q)), q, n)
            /\ SubSeq(q, 1, n) \in Seq(Request)
            /\ Len(SubSeq(q, 1, n)) = n
        BY <3>0, <3>1, SuffixIs
      <3>a. /\ n = 0 => SubSeq(q, n + 1, Len(q)) = q
            /\ n # 0 => 1 \in DOMAIN q /\ 1 \in DOMAIN SubSeq(q, 1, n) /\ SubSeq(q, 1, n)[1] = q[1]
        BY <3>0, <3>1, PrefixIs
      <3>3. old[c] = SubSeq(q, 1, n)
        BY DEF q, n
      <3>4. kp[c] = SubSeq(q, n + 1, Len(q))
        BY <3>2, <3>3 DEF q
      <3>5. lens[c] = n
        BY <3>2, <3>3
      <3> HIDE DEF old, kp, lens
      <3> QED
        BY <3>2, <3>3, <3>4, <3>5, <3>a DEF q, n
    <2>3. kp \in PendingMap
      <3> HIDE DEF old
      <3> QED
        BY <2>2 DEF PendingMap
    <2>4. /\ reqs \in Seq(Waits(s)) /\ reqs \in Seq(Request) /\ Len(reqs) = Total(lens, Conns)
          /\ Covers(old, Conns, reqs)
      <3> DEFINE waits == Waits(s)
      <3>1. \A c \in Conns : old[c] \in Seq(waits)
        BY <2>2
      <3>2. \A c \in Conns : old[c] \in Seq(Request)
        BY <2>2
      <3>w. IsFiniteSet(Conns) /\ \A c \in Conns : lens[c] = Len(old[c])
        BY Finite
      <3> HIDE DEF old, lens, waits
      <3>c. reqs = Concat(old, Conns)
        BY DEF Concat
      <3> HIDE DEF reqs
      <3>3. reqs \in Seq(waits) /\ Len(reqs) = Total(lens, Conns)
        BY <3>1, <3>w, <3>c, ConcatIs
      <3>4. reqs \in Seq(Request) /\ Covers(old, Conns, reqs)
        BY <3>2, <3>w, <3>c, ConcatIs
      <3> QED
        BY <3>3, <3>4 DEF waits
    <2> HIDE DEF old, kp, reqs
    <2>5. kept \in State
      BY <2>3, Zenon DEF State
    <2>6. /\ kept.buffers = s.buffers /\ kept.decoders = s.decoders /\ kept.pending = kp
          /\ kept.known = s.known /\ kept.born = s.born /\ kept.roles = s.roles
          /\ kept.ws = s.ws /\ kept.gapped = s.gapped /\ kept.last = t /\ kept.out = s.out
          /\ kept.gone = s.gone /\ kept.total = s.total /\ kept.active = s.active
          /\ kept.parsed = s.parsed /\ kept.refused = s.refused
      BY DEF State
    <2>7. Books(s, 0) => Books(kept, Len(reqs))
      <3> HIDE DEF lens, kept
      <3>1. \A c \in Conns : Lens(kept)[c] \in Nat /\ lens[c] \in Nat
                             /\ Lens(s)[c] = Lens(kept)[c] + lens[c]
        BY <2>2, <2>6 DEF Lens
      <3>2. Total(Lens(s), Conns) = Total(Lens(kept), Conns) + Total(lens, Conns)
        BY <3>1, Finite, TotalPlus
      <3>3. Total(lens, Conns) \in Nat
        BY <3>1, Finite, TotalType
      <3>4. Sizes(kept) = Sizes(s)
        BY <2>6 DEF Sizes
      <3>5. s.total \in Int /\ s.parsed \in Int /\ Len(s.out) \in Int /\ s.refused \in Int
        BY LenProperties DEF State
      <3> QED
        BY <2>4, <2>5, <2>6, <3>2, <3>3, <3>4, <3>5, SizesType DEF Books
    <2> HIDE DEF kept
    <2>8. IdleBuffers(kept, t) \in SUBSET Streams
      BY DEF IdleBuffers
    <2>9. IsDropBuffers(a, kept, IdleBuffers(kept, t))
      BY <2>5, <2>8, DropBuffersIs
    <2> HIDE DEF a
    <2>10. IsIncomplete(left, a, reqs, "no_response_observed")
      <3>1. a \in State /\ "no_response_observed" \in Outcomes
        BY <2>9 DEF IsDropBuffers, Outcomes
      <3> QED
        BY <3>1, <2>4, IncompleteIs
    <2> HIDE DEF left
    <2>11. d \in SUBSET Streams /\ left \in State
      BY <2>10 DEF Excess, IsIncomplete
    <2> DEFINE b == DropBuffers(left, d)
               e == ClearGaps(b)
    <2>12. IsDropBuffers(b, left, d)
      BY <2>11, DropBuffersIs
    <2> HIDE DEF b
    <2>13. IsClearGaps(e, b)
      BY <2>12, ClearGapsIs DEF IsDropBuffers
    <2> HIDE DEF e
    <2>14. IsForgetQuiet(r, e)
      BY <2>1, <2>13, ForgetQuietIs DEF IsClearGaps, b, e
    <2>15. Books(s, 0) => Books(r, 0)
      <3>1. Len(reqs) \in Nat /\ 0 \in Nat
        BY <2>4, LenProperties
      <3>2. Books(s, 0) => Books(a, Len(reqs))
        BY <3>1, <2>7, <2>9 DEF IsDropBuffers
      <3>3. Books(a, Len(reqs)) => Books(left, 0)
        BY <2>4, <2>9, <2>10, IncompleteBooks DEF IsDropBuffers
      <3>4. Books(left, 0) => Books(b, 0)
        BY <3>1, <2>12 DEF IsDropBuffers
      <3>5. Books(b, 0) => Books(e, 0)
        BY <3>1, <2>13 DEF IsClearGaps
      <3>6. Books(e, 0) => Books(r, 0)
        BY <3>1, <2>14 DEF IsForgetQuiet
      <3> QED
        BY <3>2, <3>3, <3>4, <3>5, <3>6
    <2>16. /\ r.pending = kp /\ r.ws = s.ws /\ r.gapped \subseteq s.gapped /\ r.last = t
           /\ r \in State
      BY <2>6, <2>9, <2>10, <2>12, <2>13, <2>14
         DEF IsDropBuffers, IsIncomplete, IsClearGaps, IsForgetQuiet
    <2>17. \A x \in Streams :
             r.buffers[x] = IF x \in d \cup IdleBuffers(kept, t) THEN NoBuffer ELSE s.buffers[x]
      <3>1. \A x \in Streams :
              a.buffers[x] = IF x \in IdleBuffers(kept, t) THEN NoBuffer ELSE s.buffers[x]
        BY <2>6, <2>9 DEF IsDropBuffers
      <3>2. \A x \in Streams : b.buffers[x] = IF x \in d THEN NoBuffer ELSE a.buffers[x]
        BY <2>10, <2>12 DEF IsDropBuffers, IsIncomplete
      <3>3. r.buffers = b.buffers
        BY <2>13, <2>14 DEF IsClearGaps, IsForgetQuiet
      <3> QED
        BY <3>1, <3>2, <3>3
    <2>18. \A x \in Streams : r.decoders[x] = s.decoders[x] \/ r.decoders[x] = NoMsg
      <3>1. e.decoders = s.decoders
        BY <2>6, <2>9, <2>10, <2>12, <2>13 DEF IsDropBuffers, IsIncomplete, IsClearGaps
      <3> QED
        BY <3>1, <2>14 DEF IsForgetQuiet
    <2>19. \A c \in Conns : \E n \in Nat : Suffix(r.pending[c], s.pending[c], n)
      <3>1. ASSUME NEW c \in Conns PROVE \E n \in Nat : Suffix(r.pending[c], s.pending[c], n)
        BY <2>2, <2>16 DEF lens
      <3> QED
        BY <3>1
    <2>20. \A i \in DOMAIN r.out :
             \/ i \in DOMAIN s.out /\ r.out[i] = s.out[i]
             \/ \E q \in Waits(s) : /\ r.out[i].gen = q.gen /\ r.out[i].torn = q.torn
                                    /\ r.out[i].outcome # "paired"
      <3>1. r.out = left.out /\ a.out = s.out
        BY <2>6, <2>9, <2>12, <2>13, <2>14 DEF IsDropBuffers, IsClearGaps, IsForgetQuiet
      <3>2. \A j \in DOMAIN reqs : reqs[j] \in Waits(s)
        BY <2>4, LenProperties, ElementOfSeq
      <3>3. \A i \in DOMAIN left.out :
              \/ i \in DOMAIN a.out /\ left.out[i] = a.out[i]
              \/ \E j \in DOMAIN reqs : /\ left.out[i].gen = reqs[j].gen
                                       /\ left.out[i].torn = reqs[j].torn
                                       /\ left.out[i].outcome = "no_response_observed"
        BY <2>10 DEF IsIncomplete
      <3> QED
        BY <3>1, <3>2, <3>3
    <2>21. /\ s.gone \subseteq r.gone
           /\ \A l \in r.gone : l \in s.gone \/ l.what \in {"partial", "unanswered", "forgotten"}
      BY <2>6, <2>9, <2>10, <2>12, <2>13, <2>14
         DEF IsDropBuffers, IsIncomplete, IsClearGaps, IsForgetQuiet
    <2>22. Sheds(r, s)
      BY <2>15, <2>16, <2>17, <2>18, <2>19, <2>20, <2>21 DEF Sheds
    <2>23. ASSUME Fresh(s, t) PROVE Fresh(r, t)
      <3>1. FreshBuffers(r, t)
        <4>1. ASSUME NEW x \in Streams, r.buffers[x] # NoBuffer
              PROVE  t - r.buffers[x].seen < TTL /\ r.buffers[x].seen <= t
          <5>1. r.buffers[x] = s.buffers[x] /\ x \notin IdleBuffers(kept, t)
            BY <4>1, <2>17
          <5>2. s.buffers[x].seen \in Int /\ s.buffers[x].seen <= t
            BY <4>1, <5>1, <2>23, Constants DEF Fresh, FreshBuffers, State, BufferMap, Buffered, Times
          <5>3. ~(t - s.buffers[x].seen >= TTL)
            BY <5>1, <2>6 DEF IdleBuffers
          <5> QED
            BY <5>1, <5>2, <5>3, Constants DEF Times
        <4> QED
          BY <4>1, <2>16 DEF FreshBuffers
      <3>2. ASSUME NEW c \in Conns PROVE FreshQueue(r.pending[c], t, t)
        <4> DEFINE q == s.pending[c]
                   w == kp[c]
                   n == Expired(q, t)
        <4>1. q \in Seq(Request) /\ Len(q) \in Nat /\ DOMAIN q = 1..Len(q)
              /\ \A i \in 1..Len(q) : q[i].ts \in Int
          BY QueueFacts
        <4>2. FreshQueue(q, s.last, t)
          BY <2>23 DEF Fresh
        <4>3. Suffix(w, q, n) /\ Len(w) \in Nat /\ DOMAIN w = 1..Len(w)
          BY <2>2, LenProperties
        <4> HIDE DEF q, w
        <4>4. n \in 0..Len(q) /\ (n < Len(q) => t - q[n + 1].ts < TTL)
          BY <4>1, ExpiredIs DEF IsExpired
        <4> HIDE DEF n
        <4>5. n \in Nat /\ Len(w) = Len(q) - n /\ \A i \in 1..Len(w) : w[i] = q[n + i]
          BY <4>1, <4>3, <4>4 DEF Suffix
        <4>6. ASSUME NEW i \in 1..Len(w)
              PROVE  n + i \in 1..Len(q) /\ w[i].ts = q[n + i].ts /\ w[i].ts \in Int
                     /\ t - w[i].ts < TTL /\ w[i].ts <= t
          <5>1. n + i \in 1..Len(q) /\ n + 1 \in 1..Len(q) /\ n < Len(q) /\ n + 1 <= n + i
            BY <4>1, <4>5
          <5>2. q[n + 1].ts <= q[n + i].ts /\ q[n + i].ts <= t
            BY <5>1, <4>1, <4>2 DEF FreshQueue
          <5>3. q[n + 1].ts \in Int /\ q[n + i].ts \in Int /\ w[i].ts = q[n + i].ts
            BY <5>1, <4>1, <4>5
          <5>4. t - q[n + 1].ts < TTL
            BY <5>1, <4>4
          <5>5. t \in Int
            BY Constants DEF Times
          <5> QED
            BY <5>1, <5>2, <5>3, <5>4, <5>5, Constants
        <4>7. ASSUME NEW i \in 1..Len(w), NEW j \in 1..Len(w), i <= j PROVE w[i].ts <= w[j].ts
          <5>1. n + i \in DOMAIN q /\ n + j \in DOMAIN q /\ n + i <= n + j
            BY <4>1, <4>5, <4>6, <4>7
          <5>2. q[n + i].ts <= q[n + j].ts
            BY <5>1, <4>2 DEF FreshQueue
          <5> QED
            BY <5>2, <4>6
        <4>8. FreshQueue(w, t, t)
          BY <4>3, <4>6, <4>7 DEF FreshQueue
        <4> QED
          BY <4>8, <2>16 DEF w
      <3>3. t <= t
        BY Constants DEF Times
      <3> QED
        BY <3>1, <3>2, <3>3, <2>16 DEF Fresh
    <2>24. ASSUME NEW x \in Streams PROVE Loss(x.gen, "partial") \in r.gone \/ SameMessage(r, s, x)
      <3>1. /\ a.decoders = s.decoders /\ left.decoders = s.decoders /\ e.decoders = s.decoders
            /\ left.buffers = a.buffers /\ e.buffers = b.buffers /\ r.buffers = b.buffers
            /\ a.gone \subseteq r.gone /\ b.gone \subseteq r.gone
        BY <2>6, <2>9, <2>10, <2>12, <2>13, <2>14
           DEF IsDropBuffers, IsIncomplete, IsClearGaps, IsForgetQuiet
      <3>2. r.decoders[x] = IF r.buffers[x] = NoBuffer THEN NoMsg ELSE s.decoders[x]
        BY <3>1, <2>14 DEF IsForgetQuiet
      <3>3. CASE x \in IdleBuffers(kept, t)
        <4>1. Current(s, x) # NoMsg => Loss(x.gen, "partial") \in a.gone
          BY <3>3, <2>6, <2>9 DEF IsDropBuffers, Current, Loss
        <4>2. r.buffers[x] = NoBuffer
          BY <3>3, <2>17
        <4> QED
          BY <4>1, <4>2, <3>1, <3>2, DroppedMessage
      <3>4. CASE x \notin IdleBuffers(kept, t) /\ x \in d
        <4>0. left.buffers[x] = s.buffers[x]
          BY <3>1, <3>4, <2>6, <2>9 DEF IsDropBuffers
        <4>1. Current(s, x) # NoMsg => Loss(x.gen, "partial") \in b.gone
          BY <3>1, <3>4, <4>0, <2>12 DEF IsDropBuffers, Current, Loss
        <4>2. r.buffers[x] = NoBuffer
          BY <3>4, <2>17
        <4> QED
          BY <4>1, <4>2, <3>1, <3>2, DroppedMessage
      <3>5. CASE x \notin d \cup IdleBuffers(kept, t)
        <4>1. r.buffers[x] = s.buffers[x]
          BY <3>5, <2>17
        <4> QED
          BY <4>1, <3>2, KeptMessage
      <3> QED
        BY <3>3, <3>4, <3>5
    <2>25. ASSUME NEW c \in Conns
           PROVE  \/ r.pending[c] = s.pending[c]
                  \/ \E i \in DOMAIN s.pending[c] : Unanswered(s.pending[c][i]) \in r.gone
      <3>1. CASE lens[c] = 0
        BY <3>1, <2>2, <2>16
      <3>2. CASE lens[c] # 0
        <4>1. 1 \in DOMAIN s.pending[c] /\ 1 \in DOMAIN old[c] /\ old[c][1] = s.pending[c][1]
          BY <3>2, <2>2
        <4>2. PICK j \in DOMAIN reqs : reqs[j] = s.pending[c][1]
          BY <4>1, <2>4 DEF Covers
        <4>3. Unanswered(reqs[j]) \in left.gone
          BY <2>10 DEF IsIncomplete
        <4>4. left.gone \subseteq r.gone
          BY <2>12, <2>13, <2>14 DEF IsDropBuffers, IsClearGaps, IsForgetQuiet
        <4> QED
          BY <4>1, <4>2, <4>3, <4>4
      <3> QED
        BY <3>1, <3>2
    <2>26. ASSUME NEW g \in Gens
           PROVE  r.born[g] = s.born[g] \/ (r.born[g] = Unborn /\ Loss(g, "forgotten") \in r.gone)
      <3>1. e.born = s.born
        BY <2>6, <2>9, <2>10, <2>12, <2>13 DEF IsDropBuffers, IsIncomplete, IsClearGaps
      <3> QED
        BY <3>1, <2>14 DEF IsForgetQuiet, Loss
    <2>27. Tidies(r, s) /\ Remembers(r, s)
      BY <2>24, <2>25, <2>26 DEF Tidies, Remembers
    <2> QED
      BY <2>22, <2>23, <2>27
  <1> QED
    BY <1>1, <1>2

(* Shedding state does not age what stays.                                 *)
LEMMA ShedsFresh ==
  ASSUME NEW s \in State, NEW r, Sheds(r, s), r.last = s.last, NEW t, Fresh(s, t)
  PROVE  Fresh(r, t)
  <1>1. FreshBuffers(r, t)
    BY DEF Sheds, Fresh, FreshBuffers
  <1>2. ASSUME NEW c \in Conns PROVE FreshQueue(r.pending[c], r.last, t)
    <2> DEFINE q == s.pending[c]
               w == r.pending[c]
    <2>1. PICK n \in Nat : Suffix(w, q, n)
      BY DEF Sheds
    <2>2. /\ Len(q) \in Nat /\ DOMAIN q = 1..Len(q) /\ Len(w) \in Nat /\ DOMAIN w = 1..Len(w)
      BY QueueFacts DEF Sheds
    <2>3. FreshQueue(q, s.last, t)
      BY DEF Fresh
    <2> HIDE DEF q, w
    <2>4. \A i \in DOMAIN w : n + i \in DOMAIN q /\ w[i] = q[n + i]
      BY <2>1, <2>2 DEF Suffix
    <2>5. \A i, j \in DOMAIN w : i <= j => n + i <= n + j
      BY <2>2
    <2>6. FreshQueue(w, s.last, t)
      BY <2>3, <2>4, <2>5 DEF FreshQueue
    <2> QED
      BY <2>6 DEF w
  <1> QED
    BY <1>1, <1>2 DEF Fresh

(* What Evict does to each field.                                          *)
IsEvict(r, s, C) ==
    /\ Sheds(r, s)
    /\ r.buffers = s.buffers /\ r.decoders = s.decoders
    /\ \A c \in Conns : r.pending[c] = IF c \in C THEN <<>> ELSE s.pending[c]
    /\ \A c \in C : \A i \in DOMAIN s.pending[c] : Unanswered(s.pending[c][i]) \in r.gone
    /\ r.known = s.known /\ r.born = s.born /\ r.roles = s.roles /\ r.ws = s.ws
    /\ r.gapped = s.gapped /\ r.last = s.last

(* PendingQueue::take_all: the queues of C are emptied into events.        *)
LEMMA EvictIs ==
  ASSUME NEW s \in State, NEW C \in SUBSET Conns, NEW o \in Outcomes
  PROVE  IsEvict(Evict(s, C, o), s, C)
  <1> DEFINE reqs == Queued(s, C)
             i1 == Incomplete(s, reqs, o)
             np == Reset(s.pending, C, <<>>)
             r == Evict(s, C, o)
  <1>1. s.pending \in PendingMap /\ IsFiniteSet(C)
    BY Finite, FS_Subset DEF State
  <1>2. \A c \in Conns : s.pending[c] \in Seq(Waits(s)) /\ s.pending[c] \in Seq(Request)
    <2>1. ASSUME NEW c \in Conns PROVE s.pending[c] \in Seq(Waits(s))
      <3>1. Len(s.pending[c]) \in Nat /\ s.pending[c] \in [1..Len(s.pending[c]) -> Waits(s)]
        BY QueueFacts, LenProperties
      <3> QED
        BY <3>1
    <2> QED
      BY <2>1, QueueFacts
  <1>3. \A c \in Conns : Lens(s)[c] = Len(s.pending[c])
    BY DEF Lens
  <1>4. /\ reqs \in Seq(Waits(s)) /\ reqs \in Seq(Request) /\ Len(reqs) = Total(Lens(s), C)
        /\ Covers(s.pending, C, reqs)
    <2> DEFINE pend == s.pending
               lens == Lens(s)
               waits == Waits(s)
    <2>1. reqs = Concat(pend, C)
      BY DEF Queued, Concat
    <2>2. \A c \in C : pend[c] \in Seq(waits)
      BY <1>2
    <2>3. \A c \in C : pend[c] \in Seq(Request)
      BY <1>2
    <2>4. IsFiniteSet(C) /\ \A c \in C : lens[c] = Len(pend[c])
      BY <1>1, <1>3
    <2> HIDE DEF pend, reqs, lens, waits
    <2>5. reqs \in Seq(waits) /\ Len(reqs) = Total(lens, C)
      BY <2>1, <2>2, <2>4, ConcatIs
    <2>6. reqs \in Seq(Request) /\ Covers(pend, C, reqs)
      BY <2>1, <2>3, <2>4, ConcatIs
    <2> QED
      BY <2>5, <2>6 DEF waits, lens, pend
  <1>5. reqs \in Seq(Request)
    BY <1>4
  <1> HIDE DEF reqs
  <1>6. IsIncomplete(i1, s, reqs, o)
    BY <1>5, IncompleteIs
  <1>7. i1 \in State /\ i1.pending = s.pending
    BY <1>6 DEF IsIncomplete
  <1>8. r = [i1 EXCEPT !.pending = Reset(@, C, <<>>)]
    BY DEF Evict, reqs
  <1> HIDE DEF i1, r
  <1>9. r = [i1 EXCEPT !.pending = np]
    BY <1>7, <1>8
  <1>10. np \in PendingMap /\ \A c \in Conns : np[c] = IF c \in C THEN <<>> ELSE s.pending[c]
    <2>1. <<>> \in Seq(Request)
      OBVIOUS
    <2> QED
      BY <1>1, <2>1 DEF Reset, PendingMap
  <1> HIDE DEF np
  <1>11. r \in State
    BY <1>7, <1>9, <1>10, Zenon DEF State
  <1>12. /\ r.buffers = s.buffers /\ r.decoders = s.decoders /\ r.pending = np
         /\ r.known = s.known /\ r.born = s.born /\ r.roles = s.roles /\ r.ws = s.ws
         /\ r.gapped = s.gapped /\ r.last = s.last
    <2>1. /\ r.buffers = i1.buffers /\ r.decoders = i1.decoders /\ r.pending = np
          /\ r.known = i1.known /\ r.born = i1.born /\ r.roles = i1.roles /\ r.ws = i1.ws
          /\ r.gapped = i1.gapped /\ r.last = i1.last
      BY <1>7, <1>9 DEF State
    <2> QED
      BY <2>1, <1>6 DEF IsIncomplete
  <1>13. /\ r.out = i1.out /\ r.gone = i1.gone /\ r.total = i1.total /\ r.active = i1.active
         /\ r.parsed = i1.parsed /\ r.refused = i1.refused
    BY <1>7, <1>9 DEF State
  <1>14. \A c \in Conns : \E n \in Nat : Suffix(r.pending[c], s.pending[c], n)
    <2>1. ASSUME NEW c \in Conns PROVE \E n \in Nat : Suffix(np[c], s.pending[c], n)
      <3>1. Len(s.pending[c]) \in Nat
        BY QueueFacts
      <3>2. CASE c \in C
        <4>1. Suffix(<<>>, s.pending[c], Len(s.pending[c]))
          BY <3>1 DEF Suffix
        <4> QED
          BY <3>1, <3>2, <4>1, <1>10
      <3>3. CASE c \notin C
        <4>1. Suffix(s.pending[c], s.pending[c], 0)
          BY <3>1 DEF Suffix
        <4> QED
          BY <3>3, <4>1, <1>10
      <3> QED
        BY <3>2, <3>3
    <2> QED
      BY <2>1, <1>12
  <1>15. \A i \in DOMAIN r.out :
           \/ i \in DOMAIN s.out /\ r.out[i] = s.out[i]
           \/ \E q \in Waits(s) : /\ r.out[i].gen = q.gen /\ r.out[i].torn = q.torn
                                  /\ r.out[i].outcome # "paired"
    <2>1. \A j \in DOMAIN reqs : reqs[j] \in Waits(s)
      BY <1>4, LenProperties, ElementOfSeq
    <2>2. o # "paired"
      BY DEF Outcomes
    <2> QED
      BY <2>1, <2>2, <1>6, <1>13 DEF IsIncomplete
  <1>16. Books(s, 0) => Books(r, 0)
    <2> DEFINE n == Len(reqs)
               S == Total(Sizes(s), Streams)
               W == Total(Lens(s), Conns)
               V == Total(Lens(r), Conns)
               ro == Len(r.out)
               so == Len(s.out)
               rr == r.refused
               sr == s.refused
               rt == r.total
               tt == s.total
               pp == s.parsed
    <2>1. n \in Nat /\ S \in Nat /\ W \in Nat /\ V \in Nat
      BY <1>5, <1>11, SizesType, LenProperties
    <2>2. V = W - n
      <3>1. \A c \in Conns : Lens(r)[c] = IF c \in C THEN 0 ELSE Lens(s)[c]
        BY <1>10, <1>12 DEF Lens
      <3> QED
        BY <3>1, <1>4, SizesType, Finite, TotalDrop
    <2>3. ro \in Nat /\ so \in Nat /\ rr \in Int /\ sr \in Int /\ rt \in Int /\ tt \in Int /\ pp \in Int
      BY <1>11, LenProperties DEF State
    <2>4. rt = tt - n /\ ro + rr = so + sr + n
      BY <1>6, <1>13 DEF IsIncomplete
    <2>5. Sizes(r) = Sizes(s) /\ r.active = s.active /\ r.known = s.known /\ r.parsed = pp
      BY <1>6, <1>12, <1>13 DEF Sizes, IsIncomplete
    <2> SUFFICES ASSUME Books(s, 0) PROVE Books(r, 0)
      OBVIOUS
    <2>6. tt = S + W + 0 /\ tt <= MaxTotal /\ pp = W + 0 + so + sr
      BY DEF Books
    <2>7. s.active = Cardinality(s.known)
      BY DEF Books
    <2> HIDE DEF n, S, W, V, ro, so, rr, sr, rt, tt, pp
    <2>8. rt = S + V + 0 /\ rt <= MaxTotal /\ pp = V + 0 + ro + rr
      BY <2>1, <2>2, <2>3, <2>4, <2>6, Constants
    <2> QED
      BY <2>5, <2>7, <2>8 DEF Books, S, V, ro, rr, rt
  <1>17. /\ s.gone \subseteq r.gone
         /\ \A l \in r.gone : l \in s.gone \/ l.what \in {"partial", "unanswered", "forgotten"}
    BY <1>6, <1>13 DEF IsIncomplete
  <1>18. Sheds(r, s)
    BY <1>11, <1>12, <1>14, <1>15, <1>16, <1>17 DEF Sheds
  <1>19. ASSUME NEW c \in C, NEW i \in DOMAIN s.pending[c]
         PROVE  Unanswered(s.pending[c][i]) \in r.gone
    <2>1. PICK j \in DOMAIN reqs : reqs[j] = s.pending[c][i]
      BY <1>4 DEF Covers
    <2> QED
      BY <2>1, <1>6, <1>13 DEF IsIncomplete
  <1> QED
    BY <1>10, <1>12, <1>18, <1>19 DEF IsEvict, r

(* evict_connection_by_ptr only sheds state.                               *)
LEMMA EvictConnectionIs ==
  ASSUME NEW s \in State, NEW g \in Gens
  PROVE  /\ Sheds(EvictConnection(s, g), s) /\ EvictConnection(s, g).last = s.last
         /\ Tidies(EvictConnection(s, g), s)
  <1> DEFINE C == {c \in Conns : c.gen = g}
             D == {x \in Streams : x.gen = g}
             v == Evict(s, C, "connection_closed")
             f == Forget(v, C)
             b == DropBuffers(f, D)
             r == EvictConnection(s, g)
             nd == Reset(b.decoders, D, NoMsg)
             nb == [b.born EXCEPT ![g] = Unborn]
  <1>0. C \in SUBSET Conns /\ D \in SUBSET Streams
    OBVIOUS
  <1>1. r = [b EXCEPT !.gapped = @ \ D, !.decoders = Reset(@, D, NoMsg), !.born[g] = Unborn]
    BY DEF EvictConnection
  <1> HIDE DEF C, D, r
  <1>2. IsEvict(v, s, C)
    <2>1. "connection_closed" \in Outcomes
      BY DEF Outcomes
    <2> QED
      BY <2>1, <1>0, EvictIs
  <1> HIDE DEF v
  <1>3. IsForget(f, v, C)
    BY <1>2, ForgetIs DEF IsEvict, Sheds
  <1> HIDE DEF f
  <1>4. IsDropBuffers(b, f, D)
    BY <1>0, <1>3, DropBuffersIs DEF IsForget
  <1> HIDE DEF b
  <1>5. b \in State
    BY <1>4 DEF IsDropBuffers
  <1>6. b.decoders \in DecoderMap /\ b.born \in BornMap /\ b.gapped \in SUBSET Streams
    BY <1>5 DEF State
  <1>7. r = [b EXCEPT !.gapped = b.gapped \ D, !.decoders = nd, !.born = nb]
    BY <1>1, <1>5 DEF State
  <1>8. /\ nd \in DecoderMap
        /\ \A x \in Streams : nd[x] = IF x \in D THEN NoMsg ELSE b.decoders[x]
    <2>1. NoMsg \in Message
      BY DEF NoMsg, Message
    <2> QED
      BY <1>6, <2>1 DEF Reset, DecoderMap
  <1>9. /\ nb \in BornMap /\ b.gapped \ D \in SUBSET Streams
        /\ nb[g] = Unborn /\ \A h \in Gens : h # g => nb[h] = b.born[h]
    BY <1>6 DEF BornMap
  <1> HIDE DEF nd, nb
  <1>10. r \in State
    BY <1>5, <1>7, <1>8, <1>9, Zenon DEF State
  <1>11. /\ r.buffers = b.buffers /\ r.decoders = nd /\ r.pending = b.pending /\ r.known = b.known
         /\ r.ws = b.ws /\ r.gapped = b.gapped \ D /\ r.last = b.last /\ r.out = b.out
         /\ r.gone = b.gone /\ r.total = b.total /\ r.active = b.active
         /\ r.parsed = b.parsed /\ r.refused = b.refused /\ r.born = nb
    BY <1>5, <1>7 DEF State
  <1>12. Books(s, 0) => Books(r, 0)
    <2>1. 0 \in Nat
      OBVIOUS
    <2>2. Books(s, 0) => Books(v, 0)
      BY <1>2 DEF IsEvict, Sheds
    <2>3. Books(v, 0) => Books(f, 0)
      <3>1. Sizes(f) = Sizes(v) /\ Lens(f) = Lens(v)
        BY <1>3 DEF Sizes, Lens, IsForget
      <3> QED
        BY <3>1, <1>3 DEF Books, IsForget
    <2>4. Books(f, 0) => Books(b, 0)
      BY <2>1, <1>4 DEF IsDropBuffers
    <2>5. Books(b, 0) => Books(r, 0)
      <3>1. Sizes(r) = Sizes(b) /\ Lens(r) = Lens(b)
        BY <1>11 DEF Sizes, Lens
      <3> QED
        BY <3>1, <1>11 DEF Books
    <2> QED
      BY <2>2, <2>3, <2>4, <2>5
  <1>13. /\ \A x \in Streams : r.buffers[x] = s.buffers[x] \/ r.buffers[x] = NoBuffer
         /\ \A x \in Streams : r.decoders[x] = s.decoders[x] \/ r.decoders[x] = NoMsg
         /\ r.pending = v.pending /\ r.gapped \subseteq s.gapped /\ r.ws \subseteq s.ws
         /\ r.out = v.out /\ r.last = s.last
    <2>1. b.decoders = s.decoders
      BY <1>2, <1>3, <1>4 DEF IsEvict, IsForget, IsDropBuffers
    <2> QED
      BY <2>1, <1>2, <1>3, <1>4, <1>8, <1>11 DEF IsEvict, IsForget, IsDropBuffers
  <1>14. /\ s.gone \subseteq r.gone
         /\ \A l \in r.gone : l \in s.gone \/ l.what \in {"partial", "unanswered", "forgotten"}
    BY <1>2, <1>3, <1>4, <1>11 DEF IsEvict, IsForget, IsDropBuffers, Sheds
  <1>15. Sheds(r, s)
    BY <1>2, <1>10, <1>12, <1>13, <1>14 DEF IsEvict, Sheds
  <1>16. ASSUME NEW x \in Streams PROVE Loss(x.gen, "partial") \in r.gone \/ SameMessage(r, s, x)
    <2>1. /\ f.buffers = s.buffers /\ f.decoders = s.decoders /\ b.decoders = s.decoders
          /\ r.buffers[x] = IF x \in D THEN NoBuffer ELSE s.buffers[x]
          /\ r.decoders[x] = IF x \in D THEN NoMsg ELSE s.decoders[x]
      BY <1>2, <1>3, <1>4, <1>8, <1>11 DEF IsEvict, IsForget, IsDropBuffers
    <2>2. CASE x \in D
      <3>1. Current(s, x) # NoMsg => Loss(x.gen, "partial") \in r.gone
        BY <2>1, <2>2, <1>4, <1>11 DEF IsDropBuffers, Current, Loss
      <3> QED
        BY <2>1, <2>2, <3>1, DroppedMessage
    <2>3. CASE x \notin D
      BY <2>1, <2>3, KeptMessage
    <2> QED
      BY <2>2, <2>3
  <1>17. /\ \A c \in Conns : r.pending[c] = IF c \in C THEN <<>> ELSE s.pending[c]
         /\ \A c \in C : \A i \in DOMAIN s.pending[c] : Unanswered(s.pending[c][i]) \in r.gone
    <2>1. v.gone \subseteq r.gone
      BY <1>3, <1>4, <1>11 DEF IsForget, IsDropBuffers
    <2>2. \A c \in C : \A i \in DOMAIN s.pending[c] : Unanswered(s.pending[c][i]) \in v.gone
      BY <1>2 DEF IsEvict
    <2>3. \A c \in Conns : v.pending[c] = IF c \in C THEN <<>> ELSE s.pending[c]
      BY <1>2 DEF IsEvict
    <2>4. r.pending = v.pending
      BY <1>13
    <2> QED
      BY <2>1, <2>2, <2>3, <2>4
  <1>18. ASSUME NEW c \in Conns
         PROVE  \/ r.pending[c] = s.pending[c]
                \/ \E i \in DOMAIN s.pending[c] : Unanswered(s.pending[c][i]) \in r.gone
    <2>1. CASE c \in C /\ s.pending[c] # <<>>
      <3> DEFINE q == s.pending[c]
      <3>1. 1 \in DOMAIN q
        <4>1. q \in Seq(Request) /\ q # <<>>
          BY <2>1, QueueFacts
        <4> HIDE DEF q
        <4> QED
          BY <4>1, EmptySeq, LenProperties
      <3>2. Unanswered(q[1]) \in r.gone
        BY <3>1, <2>1, <1>17
      <3> QED
        BY <3>1, <3>2
    <2> QED
      BY <2>1, <1>17
  <1>19. ASSUME NEW h \in Gens PROVE r.born[h] = s.born[h] \/ (r.born[h] = Unborn /\ Silent(r, h))
    <2>1. b.born = s.born
      BY <1>2, <1>3, <1>4 DEF IsEvict, IsForget, IsDropBuffers
    <2>2. CASE h = g
      <3>1. r.born[h] = Unborn
        BY <2>2, <1>9, <1>11
      <3>2. \A c \in Conns : c.gen = h => c \in C
        BY <2>2 DEF C
      <3>3. \A c \in Conns : c \in C => r.pending[c] = <<>>
        BY <1>17
      <3> QED
        BY <3>1, <3>2, <3>3 DEF Silent
    <2>3. CASE h # g
      BY <2>1, <2>3, <1>9, <1>11
    <2> QED
      BY <2>2, <2>3
  <1>20. Tidies(r, s)
    BY <1>16, <1>18, <1>19 DEF Tidies
  <1> QED
    BY <1>13, <1>15, <1>20 DEF r

(* No chunk of the generation was lost, refused or of unknown role.        *)
Sound(s, p, g) ==
    /\ "lost" \notin p[g].hurt
    /\ \A l \in s.gone : l.gen = g => l.what \notin {"chunk", "ambiguous"}

(* The messages of the stream that were sent whole.                        *)
Count(p, x) == IF x.dir = "request" THEN p[x.gen].reqs ELSE p[x.gen].resps

(* A stream in the middle of message m: it is whole so far, its peer is    *)
(* in the middle of the same message.                                      *)
InLine(m, torn, p, x) ==
    m # 0 => ~torn /\ x.dir \in p[x.gen].open /\ m = Count(p, x) + 1

UntornStreams(s, p) ==
    \A x \in Streams : Sound(s, p, x.gen) =>
        /\ InLine(s.decoders[x].msg, s.decoders[x].torn, p, x)
        /\ InLine(s.buffers[x].msg, s.buffers[x].torn, p, x)

GapsEmpty(s) == \A x \in s.gapped : s.decoders[x].msg = 0 /\ s.buffers[x].msg = 0

Upgraded(s, p) == \A c \in s.ws : p[c.gen].ws

UntornQueues(s, p) ==
    \A c \in Conns : \A i \in DOMAIN s.pending[c] :
        /\ s.pending[c][i].gen = c.gen
        /\ Sound(s, p, c.gen) => ~s.pending[c][i].torn

UntornOut(s, p) == \A i \in DOMAIN s.out : Sound(s, p, s.out[i].gen) => ~s.out[i].torn

Untorn(s, p) ==
    /\ UntornStreams(s, p)
    /\ GapsEmpty(s)
    /\ Upgraded(s, p)
    /\ UntornQueues(s, p)
    /\ UntornOut(s, p)

(* Shedding state joins nothing.                                           *)
LEMMA ShedsUntorn ==
  ASSUME NEW s \in State, NEW r, Sheds(r, s), NEW p, Untorn(s, p)
  PROVE  Untorn(r, p)
  <1>1. \A g : Sound(r, p, g) => Sound(s, p, g)
    BY DEF Sheds, Sound
  <1>2. UntornStreams(r, p)
    BY <1>1 DEF Sheds, Untorn, UntornStreams, InLine, NoMsg, NoBuffer
  <1>3. GapsEmpty(r)
    <2>1. \A x \in r.gapped : x \in Streams /\ x \in s.gapped
      BY DEF Sheds, State
    <2> QED
      BY <2>1 DEF Sheds, Untorn, GapsEmpty, NoMsg, NoBuffer
  <1>4. Upgraded(r, p)
    BY DEF Sheds, Untorn, Upgraded
  <1>5. UntornQueues(r, p)
    <2>1. ASSUME NEW c \in Conns, NEW i \in DOMAIN r.pending[c]
          PROVE  \E j \in DOMAIN s.pending[c] : r.pending[c][i] = s.pending[c][j]
      <3> DEFINE q == s.pending[c]
                 w == r.pending[c]
      <3>1. PICK n \in Nat : Suffix(w, q, n)
        BY DEF Sheds
      <3>2. /\ Len(q) \in Nat /\ DOMAIN q = 1..Len(q) /\ Len(w) \in Nat /\ DOMAIN w = 1..Len(w)
        BY QueueFacts DEF Sheds
      <3>3. i \in DOMAIN w
        OBVIOUS
      <3> HIDE DEF q, w
      <3>4. n + i \in DOMAIN q /\ w[i] = q[n + i]
        BY <3>1, <3>2, <3>3 DEF Suffix
      <3> QED
        BY <3>4 DEF q, w
    <2> QED
      BY <2>1, <1>1 DEF Untorn, UntornQueues
  <1>6. UntornOut(r, p)
    <2>1. ASSUME NEW q \in Waits(s) PROVE Sound(r, p, q.gen) => ~q.torn
      BY <1>1 DEF Waits, Untorn, UntornQueues
    <2> QED
      BY <2>1, <1>1 DEF Sheds, Untorn, UntornOut
  <1> QED
    BY <1>2, <1>3, <1>4, <1>5, <1>6 DEF Untorn

(* Nothing but the queues, the events and the counters differs.            *)
SameStreams(r, s) ==
    /\ r.buffers = s.buffers /\ r.decoders = s.decoders /\ r.gapped = s.gapped
    /\ r.known = s.known /\ r.born = s.born /\ r.roles = s.roles /\ r.last = s.last

(* The books when one queue and the counters change.                       *)
LEMMA OneQueue ==
  ASSUME NEW s \in State, NEW r \in State, NEW conn \in Conns, NEW w \in Seq(Request),
         r.pending = [s.pending EXCEPT ![conn] = w],
         NEW d \in Int, Len(w) = Len(s.pending[conn]) + d,
         r.buffers = s.buffers, r.active = s.active, r.known = s.known,
         r.total = s.total + d, r.total <= MaxTotal,
         r.parsed + Len(s.out) + s.refused = s.parsed + d + Len(r.out) + r.refused,
         Books(s, 0)
  PROVE  Books(r, 0)
  <1> DEFINE S == Total(Sizes(s), Streams)
             W == Total(Lens(s), Conns)
             V == Total(Lens(r), Conns)
             sl == Lens(s)[conn]
             rl == Lens(r)[conn]
             ro == Len(r.out)
             so == Len(s.out)
             rr == r.refused
             sr == s.refused
             rt == r.total
             tt == s.total
             pp == s.parsed
             rp == r.parsed
  <1>1. S \in Nat /\ W \in Nat /\ V \in Nat /\ sl \in Nat /\ rl \in Nat
    BY SizesType
  <1>2. V = W - sl + rl
    <2>1. \A c \in Conns \ {conn} : Lens(r)[c] = Lens(s)[c]
      BY DEF Lens, State, PendingMap
    <2>2. \A c \in Conns : Lens(s)[c] \in Nat /\ Lens(r)[c] \in Nat
      BY SizesType
    <2> QED
      BY <2>1, <2>2, Finite, TotalChange
  <1>3. rl = sl + d
    <2>1. r.pending[conn] = w
      BY DEF State, PendingMap
    <2> QED
      BY <2>1 DEF Lens
  <1>4. /\ ro \in Nat /\ so \in Nat /\ rr \in Int /\ sr \in Int /\ rt \in Int /\ tt \in Int
        /\ pp \in Int /\ rp \in Int
    BY LenProperties DEF State
  <1>5. rt = tt + d /\ rt <= MaxTotal /\ rp + so + sr = pp + d + ro + rr
    OBVIOUS
  <1>6. tt = S + W + 0 /\ pp = W + 0 + so + sr
    BY DEF Books
  <1>7. Sizes(r) = Sizes(s) /\ r.active = Cardinality(r.known)
    BY DEF Sizes, Books
  <1> HIDE DEF S, W, V, sl, rl, ro, so, rr, sr, rt, tt, pp, rp
  <1>8. rt = S + V + 0 /\ rp = V + 0 + ro + rr
    BY <1>1, <1>2, <1>3, <1>4, <1>5, <1>6
  <1> QED
    BY <1>5, <1>7, <1>8 DEF Books, S, V, ro, rr, rt, rp

(* The books when a request is refused.                                    *)
LEMMA NoQueue ==
  ASSUME NEW s \in State, NEW r \in State, r.pending = s.pending,
         r.buffers = s.buffers, r.active = s.active, r.known = s.known, r.total = s.total,
         r.parsed + Len(s.out) + s.refused = s.parsed + Len(r.out) + r.refused
  PROVE  Books(s, 0) => Books(r, 0)
  <1> DEFINE W == Total(Lens(s), Conns)
             ro == Len(r.out)
             so == Len(s.out)
             rr == r.refused
             sr == s.refused
             pp == s.parsed
             rp == r.parsed
  <1> SUFFICES ASSUME Books(s, 0) PROVE Books(r, 0)
    OBVIOUS
  <1>1. W \in Nat
    BY SizesType
  <1>2. ro \in Nat /\ so \in Nat /\ rr \in Int /\ sr \in Int /\ pp \in Int /\ rp \in Int
    BY LenProperties DEF State
  <1>3. rp + so + sr = pp + ro + rr /\ pp = W + 0 + so + sr
    BY DEF Books
  <1>4. Sizes(r) = Sizes(s) /\ Lens(r) = Lens(s)
    BY DEF Sizes, Lens
  <1> HIDE DEF W, ro, so, rr, sr, pp, rp
  <1>5. rp = W + 0 + ro + rr
    BY <1>1, <1>2, <1>3
  <1> QED
    BY <1>4, <1>5 DEF Books, W, ro, rr, rp

(* What Push does to each field.                                           *)
IsPush(r, s, conn, req) ==
    /\ r \in State /\ SameStreams(r, s) /\ r.ws = s.ws /\ r.out = s.out
    /\ s.gone \subseteq r.gone
    /\ \A l \in r.gone : l \in s.gone \/ l.what = "request"
    /\ \/ r.pending = s.pending /\ [gen |-> conn.gen, what |-> "request"] \in r.gone
       \/ r.pending = [s.pending EXCEPT ![conn] = Append(s.pending[conn], req)]
    /\ Books(s, 0) => Books(r, 0)

(* PendingQueue::push keeps the books: the request waits or is counted.    *)
LEMMA PushIs ==
  ASSUME NEW s \in State, NEW conn \in Conns, NEW req \in Request
  PROVE  IsPush(Push(s, conn, req), s, conn, req)
  <1> DEFINE r == Push(s, conn, req)
             full == Len(s.pending[conn]) >= MaxPending \/ s.total + 1 > MaxTotal
             w == Append(s.pending[conn], req)
             np == [s.pending EXCEPT ![conn] = w]
             l == [gen |-> conn.gen, what |-> "request"]
  <1>1. /\ s.pending \in PendingMap /\ s.total \in Int /\ s.parsed \in Int /\ s.refused \in Int
        /\ s.gone \in SUBSET Losses /\ s.pending[conn] \in Seq(Request)
        /\ Len(s.pending[conn]) \in Nat /\ Len(s.out) \in Nat
    BY QueueFacts, LenProperties DEF State
  <1>2. w \in Seq(Request) /\ Len(w) = Len(s.pending[conn]) + 1
    BY <1>1, AppendProperties
  <1>3. CASE full
    <2>1. r = [s EXCEPT !.parsed = @ + 1, !.refused = @ + 1, !.gone = @ \cup {l}]
      BY <1>3 DEF Push
    <2>2. l \in Losses
      <3>1. conn.gen \in Gens
        BY DEF Conns
      <3> QED
        BY <3>1 DEF Losses
    <2> HIDE DEF r
    <2>3. s.parsed + 1 \in Int /\ s.refused + 1 \in Int /\ s.gone \cup {l} \in SUBSET Losses
      BY <1>1, <2>2
    <2>4. r \in State
      BY <2>1, <2>3, Zenon DEF State
    <2>5. /\ SameStreams(r, s) /\ r.ws = s.ws /\ r.out = s.out /\ r.pending = s.pending
          /\ r.total = s.total /\ r.active = s.active /\ r.parsed = s.parsed + 1
          /\ r.refused = s.refused + 1 /\ r.gone = s.gone \cup {l}
      BY <2>1 DEF State, SameStreams
    <2>6. r.parsed + Len(s.out) + s.refused = s.parsed + Len(r.out) + r.refused
      <3> DEFINE a == s.parsed
                 b == s.refused
                 n == Len(s.out)
      <3>1. a \in Int /\ b \in Int /\ n \in Int
        BY <1>1
      <3>2. r.parsed = a + 1 /\ r.refused = b + 1 /\ Len(r.out) = n
        BY <2>5
      <3> HIDE DEF a, b, n
      <3>3. r.parsed + n + b = a + Len(r.out) + r.refused
        BY <3>1, <3>2
      <3> QED
        BY <3>3 DEF a, b, n
    <2>7. Books(s, 0) => Books(r, 0)
      BY <2>4, <2>5, <2>6, NoQueue DEF SameStreams
    <2>8. s.gone \subseteq r.gone /\ l \in r.gone /\ \A k \in r.gone : k \in s.gone \/ k.what = "request"
      BY <2>5
    <2> QED
      BY <2>4, <2>5, <2>7, <2>8 DEF IsPush, r
  <1>4. CASE ~full
    <2>1. r = [s EXCEPT !.parsed = @ + 1, !.total = @ + 1, !.pending[conn] = Append(@, req)]
      BY <1>4 DEF Push
    <2>2. s.total + 1 <= MaxTotal
      BY <1>1, <1>4, Constants
    <2> HIDE DEF r
    <2>3. r = [s EXCEPT !.parsed = @ + 1, !.total = @ + 1, !.pending = np]
      BY <2>1 DEF State
    <2>4. np \in PendingMap /\ s.parsed + 1 \in Int /\ s.total + 1 \in Int
      BY <1>1, <1>2 DEF PendingMap
    <2> HIDE DEF w
    <2>5. r \in State
      BY <2>3, <2>4, Zenon DEF State
    <2>6. /\ SameStreams(r, s) /\ r.ws = s.ws /\ r.out = s.out /\ r.pending = np
          /\ r.total = s.total + 1 /\ r.active = s.active /\ r.parsed = s.parsed + 1
          /\ r.refused = s.refused /\ r.gone = s.gone
      BY <2>3 DEF State, SameStreams
    <2>7. r.parsed + Len(s.out) + s.refused = s.parsed + 1 + Len(r.out) + r.refused
      BY <1>1, <2>6
    <2>8. Books(s, 0) => Books(r, 0)
      <3>1. 1 \in Int /\ r.total <= MaxTotal /\ r.buffers = s.buffers /\ r.known = s.known
        BY <2>2, <2>6 DEF SameStreams
      <3> QED
        BY <3>1, <1>2, <2>5, <2>6, <2>7, OneQueue
    <2> QED
      BY <2>5, <2>6, <2>8 DEF IsPush, r, w
  <1> QED
    BY <1>3, <1>4

(* The event of a pair.                                                    *)
Answer(s, conn, resp) ==
    [gen |-> conn.gen, req |-> Head(s.pending[conn]).msg,
     torn |-> Head(s.pending[conn]).torn \/ resp.torn, resp |-> resp.msg,
     outcome |-> "paired"]

(* What Pair does to each field.                                           *)
IsPair(r, s, conn, resp) ==
    /\ r \in State /\ SameStreams(r, s) /\ r.ws = s.ws /\ r.gone = s.gone
    /\ \/ s.pending[conn] = <<>> /\ r.pending = s.pending /\ r.out = s.out
       \/ /\ s.pending[conn] # <<>>
          /\ r.pending = [s.pending EXCEPT ![conn] = Tail(s.pending[conn])]
          /\ r.out = Append(s.out, Answer(s, conn, resp))
    /\ Books(s, 0) => Books(r, 0)

(* A response takes one request out of its queue and into one event.       *)
LEMMA PairIs ==
  ASSUME NEW s \in State, NEW conn \in Conns, NEW resp \in Message
  PROVE  IsPair(Pair(s, conn, resp), s, conn, resp)
  <1> DEFINE r == Pair(s, conn, resp)
             q == s.pending[conn]
             w == Tail(q)
             np == [s.pending EXCEPT ![conn] = w]
             e == Answer(s, conn, resp)
  <1>1. /\ s.pending \in PendingMap /\ s.total \in Int /\ s.parsed \in Int /\ s.refused \in Int
        /\ q \in Seq(Request) /\ Len(q) \in Nat /\ Len(s.out) \in Nat /\ s.out \in Seq(Event)
    BY QueueFacts, LenProperties DEF State
  <1>2. CASE q = <<>>
    <2>1. r = s
      BY <1>2 DEF Pair
    <2> QED
      BY <1>2, <2>1 DEF IsPair, SameStreams
  <1>3. CASE q # <<>>
    <2>1. r = [s EXCEPT !.pending[conn] = Tail(q), !.total = @ - 1, !.out = Append(@, e)]
      BY <1>3 DEF Pair, Answer
    <2>2. Head(q) \in Request /\ w \in Seq(Request) /\ Len(w) = Len(q) - 1
      BY <1>1, <1>3, HeadTailProperties
    <2>3. e \in Event
      <3> DEFINE h == Head(q)
      <3>1. h.msg \in Nat /\ h.torn \in BOOLEAN /\ resp.msg \in Nat /\ resp.torn \in BOOLEAN
            /\ conn.gen \in Gens
        BY <2>2 DEF Request, Message, Conns
      <3>2. e = [gen |-> conn.gen, req |-> h.msg, torn |-> h.torn \/ resp.torn,
                 resp |-> resp.msg, outcome |-> "paired"]
        BY DEF Answer
      <3> HIDE DEF h, e
      <3>3. (h.torn \/ resp.torn) \in BOOLEAN
        OBVIOUS
      <3> QED
        BY <3>1, <3>2, <3>3 DEF Event
    <2>4. Append(s.out, e) \in Seq(Event) /\ Len(Append(s.out, e)) = Len(s.out) + 1
      BY <1>1, <2>3, AppendProperties
    <2> HIDE DEF r, e
    <2>5. r = [s EXCEPT !.pending = np, !.total = @ - 1, !.out = Append(@, e)]
      BY <2>1 DEF State
    <2>6. np \in PendingMap /\ s.total - 1 \in Int
      BY <1>1, <2>2 DEF PendingMap
    <2> HIDE DEF w
    <2>7. r \in State
      BY <2>4, <2>5, <2>6, Zenon DEF State
    <2>8. /\ SameStreams(r, s) /\ r.ws = s.ws /\ r.out = Append(s.out, e) /\ r.pending = np
          /\ r.total = s.total - 1 /\ r.active = s.active /\ r.parsed = s.parsed
          /\ r.refused = s.refused /\ r.gone = s.gone
      BY <2>5 DEF State, SameStreams
    <2> DEFINE d == 0 - 1
    <2>9. /\ d \in Int /\ r.total = s.total + d /\ r.buffers = s.buffers /\ r.known = s.known
          /\ Len(w) = Len(s.pending[conn]) + d
      BY <1>1, <2>2, <2>8 DEF SameStreams
    <2>b. r.parsed + Len(s.out) + s.refused = s.parsed + d + Len(r.out) + r.refused
      <3> DEFINE a == s.parsed
                 b == s.refused
                 n == Len(s.out)
                 k == Len(r.out)
      <3>1. a \in Int /\ b \in Int /\ n \in Int /\ r.parsed = a /\ r.refused = b /\ k = n + 1
        BY <1>1, <2>4, <2>8
      <3> HIDE DEF a, b, n, k
      <3>2. a + n + b = a + d + k + b
        BY <3>1
      <3> QED
        BY <3>1, <3>2 DEF a, b, n, k
    <2>c. Books(s, 0) => r.total <= MaxTotal
      BY <1>1, <2>8, Constants DEF Books
    <2> HIDE DEF d
    <2>10. Books(s, 0) => Books(r, 0)
      <3> SUFFICES ASSUME Books(s, 0) PROVE Books(r, 0)
        OBVIOUS
      <3>1. r.total <= MaxTotal /\ r.active = s.active /\ r.pending = np
        BY <2>c, <2>8
      <3> QED
        BY <3>1, <2>2, <2>7, <2>9, <2>b, OneQueue
    <2> QED
      BY <1>3, <2>7, <2>8, <2>10 DEF IsPair, r, w, e
  <1> QED
    BY <1>2, <1>3

(* A pushed request is fresh, and joined only if it was before.            *)
LEMMA PushKeeps ==
  ASSUME NEW s \in State, NEW conn \in Conns, NEW req \in Request, NEW r,
         IsPush(r, s, conn, req), NEW t \in Times
  PROVE  /\ (Fresh(s, t) /\ req.ts = t) => Fresh(r, t)
         /\ \A p : (/\ UntornQueues(s, p) /\ req.gen = conn.gen
                    /\ Sound(s, p, conn.gen) => ~req.torn)
                   => UntornQueues(r, p)
         /\ \A p : UntornOut(s, p) => UntornOut(r, p)
  <1> DEFINE q == s.pending[conn]
             w == Append(q, req)
  <1>1. /\ s.pending \in PendingMap /\ q \in Seq(Request) /\ Len(q) \in Nat
        /\ DOMAIN q = 1..Len(q) /\ \A i \in 1..Len(q) : q[i].ts \in Int
    BY QueueFacts DEF State
  <1>2. w \in Seq(Request) /\ Len(w) = Len(q) + 1
        /\ (\A i \in 1..Len(q) : w[i] = q[i]) /\ w[Len(q) + 1] = req
    BY <1>1, AppendProperties
  <1>3. DOMAIN w = 1..(Len(q) + 1)
    BY <1>2, LenProperties
  <1>4. r.pending = s.pending \/ (\A c \in Conns : r.pending[c] = IF c = conn THEN w ELSE s.pending[c])
    BY <1>1 DEF IsPush, PendingMap
  <1>5. \A p, g : Sound(r, p, g) => Sound(s, p, g)
    BY DEF IsPush, Sound
  <1>6. r.last = s.last /\ r.buffers = s.buffers /\ r.out = s.out
    BY DEF IsPush, SameStreams
  <1> HIDE DEF w
  <1>7. ASSUME Fresh(s, t), req.ts = t PROVE Fresh(r, t)
    <2>1. s.last \in Int /\ t \in Int /\ s.last <= t
      BY <1>7, Constants DEF Fresh, State, Times
    <2>2. ASSUME FreshQueue(q, s.last, t) PROVE FreshQueue(w, s.last, t)
      <3> HIDE DEF q
      <3>1. ASSUME NEW i \in DOMAIN w PROVE s.last - w[i].ts < TTL /\ w[i].ts <= t
        <4>1. CASE i = Len(q) + 1
          BY <4>1, <2>1, <1>2, <1>7, Constants
        <4>2. CASE i # Len(q) + 1
          <5>1. i \in DOMAIN q /\ w[i] = q[i]
            BY <4>2, <1>1, <1>2, <1>3
          <5> QED
            BY <5>1, <2>2 DEF FreshQueue
        <4> QED
          BY <4>1, <4>2
      <3>2. ASSUME NEW i \in DOMAIN w, NEW j \in DOMAIN w, i <= j PROVE w[i].ts <= w[j].ts
        <4>1. CASE j = Len(q) + 1
          <5>1. w[j].ts = t
            BY <4>1, <1>2, <1>7
          <5> QED
            BY <5>1, <3>1
        <4>2. CASE j # Len(q) + 1
          <5>1. i \in DOMAIN q /\ w[i] = q[i] /\ j \in DOMAIN q /\ w[j] = q[j]
            BY <3>2, <4>2, <1>1, <1>2, <1>3
          <5> QED
            BY <5>1, <3>2, <2>2 DEF FreshQueue
        <4> QED
          BY <4>1, <4>2
      <3> QED
        BY <3>1, <3>2 DEF FreshQueue
    <2>3. ASSUME NEW c \in Conns PROVE FreshQueue(r.pending[c], r.last, t)
      BY <1>4, <1>6, <1>7, <2>2 DEF Fresh
    <2>4. FreshBuffers(r, t)
      BY <1>6, <1>7 DEF Fresh, FreshBuffers
    <2> QED
      BY <2>1, <2>3, <2>4, <1>6 DEF Fresh
  <1>8. ASSUME NEW p, UntornQueues(s, p), req.gen = conn.gen, Sound(s, p, conn.gen) => ~req.torn
        PROVE  UntornQueues(r, p)
    <2>1. ASSUME NEW i \in DOMAIN w
          PROVE  w[i].gen = conn.gen /\ (Sound(s, p, conn.gen) => ~w[i].torn)
      <3>1. CASE i = Len(q) + 1
        BY <3>1, <1>2, <1>8
      <3>2. CASE i # Len(q) + 1
        <4>1. i \in DOMAIN q /\ w[i] = q[i]
          BY <3>2, <1>1, <1>2, <1>3
        <4> QED
          BY <4>1, <1>8 DEF UntornQueues
      <3> QED
        BY <3>1, <3>2
    <2> QED
      BY <2>1, <1>4, <1>5, <1>8 DEF UntornQueues
  <1>9. ASSUME NEW p, UntornOut(s, p) PROVE UntornOut(r, p)
    BY <1>9, <1>5, <1>6 DEF UntornOut
  <1> QED
    BY <1>7, <1>8, <1>9

(* A pair is joined only if its request or its response was.               *)
LEMMA PairKeeps ==
  ASSUME NEW s \in State, NEW conn \in Conns, NEW resp \in Message, NEW r,
         IsPair(r, s, conn, resp)
  PROVE  /\ \A t : Fresh(s, t) => Fresh(r, t)
         /\ \A p : UntornQueues(s, p) => UntornQueues(r, p)
         /\ \A p : (/\ UntornQueues(s, p) /\ UntornOut(s, p)
                    /\ Sound(s, p, conn.gen) => ~resp.torn)
                   => UntornOut(r, p)
  <1> DEFINE q == s.pending[conn]
             w == Tail(q)
             e == Answer(s, conn, resp)
  <1>1. /\ s.pending \in PendingMap /\ q \in Seq(Request) /\ Len(q) \in Nat
        /\ DOMAIN q = 1..Len(q) /\ s.out \in Seq(Event)
    BY QueueFacts DEF State
  <1>2. r.last = s.last /\ r.buffers = s.buffers /\ r.gone = s.gone
    BY DEF IsPair, SameStreams
  <1>3. \A p, g : Sound(r, p, g) = Sound(s, p, g)
    BY <1>2 DEF Sound
  <1>4. CASE q = <<>>
    <2>1. r.pending = s.pending /\ r.out = s.out
      BY <1>4 DEF IsPair
    <2> QED
      BY <2>1, <1>2, <1>3 DEF Fresh, FreshBuffers, UntornQueues, UntornOut
  <1>5. CASE q # <<>>
    <2>1. Head(q) = q[1] /\ 1 \in DOMAIN q
      BY <1>1, <1>5, EmptySeq
    <2>2. w \in Seq(Request) /\ Len(w) = Len(q) - 1 /\ \A i \in 1..Len(w) : w[i] = q[i + 1]
      BY <1>1, <1>5, HeadTailProperties
    <2>3. DOMAIN w = 1..Len(w)
      BY <2>2, LenProperties
    <2>4. /\ \A c \in Conns : r.pending[c] = IF c = conn THEN w ELSE s.pending[c]
          /\ r.out = Append(s.out, e)
      BY <1>1, <1>5 DEF IsPair, PendingMap
    <2> HIDE DEF w
    <2>5. \A i \in DOMAIN w : i + 1 \in DOMAIN q /\ w[i] = q[i + 1]
      BY <1>1, <2>2, <2>3
    <2>6. ASSUME NEW t, Fresh(s, t) PROVE Fresh(r, t)
      <3>1. FreshQueue(q, s.last, t)
        BY <2>6 DEF Fresh
      <3>2. \A i, j \in DOMAIN w : i <= j => i + 1 <= j + 1
        BY <1>1, <2>2, <2>3
      <3> HIDE DEF q
      <3>3. FreshQueue(w, s.last, t)
        BY <3>1, <3>2, <2>5 DEF FreshQueue
      <3> QED
        BY <3>3, <2>4, <2>6, <1>2 DEF Fresh, FreshBuffers
    <2>7. ASSUME NEW p, UntornQueues(s, p) PROVE UntornQueues(r, p)
      BY <2>4, <2>5, <2>7, <1>3 DEF UntornQueues
    <2>8. ASSUME NEW p, UntornQueues(s, p), UntornOut(s, p), Sound(s, p, conn.gen) => ~resp.torn
          PROVE  UntornOut(r, p)
      <3>1. e.gen = conn.gen /\ e.torn = (q[1].torn \/ resp.torn)
        BY <2>1 DEF Answer
      <3>2. Sound(s, p, conn.gen) => ~q[1].torn
        BY <2>1, <2>8 DEF UntornQueues
      <3>3. /\ DOMAIN Append(s.out, e) = 1..(Len(s.out) + 1) /\ DOMAIN s.out = 1..Len(s.out)
            /\ (\A i \in 1..Len(s.out) : Append(s.out, e)[i] = s.out[i])
            /\ Append(s.out, e)[Len(s.out) + 1] = e /\ Len(s.out) \in Nat
        BY <1>1, LenProperties
      <3> HIDE DEF e
      <3>4. ASSUME NEW i \in DOMAIN r.out, Sound(r, p, r.out[i].gen) PROVE ~r.out[i].torn
        <4>1. CASE i = Len(s.out) + 1
          <5>1. r.out[i] = e
            BY <4>1, <3>3, <2>4
          <5>2. Sound(s, p, conn.gen)
            BY <5>1, <3>1, <3>4, <1>3
          <5>3. ~q[1].torn /\ ~resp.torn
            BY <5>2, <3>2, <2>8
          <5>4. ~e.torn
            BY <5>3, <3>1, Zenon
          <5> QED
            BY <5>1, <5>4
        <4>2. CASE i # Len(s.out) + 1
          <5>1. i \in DOMAIN s.out /\ r.out[i] = s.out[i]
            BY <4>2, <3>3, <2>4
          <5> QED
            BY <5>1, <3>4, <2>8, <1>3 DEF UntornOut
        <4> QED
          BY <4>1, <4>2
      <3> QED
        BY <3>4 DEF UntornOut
    <2> QED
      BY <2>6, <2>7, <2>8
  <1> QED
    BY <1>4, <1>5

(* What Deliver does.                                                      *)
IsDeliver(r, s, conn, dir, kind, m, t) ==
    /\ r \in State /\ SameStreams(r, s)
    /\ \/ r.ws = s.ws
       \/ r.ws = s.ws \cup {conn} /\ dir = "response" /\ kind = "upgrade"
    /\ s.gone \subseteq r.gone
    /\ \A l \in r.gone : l \in s.gone \/ l.what = "request"
    /\ Books(s, 0) => Books(r, 0)
    /\ Fresh(s, t) => Fresh(r, t)
    /\ \A p : (/\ UntornQueues(s, p) /\ UntornOut(s, p)
               /\ Sound(s, p, conn.gen) => ~m.torn)
              => UntornQueues(r, p) /\ UntornOut(r, p)

(* Whatever the message, delivering it changes no stream and keeps the     *)
(* books.                                                                  *)
LEMMA DeliverIs ==
  ASSUME NEW s \in State, NEW conn \in Conns, NEW dir \in Dirs, NEW kind, NEW m \in Message,
         NEW t \in Times
  PROVE  IsDeliver(Deliver(s, conn, dir, kind, m, t), s, conn, dir, kind, m, t)
  <1> DEFINE r == Deliver(s, conn, dir, kind, m, t)
  <1>1. CASE dir = "request"
    <2> DEFINE req == [gen |-> conn.gen, msg |-> m.msg, torn |-> m.torn, ts |-> t]
    <2>1. r = Push(s, conn, req)
      BY <1>1 DEF Deliver
    <2>2. conn.gen \in Gens /\ m.msg \in Nat /\ m.torn \in BOOLEAN
      BY DEF Conns, Message
    <2>3. req \in Request /\ req.gen = conn.gen /\ req.torn = m.torn /\ req.ts = t
      BY <2>2 DEF Request
    <2> HIDE DEF req
    <2>4. IsPush(r, s, conn, req)
      BY <2>1, <2>3, PushIs
    <2> HIDE DEF r
    <2>5. /\ Fresh(s, t) => Fresh(r, t)
          /\ \A p : (UntornQueues(s, p) /\ (Sound(s, p, conn.gen) => ~m.torn)) => UntornQueues(r, p)
          /\ \A p : UntornOut(s, p) => UntornOut(r, p)
      BY <2>3, <2>4, PushKeeps
    <2> QED
      BY <2>4, <2>5 DEF IsPush, IsDeliver, r
  <1>2. CASE dir # "request" /\ kind = "interim"
    <2>1. r = s
      BY <1>2 DEF Deliver
    <2> QED
      BY <2>1 DEF IsDeliver, SameStreams
  <1>3. CASE dir # "request" /\ kind = "upgrade"
    <2> DEFINE u == [s EXCEPT !.ws = @ \cup {conn}]
    <2>1. r = Pair(u, conn, m) /\ dir = "response"
      BY <1>3 DEF Deliver, Dirs
    <2>2. s.ws \cup {conn} \in SUBSET Conns
      BY DEF State
    <2>3. u \in State
      BY <2>2, Zenon DEF State
    <2>4. /\ SameStreams(u, s) /\ u.ws = s.ws \cup {conn} /\ u.gone = s.gone
          /\ u.pending = s.pending /\ u.out = s.out
          /\ u.total = s.total /\ u.active = s.active /\ u.parsed = s.parsed
          /\ u.refused = s.refused
      BY DEF State, SameStreams
    <2> HIDE DEF u, r
    <2>5. IsPair(r, u, conn, m)
      BY <2>1, <2>3, PairIs
    <2>6. /\ Sizes(u) = Sizes(s) /\ Lens(u) = Lens(s)
      BY <2>4 DEF SameStreams, Sizes, Lens
    <2>7. (Books(s, 0) => Books(u, 0)) /\ (\A k : Fresh(s, k) => Fresh(u, k))
      BY <2>4, <2>6 DEF SameStreams, Books, Fresh, FreshBuffers
    <2>8. \A p : /\ UntornQueues(s, p) => UntornQueues(u, p)
                 /\ UntornOut(s, p) => UntornOut(u, p)
                 /\ Sound(u, p, conn.gen) = Sound(s, p, conn.gen)
      BY <2>4 DEF UntornQueues, UntornOut, Sound
    <2>9. /\ Fresh(u, t) => Fresh(r, t)
          /\ \A p : UntornQueues(u, p) => UntornQueues(r, p)
          /\ \A p : (UntornQueues(u, p) /\ UntornOut(u, p) /\ (Sound(u, p, conn.gen) => ~m.torn))
                    => UntornOut(r, p)
      BY <2>3, <2>5, PairKeeps
    <2>10. /\ r \in State /\ SameStreams(r, s) /\ r.ws = s.ws \cup {conn} /\ r.gone = s.gone
           /\ (Books(u, 0) => Books(r, 0))
      BY <2>4, <2>5 DEF IsPair, SameStreams
    <2> QED
      BY <1>3, <2>1, <2>7, <2>8, <2>9, <2>10 DEF IsDeliver, r
  <1>4. CASE dir # "request" /\ kind # "interim" /\ kind # "upgrade"
    <2>1. r = Pair(s, conn, m)
      BY <1>4 DEF Deliver
    <2> HIDE DEF r
    <2>2. IsPair(r, s, conn, m)
      BY <2>1, PairIs
    <2>3. /\ Fresh(s, t) => Fresh(r, t)
          /\ \A p : UntornQueues(s, p) => UntornQueues(r, p)
          /\ \A p : (UntornQueues(s, p) /\ UntornOut(s, p) /\ (Sound(s, p, conn.gen) => ~m.torn))
                    => UntornOut(r, p)
      BY <2>2, PairKeeps
    <2>4. /\ r \in State /\ SameStreams(r, s) /\ r.ws = s.ws /\ r.gone = s.gone
          /\ (Books(s, 0) => Books(r, 0))
      BY <2>2 DEF IsPair
    <2> QED
      BY <2>3, <2>4 DEF IsDeliver, r
  <1> QED
    BY <1>1, <1>2, <1>3, <1>4

(* Only the buffer, the decoder and the gap mark of x change.              *)
StreamStep(r, s, x, b, d, gaps) ==
    /\ r \in State
    /\ r.buffers = [s.buffers EXCEPT ![x] = b]
    /\ r.decoders = [s.decoders EXCEPT ![x] = d]
    /\ r.gapped = gaps
    /\ r.pending = s.pending /\ r.known = s.known /\ r.born = s.born /\ r.roles = s.roles
    /\ r.ws = s.ws /\ r.last = s.last /\ r.out = s.out /\ r.gone = s.gone
    /\ Books(s, 0) => Books(r, 0)

Size(b) == IF b = NoBuffer THEN 0 ELSE b.len

(* The books when one stream changes.                                      *)
LEMMA OneStream ==
  ASSUME NEW s \in State, NEW x \in Streams, NEW b \in Buffered \cup {NoBuffer},
         NEW d \in Message, NEW gaps \in SUBSET Streams, NEW n \in Int, NEW r,
         n = s.total - Size(s.buffers[x]) + Size(b),
         Books(s, 0) => n <= MaxTotal,
         r = [s EXCEPT !.total = n, !.buffers = [s.buffers EXCEPT ![x] = b],
                       !.decoders = [s.decoders EXCEPT ![x] = d], !.gapped = gaps]
  PROVE  StreamStep(r, s, x, b, d, gaps)
  <1> DEFINE nb == [s.buffers EXCEPT ![x] = b]
             nd == [s.decoders EXCEPT ![x] = d]
  <1>1. s.buffers \in BufferMap /\ s.decoders \in DecoderMap
    BY DEF State
  <1>2. nb \in BufferMap /\ nd \in DecoderMap /\ nb[x] = b /\ \A y \in Streams \ {x} : nb[y] = s.buffers[y]
    BY <1>1 DEF BufferMap, DecoderMap
  <1> HIDE DEF nb, nd
  <1>3. r = [s EXCEPT !.total = n, !.buffers = nb, !.decoders = nd, !.gapped = gaps]
    BY DEF nb, nd
  <1>4. r \in State
    BY <1>2, <1>3, ZenonT(40) DEF State
  <1>5. /\ r.buffers = nb /\ r.decoders = nd /\ r.gapped = gaps /\ r.total = n
        /\ r.pending = s.pending /\ r.known = s.known /\ r.born = s.born /\ r.roles = s.roles
        /\ r.ws = s.ws /\ r.last = s.last /\ r.out = s.out /\ r.gone = s.gone
        /\ r.active = s.active /\ r.parsed = s.parsed /\ r.refused = s.refused
    BY <1>3 DEF State
  <1>6. ASSUME Books(s, 0) PROVE Books(r, 0)
    <2> DEFINE S == Total(Sizes(s), Streams)
               R == Total(Sizes(r), Streams)
               W == Total(Lens(s), Conns)
               sl == Sizes(s)[x]
               rl == Sizes(r)[x]
               tt == s.total
    <2>1. S \in Nat /\ R \in Nat /\ W \in Nat /\ sl \in Nat /\ rl \in Nat /\ tt \in Int
      BY <1>4, SizesType DEF State
    <2>2. \A y \in Streams \ {x} : Sizes(r)[y] = Sizes(s)[y]
      BY <1>2, <1>5 DEF Sizes
    <2>3. R = S - sl + rl
      BY <2>1, <2>2, SizesType, Finite, TotalChange
    <2>4. sl = Size(s.buffers[x]) /\ rl = Size(b)
      <3>1. sl = Size(s.buffers[x])
        BY DEF Sizes, Size
      <3>2. rl = Size(r.buffers[x])
        BY DEF Sizes, Size
      <3>3. r.buffers[x] = b
        BY <1>2, <1>5
      <3> QED
        BY <3>1, <3>2, <3>3
    <2>5. n = tt - sl + rl /\ tt = S + W + 0
      BY <2>4, <1>6 DEF Books
    <2>6. Lens(r) = Lens(s)
      BY <1>5 DEF Lens
    <2>7. n <= MaxTotal
      BY <1>6
    <2> HIDE DEF S, R, W, sl, rl, tt
    <2>8. n = R + W + 0
      BY <2>1, <2>3, <2>5
    <2> QED
      BY <2>6, <2>7, <2>8, <1>5, <1>6 DEF Books, R, W
  <1> QED
    BY <1>4, <1>5, <1>6 DEF StreamStep, nb, nd

(* What the type of a state says of its buffers and decoders.              *)
LEMMA Buffers ==
  ASSUME NEW s \in State, NEW x \in Streams
  PROVE  /\ s.buffers \in BufferMap /\ s.decoders \in DecoderMap /\ s.gapped \in SUBSET Streams
         /\ s.buffers[x] \in Buffered \cup {NoBuffer} /\ s.decoders[x] \in Message
         /\ s.total \in Int /\ Size(s.buffers[x]) \in Nat
         /\ Held(s, {x}) = Size(s.buffers[x])
         /\ Current(s, x) \in Message
         /\ x.gen \in Gens /\ x.dir \in Dirs
  <1>1. s.buffers \in BufferMap /\ s.decoders \in DecoderMap /\ s.gapped \in SUBSET Streams /\ s.total \in Int
    BY DEF State
  <1>2. s.buffers[x] \in Buffered \cup {NoBuffer} /\ s.decoders[x] \in Message
    BY <1>1 DEF BufferMap, DecoderMap
  <1>3. Size(s.buffers[x]) \in Nat
    BY <1>2 DEF Size, Buffered
  <1>4. Held(s, {x}) = Size(s.buffers[x])
    <2>1. Held(s, {x}) = Total(Sizes(s), {x})
      BY SizesType
    <2>2. Sizes(s)[x] = Size(s.buffers[x])
      BY DEF Sizes, Size
    <2> QED
      BY <2>1, <2>2, <1>3, TotalOne
  <1>5. s.buffers[x].msg \in Nat /\ s.buffers[x].torn \in BOOLEAN
    <2> DEFINE b == s.buffers[x]
    <2>1. b \in Buffered \/ b = NoBuffer
      BY <1>2
    <2> HIDE DEF b
    <2>2. b.msg \in Nat /\ b.torn \in BOOLEAN
      <3>1. CASE b \in Buffered
        BY <3>1 DEF Buffered
      <3>2. CASE b = NoBuffer
        BY <3>2 DEF NoBuffer
      <3> QED
        BY <2>1, <3>1, <3>2
    <2> QED
      BY <2>2 DEF b
  <1>6. Current(s, x) \in Message
    BY <1>2, <1>5 DEF Current, Message
  <1> QED
    BY <1>1, <1>2, <1>3, <1>4, <1>6 DEF Streams

(* A buffer without bytes is a buffer.                                     *)
LEMMA EmptyIs ==
  ASSUME NEW t \in Times
  PROVE  /\ Empty(t) \in Buffered /\ Empty(t) # NoBuffer /\ Size(Empty(t)) = 0
         /\ Empty(t).seen = t /\ Empty(t).msg = 0 /\ Empty(t).len = 0
         /\ Size(NoBuffer) = 0 /\ NoBuffer.msg = 0
         /\ NoMsg \in Message /\ NoMsg.msg = 0
  <1>1. Empty(t).len # NoBuffer.len
    BY DEF Empty, NoBuffer
  <1>2. Empty(t) # NoBuffer
    BY <1>1
  <1> QED
    BY <1>2 DEF Empty, Buffered, NoBuffer, Size, NoMsg, Message

(* Giving up a stream returns what it held.                                *)
LEMMA GapIs ==
  ASSUME NEW s \in State, NEW x \in Streams, NEW b \in Buffered \cup {NoBuffer}, Size(b) = 0
  PROVE  StreamStep(Gap(s, x, b), s, x, b, NoMsg, s.gapped \cup {x})
  <1> DEFINE n == s.total - Held(s, {x})
             gaps == s.gapped \cup {x}
             r == Gap(s, x, b)
  <1>1. r = [s EXCEPT !.total = n, !.buffers = [s.buffers EXCEPT ![x] = b],
                      !.decoders = [s.decoders EXCEPT ![x] = NoMsg], !.gapped = gaps]
    BY DEF Gap, State
  <1>2. n \in Int /\ n = s.total - Size(s.buffers[x]) + Size(b) /\ gaps \in SUBSET Streams
    <2> DEFINE tt == s.total
               z == Size(s.buffers[x])
    <2>1. n = tt - z /\ tt \in Int /\ z \in Nat /\ gaps \in SUBSET Streams
      BY Buffers
    <2> HIDE DEF tt, z, n
    <2>2. n \in Int /\ n = tt - z + Size(b)
      BY <2>1
    <2> QED
      BY <2>1, <2>2 DEF tt, z
  <1>3. Books(s, 0) => n <= MaxTotal
    <2>1. Size(s.buffers[x]) \in Nat /\ s.total \in Int /\ n = s.total - Size(s.buffers[x])
      BY Buffers
    <2> QED
      BY <2>1, Constants DEF Books
  <1>4. NoMsg \in Message
    BY DEF NoMsg, Message
  <1> HIDE DEF n, gaps, r
  <1>5. StreamStep(r, s, x, b, NoMsg, gaps)
    BY <1>1, <1>2, <1>3, <1>4, OneStream
  <1> QED
    BY <1>5 DEF r, gaps
(* Feed's record of a stream whose bytes were decoded, and of one whose    *)
(* header is incomplete.                                                   *)
Drained(s, x, d, t) ==
    [[s EXCEPT !.total = @ - s.buffers[x].len, !.buffers[x] = Empty(t)] EXCEPT !.decoders[x] = d]

Headed(s, x, m) == [s EXCEPT !.buffers[x].msg = m.msg, !.buffers[x].torn = m.torn]

(* Decoding the bytes of a stream returns what they held.                  *)
LEMMA DrainedIs ==
  ASSUME NEW s \in State, NEW x \in Streams, s.buffers[x] # NoBuffer, NEW d \in Message,
         NEW t \in Times
  PROVE  StreamStep(Drained(s, x, d, t), s, x, Empty(t), d, s.gapped)
  <1> DEFINE n == s.total - s.buffers[x].len
             b == Empty(t)
             r == Drained(s, x, d, t)
             gaps == s.gapped
  <1>1. r = [s EXCEPT !.total = n, !.buffers = [s.buffers EXCEPT ![x] = b],
                      !.decoders = [s.decoders EXCEPT ![x] = d], !.gapped = gaps]
    BY DEF Drained, State
  <1>2. b \in Buffered \cup {NoBuffer} /\ Size(b) = 0
    BY EmptyIs
  <1>3. n \in Int /\ n = s.total - Size(s.buffers[x]) + Size(b) /\ gaps \in SUBSET Streams
        /\ n <= s.total /\ s.total \in Int
    <2> DEFINE tt == s.total
               z == Size(s.buffers[x])
    <2>1. n = tt - z /\ tt \in Int /\ z \in Nat /\ gaps \in SUBSET Streams
      BY Buffers DEF Size
    <2> HIDE DEF tt, z, n, b
    <2>2. n \in Int /\ n = tt - z + Size(b) /\ n <= tt
      BY <1>2, <2>1
    <2> QED
      BY <2>1, <2>2 DEF tt, z
  <1>4. Books(s, 0) => n <= MaxTotal
    BY <1>3, Constants DEF Books
  <1> HIDE DEF n, gaps, r, b
  <1>5. StreamStep(r, s, x, b, d, gaps)
    BY <1>1, <1>2, <1>3, <1>4, OneStream
  <1> QED
    BY <1>5 DEF r, gaps, b

(* A buffer whose header names message m.                                  *)
WithHead(b, m) == [b EXCEPT !.msg = m.msg, !.torn = m.torn]

(* An incomplete header changes nothing that is counted.                   *)
LEMMA HeadedIs ==
  ASSUME NEW s \in State, NEW x \in Streams, s.buffers[x] # NoBuffer, NEW m \in Message
  PROVE  /\ StreamStep(Headed(s, x, m), s, x, WithHead(s.buffers[x], m), s.decoders[x], s.gapped)
         /\ WithHead(s.buffers[x], m).msg = m.msg /\ WithHead(s.buffers[x], m).torn = m.torn
         /\ WithHead(s.buffers[x], m).seen = s.buffers[x].seen
         /\ WithHead(s.buffers[x], m) # NoBuffer
  <1> DEFINE o == s.buffers[x]
             b == WithHead(o, m)
             n == s.total
             d == s.decoders[x]
             r == Headed(s, x, m)
             gaps == s.gapped
  <1>1. s.buffers \in BufferMap /\ s.decoders \in DecoderMap /\ o \in Buffered /\ d \in Message
        /\ n \in Int /\ gaps \in SUBSET Streams
    BY Buffers
  <1>2. m.msg \in Nat /\ m.torn \in BOOLEAN
    BY DEF Message
  <1>3. b \in Buffered /\ b.msg = m.msg /\ b.torn = m.torn /\ b.seen = o.seen /\ b.len = o.len
    BY <1>1, <1>2 DEF Buffered, WithHead
  <1>4. b # NoBuffer
    <2>1. b.len \in Nat /\ NoBuffer.len = -1
      BY <1>3 DEF Buffered, NoBuffer
    <2> QED
      BY <2>1
  <1>5. Size(b) = Size(o) /\ Size(o) \in Nat
    BY <1>3, <1>4, Buffers DEF Size
  <1>6. r = [s EXCEPT !.buffers = [s.buffers EXCEPT ![x] = b]]
    BY <1>1 DEF Headed, WithHead, BufferMap, State
  <1>7. s.decoders = [s.decoders EXCEPT ![x] = d]
    BY <1>1 DEF DecoderMap
  <1>8. s = [s EXCEPT !.total = n, !.decoders = s.decoders, !.gapped = gaps]
    BY DEF State
  <1>9. r = [s EXCEPT !.total = n, !.buffers = [s.buffers EXCEPT ![x] = b],
                      !.decoders = [s.decoders EXCEPT ![x] = d], !.gapped = gaps]
    BY <1>6, <1>7, <1>8 DEF State
  <1>10. n = s.total - Size(s.buffers[x]) + Size(b)
    <2> DEFINE z == Size(o)
    <2> HIDE DEF z, b
    <2>1. n = n - z + Size(b)
      BY <1>1, <1>5 DEF z
    <2> QED
      BY <2>1 DEF z
  <1>11. Books(s, 0) => n <= MaxTotal
    BY DEF Books
  <1>12. b \in Buffered \cup {NoBuffer}
    BY <1>3
  <1>13. StreamStep(r, s, x, b, d, gaps)
    <2> HIDE DEF n, gaps, r, b, d
    <2> QED
      BY <1>1, <1>9, <1>10, <1>11, <1>12, OneStream
  <1> QED
    BY <1>3, <1>4, <1>13

(* The part of the invariant about stream x.                               *)
Lined(s, p, x) ==
    /\ InLine(s.decoders[x].msg, s.decoders[x].torn, p, x)
    /\ InLine(s.buffers[x].msg, s.buffers[x].torn, p, x)

(* The invariant without the part about stream x.                          *)
Rest(s, x, t, p) ==
    /\ s \in State /\ Books(s, 0) /\ Fresh(s, t)
    /\ UntornQueues(s, p) /\ UntornOut(s, p) /\ Upgraded(s, p) /\ GapsEmpty(s)
    /\ \A y \in Streams \ {x} : Sound(s, p, y.gen) => Lined(s, p, y)

(* The invariant of a state, at time t, with what the peers have sent.     *)
Kept(s, t, p) ==
    /\ s \in State /\ Books(s, 0) /\ Fresh(s, t) /\ Untorn(s, p)

(* The invariant is its part on all other streams and its part on x.       *)
LEMMA RestKept ==
  ASSUME NEW s, NEW t, NEW p, NEW x \in Streams
  PROVE  Kept(s, t, p) <=> (Rest(s, x, t, p) /\ (Sound(s, p, x.gen) => Lined(s, p, x)))
  BY DEF Kept, Rest, Untorn, UntornStreams, Lined

(* FreshBuffers, for one buffer.                                           *)
FreshBuffer(b, last, t) == b # NoBuffer => last - b.seen < TTL /\ b.seen <= t

(* A step of one stream leaves the invariant of the others alone.          *)
LEMMA StepRest ==
  ASSUME NEW s, NEW x \in Streams, NEW t, NEW p, Rest(s, x, t, p),
         NEW r, NEW b, NEW d, NEW gaps, StreamStep(r, s, x, b, d, gaps),
         FreshBuffer(b, s.last, t), gaps \subseteq s.gapped \cup {x},
         x \in gaps => d.msg = 0 /\ b.msg = 0
  PROVE  /\ Rest(r, x, t, p)
         /\ r.buffers[x] = b /\ r.decoders[x] = d /\ r.gapped = gaps /\ r.last = s.last
         /\ \A q, g : Sound(r, q, g) <=> Sound(s, q, g)
  <1>1. s \in State /\ r \in State
    BY DEF Rest, StreamStep
  <1>2. /\ r.buffers[x] = b /\ r.decoders[x] = d
        /\ \A y \in Streams \ {x} : r.buffers[y] = s.buffers[y] /\ r.decoders[y] = s.decoders[y]
    BY <1>1 DEF StreamStep, State, BufferMap, DecoderMap
  <1>3. /\ r.pending = s.pending /\ r.ws = s.ws /\ r.last = s.last /\ r.out = s.out
        /\ r.gone = s.gone /\ r.gapped = gaps /\ gaps \in SUBSET Streams
    BY <1>1 DEF StreamStep, State
  <1>4. \A q, g : Sound(r, q, g) <=> Sound(s, q, g)
    BY <1>3 DEF Sound
  <1>5. Books(r, 0)
    BY DEF Rest, StreamStep
  <1>6. Fresh(r, t)
    <2>1. FreshBuffers(r, t)
      BY <1>2, <1>3 DEF Rest, Fresh, FreshBuffers, FreshBuffer
    <2> QED
      BY <2>1, <1>3 DEF Rest, Fresh
  <1>7. UntornQueues(r, p) /\ UntornOut(r, p) /\ Upgraded(r, p)
    BY <1>3, <1>4 DEF Rest, UntornQueues, UntornOut, Upgraded
  <1>8. GapsEmpty(r)
    BY <1>2, <1>3 DEF Rest, GapsEmpty
  <1>9. \A y \in Streams \ {x} : Sound(r, p, y.gen) => Lined(r, p, y)
    BY <1>2, <1>4 DEF Rest, Lined
  <1> QED
    BY <1>1, <1>2, <1>3, <1>4, <1>5, <1>6, <1>7, <1>8, <1>9 DEF Rest

(* So does the delivery of a message.                                      *)
LEMMA DeliverRest ==
  ASSUME NEW s, NEW x \in Streams, NEW t \in Times, NEW p, Rest(s, x, t, p),
         NEW r, NEW conn \in Conns, NEW dir, NEW kind, NEW m,
         IsDeliver(r, s, conn, dir, kind, m, t),
         dir = "response" /\ kind = "upgrade" => p[conn.gen].ws,
         Sound(s, p, conn.gen) => ~m.torn
  PROVE  /\ Rest(r, x, t, p)
         /\ r.buffers = s.buffers /\ r.decoders = s.decoders
  <1>1. /\ r \in State /\ r.buffers = s.buffers /\ r.decoders = s.decoders /\ r.gapped = s.gapped
        /\ s.gone \subseteq r.gone
    BY DEF IsDeliver, SameStreams
  <1>2. \A g : Sound(r, p, g) => Sound(s, p, g)
    BY <1>1 DEF Sound
  <1>3. Books(r, 0) /\ Fresh(r, t)
    BY DEF Rest, IsDeliver
  <1>4. UntornQueues(r, p) /\ UntornOut(r, p)
    BY DEF Rest, IsDeliver
  <1>5. Upgraded(r, p)
    BY DEF Rest, IsDeliver, Upgraded
  <1>6. GapsEmpty(r)
    BY <1>1 DEF Rest, GapsEmpty
  <1>7. \A y \in Streams \ {x} : Sound(r, p, y.gen) => Lined(r, p, y)
    BY <1>1, <1>2 DEF Rest, Lined
  <1> QED
    BY <1>1, <1>3, <1>4, <1>5, <1>6, <1>7 DEF Rest

(* What the peers may send, and what sending it on stream x does to        *)
(* them.                                                                   *)
ChunkParts == {"whole", "head", "body", "tail", "frame"}
Chunks == [part : ChunkParts, kind : {"final", "interim", "upgrade"}, msg : Nat]

Follows(p, q, x, c) ==
    /\ \A g \in Gens : "lost" \in p[g].hurt => "lost" \in q[g].hurt
    /\ \A y \in Streams \ {x} : /\ y.dir \in p[y.gen].open => y.dir \in q[y.gen].open
                                /\ Count(q, y) = Count(p, y)
    /\ x.dir \in p[x.gen].open => c.part = "tail" /\ c.msg = Count(p, x) + 1
    /\ c.part \in {"head", "body"} => x.dir \in q[x.gen].open /\ c.msg = Count(q, x) + 1
    /\ \A g \in Gens : p[g].ws => q[g].ws
    /\ c.kind = "upgrade" => q[x.gen].ws
    /\ p[x.gen].ws => p[x.gen].open = {}

(* Http1Decoder::feed: after the chunk, the stream is again in the         *)
(* middle of what its peer is in the middle of, and nothing was joined.    *)
LEMMA FeedRest ==
  ASSUME NEW s, NEW x \in Streams, NEW t \in Times, NEW p, NEW q, NEW c \in Chunks,
         NEW conn \in Conns, conn.gen = x.gen,
         Rest(s, x, t, q), Follows(p, q, x, c), x \notin s.gapped, s.buffers[x] # NoBuffer,
         Sound(s, q, x.gen) => Lined(s, p, x),
         NEW r \in Feed(s, conn, x, c, t)
  PROVE  Rest(r, x, t, q) /\ (Sound(r, q, x.gen) => Lined(r, q, x))
  <1> DEFINE cur == Current(s, x)
             inBody == s.decoders[x] # NoMsg
             joined == [msg |-> cur.msg, torn |-> TRUE]
             clean == [msg |-> c.msg, torn |-> FALSE]
             message(m) == Deliver(Drained(s, x, NoMsg, t), conn, x.dir, c.kind, m, t)
             continues == CASE c.part = "tail"  -> cur = clean
                            [] c.part = "frame" -> FALSE
                            [] OTHER            -> cur = NoMsg
  <1>s. s \in State
    BY DEF Rest
  <1>t. cur \in Message /\ joined \in Message /\ clean \in Message
    <2>1. cur \in Message
      BY <1>s, Buffers
    <2>2. cur.msg \in Nat /\ c.msg \in Nat
      BY <2>1 DEF Message, Chunks
    <2> QED
      BY <2>1, <2>2 DEF Message
  <1>1. r \in IF continues
              THEN {CASE c.part = "head" -> Headed(s, x, clean)
                      [] c.part = "body" -> Drained(s, x, clean, t)
                      [] OTHER -> message(clean)}
              ELSE {Gap(s, x, Empty(t)),
                    IF inBody THEN Drained(s, x, joined, t) ELSE Headed(s, x, joined)}
                   \cup (IF cur.msg = 0 THEN {} ELSE {message(joined)})
    BY DEF Feed, Drained, Headed
  <1>2. FreshBuffer(s.buffers[x], s.last, t) /\ FreshBuffer(Empty(t), s.last, t)
    <2>1. FreshBuffer(s.buffers[x], s.last, t)
      BY DEF Rest, Fresh, FreshBuffers, FreshBuffer
    <2>2. s.last <= t /\ s.last \in Int /\ t \in Int /\ Empty(t).seen = t
      BY <1>s, EmptyIs, Constants DEF Rest, Fresh, State, Times
    <2>3. s.last - t < TTL /\ t <= t
      BY <2>2, Constants
    <2> QED
      BY <2>1, <2>2, <2>3 DEF FreshBuffer
  <1>3. ASSUME NEW m \in Message, r = Drained(s, x, m, t), Sound(s, q, x.gen) => InLine(m.msg, m.torn, q, x)
        PROVE  Rest(r, x, t, q) /\ (Sound(r, q, x.gen) => Lined(r, q, x))
    <2>1. StreamStep(r, s, x, Empty(t), m, s.gapped)
      BY <1>3, <1>s, DrainedIs
    <2>2. /\ Rest(r, x, t, q) /\ r.buffers[x] = Empty(t) /\ r.decoders[x] = m
          /\ (Sound(r, q, x.gen) <=> Sound(s, q, x.gen))
      BY <2>1, <1>2, StepRest
    <2>3. Empty(t).msg = 0
      BY EmptyIs
    <2> QED
      BY <1>3, <2>2, <2>3 DEF Lined, InLine
  <1>4. ASSUME NEW m \in Message, r = Headed(s, x, m), ~inBody,
               Sound(s, q, x.gen) => InLine(m.msg, m.torn, q, x)
        PROVE  Rest(r, x, t, q) /\ (Sound(r, q, x.gen) => Lined(r, q, x))
    <2> DEFINE b == WithHead(s.buffers[x], m)
    <2>1. /\ StreamStep(r, s, x, b, s.decoders[x], s.gapped)
          /\ b.msg = m.msg /\ b.torn = m.torn /\ b.seen = s.buffers[x].seen
      BY <1>4, <1>s, HeadedIs
    <2> HIDE DEF b
    <2>2. FreshBuffer(b, s.last, t)
      BY <2>1, <1>2 DEF FreshBuffer
    <2>3. /\ Rest(r, x, t, q) /\ r.buffers[x] = b /\ r.decoders[x] = s.decoders[x]
          /\ (Sound(r, q, x.gen) <=> Sound(s, q, x.gen))
      BY <2>1, <2>2, StepRest
    <2>4. s.decoders[x].msg = 0
      BY <1>4 DEF NoMsg
    <2> QED
      BY <1>4, <2>1, <2>3, <2>4 DEF Lined, InLine
  <1>5. ASSUME NEW m \in Message, r = message(m), Sound(s, q, x.gen) => ~m.torn
        PROVE  Rest(r, x, t, q) /\ (Sound(r, q, x.gen) => Lined(r, q, x))
    <2> DEFINE u == Drained(s, x, NoMsg, t)
    <2>0. NoMsg \in Message /\ NoMsg.msg = 0 /\ Empty(t).msg = 0
      BY EmptyIs
    <2>1. StreamStep(u, s, x, Empty(t), NoMsg, s.gapped)
      BY <2>0, <1>s, DrainedIs
    <2> HIDE DEF u
    <2>2. /\ Rest(u, x, t, q) /\ u.buffers[x] = Empty(t) /\ u.decoders[x] = NoMsg
          /\ (Sound(u, q, x.gen) <=> Sound(s, q, x.gen))
      BY <2>1, <1>2, StepRest
    <2>3. u \in State /\ x.dir \in Dirs
      BY <1>s, <2>2, Buffers DEF Rest
    <2>4. IsDeliver(r, u, conn, x.dir, c.kind, m, t)
      BY <1>5, <2>3, DeliverIs DEF u
    <2>5. c.kind = "upgrade" => q[conn.gen].ws
      BY DEF Follows
    <2>6. Rest(r, x, t, q) /\ r.buffers = u.buffers /\ r.decoders = u.decoders
      <3>1. Sound(u, q, conn.gen) => ~m.torn
        BY <1>5, <2>2
      <3>2. x.dir = "response" /\ c.kind = "upgrade" => q[conn.gen].ws
        BY <2>5
      <3>3. Rest(u, x, t, q)
        BY <2>2
      <3> QED
        BY <3>1, <3>2, <3>3, <2>4, DeliverRest
    <2> QED
      BY <2>0, <2>2, <2>6 DEF Lined, InLine
  <1>6. CASE r = Gap(s, x, Empty(t))
    <2>0. /\ Empty(t) \in Buffered \cup {NoBuffer} /\ Size(Empty(t)) = 0 /\ NoMsg.msg = 0
          /\ Empty(t).msg = 0
      BY EmptyIs
    <2>1. StreamStep(r, s, x, Empty(t), NoMsg, s.gapped \cup {x})
      BY <1>6, <1>s, <2>0, GapIs
    <2>2. Rest(r, x, t, q) /\ r.buffers[x] = Empty(t) /\ r.decoders[x] = NoMsg
      BY <2>0, <2>1, <1>2, StepRest
    <2> QED
      BY <2>0, <2>2 DEF Lined, InLine
  <1>7. CASE continues
    <2>1. CASE c.part = "head"
      <3>1. r = Headed(s, x, clean) /\ cur = NoMsg
        BY <1>1, <1>7, <2>1
      <3>2. ~inBody
        BY <3>1 DEF Current
      <3>3. InLine(clean.msg, clean.torn, q, x)
        BY <2>1 DEF Follows, InLine
      <3> QED
        BY <3>1, <3>2, <3>3, <1>t, <1>4
    <2>2. CASE c.part = "body"
      <3>1. r = Drained(s, x, clean, t)
        BY <1>1, <1>7, <2>2
      <3>3. InLine(clean.msg, clean.torn, q, x)
        BY <2>2 DEF Follows, InLine
      <3> QED
        BY <3>1, <3>3, <1>t, <1>3
    <2>3. CASE c.part # "head" /\ c.part # "body"
      <3>1. r = message(clean)
        BY <1>1, <1>7, <2>3
      <3>2. ~clean.torn
        OBVIOUS
      <3> QED
        BY <3>1, <3>2, <1>t, <1>5
    <2> QED
      BY <2>1, <2>2, <2>3
  <1>8. CASE ~continues
    <2>1. Sound(s, q, x.gen) => cur.msg = 0
      <3> SUFFICES ASSUME Sound(s, q, x.gen), cur.msg # 0 PROVE FALSE
        OBVIOUS
      <3>1. InLine(cur.msg, cur.torn, p, x)
        BY DEF Lined, Current
      <3>2. ~cur.torn /\ c.part = "tail" /\ cur.msg = c.msg
        BY <3>1 DEF InLine, Follows
      <3>3. cur = clean
        <4>1. cur.torn = FALSE
          BY <3>2, <1>t DEF Message
        <4> QED
          BY <3>2, <4>1, <1>t DEF Message
      <3> QED
        BY <3>2, <3>3, <1>8
    <2>2. Sound(s, q, x.gen) => InLine(joined.msg, joined.torn, q, x)
      BY <2>1 DEF InLine
    <2>3. \/ r = Gap(s, x, Empty(t))
          \/ inBody /\ r = Drained(s, x, joined, t)
          \/ ~inBody /\ r = Headed(s, x, joined)
          \/ cur.msg # 0 /\ r = message(joined)
      BY <1>1, <1>8
    <2>4. CASE cur.msg # 0 /\ r = message(joined)
      <3>1. ~Sound(s, q, x.gen)
        BY <2>1, <2>4
      <3> QED
        BY <3>1, <2>4, <1>t, <1>5
    <2> QED
      BY <2>2, <2>3, <2>4, <1>t, <1>3, <1>4, <1>6
  <1> QED
    BY <1>7, <1>8

(* A chunk that is dropped leaves its mark in the history.                 *)
LEMMA LoseRest ==
  ASSUME NEW s, NEW x \in Streams, NEW t, NEW p, Rest(s, x, t, p), NEW r,
         NEW why \in {"chunk", "buffer", "ambiguous"}, r = Lose(s, x, why)
  PROVE  /\ Rest(r, x, t, p)
         /\ r.buffers = s.buffers /\ r.decoders = s.decoders
         /\ \A g : Sound(r, p, g) => Sound(s, p, g)
         /\ why # "buffer" => ~Sound(r, p, x.gen)
  <1> DEFINE l == [gen |-> x.gen, what |-> why]
             lost == s.gone \cup {l}
  <1>0. s \in State /\ s.gone \in SUBSET Losses /\ x.gen \in Gens
    BY DEF Rest, State, Streams
  <1>1. r = [s EXCEPT !.gone = lost]
    BY <1>0 DEF Lose, State
  <1>2. lost \in SUBSET Losses
    <2>1. l \in Losses
      BY <1>0 DEF Losses
    <2> QED
      BY <2>1, <1>0
  <1>3. l \in lost /\ l.gen = x.gen /\ l.what = why /\ s.gone \subseteq lost
    OBVIOUS
  <1> HIDE DEF lost, l
  <1>4. r \in State
    BY <1>0, <1>1, <1>2, Zenon DEF State
  <1>5. /\ r.buffers = s.buffers /\ r.decoders = s.decoders /\ r.pending = s.pending
        /\ r.known = s.known /\ r.ws = s.ws /\ r.gapped = s.gapped /\ r.last = s.last
        /\ r.out = s.out /\ r.gone = lost /\ r.total = s.total /\ r.active = s.active
        /\ r.parsed = s.parsed /\ r.refused = s.refused
    BY <1>0, <1>1 DEF State
  <1>6. Sizes(r) = Sizes(s) /\ Lens(r) = Lens(s)
    BY <1>5 DEF Sizes, Lens
  <1>7. Books(r, 0) /\ Fresh(r, t)
    BY <1>5, <1>6 DEF Rest, Books, Fresh, FreshBuffers
  <1>8. \A g : Sound(r, p, g) => Sound(s, p, g)
    BY <1>3, <1>5 DEF Sound
  <1>9. UntornQueues(r, p) /\ UntornOut(r, p) /\ Upgraded(r, p) /\ GapsEmpty(r)
    BY <1>5, <1>8 DEF Rest, UntornQueues, UntornOut, Upgraded, GapsEmpty
  <1>10. \A y \in Streams \ {x} : Sound(r, p, y.gen) => Lined(r, p, y)
    BY <1>5, <1>8 DEF Rest, Lined
  <1>11. why # "buffer" => ~Sound(r, p, x.gen)
    BY <1>3, <1>5 DEF Sound
  <1> QED
    BY <1>4, <1>5, <1>7, <1>8, <1>9, <1>10, <1>11 DEF Rest

(* Reserving and appending: the stream's buffer keeps its message and is   *)
(* seen now; the chunk is refused, gives the buffer up or is decoded.      *)
Grows(b, o, t) ==
    b \in Buffered /\ b # NoBuffer /\ b.seen = t /\ b.msg = o.msg /\ b.torn = o.torn

IsBuffer(r, s, u, b, conn, x, c, t) ==
    /\ Grows(b, s.buffers[x], t)
    /\ StreamStep(u, s, x, b, s.decoders[x], s.gapped)
    /\ \/ r = Lose(u, x, "chunk")
       \/ r = Lose(Gap(u, x, Empty(t)), x, "buffer")
       \/ r \in Feed(u, conn, x, c, t)

(* What reserving and appending make of a state.                           *)
LEMMA BufferIs ==
  ASSUME NEW s \in State, NEW x \in Streams, NEW t \in Times, NEW c, NEW conn,
         NEW r \in Buffer(s, conn, x, c, t)
  PROVE  \E u, b : IsBuffer(r, s, u, b, conn, x, c, t)
  <1> DEFINE o == s.buffers[x]
             d == s.decoders[x]
             e == IF o = NoBuffer THEN Empty(t) ELSE [o EXCEPT !.seen = t]
             b == [e EXCEPT !.len = @ + 1]
             gaps == s.gapped
             held == [s EXCEPT !.buffers[x] = e]
             grown == [s EXCEPT !.buffers[x] = b, !.total = @ + 1]
  <1>1. /\ o \in Buffered \cup {NoBuffer} /\ d \in Message /\ s.total \in Int
        /\ gaps \in SUBSET Streams /\ s.buffers \in BufferMap /\ s.decoders \in DecoderMap
    BY Buffers
  <1>2. r \in IF s.total + 1 > MaxTotal THEN {Lose(held, x, "chunk")}
              ELSE IF e.len + 1 > MaxBuffer THEN {Lose(Gap(grown, x, Empty(t)), x, "buffer")}
              ELSE Feed(grown, conn, x, c, t)
    BY DEF Buffer
  <1>3. /\ e \in Buffered /\ e.seen = t /\ e.msg = o.msg /\ e.torn = o.torn /\ e.len = Size(o)
    <2>1. CASE o = NoBuffer
      <3>1. e = Empty(t)
        BY <2>1
      <3> HIDE DEF e
      <3> QED
        BY <2>1, <3>1, EmptyIs DEF Empty, NoBuffer, Size
    <2>2. CASE o # NoBuffer
      <3>1. e = [o EXCEPT !.seen = t] /\ o \in Buffered
        BY <2>2, <1>1
      <3> HIDE DEF o, e
      <3> QED
        BY <2>2, <3>1 DEF Buffered, Size
    <2> QED
      BY <2>1, <2>2
  <1> HIDE DEF e
  <1>4. /\ b \in Buffered /\ b.seen = t /\ b.msg = o.msg /\ b.torn = o.torn /\ b.len = Size(o) + 1
    BY <1>3 DEF Buffered
  <1> HIDE DEF b
  <1>5. \A a \in Buffered : a # NoBuffer /\ Size(a) = a.len
    <2>1. ASSUME NEW a \in Buffered PROVE a # NoBuffer
      <3>1. a.len \in Nat /\ NoBuffer.len = -1
        BY DEF Buffered, NoBuffer
      <3> QED
        BY <3>1
    <2> QED
      BY <2>1 DEF Size
  <1>7. s.decoders = [s.decoders EXCEPT ![x] = d]
    BY <1>1 DEF DecoderMap
  <1>o. Size(o) \in Nat
    BY <1>1, Buffers
  <1>8. StreamStep(held, s, x, e, d, gaps)
    <2> DEFINE n == s.total
               w == held
    <2>1. w = [s EXCEPT !.total = n, !.buffers = [s.buffers EXCEPT ![x] = e],
                        !.decoders = [s.decoders EXCEPT ![x] = d], !.gapped = gaps]
      BY <1>1, <1>7 DEF State
    <2>2. n = s.total - Size(s.buffers[x]) + Size(e)
      <3> DEFINE z == Size(o)
      <3>1. Size(e) = z /\ z \in Nat /\ n \in Int
        BY <1>1, <1>3, <1>5, <1>o
      <3> HIDE DEF z, n
      <3>2. n = n - z + Size(e)
        BY <3>1
      <3> QED
        BY <3>2 DEF z, n
    <2>3. Books(s, 0) => n <= MaxTotal
      BY DEF Books
    <2>4. e \in Buffered \cup {NoBuffer} /\ n \in Int
      BY <1>1, <1>3
    <2> HIDE DEF n, w, d, gaps
    <2>5. StreamStep(w, s, x, e, d, gaps)
      BY <1>1, <2>1, <2>2, <2>3, <2>4, OneStream
    <2> QED
      BY <2>5 DEF w
  <1>9. ASSUME s.total + 1 <= MaxTotal PROVE StreamStep(grown, s, x, b, d, gaps)
    <2> DEFINE n == s.total + 1
               w == grown
    <2>1. w = [s EXCEPT !.total = n, !.buffers = [s.buffers EXCEPT ![x] = b],
                        !.decoders = [s.decoders EXCEPT ![x] = d], !.gapped = gaps]
      BY <1>1, <1>7 DEF State
    <2>2. n = s.total - Size(s.buffers[x]) + Size(b)
      <3> DEFINE z == Size(o)
                 tt == s.total
      <3>1. Size(b) = z + 1 /\ z \in Nat /\ n = tt + 1 /\ tt \in Int
        BY <1>1, <1>4, <1>5, <1>o
      <3> HIDE DEF z, n, tt
      <3>2. n = tt - z + Size(b)
        BY <3>1
      <3> QED
        BY <3>2 DEF z, n, tt
    <2>3. n <= MaxTotal
      BY <1>9
    <2>4. b \in Buffered \cup {NoBuffer} /\ n \in Int
      BY <1>1, <1>4
    <2> HIDE DEF n, w, d, gaps
    <2>5. StreamStep(w, s, x, b, d, gaps)
      BY <1>1, <2>1, <2>2, <2>3, <2>4, OneStream
    <2> QED
      BY <2>5 DEF w
  <1> HIDE DEF held, grown
  <1>10. CASE s.total + 1 > MaxTotal
    <2>1. r = Lose(held, x, "chunk")
      BY <1>2, <1>10
    <2>2. Grows(e, o, t)
      BY <1>3, <1>5 DEF Grows
    <2>3. IsBuffer(r, s, held, e, conn, x, c, t)
      BY <1>8, <2>1, <2>2 DEF IsBuffer
    <2> QED
      BY <2>3
  <1>11. CASE ~(s.total + 1 > MaxTotal)
    <2>1. s.total + 1 <= MaxTotal
      BY <1>1, <1>11, Constants
    <2>2. StreamStep(grown, s, x, b, d, gaps)
      BY <2>1, <1>9
    <2>3. Grows(b, o, t)
      BY <1>4, <1>5 DEF Grows
    <2>4. \/ r = Lose(Gap(grown, x, Empty(t)), x, "buffer")
          \/ r \in Feed(grown, conn, x, c, t)
      BY <1>2, <1>11
    <2>5. IsBuffer(r, s, grown, b, conn, x, c, t)
      BY <2>2, <2>3, <2>4 DEF IsBuffer
    <2> QED
      BY <2>5
  <1> QED
    BY <1>10, <1>11

(* The HTTP/1 tail of handle_event.                                        *)
LEMMA BufferRest ==
  ASSUME NEW s, NEW x \in Streams, NEW t \in Times, NEW p, NEW q, NEW c \in Chunks,
         NEW conn \in Conns, conn.gen = x.gen,
         Rest(s, x, t, q), Follows(p, q, x, c), x \notin s.gapped,
         Sound(s, q, x.gen) => Lined(s, p, x),
         NEW r \in Buffer(s, conn, x, c, t)
  PROVE  Rest(r, x, t, q) /\ (Sound(r, q, x.gen) => Lined(r, q, x))
  <1>1. s \in State
    BY DEF Rest
  <1>2. PICK u, b : IsBuffer(r, s, u, b, conn, x, c, t)
    BY <1>1, BufferIs
  <1>3. Grows(b, s.buffers[x], t) /\ StreamStep(u, s, x, b, s.decoders[x], s.gapped)
    BY <1>2 DEF IsBuffer
  <1>4. b \in Buffered /\ b # NoBuffer /\ b.seen = t /\ b.msg = s.buffers[x].msg /\ b.torn = s.buffers[x].torn
    BY <1>3 DEF Grows
  <1>5. ASSUME NEW a, a.seen = t PROVE FreshBuffer(a, s.last, t)
    <2>1. s.last <= t /\ s.last \in Int /\ t \in Int
      BY <1>1, Constants DEF Rest, Fresh, State, Times
    <2>2. s.last - t < TTL /\ t <= t
      BY <2>1, Constants
    <2> QED
      BY <1>5, <2>2 DEF FreshBuffer
  <1>6. /\ Rest(u, x, t, q) /\ u.buffers[x] = b /\ u.decoders[x] = s.decoders[x]
        /\ u.gapped = s.gapped /\ u.last = s.last
        /\ (Sound(u, q, x.gen) <=> Sound(s, q, x.gen))
    BY <1>3, <1>4, <1>5, StepRest
  <1>7. CASE r = Lose(u, x, "chunk")
    <2>1. Rest(r, x, t, q) /\ ~Sound(r, q, x.gen)
      BY <1>6, <1>7, LoseRest
    <2> QED
      BY <2>1
  <1>8. CASE r = Lose(Gap(u, x, Empty(t)), x, "buffer")
    <2> DEFINE v == Gap(u, x, Empty(t))
    <2>1. r = Lose(v, x, "buffer")
      BY <1>8
    <2>2. /\ Empty(t) \in Buffered \cup {NoBuffer} /\ Size(Empty(t)) = 0 /\ NoMsg.msg = 0
          /\ Empty(t).msg = 0 /\ Empty(t).seen = t
      BY EmptyIs
    <2>3. StreamStep(v, u, x, Empty(t), NoMsg, u.gapped \cup {x})
      BY <1>6, <2>2, GapIs DEF Rest
    <2> HIDE DEF v
    <2>4. FreshBuffer(Empty(t), u.last, t)
      BY <1>5, <1>6, <2>2
    <2>5. Rest(v, x, t, q) /\ v.buffers[x] = Empty(t) /\ v.decoders[x] = NoMsg
      BY <1>6, <2>2, <2>3, <2>4, StepRest
    <2>6. Rest(r, x, t, q) /\ r.buffers = v.buffers /\ r.decoders = v.decoders
      BY <2>1, <2>5, LoseRest
    <2> QED
      BY <2>2, <2>5, <2>6 DEF Lined, InLine
  <1>9. CASE r \in Feed(u, conn, x, c, t)
    <2>1. Sound(u, q, x.gen) => Lined(u, p, x)
      BY <1>4, <1>6 DEF Lined
    <2>2. x \notin u.gapped /\ u.buffers[x] # NoBuffer
      BY <1>4, <1>6
    <2> QED
      BY <1>6, <1>9, <2>1, <2>2, FeedRest
  <1> QED
    BY <1>2, <1>7, <1>8, <1>9 DEF IsBuffer

(* r differs from s in what is known of the connections, and in gaps that  *)
(* were closed.                                                            *)
Marks(r, s) ==
    /\ r \in State
    /\ r.buffers = s.buffers /\ r.decoders = s.decoders /\ r.pending = s.pending
    /\ r.ws = s.ws /\ r.last = s.last /\ r.out = s.out /\ r.gone = s.gone
    /\ r.gapped \subseteq s.gapped
    /\ Books(s, 0) => Books(r, 0)

(* Such a difference disturbs nothing.                                     *)
LEMMA MarksRest ==
  ASSUME NEW s, NEW x \in Streams, NEW t, NEW p, Rest(s, x, t, p), NEW r, Marks(r, s)
  PROVE  /\ Rest(r, x, t, p)
         /\ r.buffers = s.buffers /\ r.decoders = s.decoders /\ r.ws = s.ws
         /\ \A q, g : Sound(r, q, g) <=> Sound(s, q, g)
  <1>1. \A q, g : Sound(r, q, g) <=> Sound(s, q, g)
    BY DEF Marks, Sound
  <1>2. Fresh(r, t)
    BY DEF Marks, Rest, Fresh, FreshBuffers
  <1>3. UntornQueues(r, p) /\ UntornOut(r, p)
    BY <1>1 DEF Marks, Rest, UntornQueues, UntornOut
  <1>4. Upgraded(r, p) /\ GapsEmpty(r)
    BY DEF Marks, Rest, Upgraded, GapsEmpty
  <1>5. \A y \in Streams \ {x} : Sound(r, p, y.gen) => Lined(r, p, y)
    BY <1>1 DEF Marks, Rest, Lined
  <1> QED
    BY <1>1, <1>2, <1>3, <1>4, <1>5 DEF Marks, Rest

(* The records handle_event and its callers write on a connection.         *)
LEMMA MarksAre ==
  ASSUME NEW s \in State
  PROVE  /\ \A b \in BornMap : Marks([s EXCEPT !.born = b], s)
         /\ \A rs \in SUBSET Conns : Marks([s EXCEPT !.roles = rs], s)
         /\ \A gs \in SUBSET s.gapped : /\ Marks([s EXCEPT !.gapped = gs], s)
                                        /\ [s EXCEPT !.gapped = gs].gapped = gs
         /\ \A cs \in SUBSET Conns, n \in Int :
              (Books(s, 0) => n = Cardinality(cs)) =>
                 Marks([s EXCEPT !.known = cs, !.active = n], s)
  <1>1. ASSUME NEW b \in BornMap PROVE Marks([s EXCEPT !.born = b], s)
    <2> DEFINE r == [s EXCEPT !.born = b]
    <2>1. r \in State
      BY Zenon DEF State
    <2>2. /\ r.buffers = s.buffers /\ r.decoders = s.decoders /\ r.pending = s.pending
          /\ r.ws = s.ws /\ r.last = s.last /\ r.out = s.out /\ r.gone = s.gone
          /\ r.gapped = s.gapped /\ r.total = s.total /\ r.active = s.active
          /\ r.known = s.known /\ r.parsed = s.parsed /\ r.refused = s.refused
      BY DEF State
    <2> HIDE DEF r
    <2>3. Sizes(r) = Sizes(s) /\ Lens(r) = Lens(s)
      BY <2>2 DEF Sizes, Lens
    <2>4. Marks(r, s)
      BY <2>1, <2>2, <2>3 DEF Marks, Books
    <2> QED
      BY <2>4 DEF r
  <1>2. ASSUME NEW rs \in SUBSET Conns PROVE Marks([s EXCEPT !.roles = rs], s)
    <2> DEFINE r == [s EXCEPT !.roles = rs]
    <2>1. r \in State
      BY Zenon DEF State
    <2>2. /\ r.buffers = s.buffers /\ r.decoders = s.decoders /\ r.pending = s.pending
          /\ r.ws = s.ws /\ r.last = s.last /\ r.out = s.out /\ r.gone = s.gone
          /\ r.gapped = s.gapped /\ r.total = s.total /\ r.active = s.active
          /\ r.known = s.known /\ r.parsed = s.parsed /\ r.refused = s.refused
      BY DEF State
    <2> HIDE DEF r
    <2>3. Sizes(r) = Sizes(s) /\ Lens(r) = Lens(s)
      BY <2>2 DEF Sizes, Lens
    <2>4. Marks(r, s)
      BY <2>1, <2>2, <2>3 DEF Marks, Books
    <2> QED
      BY <2>4 DEF r
  <1>3. ASSUME NEW gs \in SUBSET s.gapped
        PROVE  Marks([s EXCEPT !.gapped = gs], s) /\ [s EXCEPT !.gapped = gs].gapped = gs
    <2> DEFINE r == [s EXCEPT !.gapped = gs]
    <2>0. gs \in SUBSET Streams
      BY DEF State
    <2>1. r \in State
      BY <2>0, Zenon DEF State
    <2>2. /\ r.buffers = s.buffers /\ r.decoders = s.decoders /\ r.pending = s.pending
          /\ r.ws = s.ws /\ r.last = s.last /\ r.out = s.out /\ r.gone = s.gone
          /\ r.gapped = gs /\ r.total = s.total /\ r.active = s.active
          /\ r.known = s.known /\ r.parsed = s.parsed /\ r.refused = s.refused
      BY DEF State
    <2> HIDE DEF r
    <2>3. Sizes(r) = Sizes(s) /\ Lens(r) = Lens(s)
      BY <2>2 DEF Sizes, Lens
    <2>4. Marks(r, s)
      BY <2>1, <2>2, <2>3 DEF Marks, Books
    <2> QED
      BY <2>2, <2>4 DEF r
  <1>4. ASSUME NEW cs \in SUBSET Conns, NEW n \in Int, Books(s, 0) => n = Cardinality(cs)
        PROVE  Marks([s EXCEPT !.known = cs, !.active = n], s)
    <2> DEFINE r == [s EXCEPT !.known = cs, !.active = n]
    <2>1. r \in State
      BY Zenon DEF State
    <2>2. /\ r.buffers = s.buffers /\ r.decoders = s.decoders /\ r.pending = s.pending
          /\ r.ws = s.ws /\ r.last = s.last /\ r.out = s.out /\ r.gone = s.gone
          /\ r.gapped = s.gapped /\ r.total = s.total /\ r.active = n
          /\ r.known = cs /\ r.parsed = s.parsed /\ r.refused = s.refused
      BY DEF State
    <2> HIDE DEF r
    <2>3. Sizes(r) = Sizes(s) /\ Lens(r) = Lens(s)
      BY <2>2 DEF Sizes, Lens
    <2>4. Marks(r, s)
      BY <1>4, <2>1, <2>2, <2>3 DEF Marks, Books
    <2> QED
      BY <2>4 DEF r
  <1> QED
    BY <1>1, <1>2, <1>3, <1>4

(* What held of the peers before a chunk was sent holds after it for every *)
(* stream but the chunk's own.                                             *)
LEMMA FollowsRest ==
  ASSUME NEW s, NEW t, NEW p, NEW q, NEW x \in Streams, NEW c, Kept(s, t, p),
         Follows(p, q, x, c)
  PROVE  Rest(s, x, t, q) /\ (Sound(s, q, x.gen) => Lined(s, p, x))
  <1>1. s \in State /\ Untorn(s, p) /\ Books(s, 0) /\ Fresh(s, t)
    BY DEF Kept
  <1>2. \A g \in Gens : Sound(s, q, g) => Sound(s, p, g)
    BY DEF Sound, Follows
  <1>3. \A y \in Streams : y.gen \in Gens
    BY DEF Streams
  <1>4. \A d \in Conns : d.gen \in Gens
    BY DEF Conns
  <1>5. UntornQueues(s, q)
    BY <1>1, <1>2, <1>4 DEF Untorn, UntornQueues
  <1>6. UntornOut(s, q)
    <2>1. s.out \in Seq(Event)
      BY <1>1 DEF State
    <2>2. \A i \in DOMAIN s.out : s.out[i] \in Event
      BY <2>1, LenProperties, ElementOfSeq
    <2>3. \A i \in DOMAIN s.out : s.out[i].gen \in Gens
      BY <2>2 DEF Event
    <2> QED
      BY <1>1, <1>2, <2>3 DEF Untorn, UntornOut
  <1>7. Upgraded(s, q) /\ GapsEmpty(s)
    BY <1>1, <1>4 DEF Untorn, Upgraded, State, Follows
  <1>8. ASSUME NEW y \in Streams \ {x}, Sound(s, q, y.gen) PROVE Lined(s, q, y)
    <2>1. InLine(s.decoders[y].msg, s.decoders[y].torn, p, y)
          /\ InLine(s.buffers[y].msg, s.buffers[y].torn, p, y)
      BY <1>1, <1>2, <1>3, <1>8 DEF Untorn, UntornStreams
    <2> QED
      BY <2>1 DEF Lined, InLine, Follows
  <1>9. Sound(s, q, x.gen) => Lined(s, p, x)
    BY <1>1, <1>2, <1>3 DEF Untorn, UntornStreams, Lined
  <1> QED
    BY <1>1, <1>5, <1>6, <1>7, <1>8, <1>9 DEF Rest

(* The connection that the next chunk of generation g belongs to.          *)
NextConn(s, g, t) ==
    [gen |-> g, born |-> IF s.born[g] = Unborn THEN t ELSE s.born[g]]

(* The next connection is one of the generation's.                         *)
LEMMA NextConnIs ==
  ASSUME NEW s \in State, NEW g \in Gens, NEW t \in Times
  PROVE  /\ NextConn(s, g, t) \in Conns /\ NextConn(s, g, t).gen = g
         /\ s.born[g] = Unborn => NextConn(s, g, t).born = t
         /\ s.born[g] # Unborn => NextConn(s, g, t).born = s.born[g]
         /\ Unborn \notin Times /\ s.born[g] \in Times \cup {Unborn}
         /\ \A c \in Conns : c.gen \in Gens /\ c.born \in Times
         /\ \A c \in Conns : \A d \in Conns : c.gen = d.gen /\ c.born = d.born => c = d
  <1>1. s.born[g] \in Times \cup {Unborn}
    BY DEF State, BornMap
  <1>2. Unborn \notin Times
    BY Constants DEF Times, Unborn
  <1>3. (IF s.born[g] = Unborn THEN t ELSE s.born[g]) \in Times
    BY <1>1
  <1>4. NextConn(s, g, t) \in Conns /\ NextConn(s, g, t).gen = g
    BY <1>3 DEF NextConn, Conns
  <1> QED
    BY <1>1, <1>2, <1>4 DEF NextConn, Conns

(* handle_event: the connection is born if it was not, the state is swept, *)
(* the connection is noted, and the chunk is dropped or buffered.          *)
Birth(s, g, t) == [s EXCEPT !.born[g] = NextConn(s, g, t).born]

Noted(r, s) == Marks(r, s) /\ r.born = s.born

Handled(r, w, l, k, conn, x, c, truncated, t) ==
    /\ w \in State /\ Noted(l, w)
    /\ IF truncated THEN StreamStep(k, l, x, NoBuffer, NoMsg, l.gapped \cup {x}) ELSE k = l
    /\ \/ \E m : Noted(m, w) /\ r = Lose(m, x, "ambiguous")
       \/ r = k /\ conn \in w.ws
       \/ r = k /\ x \in k.gapped /\ (~Starts(c) \/ truncated)
       \/ /\ conn \notin w.ws /\ ~truncated
          /\ \E u : Noted(u, l) /\ u.gapped = l.gapped \ {x} /\ r \in Buffer(u, conn, x, c, t)

IsHandleEvent(r, s, g, x, c, truncated, t) ==
    /\ Marks(Birth(s, g, t), s)
    /\ Birth(s, g, t).born = [s.born EXCEPT ![g] = NextConn(s, g, t).born]
    /\ \E w \in EvictStale(Birth(s, g, t), t) : \E l, k :
          Handled(r, w, l, k, NextConn(s, g, t), x, c, truncated, t)

(* The records handle_event writes on a connection leave its birth.        *)
LEMMA NotedIs ==
  ASSUME NEW s \in State
  PROVE  /\ \A rs \in SUBSET Conns : Noted([s EXCEPT !.roles = rs], s)
         /\ \A gs \in SUBSET s.gapped : /\ Noted([s EXCEPT !.gapped = gs], s)
                                        /\ [s EXCEPT !.gapped = gs].gapped = gs
         /\ \A cs \in SUBSET Conns, n \in Int :
              (Books(s, 0) => n = Cardinality(cs)) =>
                 Noted([s EXCEPT !.known = cs, !.active = n], s)
  <1>1. \A rs : [s EXCEPT !.roles = rs].born = s.born
    BY DEF State
  <1>2. \A gs : [s EXCEPT !.gapped = gs].born = s.born
    BY DEF State
  <1>3. \A cs, n : [s EXCEPT !.known = cs, !.active = n].born = s.born
    BY DEF State
  <1>4. ASSUME NEW rs \in SUBSET Conns PROVE Noted([s EXCEPT !.roles = rs], s)
    BY <1>1, MarksAre DEF Noted
  <1>5. ASSUME NEW gs \in SUBSET s.gapped
        PROVE  Noted([s EXCEPT !.gapped = gs], s) /\ [s EXCEPT !.gapped = gs].gapped = gs
    BY <1>2, MarksAre DEF Noted
  <1>6. ASSUME NEW cs \in SUBSET Conns, NEW n \in Int, Books(s, 0) => n = Cardinality(cs)
        PROVE  Noted([s EXCEPT !.known = cs, !.active = n], s)
    BY <1>3, <1>6, MarksAre DEF Noted
  <1> QED
    BY <1>4, <1>5, <1>6

(* Records one after the other.                                            *)
LEMMA NotedTwice ==
  ASSUME NEW s, NEW u, NEW r, Noted(u, s), Noted(r, u)
  PROVE  Noted(r, s)
  BY DEF Noted, Marks

(* The steps of handle_event.                                              *)
LEMMA EventIs ==
  ASSUME NEW s \in State, NEW t \in Times, NEW g \in Gens, NEW dir \in Dirs, NEW c,
         NEW truncated \in BOOLEAN, NEW hint, NEW x \in Streams, x = [gen |-> g, dir |-> dir],
         NEW r \in HandleEvent(s, g, dir, c, truncated, hint, t)
  PROVE  IsHandleEvent(r, s, g, x, c, truncated, t)
  <1> DEFINE born == IF s.born[g] = Unborn THEN t ELSE s.born[g]
             conn == [gen |-> g, born |-> born]
             z == [gen |-> g, dir |-> dir]
             s0 == [s EXCEPT !.born[g] = born]
             met(w) == [w EXCEPT !.known = @ \cup {conn},
                                 !.active = @ + (IF conn \in w.known THEN 0 ELSE 1)]
             placed(w) == [met(w) EXCEPT !.roles = @ \cup {conn}]
             cut(w) == IF truncated THEN Truncate(placed(w), z) ELSE placed(w)
             handle(w) ==
               IF ~(conn \in met(w).roles \/ Starts(c) \/ hint) THEN {Lose(met(w), z, "ambiguous")}
               ELSE IF conn \in cut(w).ws THEN {cut(w)}
               ELSE IF z \in cut(w).gapped /\ (~Starts(c) \/ truncated) THEN {cut(w)}
               ELSE Buffer([cut(w) EXCEPT !.gapped = @ \ {z}], conn, z, c, t)
  <1>0. r \in UNION {handle(w) : w \in EvictStale(s0, t)}
    BY Zenon DEF HandleEvent
  <1>1. PICK w \in EvictStale(s0, t) : r \in handle(w)
    <2> HIDE DEF handle, s0
    <2> QED
      BY <1>0
  <1>2. conn = NextConn(s, g, t) /\ conn.born = born /\ s0 = Birth(s, g, t)
    BY DEF NextConn, Birth
  <1>3. conn \in Conns /\ born \in Times
    BY NextConnIs DEF NextConn, Conns
  <1>4. Marks(s0, s) /\ s0.born = [s.born EXCEPT ![g] = born] /\ s0 \in State
    <2> DEFINE b == [s.born EXCEPT ![g] = born]
    <2>1. b \in BornMap
      BY <1>3 DEF State, BornMap
    <2>2. s0 = [s EXCEPT !.born = b]
      BY DEF State
    <2>3. s0.born = b
      BY DEF State
    <2> HIDE DEF b, s0
    <2>4. Marks(s0, s)
      BY <2>1, <2>2, MarksAre
    <2> QED
      BY <2>3, <2>4 DEF b, Marks
  <1> HIDE DEF born, s0
  <1>5. w \in State
    <2>1. Sheds(w, s0)
      BY <1>1, <1>4, EvictStaleIs
    <2> QED
      BY <2>1 DEF Sheds
  <1> HIDE DEF conn
  <1>6. Noted(met(w), w)
    <2> DEFINE cs == w.known \cup {conn}
               n == w.active + (IF conn \in w.known THEN 0 ELSE 1)
               m == met(w)
    <2>1. w.known \in SUBSET Conns /\ w.active \in Int /\ cs \in SUBSET Conns
      BY <1>3, <1>5 DEF State
    <2>2. n \in Int
      BY <2>1
    <2>3. Books(w, 0) => n = Cardinality(cs)
      <3>1. IsFiniteSet(w.known)
        BY <2>1, Finite, FS_Subset
      <3>2. /\ Cardinality(w.known) \in Nat
            /\ Cardinality(cs) = IF conn \in w.known THEN Cardinality(w.known)
                                 ELSE Cardinality(w.known) + 1
        BY <3>1, FS_AddElement, FS_CardinalityType
      <3> HIDE DEF cs
      <3> QED
        BY <2>1, <3>2 DEF Books
    <2>4. m = [w EXCEPT !.known = cs, !.active = n]
      BY <1>5, <2>1 DEF State
    <2> HIDE DEF cs, n, m
    <2>5. Noted(m, w)
      BY <1>5, <2>1, <2>2, <2>3, <2>4, NotedIs
    <2> QED
      BY <2>5 DEF m
  <1> DEFINE m == met(w)
             l == placed(w)
             k == cut(w)
  <1> HIDE DEF m
  <1>7. l = [m EXCEPT !.roles = @ \cup {conn}] /\ k = IF truncated THEN Truncate(l, z) ELSE l
    BY DEF m
  <1>8. r \in IF ~(conn \in m.roles \/ Starts(c) \/ hint) THEN {Lose(m, z, "ambiguous")}
              ELSE IF conn \in k.ws THEN {k}
              ELSE IF z \in k.gapped /\ (~Starts(c) \/ truncated) THEN {k}
              ELSE Buffer([k EXCEPT !.gapped = @ \ {z}], conn, z, c, t)
    BY <1>1 DEF m
  <1>9. Noted(m, w) /\ m \in State
    BY <1>6 DEF m, Noted, Marks
  <1> HIDE DEF l, k, z
  <1>10. Noted(l, w) /\ l \in State /\ l.ws = w.ws
    <2> DEFINE rs == m.roles \cup {conn}
    <2>1. rs \in SUBSET Conns /\ l = [m EXCEPT !.roles = rs]
      BY <1>3, <1>7, <1>9 DEF State
    <2> HIDE DEF rs
    <2>2. Noted(l, m)
      BY <1>9, <2>1, NotedIs
    <2>3. Noted(l, w)
      BY <1>9, <2>2, NotedTwice
    <2> QED
      BY <2>3 DEF Noted, Marks
  <1>z. z = x
    BY DEF z
  <1>11. /\ IF truncated THEN StreamStep(k, l, x, NoBuffer, NoMsg, l.gapped \cup {x}) ELSE k = l
         /\ k.ws = w.ws
    <2>1. CASE ~truncated
      BY <1>7, <1>10, <2>1
    <2>2. CASE truncated
      <3>1. k = Gap(l, x, NoBuffer)
        BY <1>7, <1>z, <2>2 DEF Truncate
      <3>2. NoBuffer \in Buffered \cup {NoBuffer} /\ Size(NoBuffer) = 0
        BY DEF Size
      <3>3. StreamStep(k, l, x, NoBuffer, NoMsg, l.gapped \cup {x})
        BY <1>10, <3>1, <3>2, GapIs
      <3> QED
        BY <1>10, <2>2, <3>3 DEF StreamStep
    <2> QED
      BY <2>1, <2>2
  <1>12. \/ \E y : Noted(y, w) /\ r = Lose(y, x, "ambiguous")
         \/ r = k /\ conn \in w.ws
         \/ r = k /\ x \in k.gapped /\ (~Starts(c) \/ truncated)
         \/ /\ conn \notin w.ws /\ ~truncated
            /\ \E u : Noted(u, l) /\ u.gapped = l.gapped \ {x} /\ r \in Buffer(u, conn, x, c, t)
    <2>1. CASE ~(conn \in m.roles \/ Starts(c) \/ hint)
      BY <1>8, <1>9, <1>z, <2>1
    <2>2. CASE (conn \in m.roles \/ Starts(c) \/ hint) /\ conn \in k.ws
      BY <1>8, <1>11, <2>2
    <2>3. CASE /\ conn \in m.roles \/ Starts(c) \/ hint
               /\ conn \notin k.ws
               /\ x \in k.gapped /\ (~Starts(c) \/ truncated)
      BY <1>8, <1>z, <2>3
    <2>4. CASE /\ conn \in m.roles \/ Starts(c) \/ hint
               /\ conn \notin k.ws
               /\ ~(x \in k.gapped /\ (~Starts(c) \/ truncated))
      <3>1. ~truncated
        <4>1. truncated => x \in k.gapped
          BY <1>11 DEF StreamStep
        <4> QED
          BY <2>4, <4>1
      <3>2. k = l
        BY <1>11, <3>1
      <3> DEFINE gs == l.gapped \ {x}
                 u == [l EXCEPT !.gapped = gs]
      <3>3. r \in Buffer(u, conn, x, c, t)
        BY <1>8, <1>z, <2>4, <3>2
      <3>4. gs \in SUBSET l.gapped
        OBVIOUS
      <3>5. Noted(u, l) /\ u.gapped = gs
        <4> HIDE DEF gs
        <4> QED
          BY <1>10, <3>4, NotedIs
      <3> HIDE DEF u
      <3> QED
        BY <1>11, <2>4, <3>1, <3>3, <3>5
    <2> QED
      BY <2>1, <2>2, <2>3, <2>4
  <1>13. Handled(r, w, l, k, conn, x, c, truncated, t)
    BY <1>5, <1>10, <1>11, <1>12 DEF Handled
  <1>14. w \in EvictStale(Birth(s, g, t), t) /\ Handled(r, w, l, k, NextConn(s, g, t), x, c, truncated, t)
    BY <1>1, <1>2, <1>13
  <1>15. /\ Marks(Birth(s, g, t), s)
         /\ Birth(s, g, t).born = [s.born EXCEPT ![g] = NextConn(s, g, t).born]
    BY <1>2, <1>4
  <1> QED
    BY <1>14, <1>15 DEF IsHandleEvent

(* handle_event keeps the books, the ages and the line of every stream.    *)
LEMMA HandleEventIs ==
  ASSUME NEW s, NEW t \in Times, NEW p, NEW q, Kept(s, t, p), NEW g \in Gens,
         NEW dir \in Dirs, NEW c \in Chunks, NEW truncated \in BOOLEAN, NEW hint,
         NEW x \in Streams, x = [gen |-> g, dir |-> dir], Follows(p, q, x, c),
         NEW r \in HandleEvent(s, g, dir, c, truncated, hint, t)
  PROVE  Kept(r, t, q)
  <1> DEFINE s0 == Birth(s, g, t)
             conn == NextConn(s, g, t)
  <1>1. s \in State
    BY DEF Kept
  <1>i. IsHandleEvent(r, s, g, x, c, truncated, t)
    BY <1>1, EventIs
  <1>e. /\ Marks(s0, s)
        /\ \E w \in EvictStale(s0, t) : \E l, k : Handled(r, w, l, k, conn, x, c, truncated, t)
    BY <1>i DEF IsHandleEvent
  <1>3. Marks(s0, s)
    BY <1>e
  <1>4. conn \in Conns /\ conn.gen = g /\ x.gen = g
    BY <1>1, NextConnIs
  <1> HIDE DEF s0, conn
  <1>w. PICK w \in EvictStale(s0, t) : \E l, k : Handled(r, w, l, k, conn, x, c, truncated, t)
    BY <1>e
  <1>2. PICK l, k : Handled(r, w, l, k, conn, x, c, truncated, t)
    BY <1>w
  <1>5. Kept(s0, t, p)
    <2>1. Rest(s, x, t, p) /\ (Sound(s, p, x.gen) => Lined(s, p, x))
      BY RestKept
    <2>2. Rest(s0, x, t, p) /\ (Sound(s0, p, x.gen) => Lined(s0, p, x))
      BY <1>3, <2>1, MarksRest DEF Lined
    <2> QED
      BY <2>2, RestKept
  <1>6. Kept(w, t, p)
    <2>1. s0 \in State /\ Fresh(s0, t) /\ Untorn(s0, p) /\ Books(s0, 0)
      BY <1>5 DEF Kept
    <2>2. Sheds(w, s0) /\ Fresh(w, t)
      BY <2>1, EvictStaleIs
    <2>3. Untorn(w, p)
      BY <2>1, <2>2, ShedsUntorn
    <2> QED
      BY <2>1, <2>2, <2>3 DEF Kept, Sheds
  <1>7. Rest(w, x, t, q) /\ (Sound(w, q, x.gen) => Lined(w, p, x))
    BY <1>6, FollowsRest
  <1>8. ASSUME NEW m, Noted(m, w)
        PROVE  Rest(m, x, t, q) /\ (Sound(m, q, x.gen) => Lined(m, p, x)) /\ m.ws = w.ws
    BY <1>7, <1>8, MarksRest DEF Noted, Lined
  <1>9. Rest(l, x, t, q) /\ (Sound(l, q, x.gen) => Lined(l, p, x)) /\ l.ws = w.ws
    BY <1>2, <1>8 DEF Handled
  <1>10. Rest(k, x, t, q) /\ (Sound(k, q, x.gen) => Lined(k, p, x)) /\ k.ws = w.ws
    <2>1. CASE ~truncated
      <3>1. k = l
        BY <1>2, <2>1 DEF Handled
      <3> QED
        BY <3>1, <1>9
    <2>2. CASE truncated
      <3>1. StreamStep(k, l, x, NoBuffer, NoMsg, l.gapped \cup {x})
        BY <1>2, <2>2 DEF Handled
      <3>2. NoMsg.msg = 0 /\ NoBuffer.msg = 0 /\ FreshBuffer(NoBuffer, l.last, t)
        BY DEF NoMsg, NoBuffer, FreshBuffer
      <3>3. Rest(k, x, t, q) /\ k.buffers[x] = NoBuffer /\ k.decoders[x] = NoMsg
        BY <1>9, <3>1, <3>2, StepRest
      <3>4. k.ws = l.ws
        BY <3>1 DEF StreamStep
      <3> QED
        BY <1>9, <3>2, <3>3, <3>4 DEF Lined, InLine
    <2> QED
      BY <2>1, <2>2
  <1>11. ASSUME NEW m, Noted(m, w), r = Lose(m, x, "ambiguous") PROVE Kept(r, t, q)
    <2>1. Rest(r, x, t, q) /\ ~Sound(r, q, x.gen)
      BY <1>8, <1>11, LoseRest
    <2> QED
      BY <2>1, RestKept
  <1>12. CASE r = k /\ conn \in w.ws
    <2>1. p[x.gen].ws
      BY <1>4, <1>6, <1>12 DEF Kept, Untorn, Upgraded
    <2>2. p[x.gen].open = {}
      BY <2>1 DEF Follows
    <2>3. Sound(k, q, x.gen) => Lined(k, q, x)
      BY <1>10, <2>2 DEF Lined, InLine
    <2> QED
      BY <1>10, <1>12, <2>3, RestKept
  <1>13. CASE r = k /\ x \in k.gapped
    <2>1. Lined(k, q, x)
      BY <1>10, <1>13 DEF Rest, GapsEmpty, Lined, InLine
    <2> QED
      BY <1>10, <1>13, <2>1, RestKept
  <1>14. ASSUME NEW u, Noted(u, l), u.gapped = l.gapped \ {x}, r \in Buffer(u, conn, x, c, t)
         PROVE  Kept(r, t, q)
    <2>1. Marks(u, l)
      BY <1>14 DEF Noted
    <2>2. Rest(u, x, t, q) /\ (Sound(u, q, x.gen) => Lined(u, p, x)) /\ x \notin u.gapped
      BY <1>9, <1>14, <2>1, MarksRest DEF Lined
    <2>3. Rest(r, x, t, q) /\ (Sound(r, q, x.gen) => Lined(r, q, x))
      BY <1>4, <1>14, <2>2, BufferRest
    <2> QED
      BY <2>3, RestKept
  <1> QED
    BY <1>2, <1>11, <1>12, <1>13, <1>14 DEF Handled

-----------------------------------------------------------------------------
(* The peers, and the invariant.                                           *)

SentMap == [Gens -> [reqs : Nat, resps : Nat, open : SUBSET Dirs, ws : BOOLEAN,
                     hurt : SUBSET {"lost", "truncated", "pipelined"}, faults : Nat]]

(* Nothing is half sent on a connection that became a WebSocket.           *)
UpgradedIdle(p) == \A g \in Gens : p[g].ws => p[g].open = {}

(* A chunk the peers may send continues its stream, and only that.         *)
LEMMA ChunkFollows ==
  ASSUME sent \in SentMap, UpgradedIdle(sent), NEW g \in Gens, NEW dir \in Dirs,
         NEW fate \in Fates, NEW c \in NextChunk(g, dir), NEW q,
         q = [sent EXCEPT ![g] = Progress(@, dir, c, fate)]
  PROVE  /\ c \in Chunks /\ q \in SentMap /\ UpgradedIdle(q)
         /\ Follows(sent, q, [gen |-> g, dir |-> dir], c)
         /\ fate = "lost" => "lost" \in q[g].hurt
  <1> DEFINE p == sent[g]
             n == IF dir = "request" THEN p.reqs ELSE p.resps
             x == [gen |-> g, dir |-> dir]
             v == Progress(p, dir, c, fate)
  <1>1. /\ p.reqs \in Nat /\ p.resps \in Nat /\ p.open \in SUBSET Dirs /\ p.ws \in BOOLEAN
        /\ p.hurt \in SUBSET {"lost", "truncated", "pipelined"} /\ p.faults \in Nat
        /\ (p.ws => p.open = {})
    BY DEF SentMap, UpgradedIdle
  <1>2. /\ c \in Chunks
        /\ dir \in p.open => c.part = "tail" /\ c.msg = n + 1
        /\ c.part \in {"head", "body"} => c.msg = n + 1 /\ c.kind = "final"
        /\ c.kind = "upgrade" => /\ c.part = "whole" /\ p.open = {}
        /\ p.ws => c.part = "frame" /\ c.kind = "final"
    <2>1. CASE p.ws
      <3>1. c = [part |-> "frame", kind |-> "final", msg |-> 0]
        BY <2>1 DEF NextChunk
      <3> QED
        BY <3>1, <2>1, <1>1 DEF Chunks, ChunkParts
    <2>2. CASE ~p.ws /\ dir \in p.open
      <3>1. c = [part |-> "tail", kind |-> "final", msg |-> n + 1]
        BY <2>2 DEF NextChunk
      <3>2. n \in Nat
        BY <1>1
      <3> HIDE DEF n
      <3> QED
        BY <3>1, <3>2, <2>2, <1>1 DEF Chunks, ChunkParts
    <2>3. CASE ~p.ws /\ dir \notin p.open
      <3>1. \/ \E part \in Parts : c = [part |-> part, kind |-> "final", msg |-> n + 1]
            \/ \E k \in Kinds : /\ c = [part |-> "whole", kind |-> k, msg |-> n + 1]
                                /\ dir = "response" /\ (k = "upgrade" => "request" \notin p.open)
        BY <2>3 DEF NextChunk
      <3>2. n \in Nat /\ n + 1 \in Nat
        BY <1>1
      <3>3. Parts \subseteq {"whole", "head", "body"} /\ Kinds \subseteq {"interim", "upgrade"}
        BY StreamAssumption
      <3>4. dir = "response" /\ "request" \notin p.open => p.open = {}
        BY <2>3, <1>1 DEF Dirs
      <3> HIDE DEF n
      <3>5. CASE \E part \in Parts : c = [part |-> part, kind |-> "final", msg |-> n + 1]
        BY <3>5, <3>2, <3>3, <2>3 DEF Chunks, ChunkParts
      <3>6. CASE \E k \in Kinds : /\ c = [part |-> "whole", kind |-> k, msg |-> n + 1]
                                  /\ dir = "response" /\ (k = "upgrade" => "request" \notin p.open)
        BY <3>6, <3>2, <3>3, <3>4, <2>3 DEF Chunks, ChunkParts
      <3> QED
        BY <3>1, <3>5, <3>6
    <2> QED
      BY <2>1, <2>2, <2>3
  <1>3. /\ v.reqs = (IF dir = "request" /\ c.part \in {"whole", "tail"} /\ c.kind # "interim"
                     THEN p.reqs + 1 ELSE p.reqs)
        /\ v.resps = (IF dir = "response" /\ c.part \in {"whole", "tail"} /\ c.kind # "interim"
                      THEN p.resps + 1 ELSE p.resps)
        /\ v.open = (IF c.part \in {"head", "body"} THEN p.open \cup {dir} ELSE p.open \ {dir})
        /\ v.ws = (p.ws \/ c.kind = "upgrade")
        /\ p.hurt \subseteq v.hurt /\ (fate = "lost" => "lost" \in v.hurt)
    BY DEF Progress
  <1>4. v \in [reqs : Nat, resps : Nat, open : SUBSET Dirs, ws : BOOLEAN,
               hurt : SUBSET {"lost", "truncated", "pipelined"}, faults : Nat]
    <2> DEFINE h == p.hurt \cup ({fate} \ {"captured"})
                    \cup (IF dir = "request" /\ p.resps < p.reqs THEN {"pipelined"} ELSE {})
               o == IF c.part \in {"head", "body"} THEN p.open \cup {dir} ELSE p.open \ {dir}
               a == IF dir = "request" /\ c.part \in {"whole", "tail"} /\ c.kind # "interim"
                    THEN p.reqs + 1 ELSE p.reqs
               b == IF dir = "response" /\ c.part \in {"whole", "tail"} /\ c.kind # "interim"
                    THEN p.resps + 1 ELSE p.resps
               e == p.ws \/ c.kind = "upgrade"
               f == IF fate = "captured" THEN p.faults ELSE p.faults + 1
    <2>1. h \in SUBSET {"lost", "truncated", "pipelined"}
      <3>1. fate \in {"captured", "truncated", "lost"}
        BY StreamAssumption
      <3> QED
        BY <3>1, <1>1
    <2>2. o \in SUBSET Dirs /\ a \in Nat /\ b \in Nat /\ e \in BOOLEAN /\ f \in Nat
      BY <1>1
    <2>3. v = [reqs |-> a, resps |-> b, open |-> o, ws |-> e, hurt |-> h, faults |-> f]
      BY DEF Progress
    <2> HIDE DEF h, o, a, b, e, f
    <2> QED
      BY <2>1, <2>2, <2>3
  <1>5. q[g] = v /\ \A h \in Gens \ {g} : q[h] = sent[h]
    BY DEF SentMap
  <1>6. q \in SentMap
    BY <1>4 DEF SentMap
  <1> HIDE DEF v
  <1>7. UpgradedIdle(q)
    <2>1. v.ws => v.open = {}
      BY <1>1, <1>2, <1>3
    <2> QED
      BY <2>1, <1>5 DEF UpgradedIdle
  <1>8. Follows(sent, q, x, c)
    <2>1. \A h \in Gens : "lost" \in sent[h].hurt => "lost" \in q[h].hurt
      BY <1>3, <1>5
    <2>2. \A h \in Gens : sent[h].ws => q[h].ws
      BY <1>3, <1>5, <1>1
    <2>3. ASSUME NEW y \in Streams \ {x}
          PROVE  /\ y.dir \in sent[y.gen].open => y.dir \in q[y.gen].open
                 /\ Count(q, y) = Count(sent, y)
      <3>1. y.gen \in Gens /\ y.dir \in Dirs /\ (y.gen = g => y.dir # dir)
        BY DEF Streams
      <3>2. CASE y.gen = g
        <4>1. y.dir \in p.open => y.dir \in v.open
          BY <3>1, <3>2, <1>3
        <4>2. (y.dir = "request" => v.reqs = p.reqs) /\ (y.dir # "request" => v.resps = p.resps)
          BY <3>1, <3>2, <1>3 DEF Dirs
        <4> QED
          BY <3>2, <4>1, <4>2, <1>5 DEF Count
      <3>3. CASE y.gen # g
        BY <3>1, <3>3, <1>5 DEF Count
      <3> QED
        BY <3>2, <3>3
    <2>4. x.dir = dir /\ x.gen = g /\ Count(sent, x) = n
      BY DEF Count
    <2>5. c.part \in {"head", "body"} => dir \in v.open /\ c.msg = Count(q, x) + 1
      <3>1. c.part \in {"head", "body"} => v.reqs = p.reqs /\ v.resps = p.resps
        BY <1>3
      <3>2. c.part \in {"head", "body"} => Count(q, x) = n
        BY <3>1, <2>4, <1>5 DEF Count
      <3> QED
        BY <3>2, <1>2, <1>3
    <2>6. c.kind = "upgrade" => v.ws
      BY <1>3, <1>1
    <2> HIDE DEF n, x
    <2> QED
      BY <2>1, <2>2, <2>3, <2>4, <2>5, <2>6, <1>1, <1>2, <1>5 DEF Follows
  <1> QED
    BY <1>2, <1>3, <1>5, <1>6, <1>7, <1>8

(* The invariant: the books balance, no age is above the limit, and what a *)
(* stream is in the middle of is what its peer is in the middle of.        *)
StreamInv ==
    /\ Kept(st, now, sent)
    /\ sent \in SentMap /\ UpgradedIdle(sent)
    /\ now \in Times

(* The invariant holds at the start.                                       *)
LEMMA InitInv ==
  Init => StreamInv
  <1> SUFFICES ASSUME Init PROVE StreamInv
    OBVIOUS
  <1> DEFINE bu == [s \in Streams |-> NoBuffer]
             de == [s \in Streams |-> NoMsg]
             pe == [c \in Conns |-> <<>>]
             bo == [g \in Gens |-> Unborn]
  <1>1. /\ st = [buffers |-> bu, decoders |-> de, pending |-> pe, known |-> {}, born |-> bo,
                 roles |-> {}, ws |-> {}, gapped |-> {}, last |-> 0, total |-> 0, active |-> 0,
                 parsed |-> 0, refused |-> 0, out |-> <<>>, gone |-> {}]
        /\ now = 0
        /\ sent = [g \in Gens |-> [reqs |-> 0, resps |-> 0, open |-> {}, ws |-> FALSE,
                                   hurt |-> {}, faults |-> 0]]
    BY DEF Init
  <1>2. /\ bu \in BufferMap /\ de \in DecoderMap /\ pe \in PendingMap /\ bo \in BornMap
    <2>1. \A c \in Conns : pe[c] \in Seq(Request)
      BY EmptySeq
    <2>2. pe \in PendingMap
      BY <2>1 DEF PendingMap
    <2>3. bu \in BufferMap /\ bo \in BornMap
      BY DEF BufferMap, BornMap
    <2>4. de \in DecoderMap
      BY DEF DecoderMap, NoMsg, Message
    <2> QED
      BY <2>2, <2>3, <2>4
  <1>3. 0 \in Times /\ 0 \in Int /\ <<>> \in Seq(Event)
    BY Constants, EmptySeq DEF Times
  <1>4. /\ \A x \in Streams : bu[x] = NoBuffer /\ de[x] = NoMsg
        /\ \A c \in Conns : pe[c] = <<>>
    OBVIOUS
  <1> HIDE DEF bu, de, pe, bo
  <1>5. st \in State
    BY <1>1, <1>2, <1>3, Zenon DEF State
  <1>6. /\ st.buffers = bu /\ st.decoders = de /\ st.pending = pe /\ st.known = {} /\ st.ws = {}
        /\ st.gapped = {} /\ st.last = 0 /\ st.total = 0 /\ st.active = 0 /\ st.parsed = 0
        /\ st.refused = 0 /\ st.out = <<>>
    BY <1>1
  <1>7. Books(st, 0)
    <2>1. ASSUME NEW h, NEW S, \A x \in S : h[x] = 0 PROVE Total(h, S) = 0
      <3>1. Units(h, S) = {}
        BY <2>1 DEF Units
      <3> QED
        BY <3>1, FS_EmptySet DEF Total
    <2>2. \A x \in Streams : Sizes(st)[x] = 0
      BY <1>4, <1>6 DEF Sizes
    <2>3. \A c \in Conns : Lens(st)[c] = 0
      BY <1>4, <1>6 DEF Lens
    <2>4. Total(Sizes(st), Streams) = 0 /\ Total(Lens(st), Conns) = 0
      BY <2>1, <2>2, <2>3
    <2>5. Cardinality({}) = 0 /\ Len(<<>>) = 0
      BY FS_EmptySet
    <2> QED
      BY <2>4, <2>5, <1>6, Constants DEF Books
  <1>8. Fresh(st, now)
    BY <1>1, <1>4, <1>6 DEF Fresh, FreshBuffers, FreshQueue
  <1>9. Untorn(st, sent)
    <2>1. UntornStreams(st, sent)
      BY <1>4, <1>6 DEF UntornStreams, InLine, NoMsg, NoBuffer
    <2> QED
      BY <2>1, <1>4, <1>6 DEF Untorn, GapsEmpty, Upgraded, UntornQueues, UntornOut
  <1>10. sent \in SentMap /\ UpgradedIdle(sent)
    BY <1>1 DEF SentMap, UpgradedIdle
  <1> QED
    BY <1>1, <1>3, <1>5, <1>7, <1>8, <1>9, <1>10 DEF StreamInv, Kept

(* What only sheds state keeps the invariant.                              *)
LEMMA ShedsKept ==
  ASSUME NEW s, NEW t, NEW p, Kept(s, t, p), NEW r, Sheds(r, s), Fresh(r, t)
  PROVE  Kept(r, t, p)
  BY ShedsUntorn DEF Kept, Sheds

(* Every step keeps the invariant.                                         *)
LEMMA NextInv ==
  StreamInv /\ [Next]_vars => StreamInv'
  <1> SUFFICES ASSUME StreamInv, [Next]_vars PROVE StreamInv'
    OBVIOUS
  <1>1. /\ Kept(st, now, sent) /\ st \in State /\ Fresh(st, now) /\ now \in Times
        /\ sent \in SentMap /\ UpgradedIdle(sent)
    BY DEF StreamInv, Kept
  <1>2. ASSUME NEW g \in Gens, NEW dir \in Dirs, NEW fate \in Fates, Receive(g, dir, fate)
        PROVE  StreamInv'
    <2> DEFINE x == [gen |-> g, dir |-> dir]
    <2>1. PICK c \in NextChunk(g, dir) :
            /\ sent' = [sent EXCEPT ![g] = Progress(@, dir, c, fate)]
            /\ IF fate = "lost" THEN st' = st
               ELSE \E hint \in Hints :
                      st' \in HandleEvent(st, g, dir, c, fate = "truncated", hint, now)
      BY <1>2 DEF Receive
    <2>2. /\ c \in Chunks /\ sent' \in SentMap /\ UpgradedIdle(sent')
          /\ Follows(sent, sent', x, c)
          /\ fate = "lost" => "lost" \in sent'[g].hurt
      BY <1>1, <2>1, ChunkFollows
    <2>3. now' = now /\ x \in Streams /\ x.gen = g
      BY <1>2 DEF Receive, Streams
    <2>4. CASE fate = "lost"
      <3>1. Rest(st, x, now, sent')
        BY <1>1, <2>2, <2>3, FollowsRest
      <3>2. ~Sound(st, sent', x.gen)
        BY <2>2, <2>3, <2>4 DEF Sound
      <3>3. Kept(st, now, sent')
        BY <2>3, <3>1, <3>2, RestKept
      <3>4. st' = st
        BY <2>1, <2>4
      <3> QED
        BY <1>1, <2>2, <2>3, <3>3, <3>4 DEF StreamInv
    <2>5. CASE fate # "lost"
      <3>1. PICK hint \in Hints :
              st' \in HandleEvent(st, g, dir, c, fate = "truncated", hint, now)
        BY <2>1, <2>5
      <3> DEFINE tr == fate = "truncated"
      <3>2. tr \in BOOLEAN
        OBVIOUS
      <3>3. st' \in HandleEvent(st, g, dir, c, tr, hint, now)
        BY <3>1
      <3> HIDE DEF tr
      <3>4. Kept(st', now, sent')
        BY <1>1, <2>2, <2>3, <3>2, <3>3, HandleEventIs
      <3> QED
        BY <1>1, <2>2, <2>3, <3>4 DEF StreamInv
    <2> QED
      BY <2>4, <2>5
  <1>3. ASSUME Reuse PROVE StreamInv'
    BY <1>1, <1>3 DEF Reuse, StreamInv
  <1>4. ASSUME NEW g \in Gens, HandleClose(g) PROVE StreamInv'
    <2>1. st' = EvictConnection(st, g) /\ now' = now /\ sent' = sent
      BY <1>4 DEF HandleClose
    <2>2. Sheds(st', st) /\ st'.last = st.last
      BY <1>1, <2>1, EvictConnectionIs
    <2>3. Fresh(st', now)
      BY <1>1, <2>2, ShedsFresh
    <2>4. Kept(st', now, sent)
      BY <1>1, <2>2, <2>3, ShedsKept
    <2> QED
      BY <1>1, <2>1, <2>4 DEF StreamInv
  <1>5. ASSUME Sweep PROVE StreamInv'
    <2>1. st' \in EvictStale(st, now) /\ now' = now /\ sent' = sent
      BY <1>5 DEF Sweep
    <2>2. Sheds(st', st) /\ Fresh(st', now)
      BY <1>1, <2>1, EvictStaleIs
    <2>3. Kept(st', now, sent)
      BY <1>1, <2>2, ShedsKept
    <2> QED
      BY <1>1, <2>1, <2>3 DEF StreamInv
  <1>6. ASSUME Shutdown PROVE StreamInv'
    <2>1. st' = Evict(st, Conns, "sensor_shutdown") /\ now' = now /\ sent' = sent
      BY <1>6 DEF Shutdown, TakeAll
    <2>2. IsEvict(st', st, Conns)
      <3>1. "sensor_shutdown" \in Outcomes /\ Conns \in SUBSET Conns
        BY DEF Outcomes
      <3> QED
        BY <1>1, <2>1, <3>1, EvictIs
    <2>3. Sheds(st', st) /\ st'.last = st.last
      BY <2>2 DEF IsEvict
    <2>4. Fresh(st', now)
      BY <1>1, <2>3, ShedsFresh
    <2>5. Kept(st', now, sent)
      BY <1>1, <2>3, <2>4, ShedsKept
    <2> QED
      BY <1>1, <2>1, <2>5 DEF StreamInv
  <1>7. ASSUME Tick PROVE StreamInv'
    <2>1. st' = st /\ sent' = sent /\ now' = now + 1 /\ now < MaxTime
      BY <1>7 DEF Tick
    <2>2. now \in Int /\ now' \in Times /\ now <= now'
      BY <1>1, <2>1, Constants DEF Times
    <2>3. st.last \in Int /\ now' \in Int
      BY <1>1, <2>2, Constants DEF State, Times
    <2>4. ASSUME NEW n \in Int, n <= now PROVE n <= now'
      BY <2>2, <2>3, <2>4
    <2>5. FreshBuffers(st, now')
      <3>1. ASSUME NEW y \in Streams, st.buffers[y] # NoBuffer PROVE st.buffers[y].seen \in Int
        <4>1. st.buffers[y] \in Buffered
          BY <1>1, <3>1 DEF State, BufferMap
        <4> QED
          BY <4>1, Constants DEF Buffered, Times
      <3> QED
        BY <1>1, <2>4, <3>1 DEF Fresh, FreshBuffers
    <2>6. \A c \in Conns : FreshQueue(st.pending[c], st.last, now')
      <3>1. \A c \in Conns : \A i \in DOMAIN st.pending[c] : st.pending[c][i].ts \in Int
        BY <1>1, QueueFacts
      <3> QED
        BY <1>1, <2>4, <3>1 DEF Fresh, FreshQueue
    <2>7. Fresh(st, now')
      BY <1>1, <2>3, <2>4, <2>5, <2>6 DEF Fresh
    <2> QED
      BY <1>1, <2>1, <2>2, <2>7 DEF StreamInv, Kept
  <1>8. CASE UNCHANGED vars
    BY <1>1, <1>8 DEF vars, StreamInv
  <1> QED
    BY <1>2, <1>3, <1>4, <1>5, <1>6, <1>7, <1>8 DEF Next

(* Every reachable state has the invariant.                                *)
LEMMA Invariant ==
  Spec => []StreamInv
  BY InitInv, NextInv, PTL DEF Spec

(* What the queues hold together is what the connections hold.             *)
LEMMA WaitingIs ==
  ASSUME st \in State
  PROVE  Waiting = Total(Lens(st), Conns) /\ Held(st, Streams) = Total(Sizes(st), Streams)
  <1> DEFINE pend == st.pending
             lens == Lens(st)
  <1>1. \A c \in Conns : pend[c] \in Seq(Request) /\ lens[c] = Len(pend[c])
    BY DEF State, PendingMap, Lens
  <1>2. Waiting = Len(Concat(pend, Conns))
    BY DEF Waiting, Queued, Concat
  <1> HIDE DEF pend, lens
  <1>3. Len(Concat(pend, Conns)) = Total(lens, Conns)
    BY <1>1, Finite, ConcatIs
  <1>4. Held(st, Streams) = Total(Sizes(st), Streams)
    BY SizesType, Finite, SumIs DEF Held
  <1> QED
    BY <1>2, <1>3, <1>4 DEF lens

(* On every path through handle_event, evict_stale, evict_connection and   *)
(* take_all_incomplete, TOTAL_BUFFER_BYTES is what is held, within the     *)
(* ceiling, and ACTIVE_CONNECTIONS counts the known connections.           *)
THEOREM GaugesAreExact ==
  Spec => []GaugesExact
  <1>1. StreamInv => GaugesExact
    <2> SUFFICES ASSUME StreamInv PROVE GaugesExact
      OBVIOUS
    <2>1. st \in State /\ Books(st, 0)
      BY DEF StreamInv, Kept
    <2>2. Waiting = Total(Lens(st), Conns) /\ Held(st, Streams) = Total(Sizes(st), Streams)
      BY <2>1, WaitingIs
    <2>3. Total(Lens(st), Conns) \in Int /\ Total(Sizes(st), Streams) \in Int
      BY <2>1, SizesType, Finite, TotalType
    <2> QED
      BY <2>1, <2>2, <2>3 DEF Books, GaugesExact
  <1> QED
    BY <1>1, Invariant, PTL

(* Every parsed request waits, left in one event or was counted dropped.   *)
THEOREM RequestsAreAccounted ==
  Spec => []RequestsAccounted
  <1>1. StreamInv => RequestsAccounted
    <2> SUFFICES ASSUME StreamInv PROVE RequestsAccounted
      OBVIOUS
    <2>1. st \in State /\ Books(st, 0)
      BY DEF StreamInv, Kept
    <2>2. Waiting = Total(Lens(st), Conns)
      BY <2>1, WaitingIs
    <2>3. Total(Lens(st), Conns) \in Int
      BY <2>1, SizesType, Finite, TotalType
    <2> QED
      BY <2>1, <2>2, <2>3 DEF Books, RequestsAccounted
  <1> QED
    BY <1>1, Invariant, PTL

(* No buffer and no queued request outlives a sweep that finds it older    *)
(* than STREAM_TTL_MS.                                                     *)
THEOREM SweptStaysFresh ==
  Spec => []SweptIsFresh
  <1>1. StreamInv => SweptIsFresh
    BY DEF StreamInv, Kept, Fresh, FreshBuffers, FreshQueue, SweptIsFresh
  <1> QED
    BY <1>1, Invariant, PTL

(* Unless a chunk was lost, refused or of unknown role, no message is put  *)
(* together across missing bytes.                                          *)
THEOREM NothingIsJoined ==
  Spec => []NeverJoined
  <1>1. StreamInv => NeverJoined
    <2> SUFFICES ASSUME StreamInv PROVE NeverJoined
      OBVIOUS
    <2>1. st \in State /\ Untorn(st, sent)
      BY DEF StreamInv, Kept
    <2>2. ASSUME NEW g, Troubles(g) \cap {"lost", "chunk", "ambiguous"} = {}
          PROVE  Sound(st, sent, g)
      BY <2>2 DEF Troubles, Sound
    <2> QED
      BY <2>1, <2>2 DEF NeverJoined, Untorn, UntornOut, UntornQueues
  <1> QED
    BY <1>1, Invariant, PTL

-----------------------------------------------------------------------------
(* Which request a response takes.                                         *)

(* What may have happened to a generation for its streams to be read       *)
(* whole, for its requests to be answered one at a time, and for none of   *)
(* them to have been given up.                                             *)
Losing(s, g, whats) == \A l \in s.gone : l.gen = g => l.what \in whats
Calm(s, p, g) ==
    p[g].hurt \subseteq {"pipelined"} /\ Losing(s, g, {"unanswered", "forgotten"})
Serial(s, p, g) == p[g].hurt = {} /\ Losing(s, g, {"unanswered", "forgotten"})
Unbroken(s, p, g) == p[g].hurt \subseteq {"pipelined"} /\ Losing(s, g, {})
Exact(s, p, g) == Serial(s, p, g) \/ Unbroken(s, p, g)

(* The decoder of stream x is where its peer is.                           *)
Expected(p, x) ==
    IF x.dir \in p[x.gen].open THEN [msg |-> Count(p, x) + 1, torn |-> FALSE] ELSE NoMsg
Tracked(s, p, x) ==
    ~p[x.gen].ws => Current(s, x) = Expected(p, x) /\ x \notin s.gapped /\ Settled(s, x)
Tracks(s, p) == \A x \in Streams : Calm(s, p, x.gen) => Tracked(s, p, x)

(* The first requests of queue q are the ones the peers answer next.       *)
Fits(q, m) == Len(q) <= m.reqs - m.resps /\ \A i \in DOMAIN q : q[i].msg = m.resps + i
OnLine(s, p, g, c) ==
    /\ Exact(s, p, g) => Fits(s.pending[c], p[g])
    /\ Unbroken(s, p, g) => Len(s.pending[c]) = p[g].reqs - p[g].resps
Idle(s, p, g) == Unbroken(s, p, g) /\ s.born[g] = Unborn => p[g].reqs = p[g].resps
Lines(s, p, t) == \A g \in Gens : OnLine(s, p, g, NextConn(s, g, t)) /\ Idle(s, p, g)

(* No request waits on a connection younger than its generation's.         *)
Aged(s, c, t) ==
    s.pending[c] # <<>> => c.born <= t /\ (s.born[c.gen] # Unborn => c.born <= s.born[c.gen])
Ages(s, t) == (\A g \in Gens : s.born[g] <= t) /\ \A c \in Conns : Aged(s, c, t)

(* An event pairs a request with its response.                             *)
Right(e) == e.outcome = "paired" => e.req = e.resp
Matches(s, p) == \A i \in DOMAIN s.out : Exact(s, p, s.out[i].gen) => Right(s.out[i])

Pairing(s, p, t) == Tracks(s, p) /\ Lines(s, p, t) /\ Ages(s, t) /\ Matches(s, p)

(* How far the peers are: a response follows its request, and a client     *)
(* that does not pipeline waits for it.                                    *)
Counted(m) ==
    /\ m.resps <= m.reqs
    /\ "response" \in m.open => m.resps < m.reqs
    /\ "pipelined" \notin m.hurt =>
         m.reqs <= m.resps + 1 /\ ("request" \in m.open => m.reqs = m.resps)
Counts(p) == \A g \in Gens : Counted(p[g])

PairInv == StreamInv /\ Counts(sent) /\ Pairing(st, sent, now)

(* Troubles only grow.                                                     *)
LEMMA TroublesGrow ==
  ASSUME NEW s, NEW r, s.gone \subseteq r.gone, NEW p, NEW q, NEW g, p[g].hurt \subseteq q[g].hurt
  PROVE  /\ Calm(r, q, g) => Calm(s, p, g)
         /\ Serial(r, q, g) => Serial(s, p, g)
         /\ Unbroken(r, q, g) => Unbroken(s, p, g)
         /\ Exact(r, q, g) => Exact(s, p, g)
  <1>1. \A w : Losing(r, g, w) => Losing(s, g, w)
    BY DEF Losing
  <1> QED
    BY <1>1 DEF Calm, Serial, Unbroken, Exact

(* What each kind of trouble excludes.                                     *)
LEMMA TroublesAre ==
  ASSUME NEW s, NEW p, NEW g
  PROVE  /\ Exact(s, p, g) => Calm(s, p, g)
         /\ Calm(s, p, g) => Sound(s, p, g)
         /\ Unbroken(s, p, g) => Exact(s, p, g)
         /\ Calm(s, p, g) => "lost" \notin p[g].hurt /\ "truncated" \notin p[g].hurt
         /\ \A what : Loss(g, what) \in s.gone => ~Unbroken(s, p, g)
         /\ \A what : Loss(g, what) \in s.gone /\ what \notin {"unanswered", "forgotten"}
                      => ~Calm(s, p, g)
  <1>1. \A what : Loss(g, what).gen = g /\ Loss(g, what).what = what
    BY DEF Loss
  <1>2. \A what, w : Loss(g, what) \in s.gone /\ Losing(s, g, w) => what \in w
    BY <1>1 DEF Losing
  <1>3. /\ \A what : Loss(g, what) \in s.gone => ~Unbroken(s, p, g)
        /\ \A what : Loss(g, what) \in s.gone /\ what \notin {"unanswered", "forgotten"}
                      => ~Calm(s, p, g)
    BY <1>2 DEF Unbroken, Calm
  <1>4. Losing(s, g, {}) => Losing(s, g, {"unanswered", "forgotten"})
    BY DEF Losing
  <1>5. Calm(s, p, g) => Sound(s, p, g)
    BY DEF Calm, Sound, Losing
  <1> QED
    BY <1>3, <1>4, <1>5 DEF Exact, Serial, Unbroken, Calm

(* The numbers of the peers.                                               *)
LEMMA SentIs ==
  ASSUME NEW p \in SentMap, NEW g \in Gens
  PROVE  /\ p[g].reqs \in Nat /\ p[g].resps \in Nat /\ p[g].open \in SUBSET Dirs
         /\ p[g].hurt \in SUBSET {"lost", "truncated", "pipelined"} /\ p[g].ws \in BOOLEAN
  BY DEF SentMap

(* What is left of a queue that fits, with at most one request owed, fits. *)
LEMMA FitsSuffix ==
  ASSUME NEW q \in Seq(Request), NEW w \in Seq(Request), NEW n, Suffix(w, q, n), NEW m,
         m.reqs \in Nat, m.resps \in Nat, m.resps <= m.reqs, m.reqs <= m.resps + 1, Fits(q, m)
  PROVE  Fits(w, m)
  <1> DEFINE a == m.reqs
             b == m.resps
  <1>1. a \in Nat /\ b \in Nat /\ b <= a /\ a <= b + 1
    OBVIOUS
  <1>2. Len(q) <= a - b /\ \A i \in DOMAIN q : q[i].msg = b + i
    BY DEF Fits
  <1> HIDE DEF a, b
  <1>3. Len(q) \in Nat /\ Len(w) \in Nat /\ DOMAIN q = 1..Len(q) /\ DOMAIN w = 1..Len(w)
    BY LenProperties
  <1>4. n \in 0..Len(q) /\ Len(w) = Len(q) - n /\ \A i \in 1..Len(w) : w[i] = q[n + i]
    BY DEF Suffix
  <1>5. n \in Nat /\ Len(w) <= a - b
    BY <1>1, <1>2, <1>3, <1>4
  <1>6. ASSUME NEW i \in DOMAIN w PROVE w[i].msg = b + i
    <2>1. n = 0 /\ i \in DOMAIN q /\ n + i = i
      BY <1>1, <1>2, <1>3, <1>4, <1>5
    <2>2. w[i] = q[i]
      BY <1>3, <1>4, <2>1
    <2> QED
      BY <1>2, <2>1, <2>2
  <1> QED
    BY <1>5, <1>6 DEF Fits, a, b

(* No request waits.                                                       *)
LEMMA FitsEmpty ==
  ASSUME NEW m, m.reqs \in Nat, m.resps \in Nat, m.resps <= m.reqs
  PROVE  Fits(<<>>, m) /\ Len(<<>>) = 0
  <1> DEFINE a == m.reqs
             b == m.resps
  <1>1. a \in Nat /\ b \in Nat /\ b <= a
    OBVIOUS
  <1> HIDE DEF a, b
  <1>2. 0 <= a - b
    BY <1>1
  <1>3. Len(<<>>) = 0 /\ DOMAIN <<>> = {}
    OBVIOUS
  <1> QED
    BY <1>2, <1>3 DEF Fits, a, b

(* What an eviction leaves of a connection's line.                         *)
LEMMA TidyLine ==
  ASSUME NEW s \in State, NEW r, Sheds(r, s), Tidies(r, s), NEW p \in SentMap, Counts(p),
         UntornQueues(s, p), NEW c \in Conns, OnLine(s, p, c.gen, c)
  PROVE  OnLine(r, p, c.gen, c)
  <1> DEFINE g == c.gen
             m == p[g]
             q == s.pending[c]
             w == r.pending[c]
  <1>0. g \in Gens /\ r \in State
    BY DEF Conns, Sheds
  <1>1. /\ m.reqs \in Nat /\ m.resps \in Nat /\ m.resps <= m.reqs
        /\ "pipelined" \notin m.hurt => m.reqs <= m.resps + 1
    BY <1>0, SentIs DEF Counts, Counted
  <1>2. q \in Seq(Request) /\ w \in Seq(Request)
    BY <1>0, QueueFacts
  <1>3. PICK n \in Nat : Suffix(w, q, n)
    BY DEF Sheds
  <1>4. /\ Serial(r, p, g) => Serial(s, p, g)
        /\ Unbroken(r, p, g) => Unbroken(s, p, g)
    <2>1. s.gone \subseteq r.gone /\ p[g].hurt \subseteq p[g].hurt
      BY DEF Sheds
    <2> HIDE DEF g
    <2> QED
      BY <2>1, TroublesGrow
  <1>5. ASSUME Unbroken(r, p, g) PROVE w = q
    <2>1. \A i \in DOMAIN q : q[i].gen = g
      BY DEF UntornQueues
    <2>2. \A i \in DOMAIN q : Unanswered(q[i]) = Loss(g, "unanswered")
      BY <2>1 DEF Unanswered, Loss
    <2>3. Loss(g, "unanswered") \notin r.gone
      BY <1>5, TroublesAre
    <2>4. w = q \/ \E i \in DOMAIN q : Unanswered(q[i]) \in r.gone
      BY DEF Tidies
    <2> HIDE DEF q, w, g
    <2> QED
      BY <2>2, <2>3, <2>4
  <1>6. OnLine(s, p, g, c)
    OBVIOUS
  <1>7. /\ Exact(s, p, g) => Fits(q, m)
        /\ Unbroken(s, p, g) => Len(q) = m.reqs - m.resps
    BY <1>6 DEF OnLine
  <1>8. ASSUME Serial(r, p, g) PROVE Fits(w, m)
    <2>1. Fits(q, m)
      BY <1>4, <1>7, <1>8 DEF Exact
    <2>2. m.hurt = {}
      BY <1>8 DEF Serial
    <2>3. m.reqs <= m.resps + 1
      BY <1>1, <2>2
    <2> HIDE DEF q, w, m
    <2> QED
      BY <1>1, <1>2, <1>3, <2>1, <2>3, FitsSuffix
  <1>9. ASSUME Unbroken(r, p, g) PROVE Fits(w, m) /\ Len(w) = m.reqs - m.resps
    <2> HIDE DEF q, w, m, g
    <2> QED
      BY <1>4, <1>5, <1>7, <1>9 DEF Exact
  <1> HIDE DEF g
  <1>10. OnLine(r, p, g, c)
    BY <1>8, <1>9 DEF OnLine, Exact
  <1> QED
    BY <1>10 DEF g

(* What evictions leave in line is in line.                                *)
LEMMA TidyPairing ==
  ASSUME NEW s \in State, NEW r, Sheds(r, s), Tidies(r, s), NEW p \in SentMap, Counts(p),
         NEW t \in Times, UntornQueues(s, p), Pairing(s, p, t)
  PROVE  /\ Pairing(r, p, t)
         /\ \A g \in Gens : /\ OnLine(r, p, g, NextConn(s, g, t))
                            /\ \/ NextConn(r, g, t) = NextConn(s, g, t)
                               \/ r.pending[NextConn(r, g, t)] = <<>>
  <1>0. r \in State /\ s.gone \subseteq r.gone
    BY DEF Sheds
  <1>1. ASSUME NEW g
        PROVE  /\ Calm(r, p, g) => Calm(s, p, g)
               /\ Unbroken(r, p, g) => Unbroken(s, p, g)
               /\ Exact(r, p, g) => Exact(s, p, g)
    BY <1>0, TroublesGrow
  <1>2. Tracks(r, p)
    <2> SUFFICES ASSUME NEW x \in Streams, Calm(r, p, x.gen), ~p[x.gen].ws
                 PROVE  Current(r, x) = Expected(p, x) /\ x \notin r.gapped /\ Settled(r, x)
      BY DEF Tracks, Tracked
    <2>1. Current(s, x) = Expected(p, x) /\ x \notin s.gapped /\ Settled(s, x)
      BY <1>1 DEF Pairing, Tracks, Tracked
    <2>2. Loss(x.gen, "partial") \notin r.gone
      BY TroublesAre
    <2>3. SameMessage(r, s, x)
      BY <2>2 DEF Tidies
    <2>4. x \notin r.gapped
      BY <2>1 DEF Sheds
    <2> QED
      BY <2>1, <2>3, <2>4 DEF SameMessage
  <1>3. ASSUME NEW c \in Conns, r.pending[c] # <<>> PROVE s.pending[c] # <<>>
    <2>1. PICK n \in Nat : Suffix(r.pending[c], s.pending[c], n)
      BY DEF Sheds
    <2> DEFINE q == s.pending[c]
               w == r.pending[c]
    <2>2. q \in Seq(Request) /\ w \in Seq(Request) /\ Suffix(w, q, n) /\ w # <<>>
      BY <1>0, <1>3, <2>1, QueueFacts
    <2> HIDE DEF q, w
    <2>3. Len(w) \in Nat \ {0} /\ Len(w) = Len(q) - n /\ Len(q) \in Nat
      BY <2>2, EmptySeq, LenProperties DEF Suffix
    <2>4. Len(q) # 0
      BY <2>3
    <2>5. q # <<>>
      BY <2>4, EmptySeq
    <2> QED
      BY <2>5 DEF q
  <1>4. ASSUME NEW g \in Gens
        PROVE  /\ OnLine(r, p, g, NextConn(s, g, t))
               /\ \/ NextConn(r, g, t) = NextConn(s, g, t)
                  \/ r.pending[NextConn(r, g, t)] = <<>>
               /\ OnLine(r, p, g, NextConn(r, g, t))
               /\ Idle(r, p, g)
               /\ r.born[g] <= t
    <2> DEFINE c == NextConn(s, g, t)
               d == NextConn(r, g, t)
    <2>1. c \in Conns /\ c.gen = g /\ d \in Conns /\ d.gen = g
      BY <1>0, NextConnIs
    <2>2. OnLine(s, p, g, c) /\ Idle(s, p, g)
      BY DEF Pairing, Lines
    <2>3. OnLine(r, p, g, c)
      <3> HIDE DEF c
      <3> QED
        BY <2>1, <2>2, TidyLine
    <2>4. \/ r.born[g] = s.born[g]
          \/ r.born[g] = Unborn /\ (Loss(g, "forgotten") \in r.gone \/ Silent(r, g))
      BY DEF Tidies
    <2>m. p[g].reqs \in Nat /\ p[g].resps \in Nat /\ p[g].resps <= p[g].reqs
      BY SentIs DEF Counts, Counted
    <2>b. r.born[g] <= t
      <3>1. s.born[g] <= t
        BY DEF Pairing, Ages
      <3>2. Unborn <= t
        BY Constants DEF Unborn, Times
      <3> QED
        BY <2>4, <3>1, <3>2
    <2>5. CASE r.born[g] = s.born[g]
      <3>1. d = c
        BY <2>5 DEF NextConn
      <3>2. Idle(r, p, g)
        BY <1>1, <2>2, <2>5 DEF Idle
      <3> QED
        BY <2>3, <2>b, <3>1, <3>2
    <2>6. CASE r.born[g] # s.born[g]
      <3>1. r.born[g] = Unborn /\ s.born[g] # Unborn /\ d.born = t /\ c.born = s.born[g]
        BY <1>0, <2>4, <2>6, NextConnIs
      <3>2. d = c \/ r.pending[d] = <<>>
        <4> SUFFICES ASSUME r.pending[d] # <<>> PROVE d = c
          OBVIOUS
        <4> HIDE DEF c, d
        <4>1. s.pending[d] # <<>>
          BY <1>3, <2>1
        <4>2. Aged(s, d, t) /\ s.born[g] <= t
          BY <2>1 DEF Pairing, Ages
        <4>3. t <= s.born[g]
          BY <2>1, <3>1, <4>1, <4>2 DEF Aged
        <4>4. s.born[g] \in Int /\ t \in Int
          BY <3>1, NextConnIs, Constants DEF Times
        <4>5. d.born = c.born
          BY <3>1, <4>2, <4>3, <4>4
        <4> QED
          BY <2>1, <4>5, NextConnIs
      <3>3. OnLine(r, p, g, d) /\ Idle(r, p, g)
        <4>1. CASE Loss(g, "forgotten") \in r.gone
          <5>1. ~Unbroken(r, p, g)
            BY <4>1, TroublesAre
          <5>2. OnLine(r, p, g, d)
            <6>1. CASE d = c
              BY <2>3, <6>1
            <6>2. CASE r.pending[d] = <<>>
              BY <5>1, <6>2, <2>m, FitsEmpty DEF OnLine
            <6> QED
              BY <3>2, <6>1, <6>2
          <5> QED
            BY <5>1, <5>2 DEF Idle
        <4>2. CASE Silent(r, g)
          <5> HIDE DEF c, d
          <5>1. r.pending[c] = <<>> /\ r.pending[d] = <<>>
            BY <2>1, <4>2 DEF Silent
          <5>2. Unbroken(r, p, g) => 0 = p[g].reqs - p[g].resps
            BY <5>1, <2>3, <2>m, FitsEmpty DEF OnLine
          <5>3. OnLine(r, p, g, d)
            BY <5>1, <5>2, <2>m, FitsEmpty DEF OnLine
          <5>4. Unbroken(r, p, g) => p[g].reqs = p[g].resps
            BY <5>2, <2>m
          <5> QED
            BY <5>3, <5>4 DEF Idle
        <4> QED
          BY <2>4, <2>6, <4>1, <4>2
      <3> QED
        BY <2>3, <2>b, <3>2, <3>3
    <2> QED
      BY <2>5, <2>6
  <1>5. Lines(r, p, t)
    BY <1>4 DEF Lines
  <1>6. Ages(r, t)
    <2>1. ASSUME NEW c \in Conns, r.pending[c] # <<>>
          PROVE  c.born <= t /\ (r.born[c.gen] # Unborn => c.born <= r.born[c.gen])
      <3>1. Aged(s, c, t) /\ s.pending[c] # <<>>
        BY <1>3, <2>1 DEF Pairing, Ages
      <3>2. c.gen \in Gens
        BY DEF Conns
      <3>3. r.born[c.gen] = s.born[c.gen] \/ r.born[c.gen] = Unborn
        BY <3>2 DEF Tidies
      <3> QED
        BY <3>1, <3>3 DEF Aged
    <2>2. \A c \in Conns : Aged(r, c, t)
      BY <2>1 DEF Aged
    <2>3. \A g \in Gens : r.born[g] <= t
      BY <1>4
    <2> QED
      BY <2>2, <2>3 DEF Ages
  <1>7. Matches(r, p)
    <2> SUFFICES ASSUME NEW i \in DOMAIN r.out, Exact(r, p, r.out[i].gen) PROVE Right(r.out[i])
      BY DEF Matches
    <2>1. \/ i \in DOMAIN s.out /\ r.out[i] = s.out[i]
          \/ r.out[i].outcome # "paired"
      BY DEF Sheds
    <2>2. CASE i \in DOMAIN s.out /\ r.out[i] = s.out[i]
      BY <1>1, <2>2 DEF Pairing, Matches
    <2>3. CASE r.out[i].outcome # "paired"
      BY <2>3 DEF Right
    <2> QED
      BY <2>1, <2>2, <2>3
  <1>8. Pairing(r, p, t)
    BY <1>2, <1>5, <1>6, <1>7 DEF Pairing
  <1> QED
    BY <1>4, <1>8

-----------------------------------------------------------------------------
(* What a chunk does to the queue of its connection.                       *)

(* Only stream x and connection conn are concerned.                        *)
Apart(r, s, y) ==
    /\ r.buffers[y] = s.buffers[y] /\ r.decoders[y] = s.decoders[y]
    /\ y \in r.gapped => y \in s.gapped
Touches(r, s, conn, x) ==
    /\ r \in State /\ s.gone \subseteq r.gone /\ r.born = s.born
    /\ \A c \in Conns : c # conn => r.pending[c] = s.pending[c]
    /\ \A y \in Streams : y # x => Apart(r, s, y)
    /\ \A i \in DOMAIN r.out : \/ i \in DOMAIN s.out /\ r.out[i] = s.out[i]
                               \/ r.out[i].gen = conn.gen

(* A chunk that ends a message queues a request or pairs a response.       *)
Done(c) == c.part \in {"whole", "tail"} /\ c.kind # "interim"
SameLine(r, s, conn) == r.pending[conn] = s.pending[conn] /\ r.out = s.out
Queues(r, s, conn, n) ==
    r.out = s.out /\ \E e \in Request : e.msg = n /\ r.pending[conn] = Append(s.pending[conn], e)
Answers(r, s, conn, n) ==
    \/ s.pending[conn] = <<>> /\ SameLine(r, s, conn)
    \/ /\ s.pending[conn] # <<>> /\ r.pending[conn] = Tail(s.pending[conn])
       /\ \E e : /\ r.out = Append(s.out, e) /\ e.gen = conn.gen
                 /\ e.req = Head(s.pending[conn]).msg /\ e.resp = n
Serves(r, s, conn, x, c) ==
    /\ ~Done(c) => SameLine(r, s, conn)
    /\ Done(c) /\ x.dir = "request" => Queues(r, s, conn, c.msg)
    /\ Done(c) /\ x.dir # "request" => Answers(r, s, conn, c.msg)

(* Handlers one after the other.                                           *)
LEMMA TouchesTwice ==
  ASSUME NEW s, NEW u, NEW r, NEW conn, NEW x, Touches(u, s, conn, x), Touches(r, u, conn, x)
  PROVE  Touches(r, s, conn, x)
  <1>1. r \in State /\ s.gone \subseteq r.gone /\ r.born = s.born
    BY DEF Touches
  <1>2. \A c \in Conns : c # conn => r.pending[c] = s.pending[c]
    BY DEF Touches
  <1>3. \A y \in Streams : y # x => Apart(r, s, y)
    BY DEF Touches, Apart
  <1>4. \A i \in DOMAIN r.out : \/ i \in DOMAIN s.out /\ r.out[i] = s.out[i]
                                \/ r.out[i].gen = conn.gen
    BY DEF Touches
  <1> QED
    BY <1>1, <1>2, <1>3, <1>4 DEF Touches

Steps(r, s, conn, x, b, d, gaps) ==
    /\ Touches(r, s, conn, x) /\ SameLine(r, s, conn)
    /\ r.buffers[x] = b /\ r.decoders[x] = d /\ r.gapped = gaps

(* A step of one stream touches nothing else.                              *)
LEMMA StepTouches ==
  ASSUME NEW s \in State, NEW x \in Streams, NEW conn, NEW r, NEW b, NEW d, NEW gaps,
         StreamStep(r, s, x, b, d, gaps), gaps \subseteq s.gapped \cup {x}
  PROVE  Steps(r, s, conn, x, b, d, gaps)
  <1>1. s.buffers \in BufferMap /\ s.decoders \in DecoderMap
    BY DEF State
  <1>2. /\ r \in State /\ r.buffers = [s.buffers EXCEPT ![x] = b]
        /\ r.decoders = [s.decoders EXCEPT ![x] = d] /\ r.gapped = gaps
        /\ r.pending = s.pending /\ r.born = s.born /\ r.out = s.out /\ r.gone = s.gone
    BY DEF StreamStep
  <1>3. r.buffers[x] = b /\ r.decoders[x] = d
    BY <1>1, <1>2 DEF BufferMap, DecoderMap
  <1>4. \A y \in Streams : y # x => r.buffers[y] = s.buffers[y] /\ r.decoders[y] = s.decoders[y]
    BY <1>1, <1>2 DEF BufferMap, DecoderMap
  <1>5. \A y \in Streams : y # x => Apart(r, s, y)
    BY <1>2, <1>4 DEF Apart
  <1> QED
    BY <1>2, <1>3, <1>5 DEF Touches, SameLine, Steps

(* What Deliver does to the queue.                                         *)
LEMMA DeliverServes ==
  ASSUME NEW s \in State, NEW conn \in Conns, NEW x \in Streams, NEW c \in Chunks,
         NEW m \in Message, NEW t \in Times, NEW r,
         r = Deliver(s, conn, x.dir, c.kind, m, t)
  PROVE  /\ Touches(r, s, conn, x) /\ SameStreams(r, s)
         /\ (c.part \in {"whole", "tail"} /\ m.msg = c.msg /\ (x.dir = "request" => c.kind = "final"))
              => Loss(conn.gen, "request") \in r.gone \/ Serves(r, s, conn, x, c)
  <1>0. x.dir \in Dirs /\ s.out \in Seq(Event) /\ s.pending \in PendingMap /\ conn.gen \in Gens
    BY DEF Streams, State, Conns
  <1>1. IsDeliver(r, s, conn, x.dir, c.kind, m, t)
    BY <1>0, DeliverIs
  <1>2. r \in State /\ SameStreams(r, s) /\ s.gone \subseteq r.gone
    BY <1>1 DEF IsDeliver
  <1>3. r.born = s.born /\ \A y \in Streams : Apart(r, s, y)
    BY <1>2 DEF SameStreams, Apart
  <1>e. ASSUME NEW u \in State, IsPair(r, u, conn, m), u.pending = s.pending, u.out = s.out
        PROVE  /\ \A d \in Conns : d # conn => r.pending[d] = s.pending[d]
               /\ \A i \in DOMAIN r.out : \/ i \in DOMAIN s.out /\ r.out[i] = s.out[i]
                                          \/ r.out[i].gen = conn.gen
               /\ Answers(r, s, conn, m.msg)
    <2>1. CASE u.pending[conn] = <<>> /\ r.pending = u.pending /\ r.out = u.out
      BY <2>1, <1>e DEF Answers, SameLine
    <2>2. CASE /\ u.pending[conn] # <<>>
               /\ r.pending = [u.pending EXCEPT ![conn] = Tail(u.pending[conn])]
               /\ r.out = Append(u.out, Answer(u, conn, m))
      <3> DEFINE e == Answer(u, conn, m)
      <3>1. /\ e.gen = conn.gen /\ e.req = Head(s.pending[conn]).msg /\ e.resp = m.msg
        BY <1>e DEF Answer
      <3> HIDE DEF e
      <3>2. r.out = Append(s.out, e) /\ r.out \in Seq(Event)
        BY <2>2, <1>e, <1>2 DEF e, State
      <3>3. \A i \in DOMAIN r.out : \/ i \in DOMAIN s.out /\ r.out[i] = s.out[i]
                                    \/ r.out[i].gen = conn.gen
        <4> DEFINE o == s.out
                   v == r.out
        <4>1. o \in Seq(Event) /\ v = Append(o, e)
          BY <1>0, <3>2
        <4> HIDE DEF o, v
        <4>2. /\ Len(o) \in Nat /\ DOMAIN o = 1..Len(o)
              /\ DOMAIN v = 1..(Len(o) + 1) /\ v[Len(o) + 1] = e
              /\ \A i \in 1..Len(o) : v[i] = o[i]
          BY <4>1, LenProperties
        <4>3. ASSUME NEW i \in DOMAIN v PROVE (i \in DOMAIN o /\ v[i] = o[i]) \/ v[i].gen = conn.gen
          <5>1. i \in 1..Len(o) \/ i = Len(o) + 1
            BY <4>2
          <5> QED
            BY <3>1, <4>2, <5>1
        <4> QED
          BY <4>3 DEF o, v
      <3>4. /\ r.pending[conn] = Tail(s.pending[conn])
            /\ \A d \in Conns : d # conn => r.pending[d] = s.pending[d]
        BY <2>2, <1>e, <1>0 DEF PendingMap
      <3> QED
        BY <2>2, <3>1, <3>2, <3>3, <3>4, <1>e DEF Answers
    <2> QED
      BY <2>1, <2>2, <1>e DEF IsPair
  <1>4. CASE x.dir = "request"
    <2> DEFINE req == [gen |-> conn.gen, msg |-> m.msg, torn |-> m.torn, ts |-> t]
    <2>1. r = Push(s, conn, req)
      BY <1>4 DEF Deliver
    <2>2. m.msg \in Nat /\ m.torn \in BOOLEAN
      BY DEF Message
    <2>3. req \in Request /\ req.msg = m.msg
      BY <1>0, <2>2 DEF Request
    <2> HIDE DEF req
    <2>4. IsPush(r, s, conn, req)
      BY <2>1, <2>3, PushIs
    <2>5. r.out = s.out
      BY <2>4 DEF IsPush
    <2>6. CASE r.pending = s.pending /\ [gen |-> conn.gen, what |-> "request"] \in r.gone
      <3>1. Touches(r, s, conn, x)
        BY <1>2, <1>3, <2>5, <2>6 DEF Touches
      <3> QED
        BY <1>2, <2>6, <3>1 DEF Loss
    <2>7. CASE r.pending = [s.pending EXCEPT ![conn] = Append(s.pending[conn], req)]
      <3>1. /\ r.pending[conn] = Append(s.pending[conn], req)
            /\ \A d \in Conns : d # conn => r.pending[d] = s.pending[d]
        BY <2>7, <1>0 DEF PendingMap
      <3>2. Touches(r, s, conn, x)
        BY <1>2, <1>3, <2>5, <3>1 DEF Touches
      <3>3. m.msg = c.msg => Queues(r, s, conn, c.msg)
        BY <2>3, <2>5, <3>1 DEF Queues
      <3>4. c.part \in {"whole", "tail"} /\ c.kind = "final" => Done(c)
        BY DEF Done
      <3> QED
        BY <1>2, <1>4, <3>2, <3>3, <3>4 DEF Serves
    <2> QED
      BY <2>4, <2>6, <2>7 DEF IsPush
  <1>5. CASE x.dir # "request" /\ c.kind = "interim"
    <2>1. r = s
      BY <1>5 DEF Deliver
    <2>2. Touches(r, s, conn, x)
      BY <1>2, <1>3, <2>1 DEF Touches
    <2>3. ~Done(c)
      BY <1>5 DEF Done
    <2> QED
      BY <1>2, <2>1, <2>2, <2>3 DEF Serves, SameLine
  <1>6. CASE x.dir # "request" /\ c.kind # "interim"
    <2>1. PICK u \in State : IsPair(r, u, conn, m) /\ u.pending = s.pending /\ u.out = s.out
      <3>1. CASE c.kind = "upgrade"
        <4> DEFINE u == [s EXCEPT !.ws = @ \cup {conn}]
        <4>1. r = Pair(u, conn, m)
          BY <1>6, <3>1 DEF Deliver
        <4>2. s.ws \cup {conn} \in SUBSET Conns
          BY DEF State
        <4>3. u \in State
          BY <4>2, Zenon DEF State
        <4>4. u.pending = s.pending /\ u.out = s.out
          BY DEF State
        <4> HIDE DEF u
        <4> QED
          BY <4>1, <4>3, <4>4, PairIs
      <3>2. CASE c.kind # "upgrade"
        <4>1. r = Pair(s, conn, m)
          BY <1>6, <3>2 DEF Deliver
        <4> QED
          BY <4>1, PairIs
      <3> QED
        BY <3>1, <3>2
    <2>2. /\ \A d \in Conns : d # conn => r.pending[d] = s.pending[d]
          /\ \A i \in DOMAIN r.out : \/ i \in DOMAIN s.out /\ r.out[i] = s.out[i]
                                     \/ r.out[i].gen = conn.gen
          /\ Answers(r, s, conn, m.msg)
      BY <2>1, <1>e
    <2>3. Touches(r, s, conn, x)
      BY <1>2, <1>3, <2>2 DEF Touches
    <2>4. c.part \in {"whole", "tail"} => Done(c)
      BY <1>6 DEF Done
    <2>5. m.msg = c.msg => Answers(r, s, conn, c.msg)
      BY <2>2
    <2> QED
      BY <1>2, <1>6, <2>3, <2>4, <2>5 DEF Serves
  <1> QED
    BY <1>4, <1>5, <1>6

(* The chunk continues what its stream is in the middle of, and where the  *)
(* stream is after it.                                                     *)
Clean(c) == [msg |-> c.msg, torn |-> FALSE]
Continues(s, x, c) ==
    \/ c.part = "tail" /\ Current(s, x) = Clean(c)
    \/ c.part \in {"whole", "head", "body"} /\ Current(s, x) = NoMsg
After(c) == IF c.part \in {"head", "body"} THEN Clean(c) ELSE NoMsg
Ends(r, s, conn, x, c) ==
    /\ Serves(r, s, conn, x, c)
    /\ Current(r, x) = After(c) /\ Settled(r, x) /\ x \notin r.gapped
Hurt(r, g) == \E what \in {"request", "chunk", "buffer", "ambiguous"} : Loss(g, what) \in r.gone
Handles(r, s, conn, x, c) ==
    /\ Touches(r, s, conn, x)
    /\ Continues(s, x, c) /\ (x.dir = "request" => c.kind = "final") =>
         Hurt(r, x.gen) \/ Ends(r, s, conn, x, c)
    /\ c.part = "frame" /\ Current(s, x).msg = 0 => Hurt(r, x.gen) \/ SameLine(r, s, conn)

(* Decoding.                                                               *)
LEMMA FeedHandles ==
  ASSUME NEW s \in State, NEW x \in Streams, NEW t \in Times, NEW c \in Chunks,
         NEW conn \in Conns, conn.gen = x.gen, x \notin s.gapped, s.buffers[x] # NoBuffer,
         NEW r \in Feed(s, conn, x, c, t)
  PROVE  Handles(r, s, conn, x, c)
  <1> DEFINE cur == Current(s, x)
             inBody == s.decoders[x] # NoMsg
             joined == [msg |-> cur.msg, torn |-> TRUE]
             clean == [msg |-> c.msg, torn |-> FALSE]
             message(m) == Deliver(Drained(s, x, NoMsg, t), conn, x.dir, c.kind, m, t)
             continues == CASE c.part = "tail"  -> cur = clean
                            [] c.part = "frame" -> FALSE
                            [] OTHER            -> cur = NoMsg
  <1>t. cur \in Message /\ joined \in Message /\ clean \in Message /\ clean.msg = c.msg
    <2>1. cur \in Message
      BY Buffers
    <2>2. cur.msg \in Nat /\ c.msg \in Nat
      BY <2>1 DEF Message, Chunks
    <2> QED
      BY <2>1, <2>2 DEF Message
  <1>1. r \in IF continues
              THEN {CASE c.part = "head" -> Headed(s, x, clean)
                      [] c.part = "body" -> Drained(s, x, clean, t)
                      [] OTHER -> message(clean)}
              ELSE {Gap(s, x, Empty(t)),
                    IF inBody THEN Drained(s, x, joined, t) ELSE Headed(s, x, joined)}
                   \cup (IF cur.msg = 0 THEN {} ELSE {message(joined)})
    BY DEF Feed, Drained, Headed
  <1>p. c.part \in {"whole", "head", "body", "tail", "frame"}
    BY DEF Chunks, ChunkParts
  <1>g. s.gapped \subseteq s.gapped \cup {x}
    OBVIOUS
  <1>2. ASSUME NEW m \in Message, r = Drained(s, x, m, t)
        PROVE  /\ Touches(r, s, conn, x) /\ SameLine(r, s, conn) /\ x \notin r.gapped
               /\ r.decoders[x] = m /\ r.buffers[x] = Empty(t)
    <2> DEFINE b == Empty(t)
               gaps == s.gapped
    <2>1. StreamStep(r, s, x, b, m, gaps) /\ gaps \subseteq s.gapped \cup {x} /\ x \notin gaps
      BY <1>2, DrainedIs
    <2> HIDE DEF b, gaps
    <2>2. Steps(r, s, conn, x, b, m, gaps)
      BY <2>1, StepTouches
    <2> QED
      BY <2>1, <2>2 DEF b, Steps
  <1>3. ASSUME NEW m \in Message, r = Headed(s, x, m)
        PROVE  /\ Touches(r, s, conn, x) /\ SameLine(r, s, conn) /\ x \notin r.gapped
               /\ r.decoders[x] = s.decoders[x] /\ r.buffers[x] # NoBuffer
               /\ r.buffers[x].msg = m.msg /\ r.buffers[x].torn = m.torn
    <2> DEFINE b == WithHead(s.buffers[x], m)
    <2>1. /\ StreamStep(r, s, x, b, s.decoders[x], s.gapped)
          /\ b.msg = m.msg /\ b.torn = m.torn /\ b # NoBuffer
      BY <1>3, HeadedIs
    <2> HIDE DEF b
    <2>2. Steps(r, s, conn, x, b, s.decoders[x], s.gapped)
      BY <2>1, <1>g, StepTouches
    <2> QED
      BY <2>1, <2>2 DEF Steps
  <1>4. ASSUME NEW m \in Message, r = message(m)
        PROVE  /\ Touches(r, s, conn, x) /\ r.decoders[x] = NoMsg /\ r.buffers[x] = Empty(t)
               /\ x \notin r.gapped
               /\ (c.part \in {"whole", "tail"} /\ m.msg = c.msg /\ (x.dir = "request" => c.kind = "final"))
                  => Hurt(r, x.gen) \/ Serves(r, s, conn, x, c)
    <2> DEFINE u == Drained(s, x, NoMsg, t)
    <2>0. NoMsg \in Message
      BY EmptyIs
    <2> DEFINE b == Empty(t)
               gaps == s.gapped
               d == NoMsg
    <2>1. StreamStep(u, s, x, b, d, gaps) /\ gaps \subseteq s.gapped \cup {x}
      BY <2>0, DrainedIs
    <2>r. r = Deliver(u, conn, x.dir, c.kind, m, t)
      BY <1>4
    <2> HIDE DEF u, b, gaps, d
    <2>s. Steps(u, s, conn, x, b, d, gaps)
      BY <2>1, StepTouches
    <2>u. u \in State
      BY <2>1 DEF StreamStep
    <2>2. /\ Touches(u, s, conn, x) /\ SameLine(u, s, conn) /\ u.gapped = s.gapped
          /\ u.decoders[x] = NoMsg /\ u.buffers[x] = Empty(t) /\ u \in State
      BY <2>s, <2>u DEF b, d, gaps, Steps
    <2>3. /\ Touches(r, u, conn, x) /\ SameStreams(r, u)
          /\ (c.part \in {"whole", "tail"} /\ m.msg = c.msg /\ (x.dir = "request" => c.kind = "final"))
              => Loss(conn.gen, "request") \in r.gone \/ Serves(r, u, conn, x, c)
      BY <2>r, <2>2, DeliverServes
    <2>4. Touches(r, s, conn, x)
      BY <2>2, <2>3, TouchesTwice
    <2>5. Serves(r, u, conn, x, c) => Serves(r, s, conn, x, c)
      BY <2>2 DEF Serves, SameLine, Queues, Answers
    <2>6. Loss(conn.gen, "request") \in r.gone => Hurt(r, x.gen)
      BY DEF Hurt
    <2> QED
      BY <2>2, <2>3, <2>4, <2>5, <2>6 DEF SameStreams
  <1>e. Empty(t) # NoBuffer /\ Empty(t).msg = 0 /\ Empty(t).torn = FALSE
    BY EmptyIs DEF Empty
  <1>6. CASE continues
    <2>0. c.part # "frame"
      BY <1>6
    <2>1. CASE c.part = "head"
      <3>1. r = Headed(s, x, clean) /\ cur = NoMsg
        BY <1>1, <1>6, <2>1
      <3>2. /\ Touches(r, s, conn, x) /\ SameLine(r, s, conn) /\ x \notin r.gapped
            /\ r.decoders[x] = s.decoders[x] /\ r.buffers[x] # NoBuffer
            /\ r.buffers[x].msg = clean.msg /\ r.buffers[x].torn = clean.torn
        BY <1>t, <3>1, <1>3
      <3>3. s.decoders[x] = NoMsg
        BY <3>1 DEF Current
      <3>4. Current(r, x) = After(c)
        BY <2>1, <3>2, <3>3 DEF Current, After, Clean
      <3>5. Ends(r, s, conn, x, c)
        BY <2>1, <3>2, <3>4 DEF Ends, Serves, Done, Settled
      <3> QED
        BY <2>0, <3>2, <3>5 DEF Handles
    <2>2. CASE c.part = "body"
      <3>1. r = Drained(s, x, clean, t)
        BY <1>1, <1>6, <2>2
      <3>2. /\ Touches(r, s, conn, x) /\ SameLine(r, s, conn) /\ x \notin r.gapped
            /\ r.decoders[x] = clean /\ r.buffers[x] = Empty(t)
        BY <1>t, <3>1, <1>2
      <3>3. Current(r, x) = clean
        BY <3>2, <1>e DEF Current, NoMsg
      <3>4. Current(r, x) = After(c)
        BY <2>2, <3>3 DEF After, Clean
      <3>5. Ends(r, s, conn, x, c)
        BY <2>2, <3>2, <3>4, <1>e DEF Ends, Serves, Done, Settled
      <3> QED
        BY <2>0, <3>2, <3>5 DEF Handles
    <2>3. CASE c.part # "head" /\ c.part # "body"
      <3>1. r = message(clean)
        BY <1>1, <1>6, <2>3
      <3>2. /\ Touches(r, s, conn, x) /\ r.decoders[x] = NoMsg /\ r.buffers[x] = Empty(t)
            /\ x \notin r.gapped
            /\ (x.dir = "request" => c.kind = "final") => Hurt(r, x.gen) \/ Serves(r, s, conn, x, c)
        <4>1. c.part \in {"whole", "tail"} /\ clean.msg = c.msg
          BY <1>p, <1>t, <2>0, <2>3
        <4> QED
          BY <1>t, <3>1, <4>1, <1>4
      <3>3. Current(r, x) = After(c)
        BY <2>3, <3>2, <1>e DEF Current, NoMsg, After
      <3> QED
        BY <2>0, <3>2, <3>3, <1>e DEF Handles, Ends, Settled
    <2> QED
      BY <2>1, <2>2, <2>3
  <1>7. CASE ~continues
    <2>1. ~Continues(s, x, c)
      BY <1>7 DEF Continues, Clean
    <2>2. \/ r = Gap(s, x, Empty(t))
          \/ r = Drained(s, x, joined, t)
          \/ r = Headed(s, x, joined)
          \/ cur.msg # 0 /\ r = message(joined)
      BY <1>1, <1>7
    <2>3. Touches(r, s, conn, x) /\ (cur.msg = 0 => SameLine(r, s, conn))
      <3>1. CASE r = Gap(s, x, Empty(t))
        <4>0. Empty(t) \in Buffered \cup {NoBuffer} /\ Size(Empty(t)) = 0
          BY EmptyIs
        <4>1. StreamStep(r, s, x, Empty(t), NoMsg, s.gapped \cup {x})
          BY <3>1, <4>0, GapIs
        <4>2. Steps(r, s, conn, x, Empty(t), NoMsg, s.gapped \cup {x})
          BY <4>1, StepTouches
        <4> QED
          BY <4>2 DEF Steps
      <3>2. CASE r = Drained(s, x, joined, t)
        BY <1>t, <3>2, <1>2
      <3>3. CASE r = Headed(s, x, joined)
        BY <1>t, <3>3, <1>3
      <3>4. CASE cur.msg # 0 /\ r = message(joined)
        BY <1>t, <3>4, <1>4
      <3> QED
        BY <2>2, <3>1, <3>2, <3>3, <3>4
    <2> QED
      BY <2>1, <2>3 DEF Handles
  <1> QED
    BY <1>6, <1>7

(* A chunk that is dropped.                                                *)
LEMMA LoseTouches ==
  ASSUME NEW s \in State, NEW x \in Streams, NEW conn, NEW r,
         NEW why \in {"chunk", "buffer", "ambiguous"}, r = Lose(s, x, why)
  PROVE  Touches(r, s, conn, x) /\ Hurt(r, x.gen)
  <1> DEFINE l == Loss(x.gen, why)
             lost == s.gone \cup {l}
  <1>0. s.gone \in SUBSET Losses /\ x.gen \in Gens
    BY DEF State, Streams
  <1>1. r = [s EXCEPT !.gone = lost]
    BY <1>0 DEF Lose, State, Loss
  <1>2. lost \in SUBSET Losses
    <2>1. l \in Losses
      BY <1>0 DEF Losses, Loss
    <2> QED
      BY <2>1, <1>0
  <1>3. l \in lost /\ s.gone \subseteq lost
    OBVIOUS
  <1> HIDE DEF lost
  <1>4. r \in State
    BY <1>1, <1>2, Zenon DEF State
  <1>5. /\ r.buffers = s.buffers /\ r.decoders = s.decoders /\ r.pending = s.pending
        /\ r.gapped = s.gapped /\ r.out = s.out /\ r.gone = lost /\ r.born = s.born
    BY <1>1 DEF State
  <1>6. Touches(r, s, conn, x)
    BY <1>3, <1>4, <1>5 DEF Touches, Apart
  <1>7. Hurt(r, x.gen)
    BY <1>3, <1>5 DEF Hurt
  <1> QED
    BY <1>6, <1>7

(* What is noted of a connection.                                          *)
LEMMA NotedTouches ==
  ASSUME NEW s, NEW r, Noted(r, s), NEW conn, NEW x
  PROVE  Touches(r, s, conn, x) /\ SameLine(r, s, conn)
  BY DEF Noted, Marks, Touches, Apart, SameLine

(* What a chunk does after a step that leaves its stream and its queue.    *)
LEMMA HandlesLater ==
  ASSUME NEW s, NEW u, NEW r, NEW conn, NEW x, NEW c, Touches(u, s, conn, x),
         SameLine(u, s, conn), Current(u, x) = Current(s, x), Handles(r, u, conn, x, c)
  PROVE  Handles(r, s, conn, x, c)
  <1>1. Touches(r, s, conn, x)
    BY TouchesTwice DEF Handles
  <1>2. Continues(s, x, c) => Continues(u, x, c)
    BY DEF Continues
  <1>3. Serves(r, u, conn, x, c) => Serves(r, s, conn, x, c)
    BY DEF Serves, SameLine, Queues, Answers
  <1>4. Ends(r, u, conn, x, c) => Ends(r, s, conn, x, c)
    BY <1>3 DEF Ends
  <1>5. SameLine(r, u, conn) => SameLine(r, s, conn)
    BY DEF SameLine
  <1> QED
    BY <1>1, <1>2, <1>4, <1>5 DEF Handles

(* Reserving, appending and decoding.                                      *)
LEMMA BufferHandles ==
  ASSUME NEW s \in State, NEW x \in Streams, NEW t \in Times, NEW c \in Chunks,
         NEW conn \in Conns, conn.gen = x.gen, x \notin s.gapped,
         NEW r \in Buffer(s, conn, x, c, t)
  PROVE  Handles(r, s, conn, x, c)
  <1>1. PICK u, b : IsBuffer(r, s, u, b, conn, x, c, t)
    BY BufferIs
  <1>2. Grows(b, s.buffers[x], t) /\ StreamStep(u, s, x, b, s.decoders[x], s.gapped)
    BY <1>1 DEF IsBuffer
  <1> DEFINE d == s.decoders[x]
             gaps == s.gapped
  <1>3. Steps(u, s, conn, x, b, d, gaps) /\ u \in State
    <2>1. gaps \subseteq s.gapped \cup {x} /\ StreamStep(u, s, x, b, d, gaps)
      BY <1>2
    <2> HIDE DEF d, gaps
    <2>2. Steps(u, s, conn, x, b, d, gaps)
      BY <2>1, StepTouches
    <2> QED
      BY <2>1, <2>2 DEF StreamStep
  <1>4. /\ Touches(u, s, conn, x) /\ SameLine(u, s, conn) /\ u.buffers[x] = b
        /\ u.decoders[x] = s.decoders[x] /\ u.gapped = s.gapped
    BY <1>3 DEF Steps
  <1>5. Current(u, x) = Current(s, x)
    BY <1>2, <1>4 DEF Current, Grows
  <1>6. ASSUME NEW v \in State, Touches(v, s, conn, x), NEW why \in {"chunk", "buffer"},
               r = Lose(v, x, why)
        PROVE  Handles(r, s, conn, x, c)
    <2>1. Touches(r, v, conn, x) /\ Hurt(r, x.gen)
      BY <1>6, LoseTouches
    <2>2. Touches(r, s, conn, x)
      BY <1>6, <2>1, TouchesTwice
    <2> QED
      BY <2>1, <2>2 DEF Handles
  <1>7. CASE r = Lose(u, x, "chunk")
    BY <1>3, <1>4, <1>6, <1>7
  <1>8. CASE r = Lose(Gap(u, x, Empty(t)), x, "buffer")
    <2> DEFINE v == Gap(u, x, Empty(t))
               e == Empty(t)
               n == NoMsg
               gs == u.gapped \cup {x}
    <2>1. Empty(t) \in Buffered \cup {NoBuffer} /\ Size(Empty(t)) = 0
      BY EmptyIs
    <2>2. StreamStep(v, u, x, e, n, gs)
      BY <1>3, <2>1, GapIs
    <2>3. gs \subseteq u.gapped \cup {x} /\ r = Lose(v, x, "buffer")
      BY <1>8
    <2> HIDE DEF v, e, n, gs
    <2>4. Steps(v, u, conn, x, e, n, gs)
      BY <1>3, <2>2, <2>3, StepTouches
    <2>5. v \in State /\ Touches(v, u, conn, x)
      BY <2>2, <2>4 DEF StreamStep, Steps
    <2>6. Touches(v, s, conn, x)
      BY <1>4, <2>5, TouchesTwice
    <2> QED
      BY <1>6, <2>3, <2>5, <2>6
  <1>9. CASE r \in Feed(u, conn, x, c, t)
    <2>1. x \notin u.gapped /\ u.buffers[x] # NoBuffer
      BY <1>2, <1>4 DEF Grows
    <2>2. Handles(r, u, conn, x, c)
      BY <1>3, <1>9, <2>1, FeedHandles
    <2> QED
      BY <1>4, <1>5, <2>2, HandlesLater
  <1> QED
    BY <1>1, <1>7, <1>8, <1>9 DEF IsBuffer

(* handle_event after its sweep.                                           *)
LEMMA EventHandles ==
  ASSUME NEW w, NEW l, NEW k, NEW r, NEW x \in Streams, NEW t \in Times, NEW c \in Chunks,
         NEW conn \in Conns, conn.gen = x.gen, NEW truncated \in BOOLEAN,
         Handled(r, w, l, k, conn, x, c, truncated, t)
  PROVE  /\ Touches(r, w, conn, x)
         /\ /\ ~truncated /\ conn \notin w.ws /\ x \notin w.gapped /\ Continues(w, x, c)
            /\ x.dir = "request" => c.kind = "final"
            => Hurt(r, x.gen) \/ Ends(r, w, conn, x, c)
         /\ ~truncated /\ c.part = "frame" /\ Current(w, x).msg = 0 =>
               Hurt(r, x.gen) \/ SameLine(r, w, conn)
  <1>1. w \in State /\ Noted(l, w)
    BY DEF Handled
  <1>2. Touches(l, w, conn, x) /\ SameLine(l, w, conn) /\ Current(l, x) = Current(w, x)
        /\ l \in State /\ l.gapped \subseteq w.gapped
    <2>1. Touches(l, w, conn, x) /\ SameLine(l, w, conn)
      BY <1>1, NotedTouches
    <2> QED
      BY <1>1, <2>1 DEF Noted, Marks, Current
  <1>3. Touches(k, w, conn, x) /\ (~truncated => k = l)
    <2>1. CASE ~truncated
      BY <1>2, <2>1 DEF Handled
    <2>2. CASE truncated
      <3> DEFINE e == NoBuffer
                 n == NoMsg
                 gs == l.gapped \cup {x}
      <3>1. StreamStep(k, l, x, e, n, gs) /\ gs \subseteq l.gapped \cup {x}
        BY <2>2 DEF Handled
      <3> HIDE DEF e, n, gs
      <3>2. Steps(k, l, conn, x, e, n, gs)
        BY <1>2, <3>1, StepTouches
      <3>3. Touches(k, l, conn, x)
        BY <3>2 DEF Steps
      <3> QED
        BY <1>2, <2>2, <3>3, TouchesTwice
    <2> QED
      BY <2>1, <2>2
  <1>4. ASSUME NEW m, Noted(m, w), r = Lose(m, x, "ambiguous")
        PROVE  Touches(r, w, conn, x) /\ Hurt(r, x.gen)
    <2>1. Touches(m, w, conn, x) /\ m \in State
      BY <1>4, NotedTouches DEF Noted, Marks
    <2>2. Touches(r, m, conn, x) /\ Hurt(r, x.gen)
      BY <1>4, <2>1, LoseTouches
    <2> QED
      BY <2>1, <2>2, TouchesTwice
  <1>5. CASE r = k /\ conn \in w.ws
    BY <1>2, <1>3, <1>5
  <1>6. CASE r = k /\ x \in k.gapped /\ (~Starts(c) \/ truncated)
    <2>1. ~truncated => x \in w.gapped
      BY <1>2, <1>3, <1>6
    <2> QED
      BY <1>2, <1>3, <1>6, <2>1
  <1>7. ASSUME ~truncated, NEW u, Noted(u, l), u.gapped = l.gapped \ {x},
               r \in Buffer(u, conn, x, c, t)
        PROVE  Handles(r, w, conn, x, c)
    <2>1. Noted(u, w)
      BY <1>1, <1>7, NotedTwice
    <2>2. Touches(u, w, conn, x) /\ SameLine(u, w, conn)
      BY <2>1, NotedTouches
    <2>3. u \in State /\ Current(u, x) = Current(w, x) /\ x \notin u.gapped
      BY <1>7, <2>1 DEF Noted, Marks, Current
    <2>4. Handles(r, u, conn, x, c)
      BY <1>7, <2>3, BufferHandles
    <2> QED
      BY <2>2, <2>3, <2>4, HandlesLater
  <1>8. CASE \E m : Noted(m, w) /\ r = Lose(m, x, "ambiguous")
    BY <1>4, <1>8
  <1>9. CASE ~truncated /\ \E u : Noted(u, l) /\ u.gapped = l.gapped \ {x} /\ r \in Buffer(u, conn, x, c, t)
    <2>1. Handles(r, w, conn, x, c)
      BY <1>7, <1>9
    <2> QED
      BY <2>1 DEF Handles
  <1> QED
    BY <1>5, <1>6, <1>8, <1>9 DEF Handled

-----------------------------------------------------------------------------
(* What sending a chunk does to the peers.                                 *)

(* The chunk c that the peers of generation m may send in a direction.     *)
Sends(m, dir, c) ==
    /\ dir = "request" => c.kind = "final"
    /\ m.ws => c.part = "frame"
    /\ ~m.ws => /\ c.part # "frame"
                /\ c.msg = 1 + IF dir = "request" THEN m.reqs ELSE m.resps
                /\ dir \in m.open <=> c.part = "tail"
    /\ ~m.ws /\ dir = "response" => m.resps < m.reqs

(* The peers of a generation after it.                                     *)
Advances(v, m, dir, c) ==
    /\ v.reqs = m.reqs + IF Done(c) /\ dir = "request" THEN 1 ELSE 0
    /\ v.resps = m.resps + IF Done(c) /\ dir = "response" THEN 1 ELSE 0
    /\ v.open = IF c.part \in {"head", "body"} THEN m.open \cup {dir} ELSE m.open \ {dir}
    /\ m.ws => v.ws
    /\ m.hurt \subseteq v.hurt
    /\ dir = "request" /\ m.resps < m.reqs => "pipelined" \in v.hurt

Moves(p, q, x, c) ==
    /\ q \in SentMap /\ \A h \in Gens : h # x.gen => q[h] = p[h]
    /\ Sends(p[x.gen], x.dir, c) /\ Advances(q[x.gen], p[x.gen], x.dir, c)

(* What the peers may send next.                                           *)
LEMMA ChunkSends ==
  ASSUME sent \in SentMap, NEW g \in Gens, Counted(sent[g]), NEW dir \in Dirs,
         NEW c \in NextChunk(g, dir)
  PROVE  Sends(sent[g], dir, c)
  <1> DEFINE p == sent[g]
             n == IF dir = "request" THEN p.reqs ELSE p.resps
  <1>1. /\ p.reqs \in Nat /\ p.resps \in Nat /\ n \in Nat /\ n + 1 = 1 + n
        /\ "response" \in p.open => p.resps < p.reqs
    BY SentIs DEF Counted
  <1>2. CASE p.ws
    <2>1. c = [part |-> "frame", kind |-> "final", msg |-> 0]
      BY <1>2 DEF NextChunk
    <2> QED
      BY <2>1, <1>2 DEF Sends
  <1>3. CASE ~p.ws /\ dir \in p.open
    <2>1. c = [part |-> "tail", kind |-> "final", msg |-> n + 1]
      BY <1>3 DEF NextChunk
    <2>2. dir = "response" => p.resps < p.reqs
      BY <1>1, <1>3
    <2>3. c.part = "tail" /\ c.kind = "final" /\ c.msg = 1 + n
      BY <1>1, <2>1
    <2> QED
      BY <2>2, <2>3, <1>3 DEF Sends
  <1>4. CASE ~p.ws /\ dir \notin p.open
    <2>1. \/ \E part \in Parts : c = [part |-> part, kind |-> "final", msg |-> n + 1]
          \/ \E k \in Kinds : /\ c = [part |-> "whole", kind |-> k, msg |-> n + 1]
                              /\ dir = "response"
      BY <1>4 DEF NextChunk
    <2>2. dir = "response" => p.resps < p.reqs
      BY <1>4 DEF NextChunk
    <2>3. Parts \subseteq {"whole", "head", "body"}
      BY StreamAssumption
    <2>4. c.part \in {"whole", "head", "body"} /\ c.msg = 1 + n /\ (dir = "request" => c.kind = "final")
      <3> HIDE DEF n
      <3>1. CASE \E part \in Parts : c = [part |-> part, kind |-> "final", msg |-> n + 1]
        BY <3>1, <1>1, <2>3
      <3>2. CASE \E k \in Kinds : /\ c = [part |-> "whole", kind |-> k, msg |-> n + 1]
                                  /\ dir = "response"
        BY <3>2, <1>1
      <3> QED
        BY <2>1, <3>1, <3>2
    <2> QED
      BY <2>2, <2>4, <1>4 DEF Sends
  <1> QED
    BY <1>2, <1>3, <1>4

(* A step of the peers keeps them in order.                                *)
LEMMA AdvancesCounted ==
  ASSUME NEW m, NEW v, NEW dir \in Dirs, NEW c, m.reqs \in Nat, m.resps \in Nat, m.open \in SUBSET Dirs,
         m.ws \in BOOLEAN, Counted(m), Sends(m, dir, c), Advances(v, m, dir, c)
  PROVE  Counted(v)
  <1> DEFINE a == m.reqs
             b == m.resps
             i == v.reqs
             j == v.resps
  <1>1. /\ a \in Nat /\ b \in Nat /\ b <= a
        /\ "response" \in m.open => b < a
        /\ "pipelined" \notin m.hurt => a <= b + 1 /\ ("request" \in m.open => a = b)
    BY DEF Counted
  <1>2. Done(c) /\ dir = "response" => b < a
    <2>1. Done(c) => ~m.ws
      BY DEF Done, Sends
    <2> QED
      BY <2>1 DEF Sends
  <1>3. /\ Done(c) /\ dir = "request" => i = a + 1
        /\ ~(Done(c) /\ dir = "request") => i = a + 0
        /\ Done(c) /\ dir = "response" => j = b + 1
        /\ ~(Done(c) /\ dir = "response") => j = b + 0
    BY DEF Advances
  <1>4. c.part \in {"head", "body"} => ~Done(c) /\ ~m.ws
    BY DEF Done, Sends
  <1>5. c.part \in {"head", "body"} /\ dir = "response" => b < a
    BY <1>4 DEF Sends
  <1>6. /\ "response" \in v.open => "response" \in m.open \/ (c.part \in {"head", "body"} /\ dir = "response")
        /\ "request" \in v.open => "request" \in m.open \/ (c.part \in {"head", "body"} /\ dir = "request")
        /\ Done(c) /\ dir \in v.open => FALSE
    BY <1>4 DEF Advances, Done
  <1>7. /\ "pipelined" \notin v.hurt => "pipelined" \notin m.hurt
        /\ "pipelined" \notin v.hurt /\ dir = "request" => ~(b < a)
    BY DEF Advances
  <1> HIDE DEF a, b, i, j
  <1>8. dir = "request" \/ dir = "response"
    BY DEF Dirs
  <1>9. j <= i
    BY <1>1, <1>2, <1>3, <1>8
  <1>10. "response" \in v.open => j < i
    <2>1. "response" \in v.open => b < a
      BY <1>1, <1>5, <1>6
    <2>2. Done(c) /\ dir = "response" => "response" \notin v.open
      BY <1>6
    <2> QED
      BY <1>1, <1>3, <2>1, <2>2, <1>8
  <1>11. ASSUME "pipelined" \notin v.hurt PROVE i <= j + 1 /\ ("request" \in v.open => i = j)
    <2>1. a <= b + 1 /\ ("request" \in m.open => a = b) /\ (dir = "request" => a = b)
      BY <1>1, <1>7, <1>11
    <2>2. CASE dir = "request"
      <3>1. Done(c) => "request" \notin v.open
        BY <1>6, <2>2
      <3>2. j = b
        BY <1>1, <1>3, <2>2
      <3>3. CASE Done(c)
        BY <1>1, <1>3, <2>1, <2>2, <3>1, <3>2, <3>3
      <3>4. CASE ~Done(c)
        BY <1>1, <1>3, <2>1, <2>2, <3>2, <3>4
      <3> QED
        BY <3>3, <3>4
    <2>3. CASE dir = "response"
      <3>1. "request" \in v.open => "request" \in m.open
        BY <1>6, <2>3
      <3>2. i = a
        BY <1>1, <1>3, <2>3
      <3>3. CASE Done(c)
        BY <1>1, <1>2, <1>3, <2>1, <2>3, <3>1, <3>2, <3>3
      <3>4. CASE ~Done(c)
        BY <1>1, <1>3, <2>1, <2>3, <3>1, <3>2, <3>4
      <3> QED
        BY <3>3, <3>4
    <2> QED
      BY <1>8, <2>2, <2>3
  <1> QED
    BY <1>9, <1>10, <1>11 DEF Counted, i, j

(* A chunk moves its generation's peers.                                   *)
LEMMA ChunkMoves ==
  ASSUME sent \in SentMap, UpgradedIdle(sent), Counts(sent), NEW g \in Gens, NEW dir \in Dirs,
         NEW fate \in Fates, NEW c \in NextChunk(g, dir), NEW q,
         q = [sent EXCEPT ![g] = Progress(@, dir, c, fate)],
         NEW x \in Streams, x = [gen |-> g, dir |-> dir]
  PROVE  /\ Moves(sent, q, x, c) /\ Counts(q)
         /\ fate # "captured" => fate \in q[g].hurt
  <1> DEFINE m == sent[g]
             v == Progress(m, dir, c, fate)
  <1>1. q \in SentMap /\ x.gen = g /\ x.dir = dir
    BY ChunkFollows
  <1>2. q[g] = v /\ \A h \in Gens : h # g => q[h] = sent[h]
    BY DEF SentMap
  <1>3. m.reqs \in Nat /\ m.resps \in Nat /\ m.open \in SUBSET Dirs /\ m.ws \in BOOLEAN /\ Counted(m)
    BY SentIs DEF Counts
  <1>4. Sends(m, dir, c)
    BY <1>3, ChunkSends
  <1>5. /\ v.reqs = (IF dir = "request" /\ c.part \in {"whole", "tail"} /\ c.kind # "interim"
                     THEN m.reqs + 1 ELSE m.reqs)
        /\ v.resps = (IF dir = "response" /\ c.part \in {"whole", "tail"} /\ c.kind # "interim"
                      THEN m.resps + 1 ELSE m.resps)
        /\ v.open = (IF c.part \in {"head", "body"} THEN m.open \cup {dir} ELSE m.open \ {dir})
        /\ v.ws = (m.ws \/ c.kind = "upgrade")
        /\ m.hurt \subseteq v.hurt /\ (fate # "captured" => fate \in v.hurt)
        /\ dir = "request" /\ m.resps < m.reqs => "pipelined" \in v.hurt
    BY DEF Progress
  <1> HIDE DEF v, m
  <1>6. Advances(v, m, dir, c)
    <2>1. /\ v.reqs = m.reqs + IF Done(c) /\ dir = "request" THEN 1 ELSE 0
          /\ v.resps = m.resps + IF Done(c) /\ dir = "response" THEN 1 ELSE 0
      BY <1>3, <1>5 DEF Done
    <2>2. m.ws => v.ws
      BY <1>3, <1>5
    <2> QED
      BY <1>5, <2>1, <2>2 DEF Advances
  <1>7. Counted(v)
    BY <1>3, <1>4, <1>6, AdvancesCounted
  <1>8. Counts(q)
    BY <1>2, <1>7 DEF Counts
  <1> QED
    BY <1>1, <1>2, <1>4, <1>5, <1>6, <1>8 DEF Moves, m

(* A request joins the end of the line.                                    *)
LEMMA FitsAppend ==
  ASSUME NEW w \in Seq(Request), NEW e \in Request, NEW m, NEW v, m.reqs \in Nat, m.resps \in Nat,
         m.resps <= m.reqs, Fits(w, m), Len(w) = m.reqs - m.resps,
         v.reqs = m.reqs + 1, v.resps = m.resps, e.msg = m.reqs + 1
  PROVE  Fits(Append(w, e), v) /\ Len(Append(w, e)) = v.reqs - v.resps
  <1> DEFINE a == m.reqs
             b == m.resps
             u == Append(w, e)
             n == e.msg
  <1>1. a \in Nat /\ b \in Nat /\ b <= a /\ Len(w) = a - b /\ n = a + 1
        /\ \A i \in DOMAIN w : w[i].msg = b + i
    BY DEF Fits
  <1>2. /\ Len(w) \in Nat /\ DOMAIN w = 1..Len(w)
        /\ Len(u) = Len(w) + 1 /\ DOMAIN u = 1..(Len(w) + 1) /\ u[Len(w) + 1] = e
        /\ \A i \in 1..Len(w) : u[i] = w[i]
    BY LenProperties
  <1>3. v.reqs = a + 1 /\ v.resps = b
    OBVIOUS
  <1>n. e.msg = n
    OBVIOUS
  <1> HIDE DEF a, b, u, n
  <1>4. Len(u) = (a + 1) - b
    BY <1>1, <1>2
  <1>5. ASSUME NEW i \in DOMAIN u PROVE u[i].msg = b + i
    <2>1. i \in 1..Len(w) \/ i = Len(w) + 1
      BY <1>2
    <2>2. CASE i \in 1..Len(w)
      BY <1>1, <1>2, <2>2
    <2>3. CASE i = Len(w) + 1
      <3>1. u[i] = e /\ n = b + i
        BY <1>1, <1>2, <2>3
      <3> QED
        BY <1>n, <3>1
    <2> QED
      BY <2>1, <2>2, <2>3
  <1>6. Len(u) <= (a + 1) - b
    BY <1>1, <1>2, <1>4
  <1>7. Fits(u, v) /\ Len(u) = v.reqs - v.resps
    BY <1>3, <1>4, <1>5, <1>6 DEF Fits
  <1> QED
    BY <1>7 DEF u

(* The response takes the request it answers.                              *)
LEMMA FitsTail ==
  ASSUME NEW w \in Seq(Request), w # <<>>, NEW m, NEW v, m.reqs \in Nat, m.resps \in Nat,
         Fits(w, m), v.reqs = m.reqs, v.resps = m.resps + 1
  PROVE  /\ Fits(Tail(w), v) /\ Head(w).msg = m.resps + 1
         /\ Len(w) = m.reqs - m.resps => Len(Tail(w)) = v.reqs - v.resps
  <1> DEFINE a == m.reqs
             b == m.resps
             u == Tail(w)
  <1>1. a \in Nat /\ b \in Nat /\ Len(w) <= a - b /\ \A i \in DOMAIN w : w[i].msg = b + i
    BY DEF Fits
  <1>2. /\ Len(w) \in Nat \ {0} /\ DOMAIN w = 1..Len(w) /\ Head(w) = w[1]
        /\ u \in Seq(Request) /\ Len(u) = Len(w) - 1 /\ \A i \in 1..Len(u) : u[i] = w[i + 1]
    BY EmptySeq, LenProperties, HeadTailProperties
  <1>3. v.reqs = a /\ v.resps = b + 1
    OBVIOUS
  <1> HIDE DEF a, b, u
  <1>4. Len(u) \in Nat /\ DOMAIN u = 1..Len(u) /\ Len(u) <= a - (b + 1)
        /\ (Len(w) = a - b => Len(u) = a - (b + 1))
    BY <1>1, <1>2, LenProperties
  <1>5. ASSUME NEW i \in DOMAIN u PROVE u[i].msg = (b + 1) + i
    <2>0. i \in 1..Len(u) /\ Len(u) \in Nat /\ Len(w) \in Nat /\ Len(u) = Len(w) - 1
      BY <1>2, <1>4
    <2>i. i \in Nat /\ i + 1 \in 1..Len(w)
      BY <2>0
    <2>a. b + (i + 1) = (b + 1) + i
      BY <1>1, <2>i
    <2>1. i + 1 \in DOMAIN w /\ u[i] = w[i + 1] /\ b + (i + 1) = (b + 1) + i
      BY <1>2, <2>0, <2>i, <2>a
    <2> QED
      BY <1>1, <2>1
  <1>6. 1 \in DOMAIN w
    BY <1>2
  <1>7. Head(w).msg = b + 1
    BY <1>1, <1>2, <1>6
  <1>8. Fits(u, v)
    BY <1>3, <1>4, <1>5 DEF Fits
  <1> QED
    BY <1>3, <1>4, <1>7, <1>8 DEF a, b, u

(* Where the peers are after a chunk.                                      *)
LEMMA MovesExpected ==
  ASSUME NEW p \in SentMap, NEW q, NEW x \in Streams, NEW c, Moves(p, q, x, c), NEW y \in Streams
  PROVE  /\ y # x => Expected(q, y) = Expected(p, y)
         /\ ~p[x.gen].ws => Expected(q, x) = After(c)
         /\ p[y.gen].ws => q[y.gen].ws
         /\ p[y.gen].hurt \subseteq q[y.gen].hurt
  <1>0. x.gen \in Gens /\ y.gen \in Gens /\ x.dir \in Dirs /\ y.dir \in Dirs
    BY DEF Streams
  <1>1. /\ \A h \in Gens : h # x.gen => q[h] = p[h]
        /\ Sends(p[x.gen], x.dir, c) /\ Advances(q[x.gen], p[x.gen], x.dir, c)
    BY DEF Moves
  <1>2. p[x.gen].reqs \in Nat /\ p[x.gen].resps \in Nat
    BY <1>0, SentIs
  <1>3. p[y.gen].ws => q[y.gen].ws
    BY <1>0, <1>1 DEF Advances
  <1>4. p[y.gen].hurt \subseteq q[y.gen].hurt
    <2>1. CASE y.gen = x.gen
      BY <2>1, <1>1 DEF Advances
    <2>2. CASE y.gen # x.gen
      BY <2>2, <1>0, <1>1
    <2> QED
      BY <2>1, <2>2
  <1>5. ASSUME y # x PROVE Expected(q, y) = Expected(p, y)
    <2>1. CASE y.gen # x.gen
      BY <2>1, <1>0, <1>1 DEF Expected, Count
    <2>2. CASE y.gen = x.gen
      <3>1. y.dir # x.dir
        BY <1>5, <2>2 DEF Streams
      <3>2. y.dir \in q[y.gen].open <=> y.dir \in p[y.gen].open
        BY <1>1, <2>2, <3>1 DEF Advances
      <3>3. Count(q, y) = Count(p, y)
        <4>1. CASE y.dir = "request"
          <5>1. q[x.gen].reqs = p[x.gen].reqs + 0
            BY <1>1, <3>1, <4>1 DEF Advances
          <5> QED
            BY <1>2, <2>2, <4>1, <5>1 DEF Count
        <4>2. CASE y.dir # "request"
          <5>1. x.dir = "request"
            BY <1>0, <3>1, <4>2 DEF Dirs
          <5>2. q[x.gen].resps = p[x.gen].resps + 0
            BY <1>1, <5>1 DEF Advances
          <5> QED
            BY <1>2, <2>2, <4>2, <5>2 DEF Count
        <4> QED
          BY <4>1, <4>2
      <3> QED
        BY <3>2, <3>3 DEF Expected
    <2> QED
      BY <2>1, <2>2
  <1>6. ASSUME ~p[x.gen].ws PROVE Expected(q, x) = After(c)
    <2>1. CASE c.part \in {"head", "body"}
      <3>1. x.dir \in q[x.gen].open
        BY <1>1, <2>1 DEF Advances
      <3>2. ~Done(c)
        BY <2>1 DEF Done
      <3>3. q[x.gen].reqs = p[x.gen].reqs + 0 /\ q[x.gen].resps = p[x.gen].resps + 0
        BY <1>1, <3>2 DEF Advances
      <3>4. c.msg = 1 + IF x.dir = "request" THEN p[x.gen].reqs ELSE p[x.gen].resps
        BY <1>1, <1>6 DEF Sends
      <3>5. c.msg = Count(q, x) + 1
        BY <1>2, <3>3, <3>4 DEF Count
      <3> QED
        BY <2>1, <3>1, <3>5 DEF Expected, After, Clean
    <2>2. CASE c.part \notin {"head", "body"}
      <3>1. x.dir \notin q[x.gen].open
        BY <1>1, <2>2 DEF Advances
      <3> QED
        BY <2>2, <3>1 DEF Expected, After
    <2> QED
      BY <2>1, <2>2
  <1> QED
    BY <1>3, <1>4, <1>5, <1>6

(* A birth changes nothing that is paired.                                 *)
Born(r, s, g, t) == r.born = [s.born EXCEPT ![g] = NextConn(s, g, t).born]

(* The lines and the pairs after a birth.                                  *)
LEMMA BirthPairing ==
  ASSUME NEW s \in State, NEW p \in SentMap, NEW t \in Times, NEW g \in Gens, Pairing(s, p, t),
         NEW r, Marks(r, s), Born(r, s, g, t)
  PROVE  /\ Pairing(r, p, t)
         /\ NextConn(r, g, t) = NextConn(s, g, t) /\ r.born[g] = NextConn(s, g, t).born
  <1>0. s.born \in BornMap /\ r \in State /\ r.gone = s.gone /\ r.pending = s.pending
    BY DEF State, Marks
  <1>1. /\ r.born[g] = NextConn(s, g, t).born
        /\ \A h \in Gens : h # g => r.born[h] = s.born[h]
    BY <1>0 DEF BornMap, Born
  <1>2. /\ NextConn(s, g, t) \in Conns /\ NextConn(s, g, t).gen = g
        /\ s.born[g] = Unborn => NextConn(s, g, t).born = t
        /\ s.born[g] # Unborn => NextConn(s, g, t).born = s.born[g]
        /\ NextConn(s, g, t).born \in Times /\ Unborn \notin Times
    BY NextConnIs
  <1>3. \A h \in Gens : NextConn(r, h, t) = NextConn(s, h, t)
    <2>1. r.born[g] # Unborn
      BY <1>1, <1>2
    <2>2. NextConn(r, g, t) = NextConn(s, g, t)
      BY <1>1, <1>2, <2>1 DEF NextConn
    <2>3. \A h \in Gens : h # g => NextConn(r, h, t) = NextConn(s, h, t)
      BY <1>1 DEF NextConn
    <2> QED
      BY <2>2, <2>3
  <1>4. \A h : /\ Calm(r, p, h) => Calm(s, p, h)
               /\ Unbroken(r, p, h) <=> Unbroken(s, p, h)
               /\ Exact(r, p, h) <=> Exact(s, p, h)
    BY <1>0 DEF Calm, Unbroken, Exact, Serial, Losing
  <1>5. Tracks(r, p)
    <2>1. \A x \in Streams : Tracked(s, p, x) => Tracked(r, p, x)
      BY DEF Marks, Tracked, Current, Settled
    <2> QED
      BY <1>4, <2>1 DEF Pairing, Tracks
  <1>6. Lines(r, p, t)
    <2>1. \A h \in Gens : OnLine(s, p, h, NextConn(s, h, t)) /\ Idle(s, p, h)
      BY DEF Pairing, Lines
    <2>2. \A h \in Gens : OnLine(r, p, h, NextConn(r, h, t))
      BY <1>0, <1>3, <1>4, <2>1 DEF OnLine
    <2>3. \A h \in Gens : Idle(r, p, h)
      BY <1>1, <1>2, <1>4, <2>1 DEF Idle
    <2> QED
      BY <2>2, <2>3 DEF Lines
  <1>7. Ages(r, t)
    <2>1. (\A h \in Gens : s.born[h] <= t) /\ \A c \in Conns : Aged(s, c, t)
      BY DEF Pairing, Ages
    <2>2. t <= t
      BY Constants DEF Times
    <2>3. \A h \in Gens : r.born[h] <= t
      BY <1>1, <1>2, <2>1, <2>2
    <2>4. ASSUME NEW c \in Conns PROVE Aged(r, c, t)
      <3>1. Aged(s, c, t) /\ c.gen \in Gens
        BY <2>1 DEF Conns
      <3>2. CASE c.gen = g /\ s.born[g] = Unborn
        BY <1>0, <1>1, <1>2, <3>1, <3>2 DEF Aged
      <3>3. CASE ~(c.gen = g /\ s.born[g] = Unborn)
        <4>1. r.born[c.gen] = s.born[c.gen]
          BY <1>1, <1>2, <3>1, <3>3
        <4> QED
          BY <1>0, <3>1, <4>1 DEF Aged
      <3> QED
        BY <3>2, <3>3
    <2> QED
      BY <2>3, <2>4 DEF Ages
  <1>8. Matches(r, p)
    BY <1>4 DEF Pairing, Matches, Marks
  <1> QED
    BY <1>1, <1>3, <1>5, <1>6, <1>7, <1>8 DEF Pairing

(* The line of the connection after a chunk, and the event it makes.       *)
LEMMA LineMoves ==
  ASSUME NEW w \in State, NEW r \in State, NEW p \in SentMap, NEW q, Counts(p), Counts(q),
         NEW x \in Streams, NEW c, NEW conn \in Conns, conn.gen = x.gen, Moves(p, q, x, c),
         OnLine(w, p, x.gen, conn), w.gone \subseteq r.gone,
         Serves(r, w, conn, x, c), Exact(r, q, x.gen)
  PROVE  /\ OnLine(r, q, x.gen, conn)
         /\ \A i \in DOMAIN r.out :
              (i \in DOMAIN w.out /\ r.out[i] = w.out[i]) \/ Right(r.out[i])
  <1> DEFINE g == x.gen
             m == p[g]
             v == q[g]
             old == w.pending[conn]
             new == r.pending[conn]
  <1>0. g \in Gens /\ x.dir \in Dirs /\ q \in SentMap
    BY DEF Streams, Moves
  <1>1. /\ m.reqs \in Nat /\ m.resps \in Nat /\ m.resps <= m.reqs
        /\ v.reqs \in Nat /\ v.resps \in Nat /\ v.resps <= v.reqs
    BY <1>0, SentIs DEF Counts, Counted
  <1>2. Sends(m, x.dir, c) /\ Advances(v, m, x.dir, c)
    BY DEF Moves
  <1>3. Exact(w, p, g) /\ (Unbroken(r, q, g) => Unbroken(w, p, g))
    <2>1. w.gone \subseteq r.gone /\ p[g].hurt \subseteq q[g].hurt
      BY <1>2 DEF Advances
    <2>2. Exact(r, q, g)
      OBVIOUS
    <2> HIDE DEF g
    <2> QED
      BY <2>1, <2>2, TroublesGrow
  <1>4. Fits(old, m) /\ (Unbroken(w, p, g) => Len(old) = m.reqs - m.resps)
    BY <1>3 DEF OnLine
  <1>5. old \in Seq(Request) /\ new \in Seq(Request)
    BY QueueFacts
  <1>s. Exact(r, q, g) /\ Serves(r, w, conn, x, c)
    OBVIOUS
  <1>o. w.out \in Seq(Event)
    BY DEF State
  <1> HIDE DEF m, v, old, new, g
  <1>6. CASE ~Done(c)
    <2>1. new = old /\ r.out = w.out
      BY <1>s, <1>6 DEF Serves, SameLine, old, new
    <2>2. v.reqs = m.reqs /\ v.resps = m.resps
      <3>1. v.reqs = m.reqs + 0 /\ v.resps = m.resps + 0
        BY <1>2, <1>6 DEF Advances
      <3> QED
        BY <1>1, <3>1
    <2>3. Fits(new, v) /\ (Unbroken(r, q, g) => Len(new) = v.reqs - v.resps)
      BY <1>3, <1>4, <2>1, <2>2 DEF Fits
    <2>4. OnLine(r, q, g, conn)
      BY <2>3 DEF OnLine, new, v
    <2> QED
      BY <2>1, <2>4 DEF g
  <1>7. CASE Done(c) /\ x.dir = "request"
    <2>1. PICK e \in Request : e.msg = c.msg /\ new = Append(old, e) /\ r.out = w.out
      BY <1>s, <1>7 DEF Serves, Queues, old, new
    <2>2. v.reqs = m.reqs + 1 /\ v.resps = m.resps
      <3>1. v.reqs = m.reqs + 1 /\ v.resps = m.resps + 0
        BY <1>2, <1>7 DEF Advances
      <3> QED
        BY <1>1, <3>1
    <2>3. c.msg = m.reqs + 1
      <3>1. ~m.ws
        BY <1>2, <1>7 DEF Sends, Done
      <3>2. c.msg = 1 + m.reqs
        BY <1>2, <1>7, <3>1 DEF Sends
      <3> QED
        BY <1>1, <3>2
    <2>4. Len(old) = m.reqs - m.resps
      <3>1. CASE Unbroken(r, q, g)
        BY <1>3, <1>4, <3>1
      <3>2. CASE Serial(r, q, g)
        <4>1. v.hurt = {}
          BY <3>2 DEF Serial, v
        <4>2. ~(m.resps < m.reqs)
          BY <1>2, <1>7, <4>1 DEF Advances
        <4>3. Len(old) <= m.reqs - m.resps /\ Len(old) \in Nat
          BY <1>4, <1>5, LenProperties DEF Fits
        <4> QED
          BY <1>1, <4>2, <4>3
      <3> QED
        BY <1>s, <3>1, <3>2 DEF Exact
    <2>5. Fits(Append(old, e), v) /\ Len(Append(old, e)) = v.reqs - v.resps
      <3>1. e.msg = m.reqs + 1
        BY <2>1, <2>3
      <3> QED
        BY <1>1, <1>4, <1>5, <2>2, <2>4, <3>1, FitsAppend
    <2>6. OnLine(r, q, g, conn)
      BY <2>1, <2>5 DEF OnLine, new, v
    <2> QED
      BY <2>1, <2>6 DEF g
  <1>8. CASE Done(c) /\ x.dir # "request"
    <2>0. x.dir = "response" /\ ~m.ws
      BY <1>0, <1>2, <1>8 DEF Dirs, Sends, Done
    <2>1. m.resps < m.reqs /\ c.msg = 1 + m.resps
      BY <1>2, <2>0 DEF Sends
    <2>2. v.reqs = m.reqs /\ v.resps = m.resps + 1
      <3>1. v.reqs = m.reqs + 0 /\ v.resps = m.resps + 1
        BY <1>2, <1>8, <2>0 DEF Advances
      <3> QED
        BY <1>1, <3>1
    <2>3. Answers(r, w, conn, c.msg)
      BY <1>s, <1>8 DEF Serves
    <2>4. CASE old = <<>> /\ SameLine(r, w, conn)
      <3>1. new = <<>> /\ r.out = w.out
        BY <2>4 DEF SameLine, old, new
      <3>2. ~Unbroken(r, q, g)
        <4>1. Len(old) = 0
          BY <2>4, <1>1, FitsEmpty
        <4> QED
          BY <1>1, <1>3, <1>4, <2>1, <4>1
      <3>3. Fits(new, v)
        BY <1>1, <3>1, FitsEmpty
      <3>4. OnLine(r, q, g, conn)
        BY <3>2, <3>3 DEF OnLine, new, v
      <3> QED
        BY <3>1, <3>4 DEF g
    <2>5. CASE old # <<>> /\ new = Tail(old)
               /\ \E e : /\ r.out = Append(w.out, e) /\ e.gen = conn.gen
                         /\ e.req = Head(old).msg /\ e.resp = c.msg
      <3>1. PICK e : r.out = Append(w.out, e) /\ e.req = Head(old).msg /\ e.resp = c.msg
        BY <2>5
      <3>2. /\ Fits(Tail(old), v) /\ Head(old).msg = m.resps + 1
            /\ Len(old) = m.reqs - m.resps => Len(Tail(old)) = v.reqs - v.resps
        BY <1>1, <1>4, <1>5, <2>2, <2>5, FitsTail
      <3>3. OnLine(r, q, g, conn)
        BY <1>3, <1>4, <2>5, <3>2 DEF OnLine, new, v
      <3>4. e.req = e.resp
        <4>1. m.resps + 1 = 1 + m.resps
          BY <1>1
        <4> QED
          BY <2>1, <3>1, <3>2, <4>1
      <3>5. \A i \in DOMAIN r.out :
              (i \in DOMAIN w.out /\ r.out[i] = w.out[i]) \/ Right(r.out[i])
        <4> DEFINE o == w.out
                   y == r.out
        <4>1. o \in Seq(Event) /\ y = Append(o, e) /\ Right(e)
          BY <1>o, <3>1, <3>4 DEF Right
        <4> HIDE DEF o, y
        <4>2. /\ Len(o) \in Nat /\ DOMAIN o = 1..Len(o)
              /\ DOMAIN y = 1..(Len(o) + 1) /\ y[Len(o) + 1] = e
              /\ \A i \in 1..Len(o) : y[i] = o[i]
          BY <4>1, LenProperties
        <4>3. ASSUME NEW i \in DOMAIN y PROVE (i \in DOMAIN o /\ y[i] = o[i]) \/ Right(y[i])
          <5>1. i \in 1..Len(o) \/ i = Len(o) + 1
            BY <4>2
          <5> QED
            BY <4>1, <4>2, <5>1
        <4> QED
          BY <4>3 DEF o, y
      <3> QED
        BY <3>3, <3>5 DEF g
    <2> QED
      BY <2>3, <2>4, <2>5 DEF Answers, old, new
  <1> QED
    BY <1>6, <1>7, <1>8

(* A chunk of connection conn, after the sweep of handle_event: the        *)
(* connection is the next one of its generation, or was just forgotten.    *)
Reached(w, p, conn, t) ==
    /\ OnLine(w, p, conn.gen, conn)
    /\ \/ NextConn(w, conn.gen, t) = conn
       \/ w.pending[NextConn(w, conn.gen, t)] = <<>>
    /\ \/ w.born[conn.gen] = conn.born
       \/ w.born[conn.gen] = Unborn /\ Loss(conn.gen, "forgotten") \in w.gone
    /\ conn.born <= t

(* What a chunk is when nothing of its generation was lost.                *)
Proceeds(r, w, q, conn, x, c) ==
    Calm(r, q, x.gen) =>
      /\ Serves(r, w, conn, x, c)
      /\ ~q[x.gen].ws => Current(r, x) = After(c) /\ Settled(r, x) /\ x \notin r.gapped

(* The lines and the pairs after a chunk.                                  *)
LEMMA EventPairing ==
  ASSUME NEW w \in State, NEW r, NEW p \in SentMap, NEW q, Counts(p), Counts(q),
         NEW t \in Times, Pairing(w, p, t), NEW x \in Streams, NEW c, NEW conn \in Conns,
         conn.gen = x.gen, Moves(p, q, x, c), Reached(w, p, conn, t),
         Touches(r, w, conn, x), Proceeds(r, w, q, conn, x, c)
  PROVE  Pairing(r, q, t)
  <1> DEFINE g == x.gen
             d == NextConn(w, g, t)
  <1>0. /\ g \in Gens /\ r \in State /\ w.gone \subseteq r.gone /\ r.born = w.born /\ q \in SentMap
        /\ \A h \in Gens : h # g => q[h] = p[h]
    BY DEF Streams, Touches, Moves
  <1>1. ASSUME NEW h \in Gens
        PROVE  /\ p[h].hurt \subseteq q[h].hurt
               /\ Calm(r, q, h) => Calm(w, p, h)
               /\ Unbroken(r, q, h) => Unbroken(w, p, h)
               /\ Exact(r, q, h) => Exact(w, p, h)
    <2>1. p[h].hurt \subseteq q[h].hurt
      <3>1. CASE h = g
        BY <3>1 DEF Moves, Advances
      <3>2. CASE h # g
        BY <1>0, <3>2
      <3> QED
        BY <3>1, <3>2
    <2> QED
      BY <1>0, <2>1, TroublesGrow
  <1>2. Tracks(r, q)
    <2> SUFFICES ASSUME NEW y \in Streams, Calm(r, q, y.gen), ~q[y.gen].ws
                 PROVE  Current(r, y) = Expected(q, y) /\ y \notin r.gapped /\ Settled(r, y)
      BY DEF Tracks, Tracked
    <2>1. y.gen \in Gens
      BY DEF Streams
    <2>2. ~p[y.gen].ws
      BY MovesExpected
    <2>3. CASE y = x
      <3>1. Expected(q, x) = After(c)
        BY <2>2, <2>3, MovesExpected
      <3> QED
        BY <2>3, <3>1 DEF Proceeds
    <2>4. CASE y # x
      <3>1. Current(w, y) = Expected(p, y) /\ y \notin w.gapped /\ Settled(w, y)
        BY <1>1, <2>1, <2>2 DEF Pairing, Tracks, Tracked
      <3>2. Expected(q, y) = Expected(p, y)
        BY <2>4, MovesExpected
      <3>3. Apart(r, w, y)
        BY <2>4 DEF Touches
      <3> QED
        BY <3>1, <3>2, <3>3 DEF Apart, Current, Settled
    <2> QED
      BY <2>3, <2>4
  <1>3. /\ OnLine(r, q, g, conn)
        /\ Exact(r, q, g) => \A i \in DOMAIN r.out :
              (i \in DOMAIN w.out /\ r.out[i] = w.out[i]) \/ Right(r.out[i])
    <2>1. CASE Exact(r, q, g)
      <3>1. Serves(r, w, conn, x, c)
        <4>1. Calm(r, q, g)
          BY <2>1, TroublesAre
        <4> QED
          BY <4>1 DEF Proceeds
      <3>2. OnLine(w, p, x.gen, conn)
        BY DEF Reached
      <3> QED
        BY <1>0, <2>1, <3>1, <3>2, LineMoves
    <2>2. CASE ~Exact(r, q, g)
      <3>1. ~Unbroken(r, q, g)
        BY <2>2, TroublesAre
      <3> QED
        BY <2>2, <3>1 DEF OnLine
    <2> QED
      BY <2>1, <2>2
  <1>4. d \in Conns /\ d.gen = g /\ NextConn(r, g, t) = d /\ conn.born \in Times /\ Unborn \notin Times
    <2>1. NextConn(r, g, t) = d
      BY <1>0 DEF NextConn
    <2> QED
      BY <1>0, <2>1, NextConnIs
  <1>5. d = conn \/ (~Unbroken(r, q, g) /\ r.pending[d] = <<>>)
    <2>1. CASE w.born[g] = conn.born
      <3>1. d.born = conn.born
        BY <1>0, <1>4, <2>1, NextConnIs
      <3> QED
        BY <1>0, <1>4, <3>1, NextConnIs
    <2>2. CASE w.born[g] = Unborn /\ Loss(g, "forgotten") \in w.gone
      <3>1. ~Unbroken(r, q, g)
        BY <1>0, <2>2, TroublesAre
      <3>2. d = conn \/ w.pending[d] = <<>>
        BY DEF Reached
      <3>3. d # conn => r.pending[d] = w.pending[d]
        BY <1>4 DEF Touches
      <3> QED
        BY <3>1, <3>2, <3>3
    <2> QED
      BY <2>1, <2>2 DEF Reached
  <1>6. OnLine(r, q, g, d)
    <2>1. CASE d = conn
      BY <1>3, <2>1
    <2>2. CASE ~Unbroken(r, q, g) /\ r.pending[d] = <<>>
      <3>1. q[g].reqs \in Nat /\ q[g].resps \in Nat /\ q[g].resps <= q[g].reqs
        BY <1>0, SentIs DEF Counts, Counted
      <3>2. Fits(<<>>, q[g])
        BY <3>1, FitsEmpty
      <3> QED
        BY <2>2, <3>2 DEF OnLine
    <2> QED
      BY <1>5, <2>1, <2>2
  <1>7. Idle(r, q, g)
    <2>1. CASE w.born[g] = conn.born
      BY <1>0, <1>4, <2>1 DEF Idle
    <2>2. CASE Loss(g, "forgotten") \in w.gone
      BY <1>0, <2>2, TroublesAre DEF Idle
    <2> QED
      BY <2>1, <2>2 DEF Reached
  <1>8. ASSUME NEW h \in Gens, h # g PROVE OnLine(r, q, h, NextConn(r, h, t)) /\ Idle(r, q, h)
    <2> DEFINE e == NextConn(w, h, t)
    <2>1. NextConn(r, h, t) = e /\ q[h] = p[h]
      BY <1>0, <1>8 DEF NextConn
    <2>2. e \in Conns /\ e # conn
      BY <1>8, NextConnIs
    <2>3. OnLine(w, p, h, e) /\ Idle(w, p, h)
      BY DEF Pairing, Lines
    <2> HIDE DEF e, d, g
    <2>4. r.pending[e] = w.pending[e]
      BY <2>2 DEF Touches
    <2>5. OnLine(r, q, h, e)
      BY <1>1, <2>1, <2>3, <2>4 DEF OnLine
    <2>6. Idle(r, q, h)
      BY <1>0, <1>1, <2>1, <2>3 DEF Idle
    <2> QED
      BY <2>1, <2>5, <2>6
  <1>9. Lines(r, q, t)
    <2>1. OnLine(r, q, g, NextConn(r, g, t)) /\ Idle(r, q, g)
      BY <1>4, <1>6, <1>7
    <2> HIDE DEF g, d
    <2> QED
      BY <1>8, <2>1 DEF Lines
  <1>10. Ages(r, t)
    <2>1. (\A h \in Gens : w.born[h] <= t) /\ \A e \in Conns : Aged(w, e, t)
      BY DEF Pairing, Ages
    <2>2. ASSUME NEW e \in Conns PROVE Aged(r, e, t)
      <3>1. CASE e = conn
        <4>1. conn.born <= t /\ (w.born[conn.gen] = conn.born \/ w.born[conn.gen] = Unborn)
          BY DEF Reached
        <4>2. conn.born <= conn.born
          BY <1>4, Constants DEF Times
        <4> QED
          BY <1>0, <3>1, <4>1, <4>2 DEF Aged
      <3>2. CASE e # conn
        <4>1. r.pending[e] = w.pending[e]
          BY <3>2 DEF Touches
        <4> QED
          BY <1>0, <2>1, <4>1 DEF Aged
      <3> QED
        BY <3>1, <3>2
    <2> QED
      BY <1>0, <2>1, <2>2 DEF Ages
  <1>11. Matches(r, q)
    <2> SUFFICES ASSUME NEW i \in DOMAIN r.out, Exact(r, q, r.out[i].gen) PROVE Right(r.out[i])
      BY DEF Matches
    <2>1. r.out[i].gen \in Gens
      <3>1. r.out \in Seq(Event)
        BY <1>0 DEF State
      <3>2. r.out[i] \in Event
        BY <3>1, LenProperties, ElementOfSeq
      <3> QED
        BY <3>2 DEF Event
    <2>2. \/ i \in DOMAIN w.out /\ r.out[i] = w.out[i]
          \/ r.out[i].gen = g
      BY DEF Touches
    <2>3. CASE i \in DOMAIN w.out /\ r.out[i] = w.out[i]
      BY <1>1, <2>1, <2>3 DEF Pairing, Matches
    <2>4. CASE ~(i \in DOMAIN w.out /\ r.out[i] = w.out[i])
      BY <1>3, <2>2, <2>4
    <2> QED
      BY <2>3, <2>4
  <1> QED
    BY <1>2, <1>9, <1>10, <1>11 DEF Pairing

(* handle_event keeps the lines and the pairs.                             *)
LEMMA HandleEventPairing ==
  ASSUME NEW s, NEW p \in SentMap, NEW q, NEW t \in Times, Kept(s, t, p), UpgradedIdle(p),
         Pairing(s, p, t), Counts(p), Counts(q), NEW g \in Gens, NEW dir \in Dirs,
         NEW c \in Chunks, NEW truncated \in BOOLEAN, NEW hint,
         NEW x \in Streams, x = [gen |-> g, dir |-> dir], Moves(p, q, x, c),
         truncated => "truncated" \in q[g].hurt,
         NEW r \in HandleEvent(s, g, dir, c, truncated, hint, t)
  PROVE  Pairing(r, q, t)
  <1> DEFINE s0 == Birth(s, g, t)
             conn == NextConn(s, g, t)
  <1>1. s \in State
    BY DEF Kept
  <1>2. IsHandleEvent(r, s, g, x, c, truncated, t)
    BY <1>1, EventIs
  <1>3. /\ Marks(s0, s) /\ s0.born = [s.born EXCEPT ![g] = conn.born]
        /\ \E w \in EvictStale(s0, t) : \E l, k : Handled(r, w, l, k, conn, x, c, truncated, t)
    BY <1>2 DEF IsHandleEvent
  <1>4. conn \in Conns /\ conn.gen = g /\ x.gen = g /\ x.dir = dir
    BY <1>1, NextConnIs
  <1>5. Pairing(s0, p, t) /\ NextConn(s0, g, t) = conn /\ s0.born[g] = conn.born
    <2>1. Marks(s0, s) /\ Born(s0, s, g, t)
      BY <1>3 DEF Born
    <2> HIDE DEF s0
    <2> QED
      BY <1>1, <2>1, BirthPairing
  <1> HIDE DEF s0, conn
  <1>6. s0 \in State /\ Untorn(s0, p)
    <2>1. Rest(s, x, t, p) /\ (Sound(s, p, x.gen) => Lined(s, p, x))
      BY RestKept
    <2>2. Rest(s0, x, t, p) /\ (Sound(s0, p, x.gen) => Lined(s0, p, x))
      BY <1>3, <2>1, MarksRest DEF Lined
    <2>3. Kept(s0, t, p)
      BY <2>2, RestKept
    <2> QED
      BY <2>3 DEF Kept
  <1>7. PICK w \in EvictStale(s0, t) : \E l, k : Handled(r, w, l, k, conn, x, c, truncated, t)
    BY <1>3
  <1>8. PICK l, k : Handled(r, w, l, k, conn, x, c, truncated, t)
    BY <1>7
  <1>9. Sheds(w, s0) /\ Tidies(w, s0) /\ Remembers(w, s0)
    BY <1>6, EvictStaleIs
  <1>10. w \in State /\ Untorn(w, p)
    BY <1>6, <1>9, ShedsUntorn DEF Sheds
  <1>11. /\ Pairing(w, p, t)
         /\ OnLine(w, p, g, conn)
         /\ NextConn(w, g, t) = conn \/ w.pending[NextConn(w, g, t)] = <<>>
    <2>1. UntornQueues(s0, p)
      BY <1>6 DEF Untorn
    <2>2. /\ Pairing(w, p, t)
          /\ \A h \in Gens : /\ OnLine(w, p, h, NextConn(s0, h, t))
                             /\ \/ NextConn(w, h, t) = NextConn(s0, h, t)
                                \/ w.pending[NextConn(w, h, t)] = <<>>
      BY <1>5, <1>6, <1>9, <2>1, TidyPairing
    <2> QED
      BY <1>5, <2>2
  <1>12. Reached(w, p, conn, t)
    <2>1. s0.born[g] <= t
      BY <1>5 DEF Pairing, Ages
    <2>2. \/ w.born[g] = conn.born
          \/ w.born[g] = Unborn /\ Loss(g, "forgotten") \in w.gone
      BY <1>5, <1>9 DEF Remembers
    <2> QED
      BY <1>4, <1>5, <1>11, <2>1, <2>2 DEF Reached
  <1>13. /\ Touches(r, w, conn, x)
         /\ /\ ~truncated /\ conn \notin w.ws /\ x \notin w.gapped /\ Continues(w, x, c)
            /\ x.dir = "request" => c.kind = "final"
            => Hurt(r, x.gen) \/ Ends(r, w, conn, x, c)
         /\ ~truncated /\ c.part = "frame" /\ Current(w, x).msg = 0 =>
               Hurt(r, x.gen) \/ SameLine(r, w, conn)
    BY <1>4, <1>8, EventHandles
  <1>14. Sends(p[g], dir, c) /\ (p[g].ws => q[g].ws) /\ p[g].hurt \subseteq q[g].hurt
    BY <1>4 DEF Moves, Advances
  <1>15. Proceeds(r, w, q, conn, x, c)
    <2> SUFFICES ASSUME Calm(r, q, g)
                 PROVE  /\ Serves(r, w, conn, x, c)
                        /\ ~q[g].ws => Current(r, x) = After(c) /\ Settled(r, x) /\ x \notin r.gapped
      BY <1>4 DEF Proceeds
    <2>1. ~truncated
      BY TroublesAre
    <2>2. ~Hurt(r, g)
      <3>1. \A what : Loss(g, what) \in r.gone => what \in {"unanswered", "forgotten"}
        BY TroublesAre
      <3> QED
        BY <3>1 DEF Hurt
    <2>3. Calm(w, p, g)
      <3>1. w.gone \subseteq r.gone
        BY <1>13 DEF Touches
      <3> QED
        BY <1>14, <3>1, TroublesGrow
    <2>4. CASE p[g].ws
      <3>1. c.part = "frame" /\ q[g].ws /\ p[g].open = {}
        BY <1>14, <2>4 DEF Sends, UpgradedIdle
      <3>2. Sound(w, p, g)
        BY <2>3, TroublesAre
      <3>3. w.decoders[x].msg = 0 /\ w.buffers[x].msg = 0
        BY <1>4, <1>10, <3>1, <3>2 DEF Untorn, UntornStreams, InLine
      <3>4. Current(w, x).msg = 0
        BY <3>3 DEF Current
      <3>5. SameLine(r, w, conn)
        BY <1>4, <1>13, <2>1, <2>2, <3>1, <3>4
      <3> QED
        BY <3>1, <3>5 DEF Serves, Done
    <2>5. CASE ~p[g].ws
      <3>1. Current(w, x) = Expected(p, x) /\ x \notin w.gapped
        BY <1>4, <1>11, <2>3, <2>5 DEF Pairing, Tracks, Tracked
      <3>2. conn \notin w.ws
        BY <1>4, <1>10, <2>5 DEF Untorn, Upgraded
      <3>3. /\ c.part # "frame" /\ (dir \in p[g].open <=> c.part = "tail")
            /\ c.msg = 1 + IF dir = "request" THEN p[g].reqs ELSE p[g].resps
            /\ dir = "request" => c.kind = "final"
        BY <1>14, <2>5 DEF Sends
      <3>4. Continues(w, x, c)
        <4>1. c.part \in {"whole", "head", "body", "tail", "frame"}
          BY DEF Chunks, ChunkParts
        <4>2. CASE c.part = "tail"
          <5>1. p[g].reqs \in Nat /\ p[g].resps \in Nat
            BY SentIs
          <5>2. c.msg = Count(p, x) + 1
            BY <1>4, <3>3, <5>1 DEF Count
          <5>3. Expected(p, x) = Clean(c)
            BY <1>4, <3>3, <4>2, <5>2 DEF Expected, Clean
          <5> QED
            BY <3>1, <4>2, <5>3 DEF Continues
        <4>3. CASE c.part # "tail"
          <5>1. Expected(p, x) = NoMsg
            BY <1>4, <3>3, <4>3 DEF Expected
          <5>2. c.part \in {"whole", "head", "body"}
            BY <3>3, <4>1, <4>3
          <5> QED
            BY <3>1, <5>1, <5>2 DEF Continues
        <4> QED
          BY <4>2, <4>3
      <3>5. Ends(r, w, conn, x, c)
        BY <1>4, <1>13, <2>1, <2>2, <3>1, <3>2, <3>3, <3>4
      <3> QED
        BY <3>5 DEF Ends
    <2> QED
      BY <2>4, <2>5
  <1> QED
    BY <1>4, <1>10, <1>11, <1>12, <1>13, <1>15, EventPairing

(* A chunk that never reaches the sensor.                                  *)
LEMMA LostPairing ==
  ASSUME NEW s \in State, NEW p \in SentMap, NEW q, NEW t, Pairing(s, p, t),
         NEW x \in Streams, NEW c, Moves(p, q, x, c), "lost" \in q[x.gen].hurt
  PROVE  Pairing(s, q, t)
  <1>1. ~Calm(s, q, x.gen) /\ \A h \in Gens : h # x.gen => q[h] = p[h]
    BY TroublesAre DEF Moves
  <1>2. ASSUME NEW h \in Gens
        PROVE  /\ Calm(s, q, h) => Calm(s, p, h) /\ q[h] = p[h]
               /\ Unbroken(s, q, h) => Unbroken(s, p, h) /\ q[h] = p[h]
               /\ Exact(s, q, h) => Exact(s, p, h) /\ q[h] = p[h]
    <2>1. Exact(s, q, h) \/ Unbroken(s, q, h) => Calm(s, q, h)
      BY TroublesAre
    <2>2. Calm(s, q, h) => q[h] = p[h]
      BY <1>1
    <2>3. q[h] = p[h] => /\ Calm(s, q, h) => Calm(s, p, h)
                         /\ Unbroken(s, q, h) => Unbroken(s, p, h)
                         /\ Exact(s, q, h) => Exact(s, p, h)
      BY DEF Calm, Unbroken, Exact, Serial
    <2> QED
      BY <2>1, <2>2, <2>3
  <1>3. Tracks(s, q)
    <2> SUFFICES ASSUME NEW y \in Streams, Calm(s, q, y.gen) PROVE Tracked(s, q, y)
      BY DEF Tracks
    <2>1. y.gen \in Gens
      BY DEF Streams
    <2>2. q[y.gen] = p[y.gen] /\ Tracked(s, p, y)
      BY <1>2, <2>1 DEF Pairing, Tracks
    <2> QED
      BY <2>2 DEF Tracked, Expected, Count
  <1>4. Lines(s, q, t)
    <2> SUFFICES ASSUME NEW h \in Gens PROVE OnLine(s, q, h, NextConn(s, h, t)) /\ Idle(s, q, h)
      BY DEF Lines
    <2>1. OnLine(s, p, h, NextConn(s, h, t)) /\ Idle(s, p, h)
      BY DEF Pairing, Lines
    <2> DEFINE d == NextConn(s, h, t)
    <2>d. OnLine(s, p, h, d)
      BY <2>1
    <2> HIDE DEF d
    <2>2. OnLine(s, q, h, d)
      BY <1>2, <2>d DEF OnLine
    <2>3. Idle(s, q, h)
      BY <1>2, <2>1 DEF Idle
    <2> QED
      BY <2>2, <2>3 DEF d
  <1>5. Matches(s, q)
    <2> SUFFICES ASSUME NEW i \in DOMAIN s.out, Exact(s, q, s.out[i].gen) PROVE Right(s.out[i])
      BY DEF Matches
    <2>1. s.out \in Seq(Event)
      BY DEF State
    <2>2. s.out[i] \in Event
      BY <2>1, LenProperties, ElementOfSeq
    <2>3. s.out[i].gen \in Gens
      BY <2>2 DEF Event
    <2> QED
      BY <1>2, <2>3 DEF Pairing, Matches
  <1> QED
    BY <1>3, <1>4, <1>5 DEF Pairing

(* Time passes: an unborn connection is the next tick's, on which no       *)
(* request waits yet.                                                      *)
LEMMA TickPairing ==
  ASSUME NEW s \in State, NEW p \in SentMap, Counts(p), NEW t \in Times, NEW n \in Times, n = t + 1,
         Pairing(s, p, t)
  PROVE  Pairing(s, p, n)
  <1>0. t \in Int /\ n \in Int /\ t <= n /\ ~(n <= t)
    BY Constants DEF Times
  <1>1. (\A g \in Gens : s.born[g] <= t) /\ \A c \in Conns : Aged(s, c, t)
    BY DEF Pairing, Ages
  <1>2. ASSUME NEW g \in Gens PROVE OnLine(s, p, g, NextConn(s, g, n)) /\ Idle(s, p, g)
    <2>1. OnLine(s, p, g, NextConn(s, g, t)) /\ Idle(s, p, g)
      BY DEF Pairing, Lines
    <2>2. CASE s.born[g] # Unborn
      <3>1. NextConn(s, g, n) = NextConn(s, g, t)
        BY <2>2 DEF NextConn
      <3> QED
        BY <2>1, <3>1
    <2>3. CASE s.born[g] = Unborn
      <3> DEFINE d == NextConn(s, g, n)
      <3>1. d \in Conns /\ d.born = n
        BY <2>3, NextConnIs
      <3> HIDE DEF d
      <3>2. s.pending[d] = <<>>
        BY <1>0, <1>1, <3>1 DEF Aged
      <3>3. p[g].reqs \in Nat /\ p[g].resps \in Nat /\ p[g].resps <= p[g].reqs
        BY SentIs DEF Counts, Counted
      <3>4. Fits(<<>>, p[g]) /\ Len(<<>>) = 0
        BY <3>3, FitsEmpty
      <3>5. Unbroken(s, p, g) => 0 = p[g].reqs - p[g].resps
        BY <2>1, <2>3, <3>3 DEF Idle
      <3>6. OnLine(s, p, g, d)
        BY <3>2, <3>4, <3>5 DEF OnLine
      <3> QED
        BY <2>1, <3>6 DEF d
    <2> QED
      BY <2>2, <2>3
  <1>3. Ages(s, n)
    <2>1. ASSUME NEW g \in Gens PROVE s.born[g] <= n
      <3>1. s.born[g] \in Int
        BY Constants DEF State, BornMap, Times, Unborn
      <3> QED
        BY <1>0, <1>1, <3>1
    <2>2. ASSUME NEW c \in Conns PROVE Aged(s, c, n)
      <3>1. c.born \in Int
        BY Constants DEF Conns, Times
      <3>2. c.born <= t => c.born <= n
        BY <1>0, <3>1
      <3> QED
        BY <1>1, <3>2 DEF Aged
    <2> QED
      BY <2>1, <2>2 DEF Ages
  <1> QED
    BY <1>2, <1>3 DEF Pairing, Lines

(* take_all_incomplete leaves the requests it takes in the history.        *)
LEMMA EvictTidies ==
  ASSUME NEW s \in State, NEW r, NEW C \in SUBSET Conns, IsEvict(r, s, C)
  PROVE  Tidies(r, s)
  <1>1. \A x \in Streams : SameMessage(r, s, x)
    BY KeptMessage DEF IsEvict
  <1>2. ASSUME NEW c \in Conns, r.pending[c] # s.pending[c]
        PROVE  \E i \in DOMAIN s.pending[c] : Unanswered(s.pending[c][i]) \in r.gone
    <2>1. c \in C /\ r.pending[c] = <<>>
      BY <1>2 DEF IsEvict
    <2> DEFINE q == s.pending[c]
    <2>2. q \in Seq(Request) /\ q # <<>>
      BY <1>2, <2>1, QueueFacts
    <2> HIDE DEF q
    <2>3. 1 \in DOMAIN q
      BY <2>2, EmptySeq, LenProperties
    <2> QED
      BY <2>1, <2>3 DEF IsEvict, q
  <1> QED
    BY <1>1, <1>2 DEF Tidies, IsEvict

-----------------------------------------------------------------------------
(* The invariant of the pairs.                                             *)

(* The invariant holds at the start.                                       *)
LEMMA InitPairs ==
  Init => PairInv
  <1> SUFFICES ASSUME Init PROVE PairInv
    OBVIOUS
  <1>1. StreamInv
    BY InitInv
  <1>2. st \in State /\ sent \in SentMap /\ now \in Times
    BY <1>1 DEF StreamInv, Kept
  <1>3. /\ now = 0 /\ \A g \in Gens : sent[g].reqs = 0 /\ sent[g].resps = 0 /\ sent[g].open = {}
        /\ st.buffers = [x \in Streams |-> NoBuffer] /\ st.decoders = [x \in Streams |-> NoMsg]
        /\ st.pending = [c \in Conns |-> <<>>] /\ st.born = [g \in Gens |-> Unborn]
        /\ st.gapped = {} /\ st.out = <<>>
    BY DEF Init
  <1>4. Counts(sent)
    BY <1>3 DEF Counts, Counted
  <1>5. Tracks(st, sent)
    <2>1. ASSUME NEW x \in Streams
          PROVE  Current(st, x) = Expected(sent, x) /\ x \notin st.gapped /\ Settled(st, x)
      <3>1. st.buffers[x] = NoBuffer /\ st.decoders[x] = NoMsg /\ sent[x.gen].open = {}
        BY <1>3 DEF Streams
      <3>2. Current(st, x) = NoMsg
        BY <3>1 DEF Current, NoBuffer, NoMsg
      <3> QED
        BY <1>3, <3>1, <3>2 DEF Expected, Settled
    <2> QED
      BY <2>1 DEF Tracks, Tracked
  <1>6. Lines(st, sent, now)
    <2> SUFFICES ASSUME NEW g \in Gens
                 PROVE  OnLine(st, sent, g, NextConn(st, g, now)) /\ Idle(st, sent, g)
      BY DEF Lines
    <2> DEFINE d == NextConn(st, g, now)
    <2>1. d \in Conns
      BY <1>2, NextConnIs
    <2> HIDE DEF d
    <2>2. st.pending[d] = <<>> /\ sent[g].reqs = 0 /\ sent[g].resps = 0
      BY <1>3, <2>1
    <2>3. Fits(<<>>, sent[g]) /\ Len(<<>>) = 0
      <3>1. sent[g].reqs \in Nat /\ sent[g].resps \in Nat /\ sent[g].resps <= sent[g].reqs
        BY <2>2
      <3> QED
        BY <3>1, FitsEmpty
    <2>4. OnLine(st, sent, g, d) /\ Idle(st, sent, g)
      BY <2>2, <2>3 DEF OnLine, Idle
    <2> QED
      BY <2>4 DEF d
  <1>7. Ages(st, now)
    BY <1>3 DEF Ages, Aged, Unborn
  <1>8. Matches(st, sent)
    BY <1>3 DEF Matches
  <1> QED
    BY <1>1, <1>4, <1>5, <1>6, <1>7, <1>8 DEF PairInv, Pairing

(* Every step keeps the lines and the pairs.                               *)
LEMMA NextPairs ==
  PairInv /\ [Next]_vars => PairInv'
  <1> SUFFICES ASSUME PairInv, [Next]_vars PROVE PairInv'
    OBVIOUS
  <1>1. /\ StreamInv /\ Kept(st, now, sent) /\ st \in State /\ now \in Times
        /\ sent \in SentMap /\ UpgradedIdle(sent) /\ UntornQueues(st, sent)
        /\ Counts(sent) /\ Pairing(st, sent, now)
    BY DEF PairInv, StreamInv, Kept, Untorn
  <1>2. StreamInv'
    BY <1>1, NextInv
  <1>3. ASSUME Counts(sent'), Pairing(st', sent', now') PROVE PairInv'
    BY <1>2, <1>3 DEF PairInv
  <1>4. ASSUME Sheds(st', st), Tidies(st', st), sent' = sent, now' = now PROVE PairInv'
    <2>1. Pairing(st', sent, now)
      BY <1>1, <1>4, TidyPairing
    <2> QED
      BY <1>1, <1>3, <1>4, <2>1
  <1>5. ASSUME NEW g \in Gens, NEW dir \in Dirs, NEW fate \in Fates, Receive(g, dir, fate)
        PROVE  PairInv'
    <2> DEFINE x == [gen |-> g, dir |-> dir]
    <2>1. PICK c \in NextChunk(g, dir) :
            /\ sent' = [sent EXCEPT ![g] = Progress(@, dir, c, fate)]
            /\ IF fate = "lost" THEN st' = st
               ELSE \E hint \in Hints :
                      st' \in HandleEvent(st, g, dir, c, fate = "truncated", hint, now)
      BY <1>5 DEF Receive
    <2>2. now' = now /\ x \in Streams /\ x.gen = g /\ x = [gen |-> g, dir |-> dir]
      BY <1>5 DEF Receive, Streams
    <2> HIDE DEF x
    <2>3. c \in Chunks
      BY <1>1, <2>1, ChunkFollows
    <2>4. /\ Moves(sent, sent', x, c) /\ Counts(sent')
          /\ fate # "captured" => fate \in sent'[g].hurt
      BY <1>1, <2>1, <2>2, ChunkMoves
    <2>5. CASE fate = "lost"
      <3>1. "lost" \in sent'[x.gen].hurt
        BY <2>2, <2>4, <2>5
      <3>2. Pairing(st, sent', now)
        BY <1>1, <2>2, <2>4, <3>1, LostPairing
      <3> QED
        BY <1>3, <2>1, <2>2, <2>4, <2>5, <3>2
    <2>6. CASE fate # "lost"
      <3>1. PICK hint \in Hints :
              st' \in HandleEvent(st, g, dir, c, fate = "truncated", hint, now)
        BY <2>1, <2>6
      <3> DEFINE tr == fate = "truncated"
      <3>2. tr \in BOOLEAN /\ (tr => "truncated" \in sent'[g].hurt)
        BY <2>4
      <3>3. st' \in HandleEvent(st, g, dir, c, tr, hint, now)
        BY <3>1
      <3> HIDE DEF tr
      <3>4. Pairing(st', sent', now)
        BY <1>1, <2>2, <2>3, <2>4, <3>2, <3>3, HandleEventPairing
      <3> QED
        BY <1>3, <2>2, <2>4, <3>4
    <2> QED
      BY <2>5, <2>6
  <1>6. ASSUME Reuse PROVE PairInv'
    BY <1>1, <1>3, <1>6 DEF Reuse
  <1>7. ASSUME NEW g \in Gens, HandleClose(g) PROVE PairInv'
    <2>1. st' = EvictConnection(st, g) /\ now' = now /\ sent' = sent
      BY <1>7 DEF HandleClose
    <2>2. Sheds(st', st) /\ Tidies(st', st)
      BY <1>1, <2>1, EvictConnectionIs
    <2> QED
      BY <1>4, <2>1, <2>2
  <1>8. ASSUME Sweep PROVE PairInv'
    <2>1. st' \in EvictStale(st, now) /\ now' = now /\ sent' = sent
      BY <1>8 DEF Sweep
    <2>2. Sheds(st', st) /\ Tidies(st', st)
      BY <1>1, <2>1, EvictStaleIs
    <2> QED
      BY <1>4, <2>1, <2>2
  <1>9. ASSUME Shutdown PROVE PairInv'
    <2>1. st' = Evict(st, Conns, "sensor_shutdown") /\ now' = now /\ sent' = sent
      BY <1>9 DEF Shutdown, TakeAll
    <2>2. "sensor_shutdown" \in Outcomes /\ Conns \in SUBSET Conns
      BY DEF Outcomes
    <2>3. IsEvict(st', st, Conns)
      BY <1>1, <2>1, <2>2, EvictIs
    <2>4. Sheds(st', st) /\ Tidies(st', st)
      BY <1>1, <2>2, <2>3, EvictTidies DEF IsEvict
    <2> QED
      BY <1>4, <2>1, <2>4
  <1>10. ASSUME Tick PROVE PairInv'
    <2>1. st' = st /\ sent' = sent /\ now' = now + 1
      BY <1>10 DEF Tick
    <2>2. now' \in Times
      BY <1>2 DEF StreamInv
    <2>3. Pairing(st, sent, now')
      BY <1>1, <2>1, <2>2, TickPairing
    <2> QED
      BY <1>1, <1>3, <2>1, <2>3
  <1>11. CASE UNCHANGED vars
    BY <1>1, <1>3, <1>11 DEF vars
  <1> QED
    BY <1>5, <1>6, <1>7, <1>8, <1>9, <1>10, <1>11 DEF Next

(* handle_event, the pairing on the wire: whatever is swept, closed, late  *)
(* or reused, and for any limits, an event pairs a request with the        *)
(* response that answers it, unless bytes of its connection were lost; if  *)
(* its requests were pipelined, unless one of them was given up.           *)
THEOREM ResponsesMatchRequests == Spec => []CleanPairs
  <1>1. PairInv => CleanPairs
    <2> SUFFICES ASSUME PairInv, NEW i \in DOMAIN st.out, st.out[i].outcome = "paired",
                        \/ Troubles(st.out[i].gen) \subseteq {"unanswered", "forgotten"}
                        \/ Troubles(st.out[i].gen) = {"pipelined"}
                 PROVE  st.out[i].req = st.out[i].resp
      BY DEF CleanPairs
    <2> DEFINE g == st.out[i].gen
    <2>0. /\ st \in State /\ sent \in SentMap
      BY DEF PairInv, StreamInv, Kept
    <2>1. g \in Gens
      <3>1. st.out \in Seq(Event)
        BY <2>0 DEF State
      <3>2. st.out[i] \in Event
        BY <3>1, LenProperties, ElementOfSeq
      <3> QED
        BY <3>2 DEF Event
    <2>2. Troubles(g) \subseteq {"unanswered", "forgotten"} \/ Troubles(g) = {"pipelined"}
      OBVIOUS
    <2>3. Matches(st, sent)
      BY DEF PairInv, Pairing
    <2> HIDE DEF g
    <2>4. /\ sent[g].hurt \subseteq Troubles(g)
          /\ \A l \in st.gone : l.gen = g => l.what \in Troubles(g)
      BY DEF Troubles
    <2>5. sent[g].hurt \subseteq {"lost", "truncated", "pipelined"}
      BY <2>0, <2>1, SentIs
    <2>6. CASE Troubles(g) \subseteq {"unanswered", "forgotten"}
      <3>1. sent[g].hurt = {}
        BY <2>4, <2>5, <2>6
      <3>2. Losing(st, g, {"unanswered", "forgotten"})
        BY <2>4, <2>6 DEF Losing
      <3>3. Exact(st, sent, g)
        BY <3>1, <3>2 DEF Exact, Serial
      <3> QED
        BY <2>3, <3>3 DEF Matches, Right, g
    <2>7. CASE Troubles(g) = {"pipelined"}
      <3>1. sent[g].hurt \subseteq {"pipelined"}
        BY <2>4, <2>7
      <3>2. Losing(st, g, {})
        <4>1. ASSUME NEW l \in st.gone, l.gen = g PROVE FALSE
          <5>1. l.what = "pipelined"
            BY <2>4, <2>7, <4>1
          <5>2. l.what \in {"unanswered", "partial", "request", "chunk", "buffer", "ambiguous", "forgotten"}
            BY <2>0 DEF State, Losses
          <5> QED
            BY <5>1, <5>2
        <4> QED
          BY <4>1 DEF Losing
      <3>3. Exact(st, sent, g)
        BY <3>1, <3>2 DEF Exact, Unbroken
      <3> QED
        BY <2>3, <3>3 DEF Matches, Right, g
    <2> QED
      BY <2>2, <2>6, <2>7
  <1> QED
    BY <1>1, InitPairs, NextPairs, PTL DEF Spec
=============================================================================
