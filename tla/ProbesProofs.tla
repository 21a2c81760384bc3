---------------------------- MODULE ProbesProofs ----------------------------
(***************************************************************************)
(* Proofs about TlsProbes, for any threads, goroutines, processes and      *)
(* addresses, any size of the rings and any number of calls, objects and   *)
(* dropped map elements.                                                   *)
(***************************************************************************)
EXTENDS TlsProbes, SequenceTheorems, FiniteSetTheorems, TLAPS

-----------------------------------------------------------------------------
(* The operators of the model.                                             *)

(* Every TLS call has a direction and a map for its arguments.             *)
LEMMA ApiTypes ==
  ASSUME NEW api \in Apis
  PROVE  Direction(api) \in Dirs /\ ArgsMap(api) \in ArgsMaps
  BY DEF Direction, Dirs, ArgsMaps

(* A call is found by its own context: a goroutine's by the goroutine,     *)
(* whatever thread it runs on.                                             *)
LEMMA OwnCallKey ==
  ASSUME NEW c \in Contexts, NEW t \in Runs(c), NEW api
  PROVE  /\ CallKey(api, c, t) \in Contexts
         /\ (api \in GoTLS <=> c \in Goroutines) => CallKey(api, c, t) = c
  BY ProbesAssumption DEF CallKey, Runs, Contexts

(* Deleting saved arguments leaves the maps typed.                         *)
LEMMA ForgetType ==
  ASSUME args \in [ArgsMaps -> [Contexts -> Ptrs \cup {NoPtr}]],
         NEW m \in ArgsMaps, NEW c \in Contexts
  PROVE  Forget(m, c) \in [ArgsMaps -> [Contexts -> Ptrs \cup {NoPtr}]]
  BY DEF Forget

(* A record in a slot changes its status and nothing else.                 *)
LEMMA ReleaseProperties ==
  ASSUME NEW c, ring \in Seq(Slot), NEW status \in {"ready", "discarded"}
  PROVE  /\ Release(c, status) \in Seq(Slot)
         /\ Len(Release(c, status)) = Len(ring)
         /\ \A i \in 1..Len(ring) :
              /\ Release(c, status)[i].by = ring[i].by
              /\ Release(c, status)[i].rec = ring[i].rec
              /\ Release(c, status)[i].status
                   = IF ring[i].by = c /\ ring[i].status = "busy" THEN status
                     ELSE ring[i].status
  <1> DEFINE n == Len(ring)
             f == Release(c, status)
  <1>1. n \in Nat /\ DOMAIN ring = 1..n /\ \A i \in 1..n : ring[i] \in Slot
    BY LenProperties, ElementOfSeq
  <1>2. f = [i \in 1..n |-> IF ring[i].by = c /\ ring[i].status = "busy"
                            THEN [ring[i] EXCEPT !.status = status] ELSE ring[i]]
    BY <1>1 DEF Release
  <1>3. ASSUME NEW i \in 1..n
        PROVE  /\ f[i] \in Slot
               /\ f[i].by = ring[i].by
               /\ f[i].rec = ring[i].rec
               /\ f[i].status = IF ring[i].by = c /\ ring[i].status = "busy" THEN status
                                ELSE ring[i].status
    <2>1. ring[i] \in Slot
      BY <1>1
    <2> HIDE DEF n, f
    <2>2. CASE ring[i].by = c /\ ring[i].status = "busy"
      <3>1. f[i] = [ring[i] EXCEPT !.status = status]
        BY <1>2, <2>2
      <3> QED
        BY <2>1, <2>2, <3>1 DEF Slot
    <2>3. CASE ~(ring[i].by = c /\ ring[i].status = "busy")
      <3>1. f[i] = ring[i]
        BY <1>2, <2>3
      <3> QED
        BY <2>1, <2>3, <3>1
    <2> QED
      BY <2>2, <2>3
  <1>4. f \in [1..n -> Slot]
    <2> HIDE DEF n
    <2> QED
      BY <1>2, <1>3
  <1>5. f \in Seq(Slot) /\ Len(f) = n
    <2> HIDE DEF n, f
    <2>1. f \in Seq(Slot)
      BY <1>1, <1>4, SeqDef
    <2>2. DOMAIN f = 1..n /\ DOMAIN f = 1..Len(f) /\ Len(f) \in Nat
      BY <1>4, <2>1, LenProperties
    <2> QED
      BY <1>1, <2>1, <2>2
  <1> QED
    BY <1>3, <1>5

(* Returning from a call leaves the calls around it.                       *)
LEMMA ReturnProperties ==
  ASSUME TypeOK, NEW c \in Contexts, stack[c] # <<>>
  PROVE  /\ Return(c) \in [Contexts -> Seq([api : Apis, key : Keys])]
         /\ \A d \in Contexts : d # c => Return(c)[d] = stack[d]
         /\ Len(Return(c)[c]) = Len(stack[c]) - 1
         /\ Len(stack[c]) \in Nat \ {0}
         /\ \A i \in 1..Len(stack[c]) - 1 : Return(c)[c][i] = stack[c][i]
         /\ Top(c) \in [api : Apis, key : Keys]
  <1> DEFINE Call == [api : Apis, key : Keys]
             s == stack[c]
             n == Len(s)
             u == SubSeq(s, 1, n - 1)
  <1>1. stack \in [Contexts -> Seq(Call)] /\ s \in Seq(Call) /\ s # <<>>
    BY DEF TypeOK
  <1> HIDE DEF Call, s
  <1>2. n \in Nat \ {0}
    BY <1>1, EmptySeq
  <1>3. \A i \in 1..n : s[i] \in Call
    BY <1>1, ElementOfSeq
  <1>4. u \in Seq(Call) /\ Len(u) = n - 1 /\ \A i \in 1..(n - 1) : u[i] = s[i]
    <2>1. \A i \in 1..(n - 1) : s[i] \in Call
      BY <1>2, <1>3
    <2>2. /\ u \in Seq(Call)
          /\ Len(u) = IF 1 <= n - 1 THEN (n - 1) - 1 + 1 ELSE 0
          /\ \A i \in 1..(n - 1) - 1 + 1 : u[i] = s[1 + i - 1]
      BY <1>2, <2>1, SubSeqProperties
    <2>3. (n - 1) - 1 + 1 = n - 1 /\ \A i \in 1..(n - 1) : 1 + i - 1 = i
      BY <1>2
    <2> QED
      BY <1>2, <2>2, <2>3
  <1> HIDE DEF u
  <1>5. Return(c) = [stack EXCEPT ![c] = u]
    BY DEF Return, u, s
  <1>6. n \in 1..n
    BY <1>2
  <1> QED
    BY <1>1, <1>2, <1>3, <1>4, <1>5, <1>6 DEF s, Top, Call

-----------------------------------------------------------------------------
(* Types.                                                                  *)

(* A running exit program has a record and a call to return from.          *)
Running == \A c \in Contexts : step[c] # "idle" => rec[c] \in Record /\ stack[c] # <<>>

TypeInv == TypeOK /\ Running

(* What the exit probe of the topmost call finds.                          *)
LEMMA ExitTypes ==
  ASSUME TypeOK, NEW c \in Contexts, NEW t \in Runs(c), stack[c] # <<>>
  PROVE  /\ Top(c).api \in Apis /\ Top(c).key \in Keys
         /\ ArgsMap(Top(c).api) \in ArgsMaps
         /\ Direction(Top(c).api) \in Dirs
         /\ CallKey(Top(c).api, c, t) \in Contexts
         /\ args[ArgsMap(Top(c).api)][CallKey(Top(c).api, c, t)] \in Ptrs \cup {NoPtr}
         /\ ProcOf[c] \in Procs
         /\ \A p \in Ptrs : SslKey(c, p) \in Keys
  <1>1. Top(c).api \in Apis /\ Top(c).key \in Keys
    BY ReturnProperties
  <1>2. ArgsMap(Top(c).api) \in ArgsMaps /\ Direction(Top(c).api) \in Dirs
    BY <1>1, ApiTypes
  <1>3. CallKey(Top(c).api, c, t) \in Contexts
    BY OwnCallKey
  <1>4. ProcOf[c] \in Procs
    BY ProbesAssumption
  <1> QED
    BY <1>1, <1>2, <1>3, <1>4 DEF TypeOK, SslKey, Keys

(* The record an exit probe starts with.                                   *)
NewRecord(c, t, gen, seq) ==
  LET api == Top(c).api
      d == Direction(api)
  IN  [key |-> [tgid |-> ProcOf[c], ptr |-> args[ArgsMap(api)][CallKey(api, c, t)]],
       of |-> Top(c).key, map |-> ArgsMap(api), slot |-> CallKey(api, c, t), dir |-> d,
       gen |-> gen, seq |-> seq, life |-> life[Top(c).key], nth |-> tried[Top(c).key][d]]

(* The fields of the record an exit program builds.                        *)
LEMMA NewRecordType ==
  ASSUME TypeOK, NEW c \in Contexts, NEW t \in Runs(c), stack[c] # <<>>,
         args[ArgsMap(Top(c).api)][CallKey(Top(c).api, c, t)] # NoPtr,
         NEW gen \in Nat, NEW seq \in Nat
  PROVE  NewRecord(c, t, gen, seq) \in Record
  <1> DEFINE r == NewRecord(c, t, gen, seq)
  <1>1. r.key \in Keys
    BY ExitTypes DEF NewRecord, Keys
  <1>2. r.of \in Keys /\ r.map \in ArgsMaps /\ r.slot \in Contexts /\ r.dir \in Dirs
    BY ExitTypes DEF NewRecord
  <1>3. r.life \in Nat /\ r.nth \in Nat
    BY ExitTypes DEF NewRecord, TypeOK
  <1>4. r.gen \in Nat /\ r.seq \in Nat
    BY DEF NewRecord
  <1>5. r = [key |-> r.key, of |-> r.of, map |-> r.map, slot |-> r.slot, dir |-> r.dir,
             gen |-> r.gen, seq |-> r.seq, life |-> r.life, nth |-> r.nth]
    BY DEF NewRecord
  <1> HIDE DEF r
  <1> QED
    BY <1>1, <1>2, <1>3, <1>4, <1>5 DEF Record, r

(* The state that next_seq finds or makes.                                 *)
FoundState(k) == IF state[k] = NoState THEN ZeroState ELSE state[k]

(* The element emit_event works on, found or fresh, is typed.              *)
LEMMA FoundStateType ==
  ASSUME TypeOK, NEW k \in Keys, NEW d \in Dirs
  PROVE  /\ FoundState(k) \in [gen : Nat, seq : [Dirs -> Nat]]
         /\ FoundState(k).gen \in Nat /\ FoundState(k).seq[d] \in Nat
  <1>1. ZeroState \in [gen : Nat, seq : [Dirs -> Nat]]
    BY DEF ZeroState
  <1>2. FoundState(k) \in [gen : Nat, seq : [Dirs -> Nat]]
    BY <1>1 DEF FoundState, TypeOK
  <1> QED
    BY <1>2

(* ExitEmit and ExitEmitMapFull, by what they change.                      *)
LEMMA EmitChanges ==
  ASSUME TypeOK, NEW c \in Contexts, NEW t \in Runs(c), ExitEmit(c, t)
  PROVE  LET api == Top(c).api
             k == SslKey(c, args[ArgsMap(api)][CallKey(api, c, t)])
             st == FoundState(k)
             r == NewRecord(c, t, st.gen, st.seq[Direction(api)])
         IN  /\ step[c] = "idle" /\ stack[c] # <<>>
             /\ k \in Keys /\ r \in Record
             /\ args[ArgsMap(api)][CallKey(api, c, t)] # NoPtr
             /\ stats' = [stats EXCEPT ![0] = @ + 1]
             /\ state' = [state EXCEPT ![k] = st]
             /\ tried' = [tried EXCEPT ![Top(c).key][Direction(api)] = @ + 1]
             /\ step' = [step EXCEPT ![c] = "counted"]
             /\ rec' = [rec EXCEPT ![c] = r]
             /\ lapses' = IF Racing(k, Direction(api))
                          THEN lapses \cup {[key |-> k, why |-> "raced"]} ELSE lapses
             /\ UNCHANGED <<object, life, stack, args, ring, closes, userVars, evictions>>
  <1> DEFINE api == Top(c).api
             ptr == args[ArgsMap(api)][CallKey(api, c, t)]
             k == SslKey(c, ptr)
             st == FoundState(k)
  <1>1. step[c] = "idle" /\ stack[c] # <<>> /\ ptr # NoPtr
    BY DEF ExitEmit
  <1>2. k \in Keys /\ Direction(api) \in Dirs
    BY <1>1, ExitTypes
  <1>3. st.gen \in Nat /\ st.seq[Direction(api)] \in Nat
    <2> HIDE DEF k, api
    <2> QED
      BY <1>2, FoundStateType
  <1>4. NewRecord(c, t, st.gen, st.seq[Direction(api)]) \in Record
    <2> HIDE DEF st
    <2> QED
      BY <1>1, <1>3, NewRecordType
  <1>5. /\ stats' = [stats EXCEPT ![0] = @ + 1]
        /\ state' = [state EXCEPT ![k] = st]
        /\ tried' = [tried EXCEPT ![Top(c).key][Direction(api)] = @ + 1]
        /\ step' = [step EXCEPT ![c] = "counted"]
        /\ lapses' = IF Racing(k, Direction(api))
                     THEN lapses \cup {[key |-> k, why |-> "raced"]} ELSE lapses
        /\ UNCHANGED <<object, life, stack, args, ring, closes, userVars, evictions>>
    BY DEF ExitEmit, Count, FoundState
  <1>6. rec' = [rec EXCEPT ![c] = NewRecord(c, t, st.gen, st.seq[Direction(api)])]
    BY DEF ExitEmit, FoundState, NewRecord
  <1> QED
    BY <1>1, <1>2, <1>4, <1>5, <1>6

(* What changes when the element could not be stored.                      *)
LEMMA MapFullChanges ==
  ASSUME TypeOK, NEW c \in Contexts, NEW t \in Runs(c), ExitEmitMapFull(c, t)
  PROVE  LET api == Top(c).api
             k == SslKey(c, args[ArgsMap(api)][CallKey(api, c, t)])
             r == NewRecord(c, t, 0, 0)
         IN  /\ step[c] = "idle" /\ stack[c] # <<>>
             /\ k \in Keys /\ r \in Record
             /\ args[ArgsMap(api)][CallKey(api, c, t)] # NoPtr
             /\ stats' = [stats EXCEPT ![0] = @ + 1, ![5] = @ + 1]
             /\ tried' = [tried EXCEPT ![Top(c).key][Direction(api)] = @ + 1]
             /\ step' = [step EXCEPT ![c] = "numbered"]
             /\ rec' = [rec EXCEPT ![c] = r]
             /\ evictions < MaxEvictions /\ evictions' = evictions + 1
             /\ lapses' = lapses \cup {[key |-> k, why |-> "dropped"]}
             /\ UNCHANGED <<object, life, stack, args, state, ring, closes, userVars>>
  <1> DEFINE api == Top(c).api
             ptr == args[ArgsMap(api)][CallKey(api, c, t)]
             k == SslKey(c, ptr)
  <1>1. step[c] = "idle" /\ stack[c] # <<>> /\ ptr # NoPtr
    BY DEF ExitEmitMapFull
  <1>2. k \in Keys
    BY <1>1, ExitTypes
  <1>3. NewRecord(c, t, 0, 0) \in Record
    BY <1>1, NewRecordType
  <1>4. rec' = [rec EXCEPT ![c] = NewRecord(c, t, 0, 0)]
    BY DEF ExitEmitMapFull, NewRecord
  <1> QED
    BY <1>1, <1>2, <1>3, <1>4 DEF ExitEmitMapFull

(* The end of an exit program, by what it changes.                         *)
LEMMA FinishTypes ==
  ASSUME TypeInv, NEW c \in Contexts, step[c] # "idle", Finish(c)
  PROVE  /\ step' \in [Contexts -> {"idle", "counted", "numbered", "reserved"}]
         /\ rec' \in [Contexts -> Record \cup {NoRecord}]
         /\ args' \in [ArgsMaps -> [Contexts -> Ptrs \cup {NoPtr}]]
         /\ stack' \in [Contexts -> Seq([api : Apis, key : Keys])]
         /\ step'[c] = "idle"
         /\ \A d \in Contexts : d # c => /\ step'[d] = step[d] /\ rec'[d] = rec[d]
                                         /\ stack'[d] = stack[d]
         /\ Running'
  <1>1. rec[c] \in Record /\ stack[c] # <<>> /\ TypeOK
    BY DEF TypeInv, Running
  <1>2. rec[c].map \in ArgsMaps /\ rec[c].slot \in Contexts
    BY <1>1 DEF Record
  <1>3. args' \in [ArgsMaps -> [Contexts -> Ptrs \cup {NoPtr}]]
    BY <1>1, <1>2 DEF Finish, Forget, TypeOK
  <1>4. /\ stack' \in [Contexts -> Seq([api : Apis, key : Keys])]
        /\ \A d \in Contexts : d # c => stack'[d] = stack[d]
    BY <1>1, ReturnProperties DEF Finish
  <1>5. /\ step' \in [Contexts -> {"idle", "counted", "numbered", "reserved"}]
        /\ rec' \in [Contexts -> Record \cup {NoRecord}]
        /\ step'[c] = "idle"
        /\ \A d \in Contexts : d # c => step'[d] = step[d] /\ rec'[d] = rec[d]
    BY <1>1 DEF Finish, TypeOK
  <1>6. Running'
    BY <1>4, <1>5 DEF TypeInv, Running
  <1> QED
    BY <1>3, <1>4, <1>5, <1>6

(* No call is open and both rings are empty at first.                      *)
LEMMA TypeInit == Init => TypeInv
  <1> SUFFICES ASSUME Init PROVE TypeInv
    OBVIOUS
  <1>1. Dirs \subseteq Nat /\ Stats \subseteq Nat
    BY DEF Dirs, Stats
  <1>2. /\ ring = <<>> /\ closes = <<>> /\ read = <<>> /\ Len(ring) = 0
        /\ \A S : <<>> \in Seq(S)
    BY EmptySeq DEF Init
  <1>3. /\ object \in [Keys -> Libraries \cup {{}}] /\ life \in [Keys -> Nat]
        /\ tried \in [Keys -> [Dirs -> Nat]]
        /\ stack \in [Contexts -> Seq([api : Apis, key : Keys])]
        /\ args \in [ArgsMaps -> [Contexts -> Ptrs \cup {NoPtr}]]
        /\ state \in [Keys -> [gen : Nat, seq : [Dirs -> Nat]] \cup {NoState}]
    BY <1>2 DEF Init
  <1> QED
    BY <1>2, <1>3, ProbesAssumption DEF Init, TypeInv, TypeOK, Running

(* A step keeps the types.                                                 *)
LEMMA TypeStep == TypeInv /\ [Next]_vars => TypeInv'
  <1> SUFFICES ASSUME TypeInv, [Next]_vars PROVE TypeInv'
    OBVIOUS
  <1> DEFINE Call == [api : Apis, key : Keys]
  <1>0. TypeOK /\ Running
    BY DEF TypeInv
  <1>a. /\ object \in [Keys -> Libraries \cup {{}}] /\ life \in [Keys -> Nat]
        /\ tried \in [Keys -> [Dirs -> Nat]]
        /\ args \in [ArgsMaps -> [Contexts -> Ptrs \cup {NoPtr}]]
    BY <1>0 DEF TypeOK
  <1>b. /\ state \in [Keys -> [gen : Nat, seq : [Dirs -> Nat]] \cup {NoState}]
        /\ ring \in Seq(Slot) /\ closes \in Seq(Close) /\ read \in Seq(Record)
        /\ lapses \subseteq [key : Keys, why : {"dropped", "freed", "raced"}]
    BY <1>0 DEF TypeOK
  <1>c. /\ stats \in [Stats -> Nat] /\ \A i \in Stats : stats[i] + 1 \in Nat
        /\ Stats = {0, 1, 2, 3, 4, 5}
    <2>1. stats \in [Stats -> Nat]
      BY <1>0 DEF TypeOK
    <2> QED
      BY <2>1 DEF Stats
  <1>1. ASSUME NEW k \in Keys, NEW l \in Libraries, Allocate(k, l) PROVE TypeInv'
    <2>1. /\ object' \in [Keys -> Libraries \cup {{}}] /\ life' \in [Keys -> Nat]
          /\ tried' \in [Keys -> [Dirs -> Nat]]
      <3>1. /\ object' = [object EXCEPT ![k] = l]
            /\ life' = [life EXCEPT ![k] = life[k] + 1]
            /\ tried' = [tried EXCEPT ![k] = [d \in Dirs |-> 0]]
        BY <1>1 DEF Allocate
      <3>2. life[k] + 1 \in Nat /\ [d \in Dirs |-> 0] \in [Dirs -> Nat]
        BY <1>a
      <3> QED
        BY <1>a, <3>1, <3>2
    <2>2. UNCHANGED <<stack, args, state, progVars, ring, closes, stats, userVars, kernVars>>
      BY <1>1 DEF Allocate
    <2> QED
      BY <1>0, <2>1, <2>2 DEF TypeInv, TypeOK, Running, progVars, userVars, kernVars
  <1>2. ASSUME NEW c \in Contexts, NEW t \in Runs(c), NEW api \in Apis, NEW k \in Keys,
               Entry(c, t, api, k)
        PROVE  TypeInv'
    <2>1. /\ stack' = [stack EXCEPT ![c] = Append(stack[c], [api |-> api, key |-> k])]
          /\ args' = [args EXCEPT ![ArgsMap(api)][CallKey(api, c, t)] = k.ptr]
          /\ step[c] = "idle"
          /\ UNCHANGED <<object, life, tried, state, progVars, ring, closes, stats,
                         userVars, kernVars>>
      BY <1>2 DEF Entry
    <2>2. [api |-> api, key |-> k] \in Call /\ stack[c] \in Seq(Call) /\ k.ptr \in Ptrs
      BY <1>0 DEF TypeOK, Keys
    <2> HIDE DEF Call
    <2>3. Append(stack[c], [api |-> api, key |-> k]) \in Seq(Call)
      BY <2>2, AppendProperties
    <2>4. stack' \in [Contexts -> Seq(Call)]
      BY <1>0, <2>1, <2>3 DEF TypeOK, Call
    <2>5. args' \in [ArgsMaps -> [Contexts -> Ptrs \cup {NoPtr}]]
      BY <1>0, <2>1, <2>2, ApiTypes, OwnCallKey DEF TypeOK
    <2>6. \A d \in Contexts : d # c => stack'[d] = stack[d]
      BY <1>0, <2>1 DEF TypeOK
    <2> QED
      BY <1>0, <2>1, <2>4, <2>5, <2>6
      DEF TypeInv, TypeOK, Running, progVars, userVars, kernVars, Call
  <1>3. ASSUME NEW c \in Contexts, NEW t \in Runs(c), ExitUnpaired(c, t) \/ ExitEmpty(c, t)
        PROVE  TypeInv'
    <2>1. /\ step[c] = "idle" /\ stack[c] # <<>> /\ stack' = Return(c)
          /\ UNCHANGED <<object, life, tried, state, progVars, ring, closes, stats,
                         userVars, kernVars>>
          /\ \/ args' = args
             \/ args' = Forget(ArgsMap(Top(c).api), CallKey(Top(c).api, c, t))
      BY <1>3 DEF ExitUnpaired, ExitEmpty
    <2>2. args' \in [ArgsMaps -> [Contexts -> Ptrs \cup {NoPtr}]]
      <3>1. /\ ArgsMap(Top(c).api) \in ArgsMaps /\ CallKey(Top(c).api, c, t) \in Contexts
        BY <1>0, <2>1, ExitTypes
      <3> QED
        BY <1>a, <2>1, <3>1, ForgetType
    <2>3. /\ stack' \in [Contexts -> Seq(Call)]
          /\ \A d \in Contexts : d # c => stack'[d] = stack[d]
      BY <1>0, <2>1, ReturnProperties
    <2> QED
      BY <1>0, <2>1, <2>2, <2>3
      DEF TypeInv, TypeOK, Running, progVars, userVars, kernVars
  <1>4. ASSUME NEW c \in Contexts, NEW t \in Runs(c), ExitEmit(c, t) PROVE TypeInv'
    <2> DEFINE api == Top(c).api
               k == SslKey(c, args[ArgsMap(api)][CallKey(api, c, t)])
               st == FoundState(k)
               r == NewRecord(c, t, st.gen, st.seq[Direction(api)])
    <2>1. /\ step[c] = "idle" /\ stack[c] # <<>> /\ k \in Keys /\ r \in Record
          /\ stats' = [stats EXCEPT ![0] = @ + 1]
          /\ state' = [state EXCEPT ![k] = st]
          /\ tried' = [tried EXCEPT ![Top(c).key][Direction(api)] = @ + 1]
          /\ step' = [step EXCEPT ![c] = "counted"]
          /\ rec' = [rec EXCEPT ![c] = r]
          /\ UNCHANGED <<object, life, stack, args, ring, closes, userVars, evictions>>
      BY <1>0, <1>4, EmitChanges
    <2>2. Top(c).key \in Keys /\ Direction(api) \in Dirs
      BY <1>0, <2>1, ExitTypes
    <2>3. st \in [gen : Nat, seq : [Dirs -> Nat]]
      BY <1>0, <2>1, <2>2, FoundStateType
    <2> HIDE DEF api, k, st, r
    <2>4. /\ state' \in [Keys -> [gen : Nat, seq : [Dirs -> Nat]] \cup {NoState}]
          /\ step' \in [Contexts -> {"idle", "counted", "numbered", "reserved"}]
          /\ rec' \in [Contexts -> Record \cup {NoRecord}]
      BY <1>0, <2>1, <2>3 DEF TypeOK
    <2>5. tried' \in [Keys -> [Dirs -> Nat]]
      <3> DEFINE o == Top(c).key
                 d == Direction(api)
      <3>1. o \in Keys /\ d \in Dirs
        BY <2>2
      <3>2. tried' = [tried EXCEPT ![o] = [tried[o] EXCEPT ![d] = tried[o][d] + 1]]
        BY <2>1
      <3> HIDE DEF o, d
      <3>3. [tried[o] EXCEPT ![d] = tried[o][d] + 1] \in [Dirs -> Nat]
        BY <1>a, <3>1
      <3> QED
        BY <1>a, <3>2, <3>3
    <2>6. stats' \in [Stats -> Nat]
      BY <1>c, <2>1
    <2>7. Running'
      BY <1>0, <2>1 DEF Running, TypeOK
    <2>8. lapses' \subseteq [key : Keys, why : {"dropped", "freed", "raced"}]
      <3>1. k \in Keys
        BY <2>1
      <3>2. lapses' \subseteq lapses \cup {[key |-> k, why |-> "raced"]}
        BY <1>0, <1>4, EmitChanges DEF k, api
      <3> QED
        BY <1>b, <3>1, <3>2
    <2> QED
      BY <1>0, <2>1, <2>4, <2>5, <2>6, <2>7, <2>8 DEF TypeInv, TypeOK, userVars
  <1>5. ASSUME NEW c \in Contexts, NEW t \in Runs(c), ExitEmitMapFull(c, t) PROVE TypeInv'
    <2> DEFINE api == Top(c).api
               k == SslKey(c, args[ArgsMap(api)][CallKey(api, c, t)])
               r == NewRecord(c, t, 0, 0)
    <2>1. /\ step[c] = "idle" /\ stack[c] # <<>> /\ k \in Keys /\ r \in Record
          /\ stats' = [stats EXCEPT ![0] = @ + 1, ![5] = @ + 1]
          /\ tried' = [tried EXCEPT ![Top(c).key][Direction(api)] = @ + 1]
          /\ step' = [step EXCEPT ![c] = "numbered"]
          /\ rec' = [rec EXCEPT ![c] = r]
          /\ evictions < MaxEvictions /\ evictions' = evictions + 1
          /\ lapses' = lapses \cup {[key |-> k, why |-> "dropped"]}
          /\ UNCHANGED <<object, life, stack, args, state, ring, closes, userVars>>
      BY <1>0, <1>5, MapFullChanges
    <2>2. Top(c).key \in Keys /\ Direction(api) \in Dirs
      BY <1>0, <2>1, ExitTypes
    <2> HIDE DEF api, k, r
    <2>3. /\ step' \in [Contexts -> {"idle", "counted", "numbered", "reserved"}]
          /\ rec' \in [Contexts -> Record \cup {NoRecord}]
      BY <1>0, <2>1 DEF TypeOK
    <2>4. tried' \in [Keys -> [Dirs -> Nat]]
      <3> DEFINE o == Top(c).key
                 d == Direction(api)
      <3>1. o \in Keys /\ d \in Dirs
        BY <2>2
      <3>2. tried' = [tried EXCEPT ![o] = [tried[o] EXCEPT ![d] = tried[o][d] + 1]]
        BY <2>1
      <3> HIDE DEF o, d
      <3>3. [tried[o] EXCEPT ![d] = tried[o][d] + 1] \in [Dirs -> Nat]
        BY <1>a, <3>1
      <3> QED
        BY <1>a, <3>2, <3>3
    <2>5. stats' \in [Stats -> Nat]
      BY <1>c, <2>1
    <2>6. Running'
      BY <1>0, <2>1 DEF Running, TypeOK
    <2>7. evictions' \in 0..MaxEvictions
      BY <1>0, <2>1, ProbesAssumption DEF TypeOK
    <2>8. lapses' \subseteq [key : Keys, why : {"dropped", "freed", "raced"}]
      BY <1>b, <2>1
    <2> QED
      BY <1>0, <2>1, <2>3, <2>4, <2>5, <2>6, <2>7, <2>8 DEF TypeInv, TypeOK, userVars
  <1>6. ASSUME NEW c \in Contexts, Number(c) PROVE TypeInv'
    <2>1. rec[c] \in Record /\ step[c] = "counted" /\ stack[c] # <<>>
      BY <1>0, <1>6 DEF Number, Running
    <2> DEFINE k == SslKey(c, rec[c].key.ptr)
    <2>2. rec[c].key.ptr \in Ptrs /\ rec[c].dir \in Dirs /\ rec[c].seq + 1 \in Nat
      BY <2>1 DEF Record, Keys
    <2>3. k \in Keys
      BY <2>2, ProbesAssumption DEF SslKey, Keys
    <2> HIDE DEF k
    <2>4. state' = IF state[k] = NoState THEN state
                   ELSE [state EXCEPT ![k].seq[rec[c].dir] = rec[c].seq + 1]
      BY <1>6 DEF Number, Advance, k
    <2>5. state' \in [Keys -> [gen : Nat, seq : [Dirs -> Nat]] \cup {NoState}]
      <3>1. CASE state[k] = NoState
        BY <1>0, <2>4, <3>1 DEF TypeOK
      <3>2. CASE state[k] # NoState
        <4>1. state[k] \in [gen : Nat, seq : [Dirs -> Nat]]
          BY <1>0, <2>3, <3>2 DEF TypeOK
        <4> DEFINE st == [state[k] EXCEPT !.seq[rec[c].dir] = rec[c].seq + 1]
        <4>2. st \in [gen : Nat, seq : [Dirs -> Nat]]
          BY <2>2, <4>1
        <4>3. state' = [state EXCEPT ![k] = st]
          BY <2>4, <3>2
        <4> HIDE DEF st
        <4> QED
          BY <1>0, <4>2, <4>3 DEF TypeOK
      <3> QED
        BY <3>1, <3>2
    <2>6. /\ step' = [step EXCEPT ![c] = "numbered"]
          /\ UNCHANGED <<appVars, args, rec, ring, closes, stats, userVars, kernVars>>
      BY <1>6 DEF Number
    <2>7. step' \in [Contexts -> {"idle", "counted", "numbered", "reserved"}] /\ Running'
      BY <1>0, <2>1, <2>6 DEF TypeOK, Running, appVars
    <2> QED
      BY <1>0, <2>5, <2>6, <2>7 DEF TypeInv, TypeOK, appVars, userVars, kernVars
  <1>7. ASSUME NEW c \in Contexts, SampleOut(c) \/ ReserveFail(c) PROVE TypeInv'
    <2>1. /\ step[c] = "numbered" /\ Finish(c) /\ (stats' = Count(4) \/ stats' = Count(2))
          /\ UNCHANGED <<object, life, tried, state, ring, closes, userVars, kernVars>>
      BY <1>7 DEF SampleOut, ReserveFail, Failed
    <2>2. stats' \in [Stats -> Nat]
      BY <1>c, <2>1 DEF Count
    <2> QED
      BY <1>0, <2>1, <2>2, FinishTypes DEF TypeInv, TypeOK, userVars, kernVars
  <1>8. ASSUME NEW c \in Contexts, Reserve(c) PROVE TypeInv'
    <2>1. rec[c] \in Record /\ stack[c] # <<>>
      BY <1>0, <1>8 DEF Reserve, Running
    <2> DEFINE x == [by |-> c, status |-> "busy", rec |-> rec[c]]
    <2>2. x \in Slot /\ ring \in Seq(Slot) /\ Len(ring) \in Nat /\ Len(ring) < RingSlots
      BY <1>0, <1>8, <2>1, LenProperties DEF Slot, TypeOK, Reserve, HasRoom
    <2>3. ring' = Append(ring, x)
      BY <1>8 DEF Reserve
    <2> HIDE DEF x
    <2>4. ring' \in Seq(Slot) /\ Len(ring') = Len(ring) + 1
      BY <2>2, <2>3, AppendProperties
    <2>5. Len(ring') <= RingSlots
      BY <2>2, <2>4, ProbesAssumption
    <2>6. /\ step' = [step EXCEPT ![c] = "reserved"]
          /\ UNCHANGED <<appVars, args, state, rec, closes, stats, userVars, kernVars>>
      BY <1>8 DEF Reserve
    <2>7. step' \in [Contexts -> {"idle", "counted", "numbered", "reserved"}] /\ Running'
      BY <1>0, <2>1, <2>6 DEF TypeOK, Running, appVars
    <2> QED
      BY <1>0, <2>4, <2>5, <2>6, <2>7 DEF TypeInv, TypeOK, appVars, userVars, kernVars
  <1>9. ASSUME NEW c \in Contexts,
               Submit(c) \/ \E why \in {2, 3} : Discard(c, why)
        PROVE  TypeInv'
    <2>1. /\ step[c] = "reserved" /\ Finish(c)
          /\ stats' = Count(1) \/ stats' = Count(2) \/ stats' = Count(3)
          /\ ring' = Release(c, "ready") \/ ring' = Release(c, "discarded")
          /\ UNCHANGED <<object, life, tried, state, closes, userVars, kernVars>>
      BY <1>9 DEF Submit, Discard, Failed
    <2>2. stats' \in [Stats -> Nat]
      BY <1>c, <2>1 DEF Count
    <2>3. ring' \in Seq(Slot) /\ Len(ring') = Len(ring)
      BY <1>b, <2>1, ReleaseProperties
    <2> QED
      BY <1>0, <2>1, <2>2, <2>3, FinishTypes DEF TypeInv, TypeOK, userVars, kernVars
  <1>10. ASSUME NEW c \in Contexts, NEW ptr \in Ptrs, Free(c, ptr) PROVE TypeInv'
    <2> DEFINE k == SslKey(c, ptr)
               used == \E d \in Dirs : tried[k][d] > 0
               x == [key |-> k, gen |-> state[k].gen, life |-> life[k], used |-> used]
    <2>1. k \in Keys
      BY ProbesAssumption DEF SslKey, Keys
    <2> HIDE DEF k
    <2>2. state[k].gen \in Nat /\ life[k] \in Nat
      <3>1. NoState.gen = 0 /\ 0 \in Nat
        BY DEF NoState
      <3> QED
        BY <1>a, <1>b, <2>1, <3>1
    <2>3. used \in BOOLEAN
      OBVIOUS
    <2> HIDE DEF used
    <2>4. x \in Close
      BY <2>1, <2>2, <2>3 DEF Close
    <2>5. /\ object' = [object EXCEPT ![k] = {}]
          /\ state' = IF state[k] = NoState THEN state
                      ELSE [state EXCEPT ![k] = NextGeneration(state[k])]
          /\ closes' = Append(closes, x) \/ closes' = closes
          /\ UNCHANGED <<life, tried, stack, args, progVars, ring, stats, userVars, kernVars>>
      BY <1>10 DEF Free, k, used
    <2> HIDE DEF x
    <2>6. closes' \in Seq(Close)
      <3>1. Append(closes, x) \in Seq(Close)
        BY <1>b, <2>4, AppendProperties
      <3> QED
        BY <1>b, <2>5, <3>1
    <2>7. object' \in [Keys -> Libraries \cup {{}}]
      BY <1>0, <2>5 DEF TypeOK
    <2>8. state' \in [Keys -> [gen : Nat, seq : [Dirs -> Nat]] \cup {NoState}]
      <3>1. CASE state[k] = NoState
        BY <1>0, <2>5, <3>1 DEF TypeOK
      <3>2. CASE state[k] # NoState
        <4>1. NextGeneration(state[k]) \in [gen : Nat, seq : [Dirs -> Nat]]
          BY <2>2 DEF NextGeneration
        <4> QED
          BY <1>0, <2>5, <3>2, <4>1 DEF TypeOK
      <3> QED
        BY <3>1, <3>2
    <2> QED
      BY <1>0, <2>5, <2>6, <2>7, <2>8
      DEF TypeInv, TypeOK, Running, progVars, userVars, kernVars
  <1>11. ASSUME NEW k \in Keys, FreeUnprobed(k) PROVE TypeInv'
    <2>1. /\ object' = [object EXCEPT ![k] = {}]
          /\ lapses' = lapses \cup {[key |-> k, why |-> "freed"]}
          /\ UNCHANGED <<life, tried, stack, args, state, progVars, ring, closes, stats,
                         userVars, evictions>>
      BY <1>11 DEF FreeUnprobed
    <2>2. object' \in [Keys -> Libraries \cup {{}}]
      BY <1>a, <2>1
    <2>3. lapses' \subseteq [key : Keys, why : {"dropped", "freed", "raced"}]
      BY <1>b, <2>1
    <2> QED
      BY <1>0, <2>1, <2>2, <2>3 DEF TypeInv, TypeOK, Running, progVars, userVars
  <1>12. ASSUME NEW k \in Keys, EvictState(k) PROVE TypeInv'
    <2>1. /\ evictions < MaxEvictions /\ evictions' = evictions + 1
          /\ state' = [state EXCEPT ![k] = NoState]
          /\ lapses' = lapses \cup {[key |-> k, why |-> "dropped"]}
          /\ UNCHANGED <<appVars, args, progVars, ring, closes, stats, userVars>>
      BY <1>12 DEF EvictState
    <2>2. evictions' \in 0..MaxEvictions
      BY <1>0, <2>1, ProbesAssumption DEF TypeOK
    <2>3. lapses' \subseteq [key : Keys, why : {"dropped", "freed", "raced"}]
      BY <1>b, <2>1
    <2>4. state' \in [Keys -> [gen : Nat, seq : [Dirs -> Nat]] \cup {NoState}]
      BY <1>b, <2>1
    <2> QED
      BY <1>0, <2>1, <2>2, <2>3, <2>4
      DEF TypeInv, TypeOK, Running, appVars, progVars, userVars
  <1>13. ASSUME NEW m \in ArgsMaps, NEW c \in Contexts, EvictArgs(m, c) PROVE TypeInv'
    <2>1. /\ evictions < MaxEvictions /\ evictions' = evictions + 1
          /\ args' = [args EXCEPT ![m][c] = NoPtr]
          /\ UNCHANGED <<appVars, state, progVars, ring, closes, stats, userVars, lapses>>
      BY <1>13 DEF EvictArgs
    <2>2. evictions' \in 0..MaxEvictions
      BY <1>0, <2>1, ProbesAssumption DEF TypeOK
    <2>3. args' \in [ArgsMaps -> [Contexts -> Ptrs \cup {NoPtr}]]
      BY <1>0, <2>1 DEF TypeOK
    <2> QED
      BY <1>0, <2>1, <2>2, <2>3 DEF TypeInv, TypeOK, Running, appVars, progVars, userVars
  <1>14. CASE Consume
    <2>1. ring \in Seq(Slot) /\ ring # <<>> /\ ring' = Tail(ring) /\ Len(ring) \in Nat
      BY <1>0, <1>14, LenProperties DEF Consume, TypeOK
    <2>2. Head(ring) \in Slot /\ ring' \in Seq(Slot) /\ Len(ring') = Len(ring) - 1
      BY <2>1, HeadTailProperties
    <2>3. Head(ring).rec \in Record
      BY <2>2 DEF Slot
    <2>4. read' = read \/ read' = Append(read, Head(ring).rec)
      BY <1>14 DEF Consume
    <2>5. read' \in Seq(Record)
      <3>1. Append(read, Head(ring).rec) \in Seq(Record)
        BY <1>b, <2>3, AppendProperties
      <3> QED
        BY <1>b, <2>4, <3>1
    <2>6. Len(ring') <= RingSlots
      BY <1>0, <2>1, <2>2, ProbesAssumption DEF TypeOK
    <2>7. UNCHANGED <<appVars, args, state, progVars, closes, stats, closed, kernVars>>
      BY <1>14 DEF Consume
    <2> QED
      BY <1>0, <2>2, <2>5, <2>6, <2>7
      DEF TypeInv, TypeOK, Running, appVars, progVars, kernVars
  <1>15. CASE ConsumeClose
    <2>1. closes \in Seq(Close) /\ closes # <<>> /\ closes' = Tail(closes)
          /\ closed' = closed \cup {Head(closes)}
          /\ UNCHANGED <<appVars, args, state, progVars, ring, stats, read, kernVars>>
      BY <1>0, <1>15 DEF ConsumeClose, TypeOK
    <2>2. Head(closes) \in Close /\ closes' \in Seq(Close)
      BY <2>1, HeadTailProperties
    <2> QED
      BY <1>0, <2>1, <2>2 DEF TypeInv, TypeOK, Running, appVars, progVars, kernVars
  <1>16. CASE UNCHANGED vars
    BY <1>0, <1>16 DEF vars, TypeInv, TypeOK, Running, appVars, progVars, userVars, kernVars
  <1> QED
    BY <1>1, <1>2, <1>3, <1>4, <1>5, <1>6, <1>7, <1>8, <1>9, <1>10, <1>11, <1>12, <1>13,
       <1>14, <1>15, <1>16 DEF Next

(* The type invariant is a part of its inductive form.                     *)
LEMMA TypeImplies == TypeInv => TypeOK
  BY DEF TypeInv

(* The maps, rings and counters of the probe programs keep their types,    *)
(* and the events ring its size.                                           *)
THEOREM TypeCorrect == Spec => []TypeOK
  BY TypeInit, TypeStep, TypeImplies, PTL DEF Spec

-----------------------------------------------------------------------------
(* The slots of the events ring.                                           *)

(* The steps that touch neither the events ring nor the exit programs.     *)
Apart ==
  \/ \E k \in Keys, l \in Libraries : Allocate(k, l)
  \/ \E c \in Contexts : \E t \in Runs(c) :
        \/ \E api \in Apis, k \in Keys : Entry(c, t, api, k)
        \/ ExitUnpaired(c, t)
        \/ ExitEmpty(c, t)
  \/ \E c \in Contexts :
        \/ \E ptr \in Ptrs : Free(c, ptr)
        \/ \E m \in ArgsMaps : EvictArgs(m, c)
  \/ \E k \in Keys : FreeUnprobed(k) \/ EvictState(k)
  \/ ConsumeClose
  \/ UNCHANGED vars

(* These steps touch neither the exit programs nor the ring.               *)
LEMMA ApartChanges == Apart => UNCHANGED <<step, rec, ring, stats, read>>
  BY ZenonT(60) DEF Apart, Allocate, Entry, ExitUnpaired, ExitEmpty, Free, EvictArgs, FreeUnprobed,
         EvictState, ConsumeClose, vars, progVars, userVars

(* The steps of Next, by what they do to the exit programs and the ring.   *)
LEMMA StepKinds ==
  ASSUME [Next]_vars
  PROVE  \/ Apart
         \/ \E c \in Contexts : \E t \in Runs(c) : ExitEmit(c, t) \/ ExitEmitMapFull(c, t)
         \/ \E c \in Contexts : Number(c)
         \/ \E c \in Contexts : SampleOut(c) \/ ReserveFail(c)
         \/ \E c \in Contexts : Reserve(c)
         \/ \E c \in Contexts : Submit(c)
         \/ \E c \in Contexts, why \in {2, 3} : Discard(c, why)
         \/ Consume
  BY DEF Next, Apart

(* Every exit program that has reserved has a busy slot, and SlotsAreHeld. *)
SlotsInv ==
  /\ \A c \in Contexts : step[c] = "reserved" =>
        \E i \in 1..Len(ring) : ring[i].status = "busy" /\ ring[i].by = c
  /\ SlotsAreHeld

(* The ring is empty at first.                                             *)
LEMMA SlotsInit == Init => SlotsInv
  <1> SUFFICES ASSUME Init PROVE SlotsInv
    OBVIOUS
  <1>1. DOMAIN ring = {} /\ \A c \in Contexts : step[c] = "idle"
    BY DEF Init
  <1> QED
    BY <1>1 DEF SlotsInv, SlotsAreHeld

(* A step releases a slot only together with the program that holds it.    *)
LEMMA SlotsStep == TypeInv /\ SlotsInv /\ [Next]_vars => SlotsInv'
  <1> SUFFICES ASSUME TypeInv, SlotsInv, [Next]_vars PROVE SlotsInv'
    OBVIOUS
  <1> DEFINE n == Len(ring)
  <1>0. /\ step \in [Contexts -> {"idle", "counted", "numbered", "reserved"}]
        /\ ring \in Seq(Slot) /\ n \in Nat /\ DOMAIN ring = 1..n
        /\ \A i \in 1..n : ring[i] \in Slot
    BY LenProperties, ElementOfSeq DEF TypeInv, TypeOK
  <1>a. \A i \in 1..n : ring[i].by \in Contexts
    BY <1>0 DEF Slot
  <1>b. \A i \in 1..n : ring[i].status = "busy" =>
          /\ step[ring[i].by] = "reserved"
          /\ \A j \in 1..n : ring[j].status = "busy" /\ ring[j].by = ring[i].by => i = j
    BY <1>0 DEF SlotsInv, SlotsAreHeld
  <1>1. ASSUME ring' = ring,
               \A c \in Contexts : step'[c] = "reserved" <=> step[c] = "reserved"
        PROVE  SlotsInv'
    BY <1>0, <1>1, <1>a, <1>b DEF SlotsInv, SlotsAreHeld
  <1>2. CASE Apart
    BY <1>1, <1>2, ApartChanges
  <1>3. ASSUME NEW c \in Contexts, NEW t \in Runs(c), ExitEmit(c, t) \/ ExitEmitMapFull(c, t)
        PROVE  SlotsInv'
    <2>1. /\ step[c] = "idle" /\ ring' = ring
          /\ step' = [step EXCEPT ![c] = "counted"] \/ step' = [step EXCEPT ![c] = "numbered"]
      BY <1>3 DEF ExitEmit, ExitEmitMapFull
    <2> QED
      BY <1>0, <1>1, <2>1
  <1>4. ASSUME NEW c \in Contexts, Number(c) PROVE SlotsInv'
    <2>1. step[c] = "counted" /\ ring' = ring /\ step' = [step EXCEPT ![c] = "numbered"]
      BY <1>4 DEF Number
    <2> QED
      BY <1>0, <1>1, <2>1
  <1>5. ASSUME NEW c \in Contexts, SampleOut(c) \/ ReserveFail(c) PROVE SlotsInv'
    <2>1. step[c] = "numbered" /\ ring' = ring /\ step' = [step EXCEPT ![c] = "idle"]
      BY <1>5 DEF SampleOut, ReserveFail, Finish
    <2> QED
      BY <1>0, <1>1, <2>1
  <1>6. ASSUME NEW c \in Contexts, Reserve(c) PROVE SlotsInv'
    <2> DEFINE x == [by |-> c, status |-> "busy", rec |-> rec[c]]
    <2>1. /\ step[c] = "numbered" /\ step' = [step EXCEPT ![c] = "reserved"]
          /\ ring' = Append(ring, x)
      BY <1>6 DEF Reserve
    <2>2. x \in Slot
      BY <2>1 DEF Slot, TypeInv, Running
    <2>3. x.by = c /\ x.status = "busy"
      OBVIOUS
    <2> HIDE DEF x
    <2>4. /\ Len(ring') = n + 1 /\ DOMAIN ring' = 1..(n + 1)
          /\ \A i \in 1..n : ring'[i] = ring[i]
          /\ ring'[n + 1] = x
      BY <1>0, <2>1, <2>2, AppendProperties, LenProperties
    <2>5. \A i \in 1..(n + 1) : i \in 1..n \/ i = n + 1
      BY <1>0
    <2>6. \A i \in 1..n : i \in 1..(n + 1)
      BY <1>0
    <2>7. \A i \in 1..n : ring[i].status = "busy" => ring[i].by # c
      BY <1>b, <2>1
    <2>8. \A d \in Contexts : step'[d] = IF d = c THEN "reserved" ELSE step[d]
      BY <1>0, <2>1
    <2>9. ASSUME NEW d \in Contexts, step'[d] = "reserved"
          PROVE  \E i \in 1..(n + 1) : ring'[i].status = "busy" /\ ring'[i].by = d
      <3>1. CASE d = c
        <4>1. n + 1 \in 1..(n + 1)
          BY <1>0
        <4> QED
          BY <2>3, <2>4, <3>1, <4>1
      <3>2. CASE d # c
        BY <2>4, <2>6, <2>8, <2>9, <3>2 DEF SlotsInv
      <3> QED
        BY <3>1, <3>2
    <2>10. ASSUME NEW i \in 1..(n + 1), ring'[i].status = "busy"
           PROVE  step'[ring'[i].by] = "reserved"
      BY <1>a, <1>b, <2>3, <2>4, <2>5, <2>8, <2>10
    <2>11. ASSUME NEW i \in 1..(n + 1), NEW j \in 1..(n + 1), ring'[i].status = "busy",
                  ring'[j].status = "busy", ring'[j].by = ring'[i].by
           PROVE  i = j
      <3>1. CASE i \in 1..n /\ j \in 1..n
        BY <1>b, <2>4, <2>11, <3>1
      <3>2. CASE i = n + 1 /\ j \in 1..n
        BY <2>3, <2>4, <2>7, <2>11, <3>2
      <3>3. CASE i \in 1..n /\ j = n + 1
        BY <2>3, <2>4, <2>7, <2>11, <3>3
      <3> QED
        BY <2>5, <3>1, <3>2, <3>3
    <2> QED
      BY <2>4, <2>9, <2>10, <2>11 DEF SlotsInv, SlotsAreHeld
  <1>7. ASSUME NEW c \in Contexts, NEW status \in {"ready", "discarded"},
               ring' = Release(c, status), step' = [step EXCEPT ![c] = "idle"]
        PROVE  SlotsInv'
    <2>1. /\ ring' \in Seq(Slot) /\ Len(ring') = n /\ DOMAIN ring' = 1..n
          /\ \A i \in 1..n :
               /\ ring'[i].by = ring[i].by
               /\ ring'[i].status = IF ring[i].by = c /\ ring[i].status = "busy" THEN status
                                    ELSE ring[i].status
      BY <1>0, <1>7, ReleaseProperties, LenProperties
    <2>2. \A i \in 1..n : ring'[i].status = "busy" => ring[i].status = "busy" /\ ring[i].by # c
      BY <2>1
    <2>3. \A i \in 1..n : ring[i].by # c => ring'[i].status = ring[i].status
      BY <2>1
    <2>4. \A d \in Contexts : step'[d] = IF d = c THEN "idle" ELSE step[d]
      BY <1>0, <1>7
    <2>5. ASSUME NEW d \in Contexts, step'[d] = "reserved"
          PROVE  \E i \in 1..n : ring'[i].status = "busy" /\ ring'[i].by = d
      BY <2>1, <2>3, <2>4, <2>5 DEF SlotsInv
    <2>6. ASSUME NEW i \in 1..n, ring'[i].status = "busy"
          PROVE  /\ step'[ring'[i].by] = "reserved"
                 /\ \A j \in 1..n : ring'[j].status = "busy" /\ ring'[j].by = ring'[i].by
                                    => i = j
      BY <1>a, <1>b, <2>1, <2>2, <2>4, <2>6
    <2> QED
      BY <2>1, <2>5, <2>6 DEF SlotsInv, SlotsAreHeld
  <1>8. ASSUME NEW c \in Contexts, Submit(c) PROVE SlotsInv'
    BY <1>7, <1>8 DEF Submit, Finish
  <1>9. ASSUME NEW c \in Contexts, NEW why \in {2, 3}, Discard(c, why) PROVE SlotsInv'
    BY <1>7, <1>9 DEF Discard, Finish
  <1>10. CASE Consume
    <2>1. ring # <<>> /\ ring' = Tail(ring) /\ Head(ring).status # "busy" /\ step' = step
      BY <1>10 DEF Consume, progVars
    <2>2. /\ Len(ring') = n - 1 /\ DOMAIN ring' = 1..(n - 1) /\ n > 0
          /\ \A i \in 1..(n - 1) : ring'[i] = ring[i + 1]
      <3>1. ring' \in Seq(Slot) /\ Len(ring') = n - 1 /\ n > 0
            /\ \A i \in 1..Len(ring') : ring'[i] = ring[i + 1]
        BY <1>0, <2>1, HeadTailProperties, EmptySeq
      <3> QED
        BY <3>1, LenProperties
    <2>3. \A i \in 1..(n - 1) : i + 1 \in 1..n
      BY <1>0
    <2>4. ring[1].status # "busy"
      BY <2>1
    <2>5. ASSUME NEW d \in Contexts, step'[d] = "reserved"
          PROVE  \E i \in 1..(n - 1) : ring'[i].status = "busy" /\ ring'[i].by = d
      <3>1. PICK i \in 1..n : ring[i].status = "busy" /\ ring[i].by = d
        BY <2>1, <2>5 DEF SlotsInv
      <3>2. i - 1 \in 1..(n - 1) /\ (i - 1) + 1 = i
        BY <1>0, <2>4, <3>1
      <3>3. ring'[i - 1] = ring[i]
        BY <2>2, <3>2
      <3> QED
        BY <3>1, <3>2, <3>3
    <2>6. ASSUME NEW i \in 1..(n - 1), ring'[i].status = "busy"
          PROVE  step'[ring'[i].by] = "reserved"
      BY <1>b, <2>1, <2>2, <2>3, <2>6
    <2>7. ASSUME NEW i \in 1..(n - 1), NEW j \in 1..(n - 1), ring'[i].status = "busy",
                 ring'[j].status = "busy", ring'[j].by = ring'[i].by
          PROVE  i = j
      <3>1. i + 1 = j + 1
        BY <1>b, <2>2, <2>3, <2>7
      <3> QED
        BY <3>1
    <2> QED
      BY <2>2, <2>5, <2>6, <2>7 DEF SlotsInv, SlotsAreHeld
  <1> QED
    BY StepKinds, <1>2, <1>3, <1>4, <1>5, <1>6, <1>8, <1>9, <1>10

(* The property is a part of its inductive form.                           *)
LEMMA SlotsImply == SlotsInv => SlotsAreHeld
  BY DEF SlotsInv

(* emit_event submits or discards every slot it reserves: a busy slot of   *)
(* the events ring is held by one exit program that has not ended, so      *)
(* ringbuf.poll is never stuck behind a slot nobody will release.          *)
THEOREM SlotsCorrect == Spec => []SlotsAreHeld
  BY TypeInit, TypeStep, SlotsInit, SlotsStep, SlotsImply, PTL DEF Spec

-----------------------------------------------------------------------------
(* The counters of producer_stats.                                         *)

(* Every set and counter that LossIsCounted adds up is a number.           *)
LEMMA Counted ==
  ASSUME TypeOK
  PROVE  /\ IsFiniteSet(Busy) /\ Cardinality(Busy) \in Nat
         /\ IsFiniteSet(Ready) /\ Cardinality(Ready) \in Nat
         /\ Len(read) \in Nat
         /\ stats \in [Stats -> Nat] /\ Stats = {0, 1, 2, 3, 4, 5}
  <1>1. Busy \in SUBSET Contexts /\ IsFiniteSet(Contexts)
    BY ProbesAssumption DEF Busy
  <1>2. IsFiniteSet(Busy) /\ Cardinality(Busy) \in Nat
    BY <1>1, FS_Subset, FS_CardinalityType
  <1>3. Len(ring) \in Nat /\ DOMAIN ring = 1..Len(ring) /\ Len(read) \in Nat
    BY LenProperties DEF TypeOK
  <1>4. IsFiniteSet(1..Len(ring)) /\ Ready \in SUBSET (1..Len(ring))
    BY <1>3, FS_Interval DEF Ready
  <1>5. IsFiniteSet(Ready) /\ Cardinality(Ready) \in Nat
    BY <1>4, FS_Subset, FS_CardinalityType
  <1>6. stats \in [Stats -> Nat] /\ Stats = {0, 1, 2, 3, 4, 5}
    BY DEF TypeOK, Stats
  <1> QED
    BY <1>2, <1>3, <1>5, <1>6

(* Nothing was attempted at first.                                         *)
LEMMA LossInit == Init => LossIsCounted
  <1> SUFFICES ASSUME Init PROVE LossIsCounted
    OBVIOUS
  <1>1. Busy = {} /\ Ready = {} /\ Len(read) = 0
    BY DEF Init, Busy, Ready
  <1>2. Cardinality({}) = 0
    BY FS_EmptySet
  <1>3. \A i \in {0, 1, 2, 3, 4} : stats[i] = 0
    BY DEF Init, Stats
  <1> QED
    BY <1>1, <1>2, <1>3 DEF LossIsCounted

(* A step counts what it does to the records.                              *)
LEMMA LossStep == TypeInv /\ SlotsInv /\ LossIsCounted /\ [Next]_vars => LossIsCounted'
  <1> SUFFICES ASSUME TypeInv, SlotsInv, LossIsCounted, [Next]_vars PROVE LossIsCounted'
    OBVIOUS
  <1> DEFINE n == Len(ring)
             b == Cardinality(Busy)
             r == Cardinality(Ready)
             s0 == stats[0]
             s1 == stats[1]
             s2 == stats[2]
             s3 == stats[3]
             s4 == stats[4]
  <1>0. /\ step \in [Contexts -> {"idle", "counted", "numbered", "reserved"}]
        /\ ring \in Seq(Slot) /\ n \in Nat /\ DOMAIN ring = 1..n
        /\ \A i \in 1..n : ring[i] \in Slot
    BY LenProperties, ElementOfSeq DEF TypeInv, TypeOK
  <1>a. /\ IsFiniteSet(Busy) /\ b \in Nat /\ IsFiniteSet(Ready) /\ r \in Nat
        /\ Len(read) \in Nat /\ stats \in [Stats -> Nat] /\ Stats = {0, 1, 2, 3, 4, 5}
    BY Counted DEF TypeInv
  <1>b. s0 \in Nat /\ s1 \in Nat /\ s2 \in Nat /\ s3 \in Nat /\ s4 \in Nat
    BY <1>a
  <1>c. s0 = s1 + s2 + s3 + s4 + b /\ s1 = Len(read) + r
    BY DEF LossIsCounted
  <1>d. ASSUME NEW c \in Contexts, NEW s, step' = [step EXCEPT ![c] = s]
        PROVE  /\ step[c] = "idle" /\ s # "idle" => Cardinality(Busy') = b + 1
               /\ step[c] # "idle" /\ s # "idle" => Cardinality(Busy') = b
               /\ step[c] # "idle" /\ s = "idle" => Cardinality(Busy') = b - 1
    <2>1. \A x \in Contexts : step'[x] = IF x = c THEN s ELSE step[x]
      BY <1>0, <1>d
    <2>2. CASE step[c] = "idle" /\ s # "idle"
      <3>1. Busy' = Busy \cup {c} /\ c \notin Busy
        BY <2>1, <2>2 DEF Busy
      <3> QED
        BY <1>a, <2>2, <3>1, FS_AddElement
    <2>3. CASE step[c] # "idle" /\ s # "idle"
      <3>1. Busy' = Busy
        BY <2>1, <2>3 DEF Busy
      <3> QED
        BY <2>3, <3>1
    <2>4. CASE step[c] # "idle" /\ s = "idle"
      <3>1. Busy' = Busy \ {c} /\ c \in Busy
        BY <2>1, <2>4 DEF Busy
      <3> QED
        BY <1>a, <2>4, <3>1, FS_RemoveElement
    <2> QED
      BY <2>2, <2>3, <2>4
  <1>e. ASSUME ring' = ring PROVE Cardinality(Ready') = r
    BY <1>e DEF Ready
  <1> HIDE DEF n, b, r, s0, s1, s2, s3, s4
  <1>1. CASE Apart
    <2>1. UNCHANGED <<step, ring, stats, read>>
      BY <1>1, ApartChanges
    <2> QED
      BY <2>1 DEF LossIsCounted, Busy, Ready
  <1>2. ASSUME NEW c \in Contexts, NEW t \in Runs(c), ExitEmit(c, t) \/ ExitEmitMapFull(c, t)
        PROVE  LossIsCounted'
    <2>1. /\ step[c] = "idle" /\ ring' = ring /\ read' = read
          /\ \/ step' = [step EXCEPT ![c] = "counted"]
             \/ step' = [step EXCEPT ![c] = "numbered"]
          /\ \/ stats' = [stats EXCEPT ![0] = @ + 1]
             \/ stats' = [stats EXCEPT ![0] = @ + 1, ![5] = @ + 1]
      BY <1>2 DEF ExitEmit, ExitEmitMapFull, Count, userVars
    <2>2. Cardinality(Busy') = b + 1
      BY <1>d, <2>1
    <2>3. /\ stats'[0] = s0 + 1 /\ stats'[1] = s1 /\ stats'[2] = s2
          /\ stats'[3] = s3 /\ stats'[4] = s4
      BY <1>a, <2>1 DEF s0, s1, s2, s3, s4
    <2>4. Cardinality(Ready') = r
      BY <1>e, <2>1
    <2> QED
      <3>1. b \in Nat /\ r \in Nat /\ Len(read) \in Nat
        BY <1>a
      <3>2. Len(read') = Len(read)
        BY <2>1
      <3> QED
        BY <1>b, <1>c, <3>1, <3>2, <2>2, <2>3, <2>4 DEF LossIsCounted
  <1>3. ASSUME NEW c \in Contexts, Number(c) PROVE LossIsCounted'
    <2>1. /\ step[c] = "counted" /\ ring' = ring /\ read' = read /\ stats' = stats
          /\ step' = [step EXCEPT ![c] = "numbered"]
      BY <1>3 DEF Number, userVars
    <2>2. Cardinality(Busy') = b
      <3>1. step[c] # "idle" /\ "numbered" # "idle"
        BY <2>1
      <3> QED
        BY <1>d, <2>1, <3>1
    <2> QED
      BY <1>c, <1>e, <2>1, <2>2 DEF LossIsCounted, s0, s1, s2, s3, s4
  <1>4. ASSUME NEW c \in Contexts, SampleOut(c) \/ ReserveFail(c) PROVE LossIsCounted'
    <2>1. /\ step[c] = "numbered" /\ ring' = ring /\ read' = read
          /\ step' = [step EXCEPT ![c] = "idle"]
          /\ stats' = [stats EXCEPT ![4] = @ + 1] \/ stats' = [stats EXCEPT ![2] = @ + 1]
      BY <1>4 DEF SampleOut, ReserveFail, Finish, Failed, Count, userVars
    <2>2. Cardinality(Busy') = b - 1
      BY <1>d, <2>1
    <2>3. /\ stats'[0] = s0 /\ stats'[1] = s1 /\ stats'[3] = s3
          /\ \/ stats'[2] = s2 + 1 /\ stats'[4] = s4
             \/ stats'[2] = s2 /\ stats'[4] = s4 + 1
      BY <1>a, <2>1 DEF s0, s1, s2, s3, s4
    <2>4. Cardinality(Ready') = r
      BY <1>e, <2>1
    <2>5. stats'[0] = s0 /\ stats'[1] = s1 /\ stats'[3] = s3
      BY <2>3
    <2> QED
      <3>1. b \in Nat /\ r \in Nat /\ Len(read) \in Nat
        BY <1>a
      <3>2. Len(read') = Len(read)
        BY <2>1
      <3> QED
        <4>1. CASE stats'[2] = s2 + 1 /\ stats'[4] = s4
          BY <1>b, <1>c, <3>1, <3>2, <2>2, <2>4, <2>5, <4>1 DEF LossIsCounted
        <4>2. CASE stats'[2] = s2 /\ stats'[4] = s4 + 1
          BY <1>b, <1>c, <3>1, <3>2, <2>2, <2>4, <2>5, <4>2 DEF LossIsCounted
        <4> QED
          BY <2>3, <4>1, <4>2
  <1>5. ASSUME NEW c \in Contexts, Reserve(c) PROVE LossIsCounted'
    <2> DEFINE x == [by |-> c, status |-> "busy", rec |-> rec[c]]
    <2>1. /\ step[c] = "numbered" /\ read' = read /\ stats' = stats
          /\ step' = [step EXCEPT ![c] = "reserved"]
          /\ ring' = Append(ring, x)
      BY <1>5 DEF Reserve, userVars
    <2>2. x \in Slot /\ x.status = "busy"
      BY <2>1 DEF Slot, TypeInv, Running
    <2> HIDE DEF x
    <2>3. /\ DOMAIN ring' = 1..(n + 1) /\ n \in Nat
          /\ \A i \in 1..n : ring'[i] = ring[i]
          /\ ring'[n + 1] = x
      BY <1>0, <2>1, <2>2, AppendProperties, LenProperties DEF n
    <2>4. Ready' = Ready
      <3>1. \A i \in 1..(n + 1) : i \in 1..n \/ i = n + 1
        BY <2>3
      <3>2. \A i \in 1..n : i \in 1..(n + 1)
        BY <2>3
      <3> QED
        BY <1>0, <2>2, <2>3, <3>1, <3>2 DEF Ready, n
    <2>5. Cardinality(Busy') = b
      <3>1. step[c] # "idle" /\ "reserved" # "idle"
        BY <2>1
      <3> QED
        BY <1>d, <2>1, <3>1
    <2> QED
      BY <1>c, <2>1, <2>4, <2>5 DEF LossIsCounted, r, s0, s1, s2, s3, s4
  <1>6. ASSUME NEW c \in Contexts, Submit(c) PROVE LossIsCounted'
    <2>1. /\ step[c] = "reserved" /\ read' = read
          /\ stats' = [stats EXCEPT ![1] = @ + 1]
          /\ step' = [step EXCEPT ![c] = "idle"]
          /\ ring' = Release(c, "ready")
      BY <1>6 DEF Submit, Finish, Count, userVars
    <2>2. Cardinality(Busy') = b - 1
      BY <1>d, <2>1
    <2>3. /\ DOMAIN ring' = 1..n
          /\ \A i \in 1..n :
               ring'[i].status = IF ring[i].by = c /\ ring[i].status = "busy" THEN "ready"
                                 ELSE ring[i].status
      BY <1>0, <2>1, ReleaseProperties, LenProperties DEF n
    <2>4. PICK i \in 1..n : ring[i].status = "busy" /\ ring[i].by = c
      BY <2>1 DEF SlotsInv, n
    <2>5. \A j \in 1..n : ring[j].status = "busy" /\ ring[j].by = c => j = i
      BY <1>0, <2>4 DEF SlotsInv, SlotsAreHeld, n
    <2>6. Ready' = Ready \cup {i} /\ i \notin Ready
      BY <1>0, <2>3, <2>4, <2>5 DEF Ready, n
    <2>7. Cardinality(Ready') = r + 1
      BY <1>a, <2>6, FS_AddElement DEF r
    <2>8. /\ stats'[0] = s0 /\ stats'[1] = s1 + 1 /\ stats'[2] = s2
          /\ stats'[3] = s3 /\ stats'[4] = s4
      BY <1>a, <2>1 DEF s0, s1, s2, s3, s4
    <2> QED
      <3>1. b \in Nat /\ r \in Nat /\ Len(read) \in Nat
        BY <1>a
      <3>2. Len(read') = Len(read)
        BY <2>1
      <3> QED
        BY <1>b, <1>c, <3>1, <3>2, <2>2, <2>7, <2>8 DEF LossIsCounted
  <1>7. ASSUME NEW c \in Contexts, NEW why \in {2, 3}, Discard(c, why) PROVE LossIsCounted'
    <2>1. /\ step[c] = "reserved" /\ read' = read
          /\ stats' = [stats EXCEPT ![why] = @ + 1]
          /\ step' = [step EXCEPT ![c] = "idle"]
          /\ ring' = Release(c, "discarded")
      BY <1>7 DEF Discard, Finish, Failed, Count, userVars
    <2>2. Cardinality(Busy') = b - 1
      BY <1>d, <2>1
    <2>3. /\ DOMAIN ring' = 1..n
          /\ \A i \in 1..n :
               ring'[i].status = IF ring[i].by = c /\ ring[i].status = "busy" THEN "discarded"
                                 ELSE ring[i].status
      BY <1>0, <2>1, ReleaseProperties, LenProperties DEF n
    <2>4. Ready' = Ready
      BY <1>0, <2>3 DEF Ready, n
    <2>5. /\ stats'[0] = s0 /\ stats'[1] = s1 /\ stats'[4] = s4
          /\ \/ stats'[2] = s2 + 1 /\ stats'[3] = s3
             \/ stats'[2] = s2 /\ stats'[3] = s3 + 1
      BY <1>a, <2>1 DEF s0, s1, s2, s3, s4
    <2>6. Cardinality(Ready') = r
      BY <2>4 DEF r
    <2>7. stats'[0] = s0 /\ stats'[1] = s1 /\ stats'[4] = s4
      BY <2>5
    <2> QED
      <3>1. b \in Nat /\ r \in Nat /\ Len(read) \in Nat
        BY <1>a
      <3>2. Len(read') = Len(read)
        BY <2>1
      <3> QED
        <4>1. CASE stats'[2] = s2 + 1 /\ stats'[3] = s3
          BY <1>b, <1>c, <3>1, <3>2, <2>2, <2>6, <2>7, <4>1 DEF LossIsCounted
        <4>2. CASE stats'[2] = s2 /\ stats'[3] = s3 + 1
          BY <1>b, <1>c, <3>1, <3>2, <2>2, <2>6, <2>7, <4>2 DEF LossIsCounted
        <4> QED
          BY <2>5, <4>1, <4>2
  <1>8. CASE Consume
    <2>1. /\ ring # <<>> /\ ring' = Tail(ring) /\ step' = step /\ stats' = stats
          /\ read' = IF Head(ring).status = "ready" THEN Append(read, Head(ring).rec)
                     ELSE read
      BY <1>8 DEF Consume, progVars
    <2>2. /\ DOMAIN ring' = 1..(n - 1) /\ n \in Nat /\ n > 0
          /\ \A i \in 1..(n - 1) : ring'[i] = ring[i + 1]
          /\ Head(ring) \in Slot
      <3>1. ring' \in Seq(Slot) /\ Len(ring') = n - 1 /\ n > 0
            /\ \A i \in 1..Len(ring') : ring'[i] = ring[i + 1]
            /\ Head(ring) \in Slot
        BY <1>0, <2>1, HeadTailProperties, EmptySeq DEF n
      <3> QED
        BY <1>0, <3>1, LenProperties DEF n
    <2>3. IsFiniteSet(Ready') /\ Cardinality(Ready') = Cardinality(Ready \ {1})
      <3> DEFINE R == Ready \ {1}
                 f == [i \in R |-> i - 1]
      <3>1. IsFiniteSet(R)
        BY <1>a, FS_RemoveElement
      <3>2. \A i \in R : i \in 2..n /\ ring[i].status = "ready"
        BY <1>0, <2>2 DEF Ready, n
      <3>3. Ready' = {i \in 1..(n - 1) : ring[i + 1].status = "ready"}
        BY <2>2 DEF Ready
      <3>4. f \in [R -> Ready']
        <4>1. ASSUME NEW i \in R PROVE i - 1 \in Ready'
          <5>1. i - 1 \in 1..(n - 1) /\ (i - 1) + 1 = i /\ ring[i].status = "ready"
            BY <2>2, <3>2
          <5> QED
            BY <3>3, <5>1
        <4> QED
          BY <4>1
      <3>5. \A i, j \in R : f[i] = f[j] => i = j
        BY <2>2, <3>2
      <3>6. ASSUME NEW j \in Ready' PROVE \E i \in R : f[i] = j
        <4>1. j \in 1..(n - 1) /\ ring[j + 1].status = "ready"
          BY <3>3
        <4>2. j + 1 \in 1..n /\ j + 1 # 1 /\ (j + 1) - 1 = j
          BY <2>2, <4>1
        <4>3. j + 1 \in R
          BY <1>0, <4>1, <4>2 DEF Ready, n
        <4> QED
          BY <4>2, <4>3
      <3>7. f \in Bijection(R, Ready')
        BY <3>4, <3>5, <3>6 DEF Bijection, Injection, Surjection, IsInjective
      <3> QED
        BY <3>1, <3>7, FS_Bijection DEF ExistsBijection
    <2>4. 1 \in Ready <=> Head(ring).status = "ready"
      BY <1>0, <2>1, <2>2 DEF Ready, n
    <2>5. Cardinality(Ready \ {1}) = IF 1 \in Ready THEN r - 1 ELSE r
      BY <1>a, FS_RemoveElement DEF r
    <2>6. Len(read') = IF Head(ring).status = "ready" THEN Len(read) + 1 ELSE Len(read)
      <3>1. Head(ring).rec \in Record /\ read \in Seq(Record)
        BY <2>2 DEF Slot, TypeInv, TypeOK
      <3>2. Len(Append(read, Head(ring).rec)) = Len(read) + 1
        BY <3>1, AppendProperties
      <3> QED
        BY <2>1, <3>2
    <2>7. Busy' = Busy
      BY <2>1 DEF Busy
    <2>8. Cardinality(Busy') = b
      BY <2>7 DEF b
    <2>9. \/ Len(read') = Len(read) + 1 /\ Cardinality(Ready') = r - 1
          \/ Len(read') = Len(read) /\ Cardinality(Ready') = r
      BY <2>3, <2>4, <2>5, <2>6
    <2> QED
      <3>1. b \in Nat /\ r \in Nat /\ Len(read) \in Nat
        BY <1>a
      <3>2. /\ stats'[0] = s0 /\ stats'[1] = s1 /\ stats'[2] = s2
            /\ stats'[3] = s3 /\ stats'[4] = s4
        BY <2>1 DEF s0, s1, s2, s3, s4
      <3> QED
        <4>1. CASE Len(read') = Len(read) + 1 /\ Cardinality(Ready') = r - 1
          BY <1>b, <1>c, <3>1, <3>2, <2>8, <4>1 DEF LossIsCounted
        <4>2. CASE Len(read') = Len(read) /\ Cardinality(Ready') = r
          BY <1>b, <1>c, <3>1, <3>2, <2>8, <4>2 DEF LossIsCounted
        <4> QED
          BY <2>9, <4>1, <4>2
  <1> QED
    BY StepKinds, <1>1, <1>2, <1>3, <1>4, <1>5, <1>6, <1>7, <1>8

(* producer_stats accounts for every record an exit probe attempts:        *)
(* submitted ones are in the ring or were read, all others are counted     *)
(* under exactly one reason of loss or still in a program.                 *)
THEOREM LossCorrect == Spec => []LossIsCounted
  BY TypeInit, TypeStep, SlotsInit, SlotsStep, LossInit, LossStep, PTL DEF Spec

-----------------------------------------------------------------------------
(* Which call a record is about.                                           *)

(* The records userspace has or will see, and those still in a program.    *)
Produced == Seen \cup {rec[c] : c \in Busy}

(* All of them are records.                                                *)
LEMMA ProducedType ==
  ASSUME TypeInv
  PROVE  Produced \subseteq Record
  <1>1. read \in Seq(Record) /\ ring \in Seq(Slot) /\ Running
    BY DEF TypeInv, TypeOK
  <1>2. /\ \A i \in DOMAIN read : read[i] \in Record
        /\ \A i \in DOMAIN ring : ring[i] \in Slot
    BY <1>1, LenProperties, ElementOfSeq
  <1>3. \A i \in DOMAIN ring : ring[i].rec \in Record
    BY <1>2 DEF Slot
  <1> QED
    BY <1>1, <1>2, <1>3 DEF Produced, Seen, Busy, Running

(* What userspace takes from the ring it has seen already.                 *)
LEMMA ConsumeKeeps ==
  ASSUME TypeInv, Consume
  PROVE  /\ Seen' \subseteq Seen
         /\ ring \in Seq(Slot) /\ read \in Seq(Record) /\ Len(ring) \in Nat \ {0}
         /\ DOMAIN ring = 1..Len(ring) /\ DOMAIN ring' = 1..(Len(ring) - 1)
         /\ \A i \in 1..(Len(ring) - 1) : ring'[i] = ring[i + 1]
         /\ Len(read) \in Nat /\ DOMAIN read = 1..Len(read)
         /\ \/ read' = read
            \/ /\ DOMAIN read' = 1..(Len(read) + 1)
               /\ \A i \in 1..Len(read) : read'[i] = read[i]
               /\ read'[Len(read) + 1] = ring[1].rec
  <1> DEFINE n == Len(ring)
  <1>0. /\ ring \in Seq(Slot) /\ n \in Nat /\ DOMAIN ring = 1..n /\ read \in Seq(Record)
        /\ \A i \in 1..n : ring[i] \in Slot
        /\ Len(read) \in Nat /\ DOMAIN read = 1..Len(read)
    BY LenProperties, ElementOfSeq DEF TypeInv, TypeOK
  <1>1. /\ ring # <<>> /\ ring' = Tail(ring)
        /\ read' = read \/ read' = Append(read, Head(ring).rec)
    BY DEF Consume
  <1>2. /\ DOMAIN ring' = 1..(n - 1) /\ n > 0
        /\ \A i \in 1..(n - 1) : ring'[i] = ring[i + 1]
        /\ Head(ring) = ring[1] /\ ring[1] \in Slot /\ 1 \in 1..n
    <2>1. ring' \in Seq(Slot) /\ Len(ring') = n - 1 /\ n > 0
          /\ \A i \in 1..Len(ring') : ring'[i] = ring[i + 1]
      BY <1>0, <1>1, HeadTailProperties, EmptySeq
    <2> QED
      BY <1>0, <1>1, <2>1, LenProperties
  <1>3. \A i \in 1..(n - 1) : i + 1 \in 1..n
    BY <1>0
  <1>4. {ring'[i].rec : i \in DOMAIN ring'} \subseteq {ring[i].rec : i \in DOMAIN ring}
    <2>1. ASSUME NEW i \in 1..(n - 1) PROVE ring'[i].rec \in {ring[j].rec : j \in 1..n}
      BY <1>2, <1>3
    <2> QED
      BY <1>0, <1>2, <2>1
  <1>5. \/ read' = read
        \/ /\ DOMAIN read' = 1..(Len(read) + 1)
           /\ \A i \in 1..Len(read) : read'[i] = read[i]
           /\ read'[Len(read) + 1] = ring[1].rec
    <2>1. CASE read' = Append(read, ring[1].rec)
      <3>1. ring[1].rec \in Record
        BY <1>2 DEF Slot
      <3>2. /\ DOMAIN read' = 1..(Len(read) + 1)
            /\ \A i \in 1..Len(read) : read'[i] = read[i]
            /\ read'[Len(read) + 1] = ring[1].rec
        BY <1>0, <2>1, <3>1, AppendProperties, LenProperties
      <3> QED
        BY <3>2
    <2> QED
      BY <1>1, <1>2, <2>1
  <1>6. {read'[i] : i \in DOMAIN read'} \subseteq {read[i] : i \in DOMAIN read} \cup {ring[1].rec}
    <2>1. \A i \in 1..(Len(read) + 1) : i \in 1..Len(read) \/ i = Len(read) + 1
      BY <1>0
    <2> QED
      BY <1>0, <1>5, <2>1
  <1>7. ring[1].rec \in {ring[i].rec : i \in DOMAIN ring}
    BY <1>0, <1>2
  <1>8. Seen' \subseteq Seen
    BY <1>4, <1>6, <1>7 DEF Seen
  <1> QED
    BY <1>0, <1>2, <1>5, <1>8

(* An attempt produces one record.                                         *)
LEMMA EmitProduces ==
  ASSUME TypeOK, NEW c \in Contexts, NEW t \in Runs(c), ExitEmit(c, t) \/ ExitEmitMapFull(c, t)
  PROVE  Produced' \subseteq Produced \cup {rec'[c]} /\ Seen' = Seen
  <1>0. /\ step \in [Contexts -> {"idle", "counted", "numbered", "reserved"}]
        /\ rec \in [Contexts -> Record \cup {NoRecord}]
    BY DEF TypeOK
  <1>1. /\ ring' = ring /\ read' = read
        /\ \A d \in Contexts : d # c => step'[d] = step[d] /\ rec'[d] = rec[d]
    BY <1>0 DEF ExitEmit, ExitEmitMapFull, userVars
  <1>2. Seen' = Seen
    BY <1>1 DEF Seen
  <1> QED
    BY <1>1, <1>2 DEF Produced, Busy

(* Number produces none.                                                   *)
LEMMA NumberProduces ==
  ASSUME TypeOK, NEW c \in Contexts, Number(c)
  PROVE  Produced' \subseteq Produced /\ Seen' = Seen
  <1>0. step \in [Contexts -> {"idle", "counted", "numbered", "reserved"}]
    BY DEF TypeOK
  <1>1. /\ ring' = ring /\ read' = read /\ rec' = rec /\ step[c] = "counted"
        /\ \A d \in Contexts : d # c => step'[d] = step[d]
    BY <1>0 DEF Number, userVars
  <1>2. Seen' = Seen
    BY <1>1 DEF Seen
  <1> QED
    BY <1>1, <1>2 DEF Produced, Busy

(* Only an exit probe that starts to emit adds a record.                   *)
LEMMA ProducedStep ==
  ASSUME TypeInv, [Next]_vars
  PROVE  \/ Produced' \subseteq Produced
         \/ \E c \in Contexts : \E t \in Runs(c) :
               /\ ExitEmit(c, t) \/ ExitEmitMapFull(c, t)
               /\ Produced' \subseteq Produced \cup {rec'[c]}
  <1> DEFINE n == Len(ring)
  <1>0. /\ step \in [Contexts -> {"idle", "counted", "numbered", "reserved"}]
        /\ rec \in [Contexts -> Record \cup {NoRecord}]
        /\ ring \in Seq(Slot) /\ n \in Nat /\ DOMAIN ring = 1..n /\ read \in Seq(Record)
        /\ \A i \in 1..n : ring[i] \in Slot
    BY LenProperties, ElementOfSeq DEF TypeInv, TypeOK
  <1>t. TypeOK
    BY DEF TypeInv
  <1>1. CASE Apart
    BY <1>1, ApartChanges DEF Produced, Seen, Busy
  <1>2. ASSUME NEW c \in Contexts, NEW t \in Runs(c), ExitEmit(c, t) \/ ExitEmitMapFull(c, t)
        PROVE  Produced' \subseteq Produced \cup {rec'[c]}
    BY <1>2, <1>t, EmitProduces
  <1>3. ASSUME NEW c \in Contexts, Number(c) PROVE Produced' \subseteq Produced
    BY <1>3, <1>t, NumberProduces
  <1>4. ASSUME NEW c \in Contexts, step[c] # "idle", Finish(c), Seen' \subseteq Seen
        PROVE  Produced' \subseteq Produced
    <2>1. \A d \in Contexts : d # c => step'[d] = step[d] /\ rec'[d] = rec[d]
      BY <1>4, FinishTypes
    <2>2. step'[c] = "idle"
      BY <1>4, FinishTypes
    <2> QED
      BY <1>4, <2>1, <2>2 DEF Produced, Busy
  <1>5. ASSUME NEW c \in Contexts, SampleOut(c) \/ ReserveFail(c)
        PROVE  Produced' \subseteq Produced
    <2>1. step[c] = "numbered" /\ Finish(c) /\ ring' = ring /\ read' = read
      BY <1>5 DEF SampleOut, ReserveFail, userVars
    <2>2. Seen' = Seen
      BY <2>1 DEF Seen
    <2> QED
      BY <1>4, <2>1, <2>2
  <1>6. ASSUME NEW c \in Contexts, Reserve(c) PROVE Produced' \subseteq Produced
    <2> DEFINE x == [by |-> c, status |-> "busy", rec |-> rec[c]]
    <2>1. /\ step[c] = "numbered" /\ ring' = Append(ring, x) /\ read' = read /\ rec' = rec
          /\ \A d \in Contexts : d # c => step'[d] = step[d]
      BY <1>0, <1>6 DEF Reserve, userVars
    <2>2. x \in Slot /\ x.rec = rec[c]
      BY <2>1 DEF Slot, TypeInv, Running
    <2> HIDE DEF x
    <2>3. /\ DOMAIN ring' = 1..(n + 1)
          /\ \A i \in 1..n : ring'[i] = ring[i]
          /\ ring'[n + 1].rec = rec[c]
      BY <1>0, <2>1, <2>2, AppendProperties, LenProperties
    <2>4. \A i \in 1..(n + 1) : i \in 1..n \/ i = n + 1
      BY <1>0
    <2>5. Seen' \subseteq Seen \cup {rec[c]} /\ c \in Busy
      BY <1>0, <2>1, <2>3, <2>4 DEF Seen, Busy
    <2>6. \A d \in Busy' : d \in Busy
      BY <2>1 DEF Busy
    <2> QED
      BY <2>1, <2>5, <2>6 DEF Produced
  <1>7. ASSUME NEW c \in Contexts, NEW status \in {"ready", "discarded"},
               ring' = Release(c, status), read' = read
        PROVE  Seen' \subseteq Seen
    <2>1. DOMAIN ring' = 1..n /\ \A i \in 1..n : ring'[i].rec = ring[i].rec
      BY <1>0, <1>7, ReleaseProperties, LenProperties
    <2> QED
      BY <1>0, <1>7, <2>1 DEF Seen
  <1>8. ASSUME NEW c \in Contexts, Submit(c) PROVE Produced' \subseteq Produced
    <2>1. /\ step[c] = "reserved" /\ Finish(c) /\ ring' = Release(c, "ready") /\ read' = read
      BY <1>8 DEF Submit, userVars
    <2> QED
      BY <1>4, <1>7, <2>1
  <1>9. ASSUME NEW c \in Contexts, NEW why \in {2, 3}, Discard(c, why)
        PROVE  Produced' \subseteq Produced
    <2>1. /\ step[c] = "reserved" /\ Finish(c) /\ ring' = Release(c, "discarded")
          /\ read' = read
      BY <1>9 DEF Discard, userVars
    <2> QED
      BY <1>4, <1>7, <2>1
  <1>10. CASE Consume
    <2>1. step' = step /\ rec' = rec
      BY <1>10 DEF Consume, progVars
    <2>2. Seen' \subseteq Seen /\ Busy' = Busy
      BY <1>10, <2>1, ConsumeKeeps DEF Busy
    <2> QED
      BY <2>1, <2>2 DEF Produced
  <1> QED
    BY StepKinds, <1>1, <1>2, <1>3, <1>5, <1>6, <1>8, <1>9, <1>10

(* The call at place i of a context's stack is the last one of args map m. *)
LastCall(c, i, m) ==
  /\ i \in 1..Len(stack[c])
  /\ ArgsMap(stack[c][i].api) = m
  /\ \A j \in 1..Len(stack[c]) : j > i => ArgsMap(stack[c][j].api) # m

(* Calls and arguments: goroutines make the Go calls, saved arguments are  *)
(* the last call's of that map, and a program works on the topmost call.   *)
CallsInv ==
  /\ \A c \in Contexts : \A i \in 1..Len(stack[c]) :
        stack[c][i].api \in GoTLS <=> c \in Goroutines
  /\ \A c \in Contexts, m \in ArgsMaps, i \in Nat :
        args[m][c] # NoPtr /\ LastCall(c, i, m) => stack[c][i].key = SslKey(c, args[m][c])
  /\ \A c \in Contexts : step[c] # "idle" =>
        rec[c].slot = c /\ rec[c].map = ArgsMap(Top(c).api)

(* No call is open at first.                                               *)
LEMMA CallsInit == Init => CallsInv
  <1> SUFFICES ASSUME Init PROVE CallsInv
    OBVIOUS
  <1>1. \A c \in Contexts : stack[c] = <<>> /\ step[c] = "idle" /\ Len(stack[c]) = 0
    BY DEF Init
  <1>2. 1..0 = {}
    OBVIOUS
  <1> QED
    BY <1>1, <1>2 DEF CallsInv, LastCall

(* A call that returns takes its arguments with it.                        *)
LEMMA CallReturns ==
  ASSUME TypeOK, CallsInv, NEW c \in Contexts, stack[c] # <<>>, stack' = Return(c),
         \A m \in ArgsMaps, d \in Contexts : args'[m][d] \in {args[m][d], NoPtr},
         args'[ArgsMap(Top(c).api)][c] = NoPtr,
         step'[c] = "idle",
         \A d \in Contexts : d # c => step'[d] = step[d] /\ rec'[d] = rec[d]
  PROVE  CallsInv'
  <1> DEFINE n == Len(stack[c])
  <1>1. /\ \A d \in Contexts : d # c => stack'[d] = stack[d]
        /\ Len(stack'[c]) = n - 1 /\ n \in Nat \ {0}
        /\ \A i \in 1..(n - 1) : stack'[c][i] = stack[c][i]
    BY ReturnProperties
  <1>2. \A i \in 1..(n - 1) : i \in 1..n
    BY <1>1
  <1>3. ASSUME NEW d \in Contexts, NEW i \in 1..Len(stack'[d])
        PROVE  stack'[d][i].api \in GoTLS <=> d \in Goroutines
    <2>1. CASE d # c
      BY <1>1, <2>1 DEF CallsInv
    <2>2. CASE d = c
      BY <1>1, <1>2, <2>2 DEF CallsInv
    <2> QED
      BY <2>1, <2>2
  <1>4. ASSUME NEW d \in Contexts, NEW m \in ArgsMaps, NEW i \in Nat, args'[m][d] # NoPtr,
               LastCall(d, i, m)'
        PROVE  stack'[d][i].key = SslKey(d, args'[m][d])
    <2>1. args'[m][d] = args[m][d]
      BY <1>4
    <2>2. CASE d # c
      <3>1. LastCall(d, i, m)
        BY <1>1, <1>4, <2>2 DEF LastCall
      <3> QED
        BY <1>1, <1>4, <2>1, <2>2, <3>1 DEF CallsInv
    <2>3. CASE d = c
      <3>1. i \in 1..(n - 1) /\ ArgsMap(stack[c][i].api) = m
            /\ \A j \in 1..(n - 1) : j > i => ArgsMap(stack[c][j].api) # m
        BY <1>1, <1>4, <2>3 DEF LastCall
      <3>2. ArgsMap(stack[c][n].api) # m
        BY <1>4, <2>3 DEF Top
      <3>3. \A j \in 1..n : j \in 1..(n - 1) \/ j = n
        BY <1>1
      <3>4. LastCall(c, i, m)
        BY <1>2, <3>1, <3>2, <3>3 DEF LastCall
      <3> QED
        BY <1>1, <1>4, <2>1, <2>3, <3>1, <3>4 DEF CallsInv
    <2> QED
      BY <2>2, <2>3
  <1>5. ASSUME NEW d \in Contexts, step'[d] # "idle"
        PROVE  rec'[d].slot = d /\ rec'[d].map = ArgsMap(Top(d)'.api)
    <2>1. d # c /\ stack'[d] = stack[d]
      BY <1>1, <1>5
    <2> QED
      BY <1>5, <2>1 DEF CallsInv, Top
  <1>6. \A d \in Contexts : \A p : SslKey(d, p)' = SslKey(d, p)
    BY DEF SslKey
  <1> QED
    BY <1>3, <1>4, <1>5, <1>6 DEF CallsInv, SslKey

(* The arguments of the topmost call are its own.                          *)
LEMMA OwnArguments ==
  ASSUME TypeOK, CallsInv, NEW c \in Contexts, NEW t \in Runs(c), stack[c] # <<>>
  PROVE  /\ CallKey(Top(c).api, c, t) = c
         /\ args[ArgsMap(Top(c).api)][c] # NoPtr
              => Top(c).key = SslKey(c, args[ArgsMap(Top(c).api)][c])
  <1> DEFINE n == Len(stack[c])
             m == ArgsMap(Top(c).api)
  <1>1. n \in Nat \ {0} /\ n \in 1..n
    BY ReturnProperties
  <1>2. Top(c) = stack[c][n]
    BY DEF Top
  <1>3. CallKey(Top(c).api, c, t) = c
    BY <1>1, <1>2, OwnCallKey DEF CallsInv
  <1>4. m \in ArgsMaps
    BY ExitTypes
  <1>5. LastCall(c, n, m)
    BY <1>1, <1>2 DEF LastCall
  <1> QED
    BY <1>1, <1>2, <1>3, <1>4, <1>5 DEF CallsInv

(* A step leaves no call's arguments to another call.                      *)
LEMMA CallsStep == TypeInv /\ CallsInv /\ [Next]_vars => CallsInv'
  <1> SUFFICES ASSUME TypeInv, CallsInv, [Next]_vars PROVE CallsInv'
    OBVIOUS
  <1>0. /\ TypeOK /\ Running
        /\ step \in [Contexts -> {"idle", "counted", "numbered", "reserved"}]
        /\ args \in [ArgsMaps -> [Contexts -> Ptrs \cup {NoPtr}]]
        /\ rec \in [Contexts -> Record \cup {NoRecord}]
        /\ stack \in [Contexts -> Seq([api : Apis, key : Keys])]
    BY DEF TypeInv, TypeOK
  <1>1. ASSUME UNCHANGED <<stack, args, rec>>,
               \A c \in Contexts : step'[c] # "idle" => step[c] # "idle"
        PROVE  CallsInv'
    BY <1>1 DEF CallsInv, LastCall, Top, SslKey
  <1>2. ASSUME NEW k \in Keys, NEW l \in Libraries, Allocate(k, l) PROVE CallsInv'
    BY <1>1, <1>2 DEF Allocate, progVars
  <1>3. ASSUME NEW c \in Contexts, NEW t \in Runs(c), NEW api \in Apis, NEW k \in Keys,
               Entry(c, t, api, k)
        PROVE  CallsInv'
    <2> DEFINE n == Len(stack[c])
               x == [api |-> api, key |-> k]
               m == ArgsMap(api)
    <2>1. /\ step[c] = "idle" /\ step' = step /\ rec' = rec
          /\ api \in GoTLS <=> c \in Goroutines
          /\ k.tgid = ProcOf[c]
          /\ stack' = [stack EXCEPT ![c] = Append(stack[c], x)]
          /\ args' = [args EXCEPT ![m][CallKey(api, c, t)] = k.ptr]
      BY <1>3 DEF Entry, progVars
    <2>2. CallKey(api, c, t) = c /\ m \in ArgsMaps
      BY <2>1, OwnCallKey, ApiTypes
    <2>3. stack[c] \in Seq([api : Apis, key : Keys]) /\ x \in [api : Apis, key : Keys]
      BY <1>0
    <2>4. x.api = api /\ x.key = k
      OBVIOUS
    <2> HIDE DEF x
    <2>5. /\ n \in Nat
          /\ Len(stack'[c]) = n + 1
          /\ \A i \in 1..n : stack'[c][i] = stack[c][i]
          /\ stack'[c][n + 1] = x
          /\ \A d \in Contexts : d # c => stack'[d] = stack[d]
      BY <1>0, <2>1, <2>3, AppendProperties, LenProperties
    <2>6. /\ args'[m][c] = k.ptr
          /\ \A q \in ArgsMaps, d \in Contexts :
               q # m \/ d # c => args'[q][d] = args[q][d]
      <3>1. args' = [args EXCEPT ![m][c] = k.ptr]
        BY <2>1, <2>2
      <3> HIDE DEF m
      <3> QED
        BY <1>0, <2>2, <3>1
    <2>7. k = SslKey(c, k.ptr)
      BY <2>1 DEF SslKey, Keys
    <2>8. \A i \in 1..(n + 1) : i \in 1..n \/ i = n + 1
      BY <2>5
    <2>9. \A i \in 1..n : i \in 1..(n + 1)
      BY <2>5
    <2>10. ASSUME NEW d \in Contexts, NEW i \in 1..Len(stack'[d])
           PROVE  stack'[d][i].api \in GoTLS <=> d \in Goroutines
      <3>1. CASE d # c
        BY <2>5, <3>1 DEF CallsInv
      <3>2. CASE d = c /\ i \in 1..n
        BY <2>5, <3>2 DEF CallsInv
      <3>3. CASE d = c /\ i = n + 1
        BY <2>1, <2>4, <2>5, <3>3
      <3> QED
        BY <2>5, <2>8, <3>1, <3>2, <3>3
    <2>11. ASSUME NEW d \in Contexts, NEW q \in ArgsMaps, NEW i \in Nat, args'[q][d] # NoPtr,
                  LastCall(d, i, q)'
           PROVE  stack'[d][i].key = SslKey(d, args'[q][d])
      <3>1. CASE d # c
        <4>1. LastCall(d, i, q)
          BY <2>5, <2>11, <3>1 DEF LastCall
        <4> QED
          BY <2>5, <2>6, <2>11, <3>1, <4>1 DEF CallsInv
      <3>2. CASE d = c /\ i = n + 1
        <4>1. q = m
          BY <2>4, <2>5, <2>11, <3>2 DEF LastCall
        <4> QED
          BY <2>4, <2>5, <2>6, <2>7, <3>2, <4>1
      <3>3. CASE d = c /\ i \in 1..n
        <4>1. n + 1 > i /\ n + 1 \in 1..Len(stack'[c])
          BY <2>5, <3>3
        <4>2. q # m
          BY <2>4, <2>5, <2>11, <3>3, <4>1 DEF LastCall
        <4>3. LastCall(c, i, q)
          BY <2>5, <2>9, <2>11, <3>3 DEF LastCall
        <4> QED
          BY <2>5, <2>6, <2>11, <3>3, <4>2, <4>3, SMTT(40) DEF CallsInv
      <3>4. d = c => i \in 1..(n + 1)
        BY <2>5, <2>11 DEF LastCall
      <3> QED
        BY <2>8, <3>1, <3>2, <3>3, <3>4
    <2>12. ASSUME NEW d \in Contexts, step'[d] # "idle"
           PROVE  rec'[d].slot = d /\ rec'[d].map = ArgsMap(Top(d)'.api)
      BY <2>1, <2>5, <2>12 DEF CallsInv, Top
    <2> QED
      BY <2>10, <2>11, <2>12 DEF CallsInv, SslKey
  <1>4. ASSUME NEW c \in Contexts, NEW t \in Runs(c), ExitUnpaired(c, t) \/ ExitEmpty(c, t)
        PROVE  CallsInv'
    <2> DEFINE m == ArgsMap(Top(c).api)
    <2>1. /\ step[c] = "idle" /\ stack[c] # <<>> /\ stack' = Return(c)
          /\ step' = step /\ rec' = rec
          /\ \/ args[m][CallKey(Top(c).api, c, t)] = NoPtr /\ args' = args
             \/ args' = Forget(m, CallKey(Top(c).api, c, t))
      BY <1>4 DEF ExitUnpaired, ExitEmpty, progVars
    <2>2. CallKey(Top(c).api, c, t) = c /\ m \in ArgsMaps
      BY <1>0, <2>1, OwnArguments, ExitTypes
    <2> HIDE DEF m
    <2>3. /\ \A q \in ArgsMaps, d \in Contexts : args'[q][d] \in {args[q][d], NoPtr}
          /\ args'[m][c] = NoPtr
      <3>1. (args[m][c] = NoPtr /\ args' = args) \/ args' = Forget(m, c)
        BY <2>1, <2>2
      <3>2. CASE args[m][c] = NoPtr /\ args' = args
        BY <3>2
      <3>3. CASE args' = Forget(m, c)
        BY <1>0, <2>2, <3>3 DEF Forget
      <3> QED
        BY <3>1, <3>2, <3>3
    <2> QED
      BY <1>0, <2>1, <2>3, CallReturns DEF m
  <1>5. ASSUME NEW c \in Contexts, NEW t \in Runs(c), ExitEmit(c, t) \/ ExitEmitMapFull(c, t)
        PROVE  CallsInv'
    <2>1. /\ stack[c] # <<>> /\ UNCHANGED <<stack, args>>
          /\ \A d \in Contexts : d # c => step'[d] = step[d] /\ rec'[d] = rec[d]
          /\ rec'[c].map = ArgsMap(Top(c).api)
          /\ rec'[c].slot = CallKey(Top(c).api, c, t)
      <3>1. PICK gen, seq : /\ stack[c] # <<>> /\ UNCHANGED <<stack, args>>
                            /\ NewRecord(c, t, gen, seq) \in Record
                            /\ rec' = [rec EXCEPT ![c] = NewRecord(c, t, gen, seq)]
                            /\ \E s : step' = [step EXCEPT ![c] = s]
        BY <1>0, <1>5, EmitChanges, MapFullChanges
      <3>2. rec'[c] = NewRecord(c, t, gen, seq)
            /\ \A d \in Contexts : d # c => step'[d] = step[d] /\ rec'[d] = rec[d]
        BY <1>0, <3>1 DEF TypeInv, TypeOK
      <3>3. rec'[c].map = ArgsMap(Top(c).api) /\ rec'[c].slot = CallKey(Top(c).api, c, t)
        BY <3>2 DEF NewRecord
      <3> QED
        BY <3>1, <3>2, <3>3
    <2>2. CallKey(Top(c).api, c, t) = c
      BY <1>0, <2>1, OwnArguments
    <2> QED
      BY <2>1, <2>2 DEF CallsInv, LastCall, Top, SslKey
  <1>6. ASSUME NEW c \in Contexts, Number(c) \/ Reserve(c) PROVE CallsInv'
    <2>1. /\ UNCHANGED <<stack, args, rec>>
          /\ step[c] # "idle"
          /\ \A d \in Contexts : d # c => step'[d] = step[d]
      BY <1>0, <1>6 DEF Number, Reserve, appVars
    <2> QED
      BY <1>1, <2>1
  <1>7. ASSUME NEW c \in Contexts, step[c] # "idle", Finish(c) PROVE CallsInv'
    <2>1. /\ step'[c] = "idle" /\ stack[c] # <<>>
          /\ \A d \in Contexts : d # c => step'[d] = step[d] /\ rec'[d] = rec[d]
      BY <1>0, <1>7, FinishTypes DEF Running
    <2>2. /\ stack' = Return(c)
          /\ args' = Forget(ArgsMap(Top(c).api), c)
      BY <1>7 DEF Finish, CallsInv
    <2>3. ArgsMap(Top(c).api) \in ArgsMaps
      BY <1>0, <2>1, ReturnProperties, ApiTypes
    <2> DEFINE m == ArgsMap(Top(c).api)
    <2> HIDE DEF m
    <2>4. /\ \A q \in ArgsMaps, d \in Contexts : args'[q][d] \in {args[q][d], NoPtr}
          /\ args'[m][c] = NoPtr
      <3>1. args' = Forget(m, c) /\ m \in ArgsMaps
        BY <2>2, <2>3 DEF m
      <3> QED
        BY <1>0, <3>1 DEF Forget
    <2> QED
      BY <1>0, <2>1, <2>2, <2>4, CallReturns DEF m
  <1>8. ASSUME NEW c \in Contexts,
               SampleOut(c) \/ ReserveFail(c) \/ Submit(c) \/ \E why \in {2, 3} : Discard(c, why)
        PROVE  CallsInv'
    BY <1>7, <1>8 DEF SampleOut, ReserveFail, Submit, Discard
  <1>9. ASSUME NEW c \in Contexts, NEW ptr \in Ptrs, Free(c, ptr) PROVE CallsInv'
    BY <1>1, <1>9 DEF Free, progVars
  <1>10. ASSUME NEW k \in Keys, FreeUnprobed(k) \/ EvictState(k) PROVE CallsInv'
    BY <1>1, <1>10 DEF FreeUnprobed, EvictState, progVars, appVars
  <1>11. ASSUME NEW m \in ArgsMaps, NEW c \in Contexts, EvictArgs(m, c) PROVE CallsInv'
    <2>1. /\ UNCHANGED <<stack, step, rec>>
          /\ args' = [args EXCEPT ![m][c] = NoPtr]
      BY <1>11 DEF EvictArgs, progVars, appVars
    <2>2. \A q \in ArgsMaps, d \in Contexts : args'[q][d] # NoPtr => args'[q][d] = args[q][d]
      BY <1>0, <2>1
    <2> QED
      BY <2>1, <2>2 DEF CallsInv, LastCall, Top, SslKey
  <1>12. CASE Consume \/ ConsumeClose
    BY <1>1, <1>12 DEF Consume, ConsumeClose, progVars, appVars
  <1>13. CASE UNCHANGED vars
    BY <1>1, <1>13 DEF vars, progVars, appVars
  <1> QED
    BY <1>2, <1>3, <1>4, <1>5, <1>6, <1>8, <1>9, <1>10, <1>11, <1>12, <1>13 DEF Next

(* Every record is about its own call, in the rings and in the programs.   *)
OwnObject == \A r \in Produced : r.key = r.of

(* A new record is about the object of the call that returns.              *)
LEMMA OwnObjectStep == TypeInv /\ CallsInv /\ OwnObject /\ [Next]_vars => OwnObject'
  <1> SUFFICES ASSUME TypeInv, CallsInv, OwnObject, [Next]_vars PROVE OwnObject'
    OBVIOUS
  <1>1. CASE Produced' \subseteq Produced
    BY <1>1 DEF OwnObject
  <1>2. ASSUME NEW c \in Contexts, NEW t \in Runs(c), ExitEmit(c, t) \/ ExitEmitMapFull(c, t),
               Produced' \subseteq Produced \cup {rec'[c]}
        PROVE  OwnObject'
    <2> DEFINE p == args[ArgsMap(Top(c).api)][CallKey(Top(c).api, c, t)]
    <2>0. TypeOK /\ rec \in [Contexts -> Record \cup {NoRecord}]
      BY DEF TypeInv, TypeOK
    <2>1. /\ stack[c] # <<>> /\ p # NoPtr
          /\ rec'[c].of = Top(c).key
          /\ rec'[c].key = SslKey(c, p)
      BY <1>2, <2>0 DEF ExitEmit, ExitEmitMapFull, SslKey
    <2>2. rec'[c].key = rec'[c].of
      BY <2>0, <2>1, OwnArguments
    <2> QED
      BY <1>2, <2>2 DEF OwnObject
  <1> QED
    BY <1>1, <1>2, ProducedStep

(* There is no record at first.                                            *)
LEMMA OwnObjectInit == Init => OwnObject
  BY DEF Init, OwnObject, Produced, Seen, Busy

(* What userspace has seen is a part of what was produced.                 *)
LEMMA OwnObjectImplies == OwnObject => PairedCall
  BY DEF OwnObject, PairedCall, Produced

(* The args maps pair entry and exit: however calls nest, goroutines       *)
(* change thread and the maps drop elements, a record is never about       *)
(* another call's object.                                                  *)
THEOREM PairingCorrect == Spec => []PairedCall
  BY TypeInit, TypeStep, CallsInit, CallsStep, OwnObjectInit, OwnObjectStep, OwnObjectImplies,
     PTL DEF Spec

-----------------------------------------------------------------------------
(* Which calls are open on an object.                                      *)

(* The calls a context has open.                                           *)
Open(c) == {stack[c][i] : i \in 1..Len(stack[c])}

(* Calls and objects: an object is called through its own library, and a   *)
(* running exit program is about the live object of its call.              *)
SharedInv ==
  /\ \A c \in Contexts : \A x \in Open(c) : x.api \in object[x.key]
  /\ \A c \in Contexts : step[c] # "idle" =>
        /\ rec[c].key = Top(c).key /\ rec[c].key.tgid = ProcOf[c]
        /\ rec[c].dir = Direction(Top(c).api)
        /\ rec[c].life = life[rec[c].key]

(* Open calls are calls, and a program's is the topmost one.               *)
LEMMA OpenType ==
  ASSUME TypeOK, NEW c \in Contexts
  PROVE  /\ \A x \in Open(c) : x.api \in Apis /\ x.key \in Keys
         /\ stack[c] # <<>> => Top(c) \in Open(c)
  <1>0. stack[c] \in Seq([api : Apis, key : Keys])
    BY DEF TypeOK
  <1>1. ASSUME NEW i \in 1..Len(stack[c]) PROVE stack[c][i] \in [api : Apis, key : Keys]
    BY <1>0, ElementOfSeq
  <1>2. ASSUME stack[c] # <<>> PROVE Top(c) \in Open(c)
    <2>1. Len(stack[c]) \in 1..Len(stack[c])
      BY <1>2, ReturnProperties
    <2> QED
      BY <2>1 DEF Top, Open
  <1> QED
    BY <1>1, <1>2 DEF Open

(* A call that returns opens no other.                                     *)
LEMMA OpenReturns ==
  ASSUME TypeOK, NEW c \in Contexts, stack[c] # <<>>, stack' = Return(c)
  PROVE  /\ Open(c)' \subseteq Open(c)
         /\ \A d \in Contexts : d # c => Open(d)' = Open(d) /\ Top(d)' = Top(d)
  <1> DEFINE n == Len(stack[c])
  <1>1. /\ \A d \in Contexts : d # c => stack'[d] = stack[d]
        /\ Len(stack'[c]) = n - 1 /\ n \in Nat \ {0}
        /\ \A i \in 1..(n - 1) : stack'[c][i] = stack[c][i]
    BY ReturnProperties
  <1>2. \A i \in 1..(n - 1) : i \in 1..n
    BY <1>1
  <1> QED
    BY <1>1, <1>2 DEF Open, Top

(* A call on an object keeps it from being freed.                          *)
LEMMA NotInCall ==
  ASSUME TypeOK, NEW k \in Keys, InCall(k) = {}, NEW c \in Contexts
  PROVE  \A x \in Open(c) : x.key # k
  <1>1. DOMAIN stack[c] = 1..Len(stack[c])
    BY LenProperties DEF TypeOK
  <1> QED
    BY <1>1 DEF InCall, Open

(* No call is open at first.                                               *)
LEMMA SharedInit == Init => SharedInv
  <1> SUFFICES ASSUME Init PROVE SharedInv
    OBVIOUS
  <1>1. \A c \in Contexts : stack[c] = <<>> /\ step[c] = "idle" /\ Len(stack[c]) = 0
    BY DEF Init
  <1>2. \A c \in Contexts : Open(c) = {}
    BY <1>1 DEF Open
  <1> QED
    BY <1>1, <1>2 DEF SharedInv

(* A step that opens no call, leaves the objects in calls alone and starts *)
(* no exit program keeps SharedInv.                                        *)
LEMMA SharedFrame ==
  ASSUME TypeInv, SharedInv,
         \A c \in Contexts : Open(c)' \subseteq Open(c),
         \A c \in Contexts : \A x \in Open(c) :
            object'[x.key] = object[x.key] /\ life'[x.key] = life[x.key],
         \A c \in Contexts : step'[c] # "idle" =>
            step[c] # "idle" /\ rec'[c] = rec[c] /\ Top(c)' = Top(c)
  PROVE  SharedInv'
  <1>1. \A c \in Contexts : \A x \in Open(c)' : x.api \in object'[x.key]
    BY DEF SharedInv
  <1>2. ASSUME NEW c \in Contexts, step'[c] # "idle"
        PROVE  /\ rec'[c].key = Top(c)'.key /\ rec'[c].key.tgid = ProcOf[c]
               /\ rec'[c].dir = Direction(Top(c)'.api)
               /\ rec'[c].life = life'[rec'[c].key]
    <2>1. TypeOK /\ step[c] # "idle" /\ stack[c] # <<>>
      BY <1>2 DEF TypeInv, Running
    <2>2. Top(c) \in Open(c)
      BY <2>1, OpenType
    <2> QED
      BY <1>2, <2>1, <2>2 DEF SharedInv
  <1> QED
    BY <1>1, <1>2 DEF SharedInv, Direction, Writes

(* Entry finds the object's library; an object in a call is neither freed  *)
(* nor replaced.                                                           *)
LEMMA SharedStep == TypeInv /\ CallsInv /\ SharedInv /\ [Next]_vars => SharedInv'
  <1> SUFFICES ASSUME TypeInv, CallsInv, SharedInv, [Next]_vars PROVE SharedInv'
    OBVIOUS
  <1>0. /\ TypeOK /\ Running /\ object \in [Keys -> Libraries \cup {{}}]
        /\ life \in [Keys -> Nat]
        /\ stack \in [Contexts -> Seq([api : Apis, key : Keys])]
        /\ step \in [Contexts -> {"idle", "counted", "numbered", "reserved"}]
        /\ rec \in [Contexts -> Record \cup {NoRecord}]
    BY DEF TypeInv, TypeOK
  <1>a. \A c \in Contexts : \A x \in Open(c) : x.key \in Keys /\ x.api \in object[x.key]
    BY <1>0, OpenType DEF SharedInv
  <1>1. ASSUME UNCHANGED <<stack, object, life>>,
               \A c \in Contexts : step'[c] # "idle" => step[c] # "idle" /\ rec'[c] = rec[c]
        PROVE  SharedInv'
    <2>1. \A c \in Contexts : Open(c)' = Open(c) /\ Top(c)' = Top(c)
      BY <1>1 DEF Open, Top
    <2> QED
      BY <1>1, <2>1, SharedFrame
  <1>2. ASSUME NEW c \in Contexts, stack[c] # <<>>, stack' = Return(c),
               UNCHANGED <<object, life>>, step'[c] = "idle",
               \A d \in Contexts : d # c => step'[d] = step[d] /\ rec'[d] = rec[d]
        PROVE  SharedInv'
    BY <1>0, <1>2, OpenReturns, SharedFrame
  <1>3. ASSUME NEW k \in Keys, \A c \in Contexts : \A x \in Open(c) : x.key # k,
               UNCHANGED <<stack, step, rec>>,
               \A j \in Keys : j # k => object'[j] = object[j] /\ life'[j] = life[j]
        PROVE  SharedInv'
    <2>1. \A c \in Contexts : Open(c)' = Open(c) /\ Top(c)' = Top(c)
      BY <1>3 DEF Open, Top
    <2> QED
      BY <1>3, <1>a, <2>1, SharedFrame
  <1>4. ASSUME NEW k \in Keys, NEW l \in Libraries, Allocate(k, l) PROVE SharedInv'
    <2>1. /\ object' = [object EXCEPT ![k] = l] /\ object[k] = {}
          /\ life' = [life EXCEPT ![k] = @ + 1]
          /\ UNCHANGED <<stack, step, rec>>
      BY <1>4 DEF Allocate, progVars
    <2> QED
      BY <1>0, <1>3, <1>a, <2>1
  <1>5. ASSUME NEW c \in Contexts, NEW t \in Runs(c), NEW api \in Apis, NEW k \in Keys,
               Entry(c, t, api, k)
        PROVE  SharedInv'
    <2> DEFINE n == Len(stack[c])
               x == [api |-> api, key |-> k]
    <2>1. /\ stack' = [stack EXCEPT ![c] = Append(stack[c], x)]
          /\ api \in object[k] /\ step[c] = "idle"
          /\ UNCHANGED <<object, life, step, rec>>
      BY <1>5 DEF Entry, progVars
    <2>2. stack[c] \in Seq([api : Apis, key : Keys]) /\ x \in [api : Apis, key : Keys]
          /\ x.key = k /\ x.api = api
      BY <1>0
    <2> HIDE DEF x
    <2>3. /\ n \in Nat
          /\ Len(stack'[c]) = n + 1
          /\ \A i \in 1..n : stack'[c][i] = stack[c][i]
          /\ stack'[c][n + 1] = x
          /\ \A d \in Contexts : d # c => stack'[d] = stack[d]
      BY <1>0, <2>1, <2>2, AppendProperties, LenProperties
    <2>4. \A i \in 1..(n + 1) : i \in 1..n \/ i = n + 1
      BY <2>3
    <2>5. /\ Open(c)' \subseteq Open(c) \cup {x}
          /\ \A d \in Contexts : d # c => Open(d)' = Open(d) /\ Top(d)' = Top(d)
      BY <2>3, <2>4 DEF Open, Top
    <2>6. \A d \in Contexts : \A y \in Open(d)' : y.api \in object[y.key]
      BY <1>a, <2>1, <2>2, <2>5
    <2>7. \A d \in Contexts : step'[d] # "idle" =>
            /\ rec'[d].key = Top(d)'.key /\ rec'[d].key.tgid = ProcOf[d]
            /\ rec'[d].dir = Direction(Top(d)'.api)
            /\ rec'[d].life = life'[rec'[d].key]
      BY <2>1, <2>5 DEF SharedInv
    <2> QED
      BY <2>1, <2>6, <2>7 DEF SharedInv, Direction, Writes
  <1>6. ASSUME NEW c \in Contexts, NEW t \in Runs(c), ExitUnpaired(c, t) \/ ExitEmpty(c, t)
        PROVE  SharedInv'
    <2>1. /\ stack[c] # <<>> /\ stack' = Return(c) /\ step[c] = "idle"
          /\ UNCHANGED <<object, life, step, rec>>
      BY <1>6 DEF ExitUnpaired, ExitEmpty, progVars
    <2> QED
      BY <1>2, <2>1
  <1>7. ASSUME NEW c \in Contexts, NEW t \in Runs(c), ExitEmit(c, t) \/ ExitEmitMapFull(c, t)
        PROVE  SharedInv'
    <2> DEFINE p == args[ArgsMap(Top(c).api)][CallKey(Top(c).api, c, t)]
    <2>1. /\ stack[c] # <<>> /\ p # NoPtr
          /\ UNCHANGED <<stack, object, life>>
          /\ rec'[c].key = SslKey(c, p)
          /\ rec'[c].dir = Direction(Top(c).api)
          /\ rec'[c].life = life[Top(c).key]
          /\ \A d \in Contexts : d # c => step'[d] = step[d] /\ rec'[d] = rec[d]
      BY <1>0, <1>7 DEF ExitEmit, ExitEmitMapFull, SslKey
    <2>2. rec'[c].key = Top(c).key
      BY <1>0, <2>1, OwnArguments
    <2>3. \A d \in Contexts : Open(d)' = Open(d) /\ Top(d)' = Top(d)
      BY <2>1 DEF Open, Top
    <2>4. ASSUME NEW d \in Contexts, step'[d] # "idle"
          PROVE  /\ rec'[d].key = Top(d)'.key /\ rec'[d].key.tgid = ProcOf[d]
                 /\ rec'[d].dir = Direction(Top(d)'.api)
                 /\ rec'[d].life = life'[rec'[d].key]
      <3>1. CASE d = c
        BY <2>1, <2>2, <2>3, <3>1 DEF SslKey
      <3>2. CASE d # c
        BY <2>1, <2>3, <2>4, <3>2 DEF SharedInv
      <3> QED
        BY <3>1, <3>2
    <2>5. \A d \in Contexts : \A x \in Open(d)' : x.api \in object'[x.key]
      BY <2>1, <2>3 DEF SharedInv
    <2> QED
      BY <2>4, <2>5 DEF SharedInv, Direction, Writes
  <1>8. ASSUME NEW c \in Contexts, Number(c) \/ Reserve(c) PROVE SharedInv'
    <2>1. /\ step[c] # "idle" /\ UNCHANGED <<stack, object, life, rec>>
          /\ \A d \in Contexts : d # c => step'[d] = step[d]
      BY <1>0, <1>8 DEF Number, Reserve, appVars
    <2> QED
      BY <1>1, <2>1
  <1>9. ASSUME NEW c \in Contexts,
               SampleOut(c) \/ ReserveFail(c) \/ Submit(c) \/ \E why \in {2, 3} : Discard(c, why)
        PROVE  SharedInv'
    <2>1. /\ step[c] # "idle" /\ Finish(c) /\ UNCHANGED <<object, life>>
      BY <1>9 DEF SampleOut, ReserveFail, Submit, Discard
    <2>2. stack[c] # <<>> /\ stack' = Return(c)
      BY <1>0, <2>1 DEF Running, Finish
    <2> QED
      BY <1>2, <2>1, <2>2, FinishTypes
  <1>10. ASSUME NEW k \in Keys, InCall(k) = {}, object' = [object EXCEPT ![k] = {}],
                UNCHANGED <<stack, life, step, rec>>
         PROVE  SharedInv'
    BY <1>0, <1>3, <1>10, NotInCall
  <1>11. ASSUME NEW c \in Contexts, NEW ptr \in Ptrs, Free(c, ptr) PROVE SharedInv'
    <2>1. SslKey(c, ptr) \in Keys
      BY ProbesAssumption DEF SslKey, Keys
    <2> QED
      BY <1>10, <1>11, <2>1 DEF Free, progVars
  <1>12. ASSUME NEW k \in Keys, FreeUnprobed(k) PROVE SharedInv'
    BY <1>10, <1>12 DEF FreeUnprobed, progVars
  <1>13. ASSUME NEW k \in Keys, EvictState(k) PROVE SharedInv'
    BY <1>1, <1>13 DEF EvictState, appVars, progVars
  <1>14. ASSUME NEW m \in ArgsMaps, NEW c \in Contexts, EvictArgs(m, c) PROVE SharedInv'
    BY <1>1, <1>14 DEF EvictArgs, appVars, progVars
  <1>15. CASE Consume \/ ConsumeClose \/ UNCHANGED vars
    BY <1>1, <1>15 DEF Consume, ConsumeClose, vars, appVars, progVars
  <1> QED
    BY <1>4, <1>5, <1>6, <1>7, <1>8, <1>9, <1>11, <1>12, <1>13, <1>14, <1>15 DEF Next

-----------------------------------------------------------------------------
(* Which object a generation names.                                        *)

(* An object in a call is there.                                           *)
InUse == \A c \in Contexts : \A i \in 1..Len(stack[c]) : object[stack[c][i].key] # {}

(* It is called through its library.                                       *)
LEMMA SharedInUse == SharedInv => InUse
  BY DEF SharedInv, InUse, Open

(* The closes userspace has or will see.                                   *)
Closed == closed \cup {closes[i] : i \in DOMAIN closes}

(* All closes, read or not, are well formed.                               *)
LEMMA ClosedType ==
  ASSUME TypeOK
  PROVE  Closed \subseteq Close
  <1>1. \A i \in DOMAIN closes : closes[i] \in Close
    BY LenProperties, ElementOfSeq DEF TypeOK
  <1> QED
    BY <1>1 DEF Closed, TypeOK

(* What the state of an address says of the records and closes of the      *)
(* objects that were there: the current generation is the one of the live  *)
(* object, and earlier ones are used up.                                   *)
Named(k) ==
  /\ (\E d \in Dirs : tried[k][d] > 0) => state[k] # NoState
  /\ \A r \in Produced : r.key = k =>
        /\ state[k] # NoState /\ r.gen <= state[k].gen
        /\ r.gen = state[k].gen => r.life = life[k] /\ object[k] # {}
  /\ \A r, s \in Produced : r.key = k /\ s.key = k /\ r.gen = s.gen => r.life = s.life
  /\ \A x \in Closed : x.used /\ x.key = k =>
        /\ state[k] # NoState /\ x.gen < state[k].gen
        /\ \A r \in Produced : r.key = k /\ r.gen = x.gen => r.life = x.life

Unlapsed(k) == ~Lapsed(k, {"dropped", "freed"})

GenerationInv == \A k \in Keys : Unlapsed(k) => Named(k)

(* Nothing was numbered at first.                                          *)
LEMMA GenerationInit == Init => GenerationInv
  <1> SUFFICES ASSUME Init, NEW k \in Keys PROVE Named(k)
    BY DEF GenerationInv
  <1>1. Produced = {} /\ Closed = {}
    BY DEF Init, Produced, Seen, Busy, Closed
  <1>2. \A d \in Dirs : ~(tried[k][d] > 0)
    BY DEF Init
  <1> QED
    BY <1>1, <1>2 DEF Named

(* A lapse is never forgotten.                                             *)
LEMMA LapsesGrow == TypeInv /\ [Next]_vars => lapses \subseteq lapses'
  <1> SUFFICES ASSUME TypeInv, [Next]_vars PROVE lapses \subseteq lapses'
    OBVIOUS
  <1>1. ASSUME NEW c \in Contexts, NEW t \in Runs(c), ExitEmit(c, t) \/ ExitEmitMapFull(c, t)
        PROVE  lapses \subseteq lapses'
    BY <1>1 DEF ExitEmit, ExitEmitMapFull
  <1>2. CASE Apart
    BY <1>2, ZenonT(60) DEF Apart, Allocate, Entry, ExitUnpaired, ExitEmpty, Free, EvictArgs,
                FreeUnprobed, EvictState, ConsumeClose, vars, kernVars
  <1>3. CASE Consume
    BY <1>3 DEF Consume, kernVars
  <1>4. ASSUME NEW c \in Contexts,
               \/ Number(c) \/ SampleOut(c) \/ ReserveFail(c) \/ Reserve(c) \/ Submit(c)
               \/ \E why \in {2, 3} : Discard(c, why)
        PROVE  lapses \subseteq lapses'
    BY <1>4 DEF Number, SampleOut, ReserveFail, Reserve, Submit, Discard, kernVars
  <1> QED
    BY StepKinds, <1>1, <1>2, <1>3, <1>4

(* A step that adds no record or close of an address and leaves its state  *)
(* and its object alone keeps Named.                                       *)
LEMMA NamedFrame ==
  ASSUME NEW k \in Keys, Named(k),
         (\E d \in Dirs : tried'[k][d] > 0) => \E d \in Dirs : tried[k][d] > 0,
         state'[k] = NoState <=> state[k] = NoState,
         state'[k].gen = state[k].gen,
         life'[k] = life[k], object'[k] = object[k],
         \A r \in Produced' : r.key = k => r \in Produced,
         \A x \in Closed' : x.key = k => x \in Closed
  PROVE  Named(k)'
  <1>1. (\E d \in Dirs : tried'[k][d] > 0) => state'[k] # NoState
    BY DEF Named
  <1>2. \A r \in Produced' : r.key = k =>
          /\ state'[k] # NoState /\ r.gen <= state'[k].gen
          /\ r.gen = state'[k].gen => r.life = life'[k] /\ object'[k] # {}
    BY DEF Named
  <1>3. \A r, s \in Produced' : r.key = k /\ s.key = k /\ r.gen = s.gen => r.life = s.life
    BY DEF Named
  <1>4. \A x \in Closed' : x.used /\ x.key = k =>
          /\ state'[k] # NoState /\ x.gen < state'[k].gen
          /\ \A r \in Produced' : r.key = k /\ r.gen = x.gen => r.life = x.life
    BY DEF Named
  <1> QED
    BY <1>1, <1>2, <1>3, <1>4 DEF Named

(* An element that is there is not the absent one.                         *)
LEMMA StateIsNot ==
  /\ NoState \notin [gen : Nat, seq : [Dirs -> Nat]]
  /\ ZeroState # NoState /\ ZeroState.gen = 0
  <1>1. <<>> \notin [Dirs -> Nat]
    <2>1. DOMAIN <<>> = {} /\ 0 \in Dirs
      BY DEF Dirs
    <2> QED
      BY <2>1
  <1>2. NoState.seq = <<>> /\ ZeroState.seq \in [Dirs -> Nat] /\ ZeroState.gen = 0
    BY DEF NoState, ZeroState
  <1> QED
    BY <1>1, <1>2

(* Only SSL_free adds a close.                                             *)
LEMMA ClosedStep ==
  ASSUME TypeInv, [Next]_vars
  PROVE  \/ Closed' \subseteq Closed
         \/ \E c \in Contexts, ptr \in Ptrs : Free(c, ptr)
  <1>0. closes \in Seq(Close) /\ Len(closes) \in Nat /\ DOMAIN closes = 1..Len(closes)
    BY LenProperties DEF TypeInv, TypeOK
  <1>1. ASSUME UNCHANGED <<closes, closed>> PROVE Closed' \subseteq Closed
    BY <1>1 DEF Closed
  <1>2. ASSUME ConsumeClose PROVE Closed' \subseteq Closed
    <2> DEFINE n == Len(closes)
    <2>1. closes # <<>> /\ closes' = Tail(closes) /\ closed' = closed \cup {Head(closes)}
      BY <1>2 DEF ConsumeClose
    <2>2. /\ DOMAIN closes' = 1..(n - 1) /\ n > 0
          /\ \A i \in 1..(n - 1) : closes'[i] = closes[i + 1]
          /\ Head(closes) = closes[1]
      <3>1. closes' \in Seq(Close) /\ Len(closes') = n - 1 /\ n > 0
            /\ \A i \in 1..Len(closes') : closes'[i] = closes[i + 1]
        BY <1>0, <2>1, HeadTailProperties, EmptySeq
      <3> QED
        BY <1>0, <2>1, <3>1, LenProperties
    <2>3. 1 \in 1..n /\ \A i \in 1..(n - 1) : i + 1 \in 1..n
      BY <1>0, <2>2
    <2>4. ASSUME NEW i \in 1..(n - 1) PROVE closes'[i] \in {closes[j] : j \in 1..n}
      BY <2>2, <2>3
    <2> QED
      BY <1>0, <2>1, <2>2, <2>3, <2>4 DEF Closed
  <1>3. CASE Apart
    BY <1>1, <1>2, <1>3, ZenonT(60) DEF Apart, Allocate, Entry, ExitUnpaired, ExitEmpty, EvictArgs,
                            FreeUnprobed, EvictState, vars, userVars
  <1>4. ASSUME NEW c \in Contexts, NEW t \in Runs(c), ExitEmit(c, t) \/ ExitEmitMapFull(c, t)
        PROVE  Closed' \subseteq Closed
    BY <1>1, <1>4 DEF ExitEmit, ExitEmitMapFull, userVars
  <1>5. CASE Consume
    BY <1>1, <1>5 DEF Consume
  <1>6. ASSUME NEW c \in Contexts,
               \/ Number(c) \/ SampleOut(c) \/ ReserveFail(c) \/ Reserve(c) \/ Submit(c)
               \/ \E why \in {2, 3} : Discard(c, why)
        PROVE  Closed' \subseteq Closed
    BY <1>1, <1>6 DEF Number, SampleOut, ReserveFail, Reserve, Submit, Discard, userVars
  <1> QED
    BY StepKinds, <1>3, <1>4, <1>5, <1>6

(* A step that is neither an attempt nor a free adds no record, no close.  *)
LEMMA NothingNew ==
  ASSUME TypeInv, [Next]_vars,
         ~\E c \in Contexts : \E t \in Runs(c) : ExitEmit(c, t) \/ ExitEmitMapFull(c, t),
         ~\E c \in Contexts, ptr \in Ptrs : Free(c, ptr)
  PROVE  Produced' \subseteq Produced /\ Closed' \subseteq Closed
  BY ProducedStep, ClosedStep

(* A new record carries the generation of the live object.                 *)
LEMMA EmitNames ==
  ASSUME TypeInv, CallsInv, InUse, NEW c \in Contexts, NEW t \in Runs(c), ExitEmit(c, t),
         [Next]_vars, NEW k \in Keys, Named(k)
  PROVE  Named(k)'
  <1> DEFINE api == Top(c).api
             o == Top(c).key
             st == FoundState(o)
             new == NewRecord(c, t, st.gen, st.seq[Direction(api)])
  <1>0. /\ TypeOK /\ rec \in [Contexts -> Record \cup {NoRecord}]
        /\ state \in [Keys -> [gen : Nat, seq : [Dirs -> Nat]] \cup {NoState}]
        /\ tried \in [Keys -> [Dirs -> Nat]]
    BY DEF TypeInv, TypeOK
  <1>1. stack[c] # <<>> /\ args[ArgsMap(api)][CallKey(api, c, t)] # NoPtr
    BY DEF ExitEmit
  <1>2. CallKey(api, c, t) = c /\ o = SslKey(c, args[ArgsMap(api)][CallKey(api, c, t)])
    BY <1>0, <1>1, OwnArguments
  <1>3. o \in Keys /\ object[o] # {} /\ Direction(api) \in Dirs
    <2>1. Len(stack[c]) \in Nat \ {0} /\ Len(stack[c]) \in 1..Len(stack[c])
      BY <1>0, <1>1, ReturnProperties
    <2> QED
      BY <1>0, <1>1, <2>1, ExitTypes DEF InUse, Top
  <1>4. /\ state' = [state EXCEPT ![o] = st]
        /\ tried' = [tried EXCEPT ![o][Direction(api)] = @ + 1]
        /\ rec' = [rec EXCEPT ![c] = new]
        /\ UNCHANGED <<object, life, ring, closes, userVars>>
    <2> DEFINE j == SslKey(c, args[ArgsMap(api)][CallKey(api, c, t)])
               found == FoundState(j)
    <2>1. /\ state' = [state EXCEPT ![j] = found]
          /\ tried' = [tried EXCEPT ![o][Direction(api)] = @ + 1]
          /\ rec' = [rec EXCEPT ![c] = NewRecord(c, t, found.gen, found.seq[Direction(api)])]
          /\ UNCHANGED <<object, life, ring, closes, userVars>>
      BY <1>0, EmitChanges
    <2>2. j = o
      BY <1>2
    <2> HIDE DEF j, o
    <2> QED
      BY <2>1, <2>2
  <1>5. /\ new.key = o /\ new.gen = st.gen /\ new.life = life[o]
    BY <1>2 DEF NewRecord, SslKey
  <1>6. rec'[c] = new
    BY <1>0, <1>4
  <1>7. Produced' \subseteq Produced \cup {new}
    BY <1>0, <1>6, EmitProduces
  <1>8. Closed' = Closed
    BY <1>4 DEF Closed, userVars
  <1>9. st \in [gen : Nat, seq : [Dirs -> Nat]] /\ st # NoState
    BY <1>0, <1>3, FoundStateType, StateIsNot
  <1>10. /\ state'[o] = st
         /\ \A j \in Keys : j # o => state'[j] = state[j] /\ tried'[j] = tried[j]
    BY <1>0, <1>3, <1>4
  <1> HIDE DEF api, o, st, new
  <1>11. CASE k # o
    <2>1. \A r \in Produced' : r.key = k => r \in Produced
      BY <1>5, <1>7, <1>11
    <2> QED
      BY <1>4, <1>8, <1>10, <1>11, <2>1, NamedFrame
  <1>12. CASE k = o
    <2>1. state[k] # NoState => st = state[k]
      BY <1>12 DEF st, FoundState
    <2>2. \A r \in Produced : r.key = k => st = state[k] /\ r.gen <= st.gen
      BY <2>1 DEF Named
    <2>3. \A r \in Produced' : r.key = k =>
            /\ state'[k] # NoState /\ r.gen <= state'[k].gen
            /\ r.gen = state'[k].gen => r.life = life'[k] /\ object'[k] # {}
      <3>1. ASSUME NEW r \in Produced, r.key = k
            PROVE  /\ r.gen <= st.gen
                   /\ r.gen = st.gen => r.life = life[k] /\ object[k] # {}
        BY <2>2, <3>1 DEF Named
      <3>2. new.gen <= st.gen /\ new.life = life[k] /\ object[k] # {}
        BY <1>3, <1>5, <1>9, <1>12
      <3>3. state'[k] = st /\ life'[k] = life[k] /\ object'[k] = object[k]
        BY <1>4, <1>10, <1>12
      <3> QED
        BY <1>7, <1>9, <3>1, <3>2, <3>3
    <2>4. \A r \in Produced : r.key = k /\ r.gen = new.gen => r.life = new.life
      BY <1>5, <1>12, <2>2 DEF Named
    <2>5. \A r, s \in Produced' : r.key = k /\ s.key = k /\ r.gen = s.gen => r.life = s.life
      BY <1>7, <2>4 DEF Named
    <2>6. ASSUME NEW x \in Closed', x.used, x.key = k
          PROVE  /\ state'[k] # NoState /\ x.gen < state'[k].gen
                 /\ \A r \in Produced' : r.key = k /\ r.gen = x.gen => r.life = x.life
      <3>1. /\ state[k] # NoState /\ x.gen < state[k].gen
            /\ \A r \in Produced : r.key = k /\ r.gen = x.gen => r.life = x.life
        BY <1>8, <2>6 DEF Named
      <3>2. x.gen \in Nat /\ st.gen \in Nat /\ st = state[k] /\ state'[k] = st
        <4>1. x \in Close
          BY <1>0, <1>8, ClosedType
        <4> QED
          BY <1>9, <1>10, <1>12, <2>1, <3>1, <4>1 DEF Close
      <3>3. x.gen # new.gen
        BY <1>5, <3>1, <3>2
      <3> QED
        BY <1>7, <1>9, <3>1, <3>2, <3>3
    <2>7. state'[k] # NoState
      BY <1>9, <1>10, <1>12
    <2> QED
      BY <2>3, <2>5, <2>6, <2>7 DEF Named
  <1> QED
    BY <1>11, <1>12

(* SSL_free closes the object with its generation and takes the next one.  *)
LEMMA FreeNames ==
  ASSUME TypeInv, NEW c \in Contexts, NEW ptr \in Ptrs, Free(c, ptr),
         Produced' \subseteq Produced, NEW k \in Keys, Named(k)
  PROVE  Named(k)'
  <1> DEFINE o == SslKey(c, ptr)
             used == \E d \in Dirs : tried[o][d] > 0
             x == [key |-> o, gen |-> state[o].gen, life |-> life[o], used |-> used]
             st == NextGeneration(state[o])
  <1>0. /\ TypeOK /\ closes \in Seq(Close)
        /\ state \in [Keys -> [gen : Nat, seq : [Dirs -> Nat]] \cup {NoState}]
        /\ object \in [Keys -> Libraries \cup {{}}] /\ life \in [Keys -> Nat]
    BY DEF TypeInv, TypeOK
  <1>1. o \in Keys
    BY ProbesAssumption DEF SslKey, Keys
  <1> HIDE DEF o
  <1>2. /\ object' = [object EXCEPT ![o] = {}]
        /\ state' = IF state[o] = NoState THEN state ELSE [state EXCEPT ![o] = st]
        /\ closes' = Append(closes, x) \/ closes' = closes
        /\ UNCHANGED <<life, tried, closed>>
    BY DEF Free, o, userVars
  <1>3. /\ x.key = o /\ x.gen = state[o].gen /\ x.life = life[o] /\ x.used = used
    OBVIOUS
  <1>a. NoState.gen = 0 /\ state[o].gen \in Nat
    <2>1. NoState.gen = 0 /\ 0 \in Nat
      BY DEF NoState
    <2> QED
      BY <1>0, <1>1, <2>1
  <1>4. x \in Close
    <2>1. used \in BOOLEAN
      OBVIOUS
    <2> HIDE DEF used
    <2> QED
      BY <1>0, <1>1, <1>a, <2>1 DEF Close
  <1>5. st.gen = state[o].gen + 1 /\ st # NoState
    <2>1. st \in [gen : Nat, seq : [Dirs -> Nat]] /\ st.gen = state[o].gen + 1
      BY <1>a DEF NextGeneration
    <2> QED
      BY <2>1, StateIsNot
  <1> HIDE DEF used, x, st
  <1>6. Closed' \subseteq Closed \cup {x}
    <2>1. CASE closes' = closes
      BY <1>2, <2>1 DEF Closed
    <2>2. CASE closes' = Append(closes, x)
      <3> DEFINE n == Len(closes)
      <3>1. n \in Nat /\ DOMAIN closes = 1..n
        BY <1>0, LenProperties
      <3>2. /\ DOMAIN closes' = 1..(n + 1)
            /\ \A i \in 1..n : closes'[i] = closes[i]
            /\ closes'[n + 1] = x
        BY <1>0, <1>4, <2>2, AppendProperties, LenProperties
      <3>3. \A i \in 1..(n + 1) : i \in 1..n \/ i = n + 1
        BY <3>1
      <3> QED
        BY <1>2, <3>1, <3>2, <3>3 DEF Closed
    <2> QED
      BY <1>2, <2>1, <2>2
  <1>7. \A j \in Keys : j # o => state'[j] = state[j] /\ object'[j] = object[j]
    BY <1>0, <1>2
  <1>8. CASE k # o
    <2>1. \A y \in Closed' : y.key = k => y \in Closed
      BY <1>3, <1>6, <1>8
    <2> QED
      BY <1>2, <1>7, <1>8, <2>1, NamedFrame
  <1>9. CASE k = o /\ state[k] = NoState
    <2>1. \A r \in Produced' : r.key # k
      BY <1>9 DEF Named
    <2>2. state' = state
      BY <1>2, <1>9
    <2>3. \A y \in Closed' : y.key = k => ~y.used
      BY <1>3, <1>6, <1>9 DEF Named, used
    <2> QED
      BY <1>2, <1>9, <2>1, <2>2, <2>3 DEF Named
  <1>10. CASE k = o /\ state[k] # NoState
    <2>1. state'[k] = st
      BY <1>0, <1>1, <1>2, <1>10
    <2>2. \A r \in Produced : r.gen \in Nat
      BY ProducedType DEF Record
    <2>3. \A r \in Produced' : r.key = k =>
            state'[k] # NoState /\ r.gen <= state'[k].gen /\ r.gen # state'[k].gen
      BY <1>5, <1>10, <1>a, <2>1, <2>2 DEF Named
    <2>4. \A r, s \in Produced' : r.key = k /\ s.key = k /\ r.gen = s.gen => r.life = s.life
      BY DEF Named
    <2>5. ASSUME NEW y \in Closed', y.used, y.key = k
          PROVE  /\ state'[k] # NoState /\ y.gen < state'[k].gen
                 /\ \A r \in Produced' : r.key = k /\ r.gen = y.gen => r.life = y.life
      <3>1. CASE y \in Closed
        <4>1. y.gen \in Nat
          BY <1>0, <3>1, ClosedType DEF Close
        <4>2. /\ y.gen < state[k].gen
              /\ \A r \in Produced : r.key = k /\ r.gen = y.gen => r.life = y.life
          BY <2>5, <3>1 DEF Named
        <4> QED
          BY <1>5, <1>10, <1>a, <2>1, <4>1, <4>2
      <3>2. CASE y = x
        <4>1. \A r \in Produced : r.key = k /\ r.gen = state[k].gen => r.life = life[k]
          BY DEF Named
        <4> QED
          BY <1>3, <1>5, <1>10, <1>a, <2>1, <3>2, <4>1
      <3> QED
        BY <1>6, <3>1, <3>2
    <2>6. (\E d \in Dirs : tried'[k][d] > 0) => state'[k] # NoState
      BY <1>5, <2>1
    <2> QED
      BY <2>3, <2>4, <2>5, <2>6 DEF Named
  <1> QED
    BY <1>8, <1>9, <1>10

(* A step keeps the generations apart at every address without a lapse.    *)
LEMMA GenerationStep ==
  TypeInv /\ CallsInv /\ InUse /\ GenerationInv /\ [Next]_vars => GenerationInv'
  <1> SUFFICES ASSUME TypeInv, CallsInv, InUse, GenerationInv, [Next]_vars,
                      NEW k \in Keys, Unlapsed(k)'
               PROVE  Named(k)'
    BY DEF GenerationInv
  <1>0. /\ TypeOK /\ Running
        /\ state \in [Keys -> [gen : Nat, seq : [Dirs -> Nat]] \cup {NoState}]
        /\ object \in [Keys -> Libraries \cup {{}}] /\ life \in [Keys -> Nat]
        /\ tried \in [Keys -> [Dirs -> Nat]]
    BY DEF TypeInv, TypeOK
  <1>a. Named(k)
    BY LapsesGrow DEF Unlapsed, Lapsed, GenerationInv
  <1>b. \A why \in {"dropped", "freed"} : [key |-> k, why |-> why] \notin lapses'
    BY DEF Unlapsed, Lapsed
  <1>1. ASSUME UNCHANGED <<object, life, tried, state>>,
               Produced' \subseteq Produced, Closed' \subseteq Closed
        PROVE  Named(k)'
    BY <1>1, <1>a, NamedFrame
  <1>2. ASSUME NEW c \in Contexts, NEW t \in Runs(c), ExitEmit(c, t) PROVE Named(k)'
    BY <1>2, <1>a, EmitNames
  <1>3. ASSUME NEW c \in Contexts, NEW t \in Runs(c), ExitEmitMapFull(c, t) PROVE Named(k)'
    <2> DEFINE o == Top(c).key
               d == Direction(Top(c).api)
               j == SslKey(c, args[ArgsMap(Top(c).api)][CallKey(Top(c).api, c, t)])
    <2>1. /\ stack[c] # <<>>
          /\ args[ArgsMap(Top(c).api)][CallKey(Top(c).api, c, t)] # NoPtr
          /\ lapses' = lapses \cup {[key |-> j, why |-> "dropped"]}
          /\ tried' = [tried EXCEPT ![o][d] = @ + 1]
          /\ rec' = [rec EXCEPT ![c] = NewRecord(c, t, 0, 0)]
          /\ UNCHANGED <<object, life, state, ring, closes, userVars>>
      BY <1>0, <1>3, MapFullChanges
    <2>2. j = o /\ o \in Keys
      BY <1>0, <2>1, OwnArguments, ExitTypes
    <2>3. NewRecord(c, t, 0, 0).key = j
      BY DEF NewRecord, SslKey
    <2>4. /\ rec \in [Contexts -> Record \cup {NoRecord}]
          /\ step \in [Contexts -> {"idle", "counted", "numbered", "reserved"}]
      BY <1>0 DEF TypeOK
    <2>5. Produced' \subseteq Produced \cup {NewRecord(c, t, 0, 0)}
      <3>1. /\ ring' = ring /\ read' = read /\ rec'[c] = NewRecord(c, t, 0, 0)
            /\ \A e \in Contexts : e # c => step'[e] = step[e] /\ rec'[e] = rec[e]
        BY <1>3, <2>1, <2>4 DEF ExitEmitMapFull, userVars
      <3>2. Seen' = Seen
        BY <3>1 DEF Seen
      <3> QED
        BY <3>1, <3>2 DEF Produced, Busy
    <2>6. Closed' = Closed
      BY <2>1 DEF Closed, userVars
    <2> HIDE DEF o, d, j
    <2>7. k # j
      BY <1>b, <2>1
    <2>8. tried'[k] = tried[k]
      BY <1>0, <2>1, <2>2, <2>7
    <2>9. \A r \in Produced' : r.key = k => r \in Produced
      BY <2>3, <2>5, <2>7
    <2> QED
      BY <1>a, <2>1, <2>6, <2>8, <2>9, NamedFrame
  <1>4. ASSUME NEW c \in Contexts, NEW ptr \in Ptrs, Free(c, ptr) PROVE Named(k)'
    <2>1. UNCHANGED <<step, rec, ring, read>>
      BY <1>4 DEF Free, progVars, userVars
    <2>2. Produced' = Produced
      BY <2>1 DEF Produced, Seen, Busy
    <2> QED
      BY <1>4, <1>a, <2>2, FreeNames
  <1>5. ASSUME Produced' \subseteq Produced, Closed' \subseteq Closed,
               NEW j \in Keys, NEW l \in Libraries, Allocate(j, l)
        PROVE  Named(k)'
    <2>1. /\ object[j] = {} /\ object' = [object EXCEPT ![j] = l]
          /\ life' = [life EXCEPT ![j] = @ + 1]
          /\ tried' = [tried EXCEPT ![j] = [d \in Dirs |-> 0]]
          /\ state' = state
      BY <1>5 DEF Allocate
    <2>2. CASE k # j
      <3>1. object'[k] = object[k] /\ life'[k] = life[k] /\ tried'[k] = tried[k]
        BY <1>0, <2>1, <2>2
      <3> QED
        BY <1>5, <1>a, <2>1, <3>1, NamedFrame
    <2>3. CASE k = j
      <3>1. \A d \in Dirs : ~(tried'[k][d] > 0)
        BY <1>0, <2>1, <2>3
      <3>2. \A r \in Produced' : r.key = k =>
              state'[k] # NoState /\ r.gen <= state'[k].gen /\ r.gen # state'[k].gen
        BY <1>5, <1>a, <2>1, <2>3 DEF Named
      <3>3. \A r, s \in Produced' : r.key = k /\ s.key = k /\ r.gen = s.gen => r.life = s.life
        BY <1>5, <1>a DEF Named
      <3>4. \A x \in Closed' : x.used /\ x.key = k =>
              /\ state'[k] # NoState /\ x.gen < state'[k].gen
              /\ \A r \in Produced' : r.key = k /\ r.gen = x.gen => r.life = x.life
        BY <1>5, <1>a, <2>1 DEF Named
      <3> QED
        BY <3>1, <3>2, <3>3, <3>4 DEF Named
    <2> QED
      BY <2>2, <2>3
  <1>6. ASSUME Produced' \subseteq Produced, Closed' \subseteq Closed,
               NEW c \in Contexts, Number(c)
        PROVE  Named(k)'
    <2> DEFINE j == SslKey(c, rec[c].key.ptr)
    <2>1. rec[c] \in Record
      BY <1>0, <1>6 DEF Number, Running
    <2>2. j \in Keys /\ rec[c].dir \in Dirs /\ rec[c].seq + 1 \in Nat
      BY <2>1, ProbesAssumption DEF SslKey, Keys, Record
    <2> HIDE DEF j
    <2>3. /\ state' = IF state[j] = NoState THEN state
                      ELSE [state EXCEPT ![j].seq[rec[c].dir] = rec[c].seq + 1]
          /\ UNCHANGED <<object, life, tried>>
      BY <1>6 DEF Number, Advance, appVars, j
    <2>4. CASE state[j] = NoState \/ k # j
      <3>1. state'[k] = state[k]
        BY <1>0, <2>2, <2>3, <2>4
      <3> QED
        BY <1>6, <1>a, <2>3, <3>1, NamedFrame
    <2>5. CASE state[j] # NoState /\ k = j
      <3> DEFINE st == [state[k] EXCEPT !.seq[rec[c].dir] = rec[c].seq + 1]
      <3>1. state[k] \in [gen : Nat, seq : [Dirs -> Nat]]
        BY <1>0, <2>2, <2>5
      <3>2. st \in [gen : Nat, seq : [Dirs -> Nat]] /\ st.gen = state[k].gen
        BY <2>2, <3>1
      <3>3. state'[k] = st
        BY <1>0, <2>3, <2>5
      <3> HIDE DEF st
      <3>4. state'[k] # NoState /\ state'[k].gen = state[k].gen
        BY <3>2, <3>3, StateIsNot
      <3> QED
        BY <1>6, <1>a, <2>3, <2>5, <3>4, NamedFrame
    <2> QED
      BY <2>4, <2>5
  <1>7. ASSUME Produced' \subseteq Produced, Closed' \subseteq Closed,
               NEW j \in Keys, FreeUnprobed(j)
        PROVE  Named(k)'
    <2>1. /\ lapses' = lapses \cup {[key |-> j, why |-> "freed"]}
          /\ object' = [object EXCEPT ![j] = {}]
          /\ UNCHANGED <<life, tried, state>>
      BY <1>7 DEF FreeUnprobed
    <2>2. k # j
      BY <1>b, <2>1
    <2>3. object'[k] = object[k]
      BY <1>0, <2>1, <2>2
    <2> QED
      BY <1>7, <1>a, <2>1, <2>3, NamedFrame
  <1>8. ASSUME Produced' \subseteq Produced, Closed' \subseteq Closed,
               NEW j \in Keys, EvictState(j)
        PROVE  Named(k)'
    <2>1. /\ lapses' = lapses \cup {[key |-> j, why |-> "dropped"]}
          /\ state' = [state EXCEPT ![j] = NoState]
          /\ UNCHANGED <<object, life, tried>>
      BY <1>8 DEF EvictState, appVars
    <2>2. k # j
      BY <1>b, <2>1
    <2>3. state'[k] = state[k]
      BY <1>0, <2>1, <2>2
    <2> QED
      BY <1>8, <1>a, <2>1, <2>3, NamedFrame
  <1>9. ASSUME Produced' \subseteq Produced, Closed' \subseteq Closed PROVE Named(k)'
    <2>1. CASE Apart
      <3>1. ASSUME NEW c \in Contexts, NEW t \in Runs(c), NEW api \in Apis, NEW j \in Keys,
                   Entry(c, t, api, j)
            PROVE  Named(k)'
        BY <1>1, <1>9, <3>1 DEF Entry
      <3>2. ASSUME NEW c \in Contexts, NEW t \in Runs(c),
                   ExitUnpaired(c, t) \/ ExitEmpty(c, t)
            PROVE  Named(k)'
        BY <1>1, <1>9, <3>2 DEF ExitUnpaired, ExitEmpty
      <3>3. ASSUME NEW c \in Contexts, NEW m \in ArgsMaps, EvictArgs(m, c) PROVE Named(k)'
        BY <1>1, <1>9, <3>3 DEF EvictArgs, appVars
      <3>4. CASE ConsumeClose \/ UNCHANGED vars
        BY <1>1, <1>9, <3>4 DEF ConsumeClose, vars, appVars
      <3> QED
        BY <1>4, <1>5, <1>7, <1>8, <1>9, <2>1, <3>1, <3>2, <3>3, <3>4 DEF Apart
    <2>2. ASSUME NEW c \in Contexts,
                 \/ SampleOut(c) \/ ReserveFail(c) \/ Reserve(c) \/ Submit(c)
                 \/ \E why \in {2, 3} : Discard(c, why)
          PROVE  Named(k)'
      BY <1>1, <1>9, <2>2 DEF SampleOut, ReserveFail, Reserve, Submit, Discard, appVars
    <2>3. CASE Consume
      BY <1>1, <1>9, <2>3 DEF Consume, appVars
    <2> QED
      BY StepKinds, <1>2, <1>3, <1>6, <1>9, <2>1, <2>2, <2>3
  <1> QED
    BY <1>2, <1>3, <1>4, <1>9, NothingNew

(* Named, for all addresses, is what the property says.                    *)
LEMMA GenerationImplies ==
  TypeInv /\ GenerationInv => GenerationNamesObject
  <1> SUFFICES ASSUME TypeInv, GenerationInv PROVE GenerationNamesObject
    OBVIOUS
  <1>1. Seen \subseteq Produced /\ closed \subseteq Closed
    BY DEF Produced, Closed
  <1>2. \A r \in Produced : r.key \in Keys
    BY ProducedType DEF Record
  <1>3. ASSUME NEW r \in Seen, NEW s \in Seen, r.key = s.key, r.gen = s.gen,
               ~Lapsed(r.key, {"dropped", "freed"})
        PROVE  r.life = s.life
    <2>1. Named(r.key)
      BY <1>1, <1>2, <1>3 DEF GenerationInv, Unlapsed
    <2> QED
      BY <1>1, <1>3, <2>1 DEF Named
  <1>4. ASSUME NEW r \in Seen, NEW x \in closed, x.used, r.key = x.key, r.gen = x.gen,
               ~Lapsed(r.key, {"dropped", "freed"})
        PROVE  r.life = x.life
    <2>1. Named(r.key)
      BY <1>1, <1>2, <1>4 DEF GenerationInv, Unlapsed
    <2> QED
      BY <1>1, <1>4, <2>1 DEF Named
  <1> QED
    BY <1>3, <1>4 DEF GenerationNamesObject

(* ssl_free_entry and next_seq: the generation of a record or of the close *)
(* of a used object names one object at its address, unless ssl_state_map  *)
(* dropped the element or a library without a free probe freed one there.  *)
THEOREM GenerationsCorrect == Spec => []GenerationNamesObject
  BY TypeInit, TypeStep, CallsInit, CallsStep, SharedInit, SharedStep, SharedInUse,
     GenerationInit, GenerationStep, GenerationImplies, PTL DEF Spec

-----------------------------------------------------------------------------
(* What a gap in the numbers says.                                         *)

(* The element is gone, or two exit programs of the object overlapped.     *)
Loose == {"dropped", "raced"}
Noted(k, gone) == \E why \in Loose : [key |-> k, why |-> why] \in gone

(* It stays so.                                                            *)
LEMMA NotedStays ==
  /\ \A k : Lapsed(k, Loose) <=> Noted(k, lapses)
  /\ TypeInv /\ [Next]_vars => \A k : Noted(k, lapses) => Noted(k, lapses')
  BY LapsesGrow DEF Lapsed, Noted

(* No record is of an object still to come.                                *)
LivesInv == \A r \in Produced : r.life <= life[r.key]

(* Exit programs that run at once on one object and direction are noted.   *)
AloneInv ==
  \A c, d \in Contexts :
    c # d /\ step[c] # "idle" /\ step[d] # "idle"
    /\ rec[c].key = rec[d].key /\ rec[c].dir = rec[d].dir
    => Noted(rec[c].key, lapses)

(* Records whose numbers were taken from the same counter.                 *)
SameCounter(r, s) == r.key = s.key /\ r.gen = s.gen /\ r.dir = s.dir

Counting(c) == step[c] = "counted"
Waiting(c) == step[c] \in {"counted", "numbered"}

(* The records whose number was stored.                                    *)
Stored == Seen \cup {rec[c] : c \in {d \in Contexts : step[d] \in {"numbered", "reserved"}}}

(* The counters of an address, which are ahead of every stored number and  *)
(* count the attempts of the live object from some number on.              *)
Counters(k) ==
  /\ \A r \in Produced : r.key = k => state[k] # NoState /\ r.gen <= state[k].gen
  /\ \A r \in Stored :
        r.key = k /\ r.gen = state[k].gen => r.seq < state[k].seq[r.dir]
  /\ \A c \in Contexts : Counting(c) /\ rec[c].key = k =>
        /\ rec[c].gen = state[k].gen
        /\ tried[k][rec[c].dir] = rec[c].nth + 1
  /\ \A r \in Produced :
        /\ r.key = k /\ r.gen = state[k].gen /\ r.life = life[k]
        /\ \A c \in Contexts : Counting(c) => rec[c].key # k \/ rec[c].dir # r.dir
        => state[k].seq[r.dir] + r.nth = tried[k][r.dir] + r.seq
  /\ \A r, s \in Produced :
        r.key = k /\ SameCounter(r, s) /\ r.life = s.life
        => r.seq + s.nth = s.seq + r.nth

CountersInv == \A k \in Keys : ~Noted(k, lapses) => Counters(k)

(* The number of the first record is lower, unless the element is gone or  *)
(* exit programs overlapped.                                               *)
Before(x, y, gone) ==
  SameCounter(x, y) /\ (\A why \in Loose : [key |-> x.key, why |-> why] \notin gone)
  => x.seq < y.seq

(* Records are read, queued and produced in the order of their numbers.    *)
SequenceInv ==
  /\ \A i, j \in DOMAIN read : i < j => Before(read[i], read[j], lapses)
  /\ \A i \in DOMAIN read, j \in DOMAIN ring : Before(read[i], ring[j].rec, lapses)
  /\ \A i, j \in DOMAIN ring : i < j => Before(ring[i].rec, ring[j].rec, lapses)
  /\ \A x \in Seen, c \in Contexts : Waiting(c) => Before(x, rec[c], lapses)

(* A running program's object is there.                                    *)
LEMMA OwnThere ==
  ASSUME TypeInv, SharedInv, NEW c \in Contexts, step[c] # "idle"
  PROVE  rec[c] \in Record /\ rec[c].key \in Keys /\ object[rec[c].key] # {}
  <1>1. TypeOK /\ stack[c] # <<>> /\ rec[c] \in Record
    BY DEF TypeInv, Running
  <1>2. Top(c) \in Open(c) /\ Top(c).key \in Keys
    BY <1>1, OpenType
  <1>3. Top(c).api \in object[Top(c).key] /\ rec[c].key = Top(c).key
    BY <1>2 DEF SharedInv
  <1> QED
    BY <1>1, <1>2, <1>3

(* The record an exit probe starts with: it is about the live object of    *)
(* its call.                                                               *)
LEMMA EmitOf ==
  ASSUME TypeInv, CallsInv, SharedInv, NEW c \in Contexts, NEW t \in Runs(c),
         ExitEmit(c, t) \/ ExitEmitMapFull(c, t)
  PROVE  /\ rec'[c] \in Record /\ rec'[c].key = Top(c).key /\ Top(c).key \in Keys
         /\ rec'[c].key = SslKey(c, args[ArgsMap(Top(c).api)][CallKey(Top(c).api, c, t)])
         /\ rec'[c].dir = Direction(Top(c).api)
         /\ rec'[c].life = life[rec'[c].key]
         /\ rec'[c].nth = tried[rec'[c].key][rec'[c].dir]
         /\ step[c] = "idle" /\ step'[c] \in {"counted", "numbered"}
         /\ \A d \in Contexts : d # c => step'[d] = step[d] /\ rec'[d] = rec[d]
  <1> DEFINE api == Top(c).api
             k == Top(c).key
             p == args[ArgsMap(api)][CallKey(api, c, t)]
  <1>0. /\ TypeOK /\ Running
        /\ step \in [Contexts -> {"idle", "counted", "numbered", "reserved"}]
        /\ rec \in [Contexts -> Record \cup {NoRecord}]
    BY DEF TypeInv, TypeOK
  <1>1. /\ stack[c] # <<>> /\ p # NoPtr /\ step[c] = "idle"
        /\ rec'[c].key = SslKey(c, p)
        /\ rec'[c].dir = Direction(api) /\ rec'[c].life = life[k]
        /\ rec'[c].nth = tried[k][Direction(api)]
        /\ step'[c] \in {"counted", "numbered"}
        /\ \A d \in Contexts : d # c => step'[d] = step[d] /\ rec'[d] = rec[d]
    BY <1>0, SMTT(60) DEF ExitEmit, ExitEmitMapFull, SslKey
  <1>2. rec'[c] \in Record
    <2>1. CASE ExitEmit(c, t)
      <3>1. \E r \in Record : rec' = [rec EXCEPT ![c] = r]
        BY <1>0, <2>1, EmitChanges
      <3> QED
        BY <1>0, <3>1
    <2>2. CASE ExitEmitMapFull(c, t)
      <3>1. \E r \in Record : rec' = [rec EXCEPT ![c] = r]
        BY <1>0, <2>2, MapFullChanges
      <3> QED
        BY <1>0, <3>1
    <2> QED
      BY <2>1, <2>2
  <1>3. rec'[c].key = k
    BY <1>0, <1>1, OwnArguments
  <1>4. k \in Keys
    BY <1>0, <1>1, OpenType
  <1> QED
    BY <1>1, <1>2, <1>3, <1>4

(* An attempt that finds another program on its object and direction       *)
(* running is noted.                                                       *)
LEMMA EmitRaces ==
  ASSUME TypeInv, CallsInv, SharedInv, NEW c \in Contexts, NEW t \in Runs(c),
         ExitEmit(c, t) \/ ExitEmitMapFull(c, t),
         NEW d \in Contexts, step[d] # "idle", rec[d].key = rec'[c].key, rec[d].dir = rec'[c].dir
  PROVE  Noted(rec'[c].key, lapses')
  <1> DEFINE k == SslKey(c, args[ArgsMap(Top(c).api)][CallKey(Top(c).api, c, t)])
  <1>0. TypeOK
    BY DEF TypeInv
  <1>1. rec'[c].key = k /\ rec'[c].dir = Direction(Top(c).api)
    BY EmitOf
  <1> HIDE DEF k
  <1>2. CASE ExitEmit(c, t)
    <2>1. Racing(k, Direction(Top(c).api))
      BY <1>1 DEF Racing
    <2>2. lapses' = IF Racing(k, Direction(Top(c).api))
                    THEN lapses \cup {[key |-> k, why |-> "raced"]} ELSE lapses
      BY <1>0, <1>2, EmitChanges DEF k
    <2>3. [key |-> k, why |-> "raced"] \in lapses'
      BY <2>1, <2>2
    <2> QED
      BY <1>1, <2>3 DEF Noted, Loose
  <1>3. CASE ExitEmitMapFull(c, t)
    <2>1. lapses' = lapses \cup {[key |-> k, why |-> "dropped"]}
      BY <1>0, <1>3, MapFullChanges DEF k
    <2>2. [key |-> k, why |-> "dropped"] \in lapses'
      BY <2>1
    <2> QED
      BY <1>1, <2>2 DEF Noted, Loose
  <1> QED
    BY <1>2, <1>3

(* Nothing is produced at first.                                           *)
LEMMA NothingAtFirst == Init => Produced = {} /\ Stored = {} /\ Seen = {}
  BY DEF Init, Produced, Stored, Seen, Busy

(* What a step does to the objects.                                        *)
LEMMA ObjectsChange ==
  ASSUME TypeInv, [Next]_vars
  PROVE  \/ UNCHANGED <<object, life>>
         \/ life' = life /\ \E k \in Keys : InCall(k) = {} /\ object' = [object EXCEPT ![k] = {}]
         \/ \E k \in Keys, l \in Libraries : Allocate(k, l)
  <1>1. ASSUME NEW c \in Contexts, NEW ptr \in Ptrs, Free(c, ptr)
        PROVE  life' = life /\ \E k \in Keys : InCall(k) = {} /\ object' = [object EXCEPT ![k] = {}]
    <2>1. SslKey(c, ptr) \in Keys
      BY ProbesAssumption DEF SslKey, Keys
    <2> QED
      BY <1>1, <2>1 DEF Free
  <1>2. ASSUME NEW k \in Keys, FreeUnprobed(k)
        PROVE  life' = life /\ InCall(k) = {} /\ object' = [object EXCEPT ![k] = {}]
    BY <1>2 DEF FreeUnprobed
  <1>3. ASSUME NEW c \in Contexts, NEW t \in Runs(c),
               \/ \E api \in Apis, k \in Keys : Entry(c, t, api, k)
               \/ ExitUnpaired(c, t) \/ ExitEmpty(c, t) \/ ExitEmit(c, t) \/ ExitEmitMapFull(c, t)
        PROVE  UNCHANGED <<object, life>>
    BY <1>3 DEF Entry, ExitUnpaired, ExitEmpty, ExitEmit, ExitEmitMapFull
  <1>4. ASSUME NEW c \in Contexts,
               \/ Number(c) \/ SampleOut(c) \/ ReserveFail(c) \/ Reserve(c) \/ Submit(c)
               \/ \E why \in {2, 3} : Discard(c, why)
               \/ \E m \in ArgsMaps : EvictArgs(m, c)
        PROVE  UNCHANGED <<object, life>>
    BY <1>4 DEF Number, SampleOut, ReserveFail, Reserve, Submit, Discard, EvictArgs, appVars
  <1>5. ASSUME NEW k \in Keys, EvictState(k) PROVE UNCHANGED <<object, life>>
    BY <1>5 DEF EvictState, appVars
  <1>6. CASE Consume \/ ConsumeClose \/ UNCHANGED vars
    BY <1>6 DEF Consume, ConsumeClose, vars, appVars
  <1> QED
    BY <1>1, <1>2, <1>3, <1>4, <1>5, <1>6, ZenonT(60) DEF Next

(* A new record is of the live object.                                     *)
LEMMA LivesStep ==
  TypeInv /\ CallsInv /\ SharedInv /\ LivesInv /\ [Next]_vars => LivesInv'
  <1> SUFFICES ASSUME TypeInv, CallsInv, SharedInv, LivesInv, [Next]_vars PROVE LivesInv'
    OBVIOUS
  <1>0. life \in [Keys -> Nat]
    BY DEF TypeInv, TypeOK
  <1>1. \A r \in Produced : r \in Record /\ r.key \in Keys /\ r.life \in Nat
    BY ProducedType DEF Record
  <1>2. \A k \in Keys : life[k] <= life'[k] /\ life[k] \in Nat /\ life'[k] \in Nat
    <2>1. CASE life' = life
      BY <1>0, <2>1
    <2>2. ASSUME NEW k \in Keys, NEW l \in Libraries, Allocate(k, l)
          PROVE  \A j \in Keys : life[j] <= life'[j] /\ life[j] \in Nat /\ life'[j] \in Nat
      <3>1. life' = [life EXCEPT ![k] = @ + 1]
        BY <2>2 DEF Allocate
      <3> QED
        BY <1>0, <3>1
    <2> QED
      BY <2>1, <2>2, ObjectsChange
  <1>3. \A r \in Produced : r.life <= life'[r.key]
    BY <1>1, <1>2 DEF LivesInv
  <1>4. ASSUME NEW c \in Contexts, NEW t \in Runs(c), ExitEmit(c, t) \/ ExitEmitMapFull(c, t)
        PROVE  rec'[c].life <= life'[rec'[c].key]
    <2>1. rec'[c].key \in Keys /\ rec'[c].life = life[rec'[c].key]
      BY <1>4, EmitOf
    <2> QED
      BY <1>2, <2>1
  <1> QED
    BY <1>3, <1>4, ProducedStep DEF LivesInv

(* Two programs run at once on one object and direction only after the     *)
(* second one's attempt noted it.                                          *)
LEMMA AloneStep ==
  TypeInv /\ CallsInv /\ SharedInv /\ AloneInv /\ [Next]_vars => AloneInv'
  <1> SUFFICES ASSUME TypeInv, CallsInv, SharedInv, AloneInv, [Next]_vars PROVE AloneInv'
    OBVIOUS
  <1>0. /\ step \in [Contexts -> {"idle", "counted", "numbered", "reserved"}]
        /\ rec \in [Contexts -> Record \cup {NoRecord}]
    BY DEF TypeInv, TypeOK
  <1>a. \A k : Noted(k, lapses) => Noted(k, lapses')
    BY NotedStays
  <1>1. ASSUME \A c \in Contexts : step'[c] # "idle" => step[c] # "idle" /\ rec'[c] = rec[c]
        PROVE  AloneInv'
    BY <1>1, <1>a DEF AloneInv
  <1>2. ASSUME NEW c \in Contexts, NEW t \in Runs(c), ExitEmit(c, t) \/ ExitEmitMapFull(c, t)
        PROVE  AloneInv'
    <2>1. \A d \in Contexts : d # c => step'[d] = step[d] /\ rec'[d] = rec[d]
      BY <1>2, EmitOf
    <2>2. ASSUME NEW d \in Contexts, d # c, step'[d] # "idle",
                 rec'[d].key = rec'[c].key, rec'[d].dir = rec'[c].dir
          PROVE  Noted(rec'[c].key, lapses')
      BY <1>2, <2>1, <2>2, EmitRaces
    <2>3. ASSUME NEW d \in Contexts, NEW e \in Contexts, d # e, step'[d] # "idle",
                 step'[e] # "idle", rec'[d].key = rec'[e].key, rec'[d].dir = rec'[e].dir
          PROVE  Noted(rec'[d].key, lapses')
      <3>1. CASE d = c
        BY <2>2, <2>3, <3>1
      <3>2. CASE e = c
        <4>1. Noted(rec'[c].key, lapses') /\ rec'[c].key = rec'[d].key
          BY <2>2, <2>3, <3>2
        <4> QED
          BY <4>1
      <3>3. CASE d # c /\ e # c
        <4>1. Noted(rec[d].key, lapses) /\ rec'[d] = rec[d]
          BY <2>1, <2>3, <3>3 DEF AloneInv
        <4> QED
          BY <1>a, <4>1
      <3> QED
        BY <3>1, <3>2, <3>3
    <2> QED
      BY <2>3 DEF AloneInv
  <1>3. CASE Apart
    BY <1>1, <1>3, ApartChanges
  <1>4. CASE Consume
    BY <1>1, <1>4 DEF Consume, progVars
  <1>5. ASSUME NEW c \in Contexts, Number(c) \/ Reserve(c) PROVE AloneInv'
    <2>1. /\ step[c] # "idle" /\ rec' = rec
          /\ \A d \in Contexts : d # c => step'[d] = step[d]
      BY <1>0, <1>5 DEF Number, Reserve
    <2> QED
      BY <1>1, <2>1
  <1>6. ASSUME NEW c \in Contexts,
               SampleOut(c) \/ ReserveFail(c) \/ Submit(c) \/ \E why \in {2, 3} : Discard(c, why)
        PROVE  AloneInv'
    <2>1. step[c] # "idle" /\ Finish(c)
      BY <1>6 DEF SampleOut, ReserveFail, Submit, Discard
    <2>2. step'[c] = "idle" /\ \A d \in Contexts : d # c => step'[d] = step[d] /\ rec'[d] = rec[d]
      BY <2>1, FinishTypes
    <2> QED
      BY <1>1, <2>2
  <1> QED
    BY StepKinds, <1>2, <1>3, <1>4, <1>5, <1>6

(* The step leaves the programs that are about to store a number alone.    *)
SameCounting ==
  \A c \in Contexts : /\ Counting(c)' <=> Counting(c)
                      /\ Counting(c) => rec'[c] = rec[c]

(* The step neither starts a program nor lets one store its number.        *)
NoNumbering == Stored' \subseteq Stored /\ SameCounting

(* Numbers are stored by Number only.                                      *)
LEMMA StoredStep ==
  ASSUME TypeInv, [Next]_vars
  PROVE  \/ NoNumbering /\ Produced' \subseteq Produced
         \/ \E c \in Contexts : Number(c)
         \/ \E c \in Contexts : \E t \in Runs(c) : ExitEmit(c, t) \/ ExitEmitMapFull(c, t)
  <1> SUFFICES ASSUME ~\E c \in Contexts : Number(c),
                      ~\E c \in Contexts : \E t \in Runs(c) :
                          ExitEmit(c, t) \/ ExitEmitMapFull(c, t)
               PROVE  NoNumbering /\ Produced' \subseteq Produced
    OBVIOUS
  <1> DEFINE n == Len(ring)
             Late == {rec[d] : d \in {e \in Contexts : step[e] \in {"numbered", "reserved"}}}
  <1>0. /\ step \in [Contexts -> {"idle", "counted", "numbered", "reserved"}]
        /\ rec \in [Contexts -> Record \cup {NoRecord}]
        /\ ring \in Seq(Slot) /\ n \in Nat /\ DOMAIN ring = 1..n /\ read \in Seq(Record)
    BY LenProperties DEF TypeInv, TypeOK
  <1>a. Produced' \subseteq Produced
    BY ProducedStep
  <1>b. Stored = Seen \cup Late
    BY DEF Stored
  <1>1. ASSUME UNCHANGED <<step, rec>>, Seen' \subseteq Seen PROVE NoNumbering
    BY <1>1 DEF NoNumbering, SameCounting, Stored, Counting
  <1>2. CASE Apart
    <2>1. Seen' = Seen
      BY <1>2, ApartChanges DEF Seen
    <2>2. step' = step /\ rec' = rec /\ Seen' \subseteq Seen
      BY <1>2, <2>1, ApartChanges
    <2> QED
      BY <1>1, <1>a, <2>2
  <1>3. ASSUME NEW c \in Contexts, step[c] # "counted", step'[c] # "counted",
               step[c] \in {"numbered", "reserved"} \/ step'[c] = "idle",
               step'[c] # "idle" => rec'[c] = rec[c],
               \A d \in Contexts : d # c => step'[d] = step[d] /\ rec'[d] = rec[d],
               Seen' \subseteq Stored
        PROVE  NoNumbering
    <2>1. SameCounting
      BY <1>3 DEF SameCounting, Counting
    <2>2. Late' \subseteq Late
      BY <1>3
    <2> QED
      BY <1>3, <1>b, <2>1, <2>2 DEF NoNumbering, Stored
  <1>4. ASSUME NEW c \in Contexts, step[c] \in {"numbered", "reserved"}, Finish(c),
               Seen' \subseteq Seen
        PROVE  NoNumbering
    BY <1>3, <1>4, <1>b, FinishTypes
  <1>5. ASSUME NEW c \in Contexts, SampleOut(c) \/ ReserveFail(c) PROVE NoNumbering
    <2>1. step[c] = "numbered" /\ Finish(c) /\ ring' = ring /\ read' = read
      BY <1>5 DEF SampleOut, ReserveFail, userVars
    <2>2. Seen' = Seen
      BY <2>1 DEF Seen
    <2> QED
      BY <1>4, <2>1, <2>2
  <1>6. ASSUME NEW c \in Contexts, Reserve(c) PROVE NoNumbering
    <2> DEFINE x == [by |-> c, status |-> "busy", rec |-> rec[c]]
    <2>1. /\ step[c] = "numbered" /\ ring' = Append(ring, x) /\ read' = read /\ rec' = rec
          /\ step'[c] = "reserved"
          /\ \A d \in Contexts : d # c => step'[d] = step[d]
      BY <1>0, <1>6 DEF Reserve, userVars
    <2>2. x \in Slot /\ x.rec = rec[c]
      BY <2>1 DEF Slot, TypeInv, Running
    <2> HIDE DEF x
    <2>3. /\ DOMAIN ring' = 1..(n + 1)
          /\ \A i \in 1..n : ring'[i] = ring[i]
          /\ ring'[n + 1].rec = rec[c]
      BY <1>0, <2>1, <2>2, AppendProperties, LenProperties
    <2>4. \A i \in 1..(n + 1) : i \in 1..n \/ i = n + 1
      BY <1>0
    <2>5. Seen' \subseteq Seen \cup {rec[c]} /\ rec[c] \in Late
      BY <1>0, <2>1, <2>3, <2>4 DEF Seen
    <2>6. Seen' \subseteq Stored
      BY <1>b, <2>5
    <2> QED
      BY <1>3, <2>1, <2>6
  <1>7. ASSUME NEW c \in Contexts, NEW status \in {"ready", "discarded"},
               ring' = Release(c, status), read' = read
        PROVE  Seen' \subseteq Seen
    <2>1. DOMAIN ring' = 1..n /\ \A i \in 1..n : ring'[i].rec = ring[i].rec
      BY <1>0, <1>7, ReleaseProperties, LenProperties
    <2> QED
      BY <1>0, <1>7, <2>1 DEF Seen
  <1>8. ASSUME NEW c \in Contexts, Submit(c) \/ \E why \in {2, 3} : Discard(c, why)
        PROVE  NoNumbering
    <2>1. /\ step[c] = "reserved" /\ Finish(c) /\ read' = read
          /\ ring' = Release(c, "ready") \/ ring' = Release(c, "discarded")
      BY <1>8 DEF Submit, Discard, userVars
    <2> QED
      BY <1>4, <1>7, <2>1
  <1>9. CASE Consume
    <2>1. Seen' \subseteq Seen
      BY <1>9, ConsumeKeeps
    <2>2. step' = step /\ rec' = rec
      BY <1>9 DEF Consume, progVars
    <2> QED
      BY <1>1, <1>a, <2>1, <2>2
  <1> QED
    BY StepKinds, <1>a, <1>2, <1>5, <1>6, <1>8, <1>9

(* A step that produces nothing at an address and leaves its counters and  *)
(* the programs that work on them alone keeps Counters.                    *)
LEMMA CountersFrame ==
  ASSUME NEW k \in Keys, Counters(k),
         \A r \in Produced' : r.key = k => r \in Produced,
         \A r \in Stored' : r.key = k => r \in Stored,
         \A c \in Contexts : rec'[c].key = k /\ Counting(c)' => Counting(c) /\ rec'[c] = rec[c],
         \A c \in Contexts : rec[c].key = k /\ Counting(c) => Counting(c)' /\ rec'[c] = rec[c],
         state'[k] = state[k], tried'[k] = tried[k], life'[k] = life[k]
  PROVE  Counters(k)'
  <1>1. \A r \in Produced' : r.key = k => state'[k] # NoState /\ r.gen <= state'[k].gen
    BY DEF Counters
  <1>2. \A r \in Stored' :
          r.key = k /\ r.gen = state'[k].gen => r.seq < state'[k].seq[r.dir]
    BY DEF Counters
  <1>3. \A c \in Contexts : Counting(c)' /\ rec'[c].key = k =>
          /\ rec'[c].gen = state'[k].gen
          /\ tried'[k][rec'[c].dir] = rec'[c].nth + 1
    BY DEF Counters
  <1>4. ASSUME NEW r \in Produced', r.key = k, r.gen = state'[k].gen, r.life = life'[k],
               \A c \in Contexts : Counting(c)' => rec'[c].key # k \/ rec'[c].dir # r.dir
        PROVE  state'[k].seq[r.dir] + r.nth = tried'[k][r.dir] + r.seq
    <2>1. \A c \in Contexts : Counting(c) => rec[c].key # k \/ rec[c].dir # r.dir
      BY <1>4
    <2> QED
      BY <1>4, <2>1 DEF Counters
  <1>5. \A r, s \in Produced' :
          r.key = k /\ SameCounter(r, s) /\ r.life = s.life
          => r.seq + s.nth = s.seq + r.nth
    BY DEF Counters, SameCounter
  <1> QED
    BY <1>1, <1>2, <1>3, <1>4, <1>5 DEF Counters, SameCounter

(* The numbers of all records are natural numbers.                         *)
LEMMA NumberTypes ==
  ASSUME TypeInv
  PROVE  /\ \A r \in Produced : /\ r \in Record /\ r.key \in Keys /\ r.dir \in Dirs
                                /\ r.gen \in Nat /\ r.seq \in Nat /\ r.nth \in Nat
         /\ Stored \subseteq Produced
         /\ \A c \in Contexts : step[c] # "idle" => rec[c] \in Produced
  <1>1. \A r \in Produced : r \in Record
    BY ProducedType
  <1> QED
    BY <1>1 DEF Record, Stored, Produced, Busy

(* ExitEmit, by the counter of its object.                                 *)
LEMMA EmitEffects ==
  ASSUME TypeInv, CallsInv, SharedInv, NEW c \in Contexts, NEW t \in Runs(c), ExitEmit(c, t)
  PROVE  LET new == rec'[c]
             st == FoundState(new.key)
         IN  /\ new.gen = st.gen /\ new.seq = st.seq[new.dir]
             /\ state' = [state EXCEPT ![new.key] = st]
             /\ tried' = [tried EXCEPT ![new.key][new.dir] = @ + 1]
             /\ life' = life /\ ring' = ring /\ read' = read
             /\ step'[c] = "counted"
  <1> DEFINE new == rec'[c]
             d == new.dir
             kk == SslKey(c, args[ArgsMap(Top(c).api)][CallKey(Top(c).api, c, t)])
  <1>0. TypeOK
    BY DEF TypeInv
  <1>1. /\ kk = new.key /\ Top(c).key = new.key /\ Direction(Top(c).api) = d
    BY EmitOf
  <1>2. /\ state' = [state EXCEPT ![kk] = FoundState(kk)]
        /\ tried' = [tried EXCEPT ![Top(c).key][Direction(Top(c).api)] = @ + 1]
        /\ life' = life /\ ring' = ring /\ read' = read
        /\ step' = [step EXCEPT ![c] = "counted"]
        /\ rec' = [rec EXCEPT ![c] = NewRecord(c, t, FoundState(kk).gen,
                                        FoundState(kk).seq[Direction(Top(c).api)])]
    BY <1>0, EmitChanges DEF userVars
  <1>3. /\ step'[c] = "counted"
        /\ new.gen = FoundState(kk).gen
        /\ new.seq = FoundState(kk).seq[Direction(Top(c).api)]
    BY <1>0, <1>2 DEF TypeOK, NewRecord
  <1> HIDE DEF kk
  <1> QED
    BY <1>1, <1>2, <1>3

(* An attempt takes the counter's number.                                  *)
LEMMA EmitCounts ==
  ASSUME TypeInv, CallsInv, SharedInv, [Next]_vars, NEW c \in Contexts, NEW t \in Runs(c),
         ExitEmit(c, t), Produced' \subseteq Produced \cup {rec'[c]},
         NEW k \in Keys, Counters(k), ~Noted(k, lapses')
  PROVE  Counters(k)'
  <1> DEFINE new == rec'[c]
             d == new.dir
             st == FoundState(new.key)
  <1>0. /\ TypeOK
        /\ state \in [Keys -> [gen : Nat, seq : [Dirs -> Nat]] \cup {NoState}]
        /\ tried \in [Keys -> [Dirs -> Nat]]
    BY DEF TypeInv, TypeOK
  <1>1. /\ new \in Record /\ new.key \in Keys /\ d \in Dirs
        /\ new.life = life[new.key] /\ new.nth = tried[new.key][d]
        /\ step[c] = "idle"
        /\ \A e \in Contexts : e # c => step'[e] = step[e] /\ rec'[e] = rec[e]
    BY EmitOf DEF Record
  <1>a. ASSUME NEW e \in Contexts, step[e] # "idle", rec[e].key = new.key, rec[e].dir = d
        PROVE  k # new.key
    <2>1. Noted(rec'[c].key, lapses')
      BY <1>a, EmitRaces
    <2> QED
      BY <2>1
  <1>2. /\ new.gen = st.gen /\ new.seq = st.seq[d]
        /\ state' = [state EXCEPT ![new.key] = st]
        /\ tried' = [tried EXCEPT ![new.key][d] = @ + 1]
        /\ life' = life /\ ring' = ring /\ read' = read
        /\ step'[c] = "counted"
    BY EmitEffects
  <1>3. Stored' \subseteq Stored
    <2>1. Seen' = Seen
      BY <1>2 DEF Seen
    <2> QED
      BY <1>1, <1>2, <2>1 DEF Stored
  <1>4. /\ st \in [gen : Nat, seq : [Dirs -> Nat]]
        /\ st.gen \in Nat /\ st.seq[d] \in Nat /\ tried[new.key][d] \in Nat
        /\ state[new.key] # NoState => st = state[new.key]
    <2>1. st \in [gen : Nat, seq : [Dirs -> Nat]] /\ st.gen \in Nat /\ st.seq[d] \in Nat
      BY <1>0, <1>1, FoundStateType
    <2> QED
      BY <1>0, <1>1, <2>1 DEF FoundState
  <1>5. st # NoState
    BY <1>4, StateIsNot
  <1> HIDE DEF new, d, st
  <1>6. CASE k # new.key
    <2>1. state'[k] = state[k] /\ tried'[k] = tried[k]
      BY <1>0, <1>1, <1>2, <1>6
    <2>2. \A e \in Contexts :
            /\ rec'[e].key = k => e # c
            /\ Counting(e) => e # c
      BY <1>1, <1>6 DEF new, Counting
    <2>3. \A e \in Contexts : e # c => (Counting(e)' <=> Counting(e)) /\ rec'[e] = rec[e]
      BY <1>1 DEF Counting
    <2>4. \A r \in Produced' : r.key = k => r \in Produced
      BY <1>6 DEF new
    <2> QED
      BY <1>2, <1>3, <2>1, <2>2, <2>3, <2>4, CountersFrame
  <1>7. CASE k = new.key
    <2>1. /\ state'[k] = st /\ tried'[k][d] = tried[k][d] + 1
          /\ \A x \in Dirs : x # d => tried'[k][x] = tried[k][x]
      BY <1>0, <1>1, <1>2, <1>7
    <2>2. \A r \in Produced : r.key = k => state[k] = st
      BY <1>4, <1>7 DEF Counters
    <2>3. \A e \in Contexts : Counting(e) =>
            e # c /\ Counting(e)' /\ rec'[e] = rec[e] /\ rec[e] \in Produced
      BY <1>1, NumberTypes DEF Counting
    <2>4. \A e \in Contexts : Counting(e)' => e = c \/ (Counting(e) /\ rec'[e] = rec[e])
      BY <1>1 DEF Counting
    <2>5. ASSUME NEW r \in Produced', r.key = k
          PROVE  state'[k] # NoState /\ r.gen <= state'[k].gen
      <3>1. CASE r \in Produced
        BY <1>5, <2>1, <2>2, <2>5, <3>1 DEF Counters
      <3>2. CASE r = new
        BY <1>2, <1>4, <1>5, <2>1, <3>2
      <3> QED
        BY <3>1, <3>2 DEF new
    <2>6. ASSUME NEW r \in Stored', r.key = k, r.gen = state'[k].gen
          PROVE  r.seq < state'[k].seq[r.dir]
      <3>1. r \in Stored /\ r \in Produced
        BY <1>3, NumberTypes
      <3> QED
        BY <2>1, <2>2, <2>6, <3>1 DEF Counters
    <2>7. ASSUME NEW e \in Contexts, Counting(e)', rec'[e].key = k
          PROVE  /\ rec'[e].gen = state'[k].gen
                 /\ tried'[k][rec'[e].dir] = rec'[e].nth + 1
      <3>1. CASE e = c
        BY <1>1, <1>2, <1>7, <2>1, <3>1 DEF new, d
      <3>2. CASE e # c
        <4>1. Counting(e) /\ rec'[e] = rec[e] /\ rec[e] \in Produced /\ step[e] # "idle"
          BY <2>3, <2>4, <2>7, <3>2 DEF Counting
        <4>2. /\ rec[e].gen = state[k].gen /\ state[k] = st
              /\ tried[k][rec[e].dir] = rec[e].nth + 1
          BY <2>2, <2>7, <4>1 DEF Counters
        <4>3. rec[e].dir # d
          BY <1>7, <1>a, <2>7, <4>1
        <4>4. rec[e].dir \in Dirs
          BY <4>1, NumberTypes
        <4> QED
          BY <2>1, <4>1, <4>2, <4>3, <4>4
      <3> QED
        BY <3>1, <3>2
    <2>8. ASSUME NEW r \in Produced', r.key = k, r.gen = state'[k].gen, r.life = life'[k],
                 \A e \in Contexts : Counting(e)' => rec'[e].key # k \/ rec'[e].dir # r.dir
          PROVE  state'[k].seq[r.dir] + r.nth = tried'[k][r.dir] + r.seq
      <3>1. Counting(c)' /\ rec'[c].key = k
        BY <1>2, <1>7 DEF Counting, new
      <3>2. r.dir # d
        BY <2>8, <3>1 DEF d, new
      <3>3. r \in Produced
        BY <3>2 DEF d, new
      <3>4. \A e \in Contexts : Counting(e) => rec[e].key # k \/ rec[e].dir # r.dir
        BY <2>3, <2>8
      <3>5. state[k] = st /\ r.dir \in Dirs
        BY <2>2, <2>8, <3>3, NumberTypes
      <3>6. state[k].seq[r.dir] + r.nth = tried[k][r.dir] + r.seq
        BY <1>2, <2>1, <2>8, <3>3, <3>4, <3>5 DEF Counters
      <3> QED
        BY <2>1, <3>2, <3>5, <3>6
    <2>9. ASSUME NEW r \in Produced, r.key = k, r.gen = new.gen, r.dir = d, r.life = new.life
          PROVE  new.seq + r.nth = r.seq + new.nth
      <3>1. \A e \in Contexts : Counting(e) => rec[e].key # k \/ rec[e].dir # r.dir
        BY <1>7, <1>a, <2>9 DEF Counting
      <3>2. state[k] = st /\ r.gen = state[k].gen /\ r.life = life[k]
        BY <1>1, <1>2, <1>7, <2>2, <2>9
      <3>3. state[k].seq[d] + r.nth = tried[k][d] + r.seq
        BY <2>9, <3>1, <3>2 DEF Counters
      <3>4. r.seq \in Nat /\ r.nth \in Nat /\ tried[k][d] \in Nat /\ st.seq[d] \in Nat
        BY <1>4, <1>7, NumberTypes
      <3> QED
        BY <1>1, <1>2, <1>7, <3>2, <3>3, <3>4
    <2>10. ASSUME NEW r \in Produced', NEW s \in Produced', r.key = k, SameCounter(r, s),
                  r.life = s.life
           PROVE  r.seq + s.nth = s.seq + r.nth
      <3>1. CASE r \in Produced /\ s \in Produced
        BY <2>10, <3>1 DEF Counters
      <3>2. CASE r = new /\ s \in Produced
        BY <2>9, <2>10, <3>2 DEF SameCounter, d
      <3>3. CASE r \in Produced /\ s = new
        BY <2>9, <2>10, <3>3 DEF SameCounter, d
      <3>4. CASE r = new /\ s = new
        BY <3>4
      <3> QED
        BY <3>1, <3>2, <3>3, <3>4 DEF new
    <2> QED
      BY <2>5, <2>6, <2>7, <2>8, <2>10 DEF Counters, SameCounter
  <1> QED
    BY <1>6, <1>7

(* Storing the number puts the counter ahead of it.                        *)
LEMMA NumberCounts ==
  ASSUME TypeInv, CallsInv, SharedInv, AloneInv, SequenceInv, NEW c \in Contexts, Number(c),
         Produced' \subseteq Produced, NEW k \in Keys, ~Noted(k, lapses), Counters(k)
  PROVE  Counters(k)'
  <1> DEFINE r == rec[c]
             d == r.dir
             st == [state[k] EXCEPT !.seq[d] = r.seq + 1]
  <1>0. /\ state \in [Keys -> [gen : Nat, seq : [Dirs -> Nat]] \cup {NoState}]
        /\ step \in [Contexts -> {"idle", "counted", "numbered", "reserved"}]
        /\ tried \in [Keys -> [Dirs -> Nat]]
    BY DEF TypeInv, TypeOK
  <1>1. /\ step[c] = "counted" /\ step'[c] = "numbered"
        /\ \A e \in Contexts : e # c => step'[e] = step[e]
        /\ UNCHANGED <<life, tried, rec, ring, read>>
    BY <1>0 DEF Number, appVars, userVars
  <1>2. /\ r \in Record /\ r.key \in Keys /\ d \in Dirs /\ r.seq \in Nat /\ r.nth \in Nat
        /\ r \in Produced
    BY <1>1, NumberTypes
  <1>3. SslKey(c, r.key.ptr) = r.key
    <2>1. r.key.tgid = ProcOf[c]
      BY <1>1 DEF SharedInv
    <2> QED
      BY <1>2, <2>1 DEF SslKey, Keys
  <1>4. state' = IF state[r.key] = NoState THEN state
                 ELSE [state EXCEPT ![r.key].seq[d] = r.seq + 1]
    BY <1>3 DEF Number, Advance
  <1>5. Stored' \subseteq Stored \cup {r}
    <2>1. Seen' = Seen
      BY <1>1 DEF Seen
    <2> QED
      BY <1>1, <2>1 DEF Stored
  <1>6. /\ \A e \in Contexts : e # c => (Counting(e)' <=> Counting(e))
        /\ Counting(c) /\ ~Counting(c)'
    BY <1>1 DEF Counting
  <1>7. CASE k # r.key
    <2>1. state'[k] = state[k]
      BY <1>0, <1>2, <1>4, <1>7
    <2>2. \A s \in Stored' : s.key = k => s \in Stored
      BY <1>5, <1>7
    <2>3. \A e \in Contexts : rec[e].key = k => e # c
      BY <1>7
    <2> QED
      BY <1>1, <1>6, <2>1, <2>2, <2>3, CountersFrame
  <1>8. CASE k = r.key
    <2>1. state[k] # NoState /\ r.gen = state[k].gen
          /\ tried[k][d] = r.nth + 1
      BY <1>2, <1>6, <1>8 DEF Counters
    <2>2. state[k] \in [gen : Nat, seq : [Dirs -> Nat]]
      BY <1>0, <2>1
    <2>3. /\ st.gen = state[k].gen /\ st.seq[d] = r.seq + 1
          /\ \A x \in Dirs : x # d => st.seq[x] = state[k].seq[x]
          /\ st \in [gen : Nat, seq : [Dirs -> Nat]]
      BY <1>2, <2>2
    <2>4. state'[k] = st
      BY <1>0, <1>4, <1>8, <2>1
    <2>5. st # NoState
      BY <2>3, StateIsNot
    <2> HIDE DEF st
    <2>6. ASSUME NEW s \in Produced', s.key = k
          PROVE  state'[k] # NoState /\ s.gen <= state'[k].gen
      BY <2>3, <2>4, <2>5, <2>6 DEF Counters
    <2>7. ASSUME NEW s \in Stored', s.key = k, s.gen = state'[k].gen
          PROVE  s.seq < state'[k].seq[s.dir]
      <3>0. s \in Produced /\ s.seq \in Nat /\ s.dir \in Dirs
        BY <1>2, <1>5, NumberTypes
      <3>1. CASE s = r
        BY <1>2, <2>3, <2>4, <3>1
      <3>2. CASE s \in Stored /\ s.dir # d
        BY <2>3, <2>4, <2>7, <3>0, <3>2 DEF Counters
      <3>3. CASE s \in Seen /\ s.dir = d
        <4>1. Before(s, r, lapses)
          BY <1>1, <3>3 DEF SequenceInv, Waiting
        <4>2. s.seq < r.seq
          BY <1>8, <2>1, <2>3, <2>4, <2>7, <3>3, <4>1
          DEF Before, SameCounter, Noted
        <4> QED
          BY <1>2, <2>3, <2>4, <3>0, <3>3, <4>2
      <3>4. ASSUME NEW e \in Contexts, step[e] \in {"numbered", "reserved"}, s = rec[e], s.dir = d
            PROVE  FALSE
        BY <1>1, <1>8, <2>7, <3>4 DEF AloneInv
      <3> QED
        BY <1>5, <3>1, <3>2, <3>3, <3>4 DEF Stored
    <2>8. ASSUME NEW e \in Contexts, Counting(e)', rec'[e].key = k
          PROVE  /\ rec'[e].gen = state'[k].gen
                 /\ tried'[k][rec'[e].dir] = rec'[e].nth + 1
      <3>1. Counting(e) /\ rec'[e] = rec[e] /\ tried' = tried
        BY <1>1, <1>6, <2>8
      <3> QED
        BY <2>3, <2>4, <2>8, <3>1 DEF Counters
    <2>9. ASSUME NEW s \in Produced', s.key = k, s.gen = state'[k].gen, s.life = life'[k],
                 \A e \in Contexts : Counting(e)' => rec'[e].key # k \/ rec'[e].dir # s.dir
          PROVE  state'[k].seq[s.dir] + s.nth = tried'[k][s.dir] + s.seq
      <3>0. /\ s \in Produced /\ s.seq \in Nat /\ s.nth \in Nat /\ s.dir \in Dirs
            /\ s.gen = state[k].gen /\ s.life = life[k]
        BY <1>1, <2>3, <2>4, <2>9, NumberTypes
      <3>1. CASE s.dir # d
        <4>1. \A e \in Contexts : Counting(e) => rec[e].key # k \/ rec[e].dir # s.dir
          BY <1>1, <1>6, <2>9, <3>1
        <4>2. state[k].seq[s.dir] + s.nth = tried[k][s.dir] + s.seq
          BY <2>9, <3>0, <4>1 DEF Counters
        <4> QED
          BY <1>1, <2>3, <2>4, <3>0, <3>1, <4>2
      <3>2. CASE s.dir = d
        <4>1. r.life = life[k] /\ s.life = r.life /\ SameCounter(s, r)
          BY <1>1, <1>8, <2>1, <2>9, <3>0, <3>2 DEF SharedInv, SameCounter
        <4>2. s.seq + r.nth = r.seq + s.nth
          BY <1>2, <2>9, <3>0, <4>1 DEF Counters
        <4>3. state'[k].seq[s.dir] = r.seq + 1 /\ tried'[k][s.dir] = r.nth + 1
          BY <1>1, <2>1, <2>3, <2>4, <3>2
        <4> HIDE DEF r
        <4> QED
          BY <1>2, <3>0, <4>2, <4>3
      <3> QED
        BY <3>1, <3>2
    <2>10. \A s, u \in Produced' :
             s.key = k /\ SameCounter(s, u) /\ s.life = u.life
             => s.seq + u.nth = u.seq + s.nth
      BY DEF Counters
    <2> QED
      BY <2>6, <2>7, <2>8, <2>9, <2>10 DEF Counters, SameCounter
  <1> QED
    BY <1>7, <1>8

(* SSL_free starts a generation, whose numbers no record has.              *)
LEMMA FreeCounts ==
  ASSUME TypeInv, SharedInv, NEW c \in Contexts, NEW ptr \in Ptrs, Free(c, ptr),
         NoNumbering, Produced' \subseteq Produced, NEW k \in Keys, Counters(k)
  PROVE  Counters(k)'
  <1> DEFINE o == SslKey(c, ptr)
             st == NextGeneration(state[o])
  <1>0. /\ TypeOK /\ Running
        /\ state \in [Keys -> [gen : Nat, seq : [Dirs -> Nat]] \cup {NoState}]
    BY DEF TypeInv, TypeOK
  <1>1. o \in Keys
    BY ProbesAssumption DEF SslKey, Keys
  <1>2. /\ state' = IF state[o] = NoState THEN state ELSE [state EXCEPT ![o] = st]
        /\ UNCHANGED <<life, tried>> /\ InCall(o) = {}
    BY DEF Free
  <1> HIDE DEF o
  <1>3. CASE k # o \/ state[o] = NoState
    <2>1. state'[k] = state[k]
      BY <1>0, <1>1, <1>2, <1>3
    <2> QED
      BY <1>2, <2>1, CountersFrame DEF NoNumbering, SameCounting
  <1>4. CASE k = o /\ state[o] # NoState
    <2>1. state[k] \in [gen : Nat, seq : [Dirs -> Nat]]
      BY <1>0, <1>4
    <2>2. state'[k] = st /\ st \in [gen : Nat, seq : [Dirs -> Nat]] /\ st.gen = state[k].gen + 1
      BY <1>0, <1>1, <1>2, <1>4, <2>1 DEF NextGeneration
    <2> HIDE DEF st
    <2>3. st # NoState
      BY <2>2, StateIsNot
    <2>4. ASSUME NEW r \in Produced', r.key = k
          PROVE  state'[k] # NoState /\ r.gen <= state'[k].gen /\ r.gen # state'[k].gen
      <3>1. r.gen <= state[k].gen /\ r.gen \in Nat /\ state[k].gen \in Nat
        BY <2>1, <2>4, NumberTypes DEF Counters
      <3> QED
        BY <2>2, <2>3, <3>1
    <2>5. ASSUME NEW e \in Contexts, Counting(e)' PROVE rec'[e].key # k
      <3>1. step[e] # "idle" /\ rec'[e] = rec[e] /\ stack[e] # <<>>
        BY <1>0, <2>5 DEF NoNumbering, SameCounting, Counting, Running
      <3>2. Top(e) \in Open(e) /\ rec[e].key = Top(e).key
        BY <1>0, <3>1, OpenType DEF SharedInv
      <3> QED
        BY <1>0, <1>1, <1>2, <1>4, <3>1, <3>2, NotInCall
    <2>6. \A r \in Stored' : r.key = k => r.gen # state'[k].gen
      <3>1. \A r \in Stored' : r \in Produced
        BY NumberTypes DEF NoNumbering
      <3>2. ASSUME NEW r \in Produced, r.key = k PROVE r.gen # state'[k].gen
        <4>1. r.gen <= state[k].gen /\ r.gen \in Nat /\ state[k].gen \in Nat
          BY <2>1, <3>2, NumberTypes DEF Counters
        <4> QED
          BY <2>2, <4>1
      <3> QED
        BY <3>1, <3>2
    <2>7. \A r, s \in Produced' :
            r.key = k /\ SameCounter(r, s) /\ r.life = s.life
            => r.seq + s.nth = s.seq + r.nth
      BY DEF Counters
    <2> QED
      BY <2>4, <2>5, <2>6, <2>7 DEF Counters, SameCounter
  <1> QED
    BY <1>3, <1>4

(* The attempts of a new object are counted from zero, whatever number the *)
(* counter has.                                                            *)
LEMMA AllocateCounts ==
  ASSUME TypeInv, CallsInv, SharedInv, LivesInv, NEW j \in Keys, NEW l \in Libraries,
         Allocate(j, l), NoNumbering, Produced' \subseteq Produced, NEW k \in Keys, Counters(k)
  PROVE  Counters(k)'
  <1>0. life \in [Keys -> Nat] /\ tried \in [Keys -> [Dirs -> Nat]]
    BY DEF TypeInv, TypeOK
  <1>1. /\ life' = [life EXCEPT ![j] = @ + 1]
        /\ tried' = [tried EXCEPT ![j] = [d \in Dirs |-> 0]]
        /\ state' = state /\ object[j] = {}
    BY DEF Allocate
  <1>2. CASE k # j
    <2>1. life'[k] = life[k] /\ tried'[k] = tried[k]
      BY <1>0, <1>1, <1>2
    <2> QED
      BY <1>1, <2>1, CountersFrame DEF NoNumbering, SameCounting
  <1>3. CASE k = j
    <2>1. life'[k] = life[k] + 1 /\ life[k] \in Nat
      BY <1>0, <1>1, <1>3
    <2>2. ASSUME NEW r \in Produced', r.key = k PROVE r.life # life'[k]
      <3>1. r \in Produced /\ r.life \in Nat /\ r.life <= life[k]
        BY <2>2, NumberTypes DEF LivesInv, Record
      <3> QED
        BY <2>1, <3>1
    <2>3. ASSUME NEW e \in Contexts, Counting(e)' PROVE rec'[e].key # k
      <3>1. step[e] # "idle" /\ rec'[e] = rec[e]
        BY <2>3 DEF NoNumbering, SameCounting, Counting
      <3> QED
        BY <1>1, <1>3, <3>1, OwnThere
    <2>4. \A r \in Produced' : r.key = k => state'[k] # NoState /\ r.gen <= state'[k].gen
      BY <1>1 DEF Counters
    <2>5. \A r \in Stored' :
            r.key = k /\ r.gen = state'[k].gen => r.seq < state'[k].seq[r.dir]
      BY <1>1 DEF Counters, NoNumbering
    <2>6. \A r, s \in Produced' :
            r.key = k /\ SameCounter(r, s) /\ r.life = s.life
            => r.seq + s.nth = s.seq + r.nth
      BY DEF Counters
    <2> QED
      BY <2>2, <2>3, <2>4, <2>5, <2>6 DEF Counters, SameCounter
  <1> QED
    BY <1>2, <1>3

(* A step keeps the counters of every address whose element was not        *)
(* dropped and whose exit programs did not overlap.                        *)
LEMMA CountersStep ==
  /\ TypeInv /\ CallsInv /\ SharedInv /\ LivesInv /\ AloneInv /\ SequenceInv
  /\ CountersInv /\ [Next]_vars
  => CountersInv'
  <1> SUFFICES ASSUME TypeInv, CallsInv, SharedInv, LivesInv, AloneInv, SequenceInv,
                      CountersInv, [Next]_vars, NEW k \in Keys, ~Noted(k, lapses')
               PROVE  Counters(k)'
    BY DEF CountersInv
  <1>0. /\ TypeOK
        /\ state \in [Keys -> [gen : Nat, seq : [Dirs -> Nat]] \cup {NoState}]
        /\ tried \in [Keys -> [Dirs -> Nat]]
        /\ rec \in [Contexts -> Record \cup {NoRecord}]
    BY DEF TypeInv, TypeOK
  <1>a. ~Noted(k, lapses) /\ Counters(k)
    BY NotedStays DEF CountersInv
  <1>b. [key |-> k, why |-> "dropped"] \notin lapses'
    BY DEF Noted, Loose
  <1>1. ASSUME NoNumbering, Produced' \subseteq Produced, UNCHANGED <<state, tried, life>>
        PROVE  Counters(k)'
    BY <1>1, <1>a, CountersFrame DEF NoNumbering, SameCounting
  <1>2. ASSUME NEW c \in Contexts, NEW t \in Runs(c), ExitEmit(c, t) PROVE Counters(k)'
    <2>1. Produced' \subseteq Produced \cup {rec'[c]}
      BY <1>0, <1>2, EmitProduces
    <2> QED
      BY <1>2, <1>a, <2>1, EmitCounts
  <1>3. ASSUME NEW c \in Contexts, NEW t \in Runs(c), ExitEmitMapFull(c, t)
        PROVE  Counters(k)'
    <2>1. /\ rec'[c].key = SslKey(c, args[ArgsMap(Top(c).api)][CallKey(Top(c).api, c, t)])
          /\ rec'[c].key = Top(c).key /\ Top(c).key \in Keys
          /\ rec'[c].dir \in Dirs /\ rec'[c].dir = Direction(Top(c).api)
          /\ step[c] = "idle"
          /\ \A d \in Contexts : d # c => step'[d] = step[d] /\ rec'[d] = rec[d]
      BY <1>3, EmitOf DEF Record
    <2>2. /\ lapses' = lapses \cup {[key |-> rec'[c].key, why |-> "dropped"]}
          /\ tried' = [tried EXCEPT ![Top(c).key][Direction(Top(c).api)] = @ + 1]
          /\ UNCHANGED <<life, state, ring, read>>
          /\ step'[c] = "numbered"
      <3>1. step' = [step EXCEPT ![c] = "numbered"] /\ DOMAIN step = Contexts
        BY <1>0, <1>3, MapFullChanges DEF TypeOK
      <3>2. UNCHANGED <<life, state, ring, read>>
        BY <1>3 DEF ExitEmitMapFull, userVars
      <3>3. /\ lapses' = lapses \cup {[key |-> rec'[c].key, why |-> "dropped"]}
            /\ tried' = [tried EXCEPT ![Top(c).key][Direction(Top(c).api)] = @ + 1]
        BY <1>3, <2>1 DEF ExitEmitMapFull
      <3> QED
        BY <3>1, <3>2, <3>3
    <2>3. k # rec'[c].key
      BY <1>b, <2>2
    <2>4. tried'[k] = tried[k]
      BY <1>0, <2>1, <2>2, <2>3
    <2>5. Produced' \subseteq Produced \cup {rec'[c]}
      BY <1>0, <1>3, EmitProduces
    <2>6. Stored' \subseteq Stored \cup {rec'[c]}
      <3>1. Seen' = Seen
        BY <2>2 DEF Seen
      <3> QED
        BY <2>1, <3>1 DEF Stored
    <2>7. \A r \in Produced' : r.key = k => r \in Produced
      BY <2>3, <2>5
    <2>8. \A r \in Stored' : r.key = k => r \in Stored
      BY <2>3, <2>6
    <2>9. \A e \in Contexts : (Counting(e)' => e # c) /\ (Counting(e) => e # c)
      BY <2>1, <2>2 DEF Counting
    <2>10. \A e \in Contexts : e # c => (Counting(e)' <=> Counting(e)) /\ rec'[e] = rec[e]
      BY <2>1 DEF Counting
    <2> QED
      BY <1>a, <2>2, <2>4, <2>7, <2>8, <2>9, <2>10, CountersFrame
  <1>4. ASSUME NEW c \in Contexts, Number(c) PROVE Counters(k)'
    <2>1. Produced' \subseteq Produced
      BY <1>0, <1>4, NumberProduces
    <2> QED
      BY <1>4, <1>a, <2>1, NumberCounts
  <1>5. ASSUME NoNumbering, Produced' \subseteq Produced, NEW j \in Keys, EvictState(j)
        PROVE  Counters(k)'
    <2>1. /\ lapses' = lapses \cup {[key |-> j, why |-> "dropped"]}
          /\ state' = [state EXCEPT ![j] = NoState]
          /\ UNCHANGED <<life, tried>>
      BY <1>5 DEF EvictState, appVars
    <2>2. state'[k] = state[k]
      BY <1>0, <1>b, <2>1
    <2> QED
      BY <1>5, <1>a, <2>1, <2>2, CountersFrame DEF NoNumbering, SameCounting
  <1>6. ASSUME NoNumbering, Produced' \subseteq Produced,
               ~\E c \in Contexts : Number(c),
               ~\E c \in Contexts : \E t \in Runs(c) : ExitEmit(c, t) \/ ExitEmitMapFull(c, t)
        PROVE  Counters(k)'
    <2>1. CASE Apart
      <3>1. ASSUME NEW c \in Contexts, NEW t \in Runs(c),
                   \/ \E api \in Apis, j \in Keys : Entry(c, t, api, j)
                   \/ ExitUnpaired(c, t) \/ ExitEmpty(c, t)
            PROVE  Counters(k)'
        BY <1>1, <1>6, <3>1 DEF Entry, ExitUnpaired, ExitEmpty
      <3>2. ASSUME NEW c \in Contexts, NEW m \in ArgsMaps, EvictArgs(m, c) PROVE Counters(k)'
        BY <1>1, <1>6, <3>2 DEF EvictArgs, appVars
      <3>3. CASE ConsumeClose \/ UNCHANGED vars
        BY <1>1, <1>6, <3>3 DEF ConsumeClose, vars, appVars
      <3>4. ASSUME NEW j \in Keys, FreeUnprobed(j) PROVE Counters(k)'
        BY <1>1, <1>6, <3>4 DEF FreeUnprobed
      <3>5. ASSUME NEW c \in Contexts, NEW ptr \in Ptrs, Free(c, ptr) PROVE Counters(k)'
        BY <1>6, <1>a, <3>5, FreeCounts
      <3>6. ASSUME NEW j \in Keys, NEW l \in Libraries, Allocate(j, l) PROVE Counters(k)'
        BY <1>6, <1>a, <3>6, AllocateCounts
      <3> QED
        BY <1>5, <1>6, <2>1, <3>1, <3>2, <3>3, <3>4, <3>5, <3>6 DEF Apart
    <2>2. ASSUME NEW c \in Contexts,
                 \/ SampleOut(c) \/ ReserveFail(c) \/ Reserve(c) \/ Submit(c)
                 \/ \E why \in {2, 3} : Discard(c, why)
          PROVE  Counters(k)'
      BY <1>1, <1>6, <2>2 DEF SampleOut, ReserveFail, Reserve, Submit, Discard, appVars
    <2>3. CASE Consume
      BY <1>1, <1>6, <2>3 DEF Consume, appVars
    <2> QED
      BY StepKinds, <1>6, <2>1, <2>2, <2>3
  <1> QED
    BY <1>2, <1>3, <1>4, <1>6, StoredStep

(* A lower number stays lower: records do not change, lapses stay.         *)
LEMMA BeforeStays ==
  ASSUME TypeInv, [Next]_vars
  PROVE  \A x, y : Before(x, y, lapses) => Before(x, y, lapses')
  BY LapsesGrow DEF Before

(* The numbers of one counter reach the ring, and userspace, in order.     *)
LEMMA SequenceStep ==
  TypeInv /\ CallsInv /\ SharedInv /\ AloneInv /\ CountersInv /\ SequenceInv /\ [Next]_vars
  => SequenceInv'
  <1> SUFFICES ASSUME TypeInv, CallsInv, SharedInv, AloneInv, CountersInv, SequenceInv, [Next]_vars
               PROVE  SequenceInv'
    OBVIOUS
  <1> DEFINE n == Len(ring)
             Q(x, y) == Before(x, y, lapses)
             N(x, y) == Before(x, y, lapses')
  <1>0. /\ TypeOK
        /\ step \in [Contexts -> {"idle", "counted", "numbered", "reserved"}]
        /\ rec \in [Contexts -> Record \cup {NoRecord}]
        /\ ring \in Seq(Slot) /\ n \in Nat /\ DOMAIN ring = 1..n /\ read \in Seq(Record)
    BY LenProperties DEF TypeInv, TypeOK
  <1>a. /\ \A i, j \in DOMAIN read : i < j => Q(read[i], read[j])
        /\ \A i \in DOMAIN read, j \in 1..n : Q(read[i], ring[j].rec)
        /\ \A i, j \in 1..n : i < j => Q(ring[i].rec, ring[j].rec)
        /\ \A x \in Seen, c \in Contexts : Waiting(c) => Q(x, rec[c])
    BY <1>0 DEF SequenceInv
  <1>b. \A x, y : Q(x, y) => N(x, y)
    BY BeforeStays
  <1>c. SUFFICES /\ \A i, j \in DOMAIN read' : i < j => N(read'[i], read'[j])
                 /\ \A i \in DOMAIN read', j \in DOMAIN ring' : N(read'[i], ring'[j].rec)
                 /\ \A i, j \in DOMAIN ring' : i < j => N(ring'[i].rec, ring'[j].rec)
                 /\ \A x \in Seen', c \in Contexts : Waiting(c)' => N(x, rec'[c])
    BY DEF SequenceInv
  <1>d. ASSUME NEW x \in Produced, NEW y \in Record,
               SameCounter(x, y) => Noted(x.key, lapses)
        PROVE  N(x, y)
    BY <1>d, NotedStays DEF Before, Noted
  <1> HIDE DEF Q, N
  <1>1. ASSUME read' = read, DOMAIN ring' = 1..n, \A i \in 1..n : ring'[i].rec = ring[i].rec,
               \A c \in Contexts : Waiting(c)' => Waiting(c) /\ rec'[c] = rec[c]
        PROVE  <1>c!1
    <2>1. Seen' = Seen
      BY <1>0, <1>1 DEF Seen
    <2> QED
      BY <1>1, <1>a, <1>b, <2>1
  <1>2. CASE Apart
    BY <1>0, <1>1, <1>2, ApartChanges DEF Waiting
  <1>3. ASSUME NEW c \in Contexts, NEW t \in Runs(c), ExitEmit(c, t) \/ ExitEmitMapFull(c, t)
        PROVE  <1>c!1
    <2> DEFINE new == rec'[c]
    <2>1. /\ new \in Record /\ new.key \in Keys /\ new.dir \in Dirs
          /\ new.key = SslKey(c, args[ArgsMap(Top(c).api)][CallKey(Top(c).api, c, t)])
          /\ new.dir = Direction(Top(c).api)
          /\ \A d \in Contexts : d # c => step'[d] = step[d] /\ rec'[d] = rec[d]
      BY <1>3, EmitOf DEF Record
    <2>2. ring' = ring /\ read' = read /\ Seen' = Seen
      BY <1>0, <1>3, EmitProduces DEF ExitEmit, ExitEmitMapFull, userVars
    <2>3. ASSUME NEW x \in Seen PROVE N(x, new)
      <3>0. x \in Produced /\ x \in Stored
        BY DEF Produced, Stored
      <3> SUFFICES ASSUME SameCounter(x, new), ~Noted(x.key, lapses')
                   PROVE  x.seq < new.seq
        BY DEF N, Before, Noted
      <3>1. x.key = new.key /\ x.gen = new.gen /\ x.dir = new.dir
        BY DEF SameCounter
      <3>2. CASE ExitEmitMapFull(c, t)
        <4>1. lapses' = lapses \cup {[key |-> new.key, why |-> "dropped"]}
          BY <2>1, <3>2 DEF ExitEmitMapFull
        <4> QED
          BY <3>1, <4>1 DEF Noted, Loose
      <3>3. CASE ExitEmit(c, t)
        <4>1. new.gen = FoundState(new.key).gen /\ new.seq = FoundState(new.key).seq[new.dir]
          BY <3>3, EmitEffects
        <4>2. ~Noted(x.key, lapses)
          BY NotedStays
        <4>3. Counters(new.key)
          BY <2>1, <3>1, <4>2 DEF CountersInv
        <4>4. FoundState(new.key) = state[new.key]
          BY <3>0, <3>1, <4>3 DEF Counters, FoundState
        <4> QED
          BY <3>0, <3>1, <4>1, <4>3, <4>4 DEF Counters
      <3> QED
        BY <1>3, <3>2, <3>3
    <2> HIDE DEF new
    <2>4. ASSUME NEW x \in Seen, NEW d \in Contexts, Waiting(d)' PROVE N(x, rec'[d])
      <3>1. CASE d = c
        BY <2>3, <3>1 DEF new
      <3>2. CASE d # c
        <4>1. Waiting(d) /\ rec'[d] = rec[d]
          BY <2>1, <2>4, <3>2 DEF Waiting
        <4> QED
          BY <1>a, <1>b, <4>1
      <3> QED
        BY <3>1, <3>2
    <2> QED
      BY <1>0, <1>a, <1>b, <2>2, <2>4
  <1>4. ASSUME NEW c \in Contexts, Number(c) PROVE <1>c!1
    <2>1. /\ ring' = ring /\ read' = read /\ rec' = rec /\ step[c] = "counted"
          /\ \A d \in Contexts : d # c => step'[d] = step[d]
      BY <1>0, <1>4 DEF Number, userVars
    <2>2. \A d \in Contexts : Waiting(d)' => Waiting(d)
      BY <2>1 DEF Waiting
    <2> QED
      BY <1>0, <1>1, <2>1, <2>2
  <1>5. ASSUME NEW c \in Contexts, step[c] # "idle", Finish(c)
        PROVE  \A d \in Contexts : Waiting(d)' => Waiting(d) /\ rec'[d] = rec[d]
    BY <1>5, FinishTypes DEF Waiting
  <1>6. ASSUME NEW c \in Contexts, SampleOut(c) \/ ReserveFail(c) PROVE <1>c!1
    <2>1. step[c] = "numbered" /\ Finish(c) /\ ring' = ring /\ read' = read
      BY <1>6 DEF SampleOut, ReserveFail, userVars
    <2> QED
      BY <1>0, <1>1, <1>5, <2>1
  <1>7. ASSUME NEW c \in Contexts, Submit(c) \/ \E why \in {2, 3} : Discard(c, why)
        PROVE  <1>c!1
    <2>1. /\ step[c] = "reserved" /\ Finish(c) /\ read' = read
          /\ ring' = Release(c, "ready") \/ ring' = Release(c, "discarded")
      BY <1>7 DEF Submit, Discard, userVars
    <2>2. DOMAIN ring' = 1..n /\ \A i \in 1..n : ring'[i].rec = ring[i].rec
      BY <1>0, <2>1, ReleaseProperties, LenProperties
    <2> QED
      BY <1>1, <1>5, <2>1, <2>2
  <1>8. ASSUME NEW c \in Contexts, Reserve(c) PROVE <1>c!1
    <2> DEFINE x == [by |-> c, status |-> "busy", rec |-> rec[c]]
    <2>1. /\ step[c] = "numbered" /\ ring' = Append(ring, x) /\ read' = read /\ rec' = rec
          /\ step'[c] = "reserved"
          /\ \A d \in Contexts : d # c => step'[d] = step[d]
      BY <1>0, <1>8 DEF Reserve, userVars
    <2>2. x \in Slot /\ x.rec = rec[c] /\ rec[c] \in Produced
      BY <2>1, NumberTypes DEF Slot, TypeInv, Running
    <2> HIDE DEF x
    <2>3. /\ DOMAIN ring' = 1..(n + 1)
          /\ \A i \in 1..n : ring'[i] = ring[i]
          /\ ring'[n + 1].rec = rec[c]
      BY <1>0, <2>1, <2>2, AppendProperties, LenProperties
    <2>4. \A i \in 1..(n + 1) : (i \in 1..n \/ i = n + 1) /\ ~(n + 1 < i)
      BY <1>0
    <2>5. \A i \in DOMAIN read : read[i] \in Seen
      BY DEF Seen
    <2>6. \A i \in 1..n : ring[i].rec \in Seen
      BY <1>0 DEF Seen
    <2>7. \A y \in Seen : N(y, rec[c])
      BY <1>a, <1>b, <2>1 DEF Waiting
    <2>8. Seen' \subseteq Seen \cup {rec[c]}
      BY <1>0, <2>1, <2>3, <2>4 DEF Seen
    <2>9. ASSUME NEW y \in Seen', NEW d \in Contexts, Waiting(d)' PROVE N(y, rec'[d])
      <3>1. d # c /\ Waiting(d) /\ rec'[d] = rec[d]
        BY <2>1, <2>9 DEF Waiting
      <3>2. CASE y \in Seen
        BY <1>a, <1>b, <3>1, <3>2
      <3>3. CASE y = rec[c]
        <4>1. step[c] # "idle" /\ step[d] # "idle" /\ rec[d] \in Record
          BY <2>1, <3>1, NumberTypes DEF Waiting
        <4>2. SameCounter(rec[c], rec[d]) => Noted(rec[c].key, lapses)
          BY <3>1, <4>1 DEF SameCounter, AloneInv
        <4> QED
          BY <1>d, <2>2, <3>1, <3>3, <4>1, <4>2
      <3> QED
        BY <2>8, <3>2, <3>3
    <2>10. \A i, j \in DOMAIN ring' : i < j => N(ring'[i].rec, ring'[j].rec)
      <3>1. ASSUME NEW i \in 1..(n + 1), NEW j \in 1..(n + 1), i < j
            PROVE  N(ring'[i].rec, ring'[j].rec)
        <4>1. i \in 1..n
          BY <1>0, <3>1
        <4>2. CASE j \in 1..n
          BY <1>a, <1>b, <2>3, <3>1, <4>1, <4>2
        <4>3. CASE j = n + 1
          BY <2>3, <2>6, <2>7, <4>1, <4>3
        <4> QED
          BY <2>4, <4>2, <4>3
      <3> QED
        BY <2>3, <3>1
    <2>11. \A i \in DOMAIN read', j \in DOMAIN ring' : N(read'[i], ring'[j].rec)
      <3>1. ASSUME NEW i \in DOMAIN read, NEW j \in 1..(n + 1) PROVE N(read[i], ring'[j].rec)
        <4>1. CASE j \in 1..n
          BY <1>a, <1>b, <2>3, <4>1
        <4>2. CASE j = n + 1
          BY <2>3, <2>5, <2>7, <4>2
        <4> QED
          BY <2>4, <4>1, <4>2
      <3> QED
        BY <2>1, <2>3, <3>1
    <2> QED
      BY <1>a, <1>b, <2>1, <2>9, <2>10, <2>11
  <1>9. CASE Consume
    <2> DEFINE m == Len(read)
    <2>1. /\ Seen' \subseteq Seen /\ n \in Nat \ {0} /\ m \in Nat
          /\ DOMAIN ring' = 1..(n - 1)
          /\ \A i \in 1..(n - 1) : ring'[i] = ring[i + 1]
          /\ DOMAIN read = 1..m
          /\ \/ read' = read
             \/ /\ DOMAIN read' = 1..(m + 1)
                /\ \A i \in 1..m : read'[i] = read[i]
                /\ read'[m + 1] = ring[1].rec
      BY <1>9, ConsumeKeeps
    <2>2. step' = step /\ rec' = rec
      BY <1>9 DEF Consume, progVars
    <2> HIDE DEF n, m
    <2>3. /\ 1 \in 1..n /\ \A i \in 1..(n - 1) : i + 1 \in 1..n /\ 1 < i + 1
          /\ \A i \in 1..(m + 1) : (i \in 1..m \/ i = m + 1) /\ ~(m + 1 < i)
      BY <2>1
    <2>4. \A i, j \in 1..(n - 1) : i < j => N(ring'[i].rec, ring'[j].rec)
      <3>1. ASSUME NEW i \in 1..(n - 1), NEW j \in 1..(n - 1), i < j
            PROVE  i + 1 \in 1..n /\ j + 1 \in 1..n /\ i + 1 < j + 1
        BY <2>1, <3>1
      <3> QED
        BY <1>a, <1>b, <2>1, <3>1
    <2>5. \A j \in 1..(n - 1) :
            /\ N(ring[1].rec, ring'[j].rec)
            /\ \A i \in 1..m : N(read[i], ring'[j].rec)
      BY <1>a, <1>b, <2>1, <2>3
    <2>6. \A x \in Seen', c \in Contexts : Waiting(c)' => N(x, rec'[c])
      BY <1>a, <1>b, <2>1, <2>2 DEF Waiting
    <2>7. CASE read' = read
      BY <1>a, <1>b, <2>1, <2>4, <2>5, <2>6, <2>7
    <2>8. CASE /\ DOMAIN read' = 1..(m + 1)
               /\ \A i \in 1..m : read'[i] = read[i]
               /\ read'[m + 1] = ring[1].rec
      <3>1. ASSUME NEW i \in 1..(m + 1), NEW j \in 1..(m + 1), i < j
            PROVE  N(read'[i], read'[j])
        <4>1. i \in 1..m
          BY <2>1, <3>1
        <4>2. CASE j \in 1..m
          BY <1>a, <1>b, <2>1, <2>8, <3>1, <4>1, <4>2
        <4>3. CASE j = m + 1
          BY <1>a, <1>b, <2>1, <2>3, <2>8, <4>1, <4>3
        <4> QED
          BY <2>3, <4>2, <4>3
      <3>2. ASSUME NEW i \in 1..(m + 1), NEW j \in 1..(n - 1) PROVE N(read'[i], ring'[j].rec)
        BY <2>3, <2>5, <2>8
      <3> QED
        BY <2>1, <2>4, <2>6, <2>8, <3>1, <3>2
    <2> QED
      BY <2>1, <2>7, <2>8
  <1> QED
    BY StepKinds, <1>2, <1>3, <1>4, <1>6, <1>7, <1>8, <1>9

(* The strengthening of GapsAreLoss.                                       *)
GapsInv == LivesInv /\ AloneInv /\ CountersInv /\ SequenceInv

(* Nothing is numbered at first.                                           *)
LEMMA GapsInit == Init => GapsInv
  <1> SUFFICES ASSUME Init PROVE GapsInv
    OBVIOUS
  <1>1. Produced = {} /\ Stored = {} /\ Seen = {}
    BY NothingAtFirst
  <1>2. /\ \A c \in Contexts : step[c] = "idle"
        /\ DOMAIN read = {} /\ DOMAIN ring = {}
    BY DEF Init
  <1> QED
    BY <1>1, <1>2 DEF GapsInv, LivesInv, AloneInv, CountersInv, Counters, Counting, SequenceInv

(* The four parts are kept together.                                       *)
LEMMA GapsStep ==
  TypeInv /\ CallsInv /\ SharedInv /\ GapsInv /\ [Next]_vars => GapsInv'
  BY LivesStep, AloneStep, CountersStep, SequenceStep DEF GapsInv

(* Records in order whose numbers count attempts show every loss.          *)
LEMMA GapsImply == TypeInv /\ GapsInv => GapsAreLoss
  <1> SUFFICES ASSUME TypeInv, GapsInv, NEW i \in DOMAIN read, NEW j \in DOMAIN read, i < j,
                      read[i].key = read[j].key, read[i].gen = read[j].gen,
                      read[i].dir = read[j].dir, ~Noted(read[i].key, lapses)
               PROVE  /\ read[i].seq < read[j].seq
                      /\ read[i].life = read[j].life =>
                            read[j].seq - read[i].seq = read[j].nth - read[i].nth
    BY NotedStays DEF GapsAreLoss, Loose
  <1> DEFINE x == read[i]
             y == read[j]
  <1>1. x \in Produced /\ y \in Produced
    BY DEF Produced, Seen
  <1>2. x.seq < y.seq
    BY DEF GapsInv, SequenceInv, Before, SameCounter, Noted
  <1>3. ASSUME x.life = y.life PROVE y.seq - x.seq = y.nth - x.nth
    <2>1. /\ x.key \in Keys /\ x.seq \in Nat /\ x.nth \in Nat
          /\ y.seq \in Nat /\ y.nth \in Nat
      BY <1>1, NumberTypes
    <2>2. SameCounter(x, y)
      BY DEF SameCounter
    <2>3. Counters(x.key)
      BY <2>1 DEF GapsInv, CountersInv
    <2> HIDE DEF x, y
    <2>4. x.seq + y.nth = y.seq + x.nth
      BY <1>1, <1>3, <2>2, <2>3 DEF Counters
    <2> QED
      BY <2>1, <2>4
  <1> QED
    BY <1>2, <1>3

(* next_seq: userspace reads the records of one object and direction in    *)
(* the order of their numbers, and a gap between two numbers is exactly    *)
(* the attempts that were lost or sampled out between them, for any number *)
(* of threads and objects and for addresses reused by any library, as long *)
(* as ssl_state_map keeps the element and no two exit programs of the      *)
(* object ran at once in one direction.  Nothing is assumed of the locks   *)
(* of a library: calls on one object overlap freely.                       *)
THEOREM GapsCorrect == Spec => []GapsAreLoss
  BY TypeInit, TypeStep, CallsInit, CallsStep, SharedInit, SharedStep, GapsInit, GapsStep,
     GapsImply, PTL DEF Spec

=============================================================================
