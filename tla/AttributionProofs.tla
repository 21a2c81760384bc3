-------------------------- MODULE AttributionProofs --------------------------
(***************************************************************************)
(* Proofs about ConnAttribution, for any threads, sockets and objects, any *)
(* number of uses of an address and of dropped map elements.               *)
(***************************************************************************)
EXTENDS ConnAttribution, TLAPS

(* The value a map keeps for an address that has no element.               *)
LEMMA Absent == NoInfo.conn = NoConn /\ NoConn.sk \notin Socks
  BY AttributionAssumption DEF NoInfo, NoConn

(* Init has the type.                                                      *)
LEMMA TypeInit == Init => TypeOK
  BY AttributionAssumption DEF Init, TypeOK, NoEvent, Roles

(* A step keeps the type: the thread whose entry tcp_close and SSL_free    *)
(* delete is a thread also when the map that names it has no element.      *)
LEMMA TypeStep == TypeOK /\ [Next]_vars => TypeOK'
  <1> SUFFICES ASSUME TypeOK, [Next]_vars PROVE TypeOK'
    OBVIOUS
  <1> USE AttributionAssumption DEF TypeOK
  <1>1. ASSUME NEW s \in Socks, Socket(s) PROVE TypeOK'
    BY <1>1 DEF Socket, maps, Roles
  <1>2. ASSUME NEW t \in Threads, NEW s \in Socks, Connect(t, s) PROVE TypeOK'
    BY <1>2 DEF Connect, Remember, Conn, Info, Roles
  <1>3. ASSUME NEW t \in Threads, NEW s \in Socks, Accept(t, s) PROVE TypeOK'
    BY <1>3 DEF Accept, Remember, Conn, Info, Roles
  <1>4. ASSUME NEW t \in Threads, NEW s \in Socks, TcpClose(t, s) PROVE TypeOK'
    BY <1>4 DEF TcpClose, ClosingThread, ForgetRole
  <1>5. ASSUME NEW t \in Threads, NEW s \in Socks, KtlsEntry(t, s) PROVE TypeOK'
    BY <1>5 DEF KtlsEntry, Tuple, This, Conn, Info
  <1>6. ASSUME NEW o \in Objects, NEW s \in Socks, SetFd(o, s) PROVE TypeOK'
    BY <1>6 DEF SetFd, Tuple, This, Conn, Info
  <1>7. ASSUME NEW t \in Threads, NEW o \in Objects, RememberOwner(t, o) PROVE TypeOK'
    BY <1>7 DEF RememberOwner
  <1>8. ASSUME NEW t \in Threads, NEW o \in Objects, Emit(t, o) PROVE TypeOK'
    BY <1>8 DEF Emit, Attribution, maps
  <1>9. ASSUME NEW t \in Threads, NEW o \in Objects, SslFree(t, o) PROVE TypeOK'
    BY <1>9 DEF SslFree, ForgetObject
  <1>10. CASE Evict
    BY <1>10 DEF Evict, ForgetObject, ForgetRole
  <1>11. CASE UNCHANGED vars
    BY <1>11 DEF vars, maps
  <1> QED
    BY <1>1, <1>2, <1>3, <1>4, <1>5, <1>6, <1>7, <1>8, <1>9, <1>10, <1>11 DEF Next

(* The maps hold what the probes store, whatever is dropped or reused.     *)
THEOREM TypeCorrect == Spec => []TypeOK
  BY TypeInit, TypeStep, PTL DEF Spec

-----------------------------------------------------------------------------
(* An object's element was stored for the object that is there now.        *)
StoredForObject ==
    \A o \in Objects : ssl_ptr_to_conn[o] # NoInfo =>
        ssl_ptr_to_conn[o].conn \in {NoConn, bound[o]}

(* Nothing refers to a later use of a socket address than the present one. *)
OfThePast ==
    \A s \in Socks :
        /\ \A t \in Threads : active_connections[t].conn.sk = s =>
              active_connections[t].conn.use <= sock[s].use
        /\ \A o \in Objects : bound[o].sk = s => bound[o].use <= sock[s].use

(* sock_role is about the present use of the address.                      *)
RoleOfSocket ==
    \A s \in Socks :
        /\ sock_role[s] \in {Unknown, sock[s].role}
        /\ sock[s].status = "closed" => sock_role[s] = Unknown
        /\ sock[s].status = "new" => sock[s].role = "client"

(* RolesAreTrue, with the fields of a connection told apart.               *)
RolesByUse ==
    \A s \in Socks :
        /\ \A t \in Threads :
              LET info == active_connections[t] IN
              info.conn.sk = s /\ info.conn.use = sock[s].use =>
                  info.role \in {Unknown, sock[s].role}
        /\ \A o \in Objects :
              /\ bound[o].sk = s /\ bound[o].use = sock[s].use
              /\ ssl_ptr_to_conn[o] # NoInfo
              => ssl_ptr_to_conn[o].role \in {Unknown, sock[s].role}

RolesInv == OfThePast /\ RoleOfSocket /\ RolesByUse

-----------------------------------------------------------------------------
(* fill_event_hdr reads an object's element only while it is the object's  *)
(* own.                                                                    *)
LEMMA ObjectStep ==
  TypeOK /\ StoredForObject /\ ExactAttribution /\ [Next]_vars
    => StoredForObject' /\ ExactAttribution'
  <1> SUFFICES ASSUME TypeOK, StoredForObject, ExactAttribution, [Next]_vars
               PROVE  StoredForObject' /\ ExactAttribution'
    OBVIOUS
  <1> USE DEF TypeOK, StoredForObject, ExactAttribution
  <1>1. ASSUME NEW s \in Socks, Socket(s) PROVE StoredForObject' /\ ExactAttribution'
    BY <1>1 DEF Socket, maps
  <1>2. ASSUME NEW t \in Threads, NEW s \in Socks,
               \/ Connect(t, s) \/ Accept(t, s) \/ TcpClose(t, s) \/ KtlsEntry(t, s)
        PROVE  StoredForObject' /\ ExactAttribution'
    BY <1>2 DEF Connect, Accept, TcpClose, KtlsEntry
  <1>3. ASSUME NEW o \in Objects, NEW s \in Socks, SetFd(o, s)
        PROVE  StoredForObject' /\ ExactAttribution'
    BY <1>3 DEF SetFd, Tuple
  <1>4. ASSUME NEW t \in Threads, NEW o \in Objects, RememberOwner(t, o)
        PROVE  StoredForObject' /\ ExactAttribution'
    BY <1>4 DEF RememberOwner
  <1>5. ASSUME NEW t \in Threads, NEW o \in Objects, Emit(t, o)
        PROVE  StoredForObject' /\ ExactAttribution'
    BY <1>5 DEF Emit, Attribution, maps
  <1>6. ASSUME NEW t \in Threads, NEW o \in Objects, SslFree(t, o)
        PROVE  StoredForObject' /\ ExactAttribution'
    BY <1>6 DEF SslFree, ForgetObject
  <1>7. CASE Evict
    BY <1>7 DEF Evict, ForgetObject
  <1>8. CASE UNCHANGED vars
    BY <1>8 DEF vars, maps
  <1> QED
    BY <1>1, <1>2, <1>3, <1>4, <1>5, <1>6, <1>7, <1>8 DEF Next

(* A record marked ATTR_SSL carries its own object's connection or an      *)
(* empty tuple, for any interleaving of the probes and any reuse.          *)
THEOREM AttributionIsExact == Spec => []ExactAttribution
  <1>1. Init => StoredForObject /\ ExactAttribution
    BY DEF Init, StoredForObject, ExactAttribution, NoEvent
  <1> QED
    BY <1>1, TypeInit, TypeStep, ObjectStep, PTL DEF Spec

-----------------------------------------------------------------------------
(* The uses the maps and the objects hold can be compared.                 *)
LEMMA UsesAreNumbers ==
  ASSUME TypeOK
  PROVE  /\ \A s \in Socks : sock[s].use \in Nat
         /\ \A t \in Threads : active_connections[t].conn.use \in Nat
         /\ \A o \in Objects : bound[o].use \in Nat
  BY AttributionAssumption DEF TypeOK, Info, NoInfo, Conn, NoConn

(* The fields of two equal connections are equal.                          *)
LEMMA RolesByUseSuffices == RolesInv => RolesAreTrue
  <1> SUFFICES ASSUME RolesByUse PROVE RolesAreTrue
    BY DEF RolesInv
  <1>1. ASSUME NEW s \in Socks, NEW t \in Threads, active_connections[t].conn = This(s)
        PROVE  active_connections[t].role \in {Unknown, sock[s].role}
    <2>1. active_connections[t].conn.sk = s /\ active_connections[t].conn.use = sock[s].use
      BY <1>1 DEF This
    <2> QED
      BY <2>1 DEF RolesByUse
  <1>2. ASSUME NEW s \in Socks, NEW o \in Objects, bound[o] = This(s),
               ssl_ptr_to_conn[o] # NoInfo
        PROVE  ssl_ptr_to_conn[o].role \in {Unknown, sock[s].role}
    <2>1. bound[o].sk = s /\ bound[o].use = sock[s].use
      BY <1>2 DEF This
    <2> QED
      BY <1>2, <2>1 DEF RolesByUse
  <1> QED
    BY <1>1, <1>2 DEF RolesAreTrue

(* A new use of an address has a number no map holds yet, and tcp_close    *)
(* deletes the role before the address can be used again.                  *)
LEMMA RolesStep == TypeOK /\ RolesInv /\ [Next]_vars => RolesInv'
  <1> SUFFICES ASSUME TypeOK, RolesInv, [Next]_vars PROVE RolesInv'
    OBVIOUS
  <1> USE Absent, UsesAreNumbers, AttributionAssumption
      DEF TypeOK, RolesInv, OfThePast, RoleOfSocket, RolesByUse, This
  <1>1. ASSUME NEW s \in Socks, Socket(s) PROVE RolesInv'
    <2>1. /\ sock[s].status = "closed"
          /\ sock'[s].use = sock[s].use + 1
          /\ sock'[s].status = "new" /\ sock'[s].role = "client"
          /\ \A r \in Socks \ {s} : sock'[r] = sock[r]
          /\ UNCHANGED <<bound, active_connections, ssl_ptr_to_conn, sock_role>>
      BY <1>1 DEF Socket, maps
    <2>2. OfThePast'
      BY <2>1
    <2>3. RoleOfSocket'
      BY <2>1
    <2>4. RolesByUse'
      BY <2>1, SMTT(40)
    <2> QED
      BY <2>2, <2>3, <2>4
  <1>2. ASSUME NEW t \in Threads, NEW s \in Socks, Connect(t, s) PROVE RolesInv'
    <2> DEFINE use == IF sock[s].status = "new" THEN sock[s].use ELSE sock[s].use + 1
    <2>0. /\ use \in Nat
          /\ \/ use = sock[s].use /\ sock[s].role = "client"
             \/ use = sock[s].use + 1
      OBVIOUS
    <2>1. /\ sock'[s].use = use
          /\ sock'[s].status = "open" /\ sock'[s].role = "client"
          /\ \A r \in Socks \ {s} : sock'[r] = sock[r]
          /\ active_connections'[t].conn.sk = s
          /\ active_connections'[t].conn.use = use
          /\ active_connections'[t].role = "client"
          /\ \A u \in Threads \ {t} : active_connections'[u] = active_connections[u]
          /\ sock_role' = [sock_role EXCEPT ![s] = "client"]
          /\ UNCHANGED <<bound, ssl_ptr_to_conn>>
      BY <1>2 DEF Connect, Remember
    <2> HIDE DEF use
    <2>2. OfThePast'
      <3>1. \A r \in Socks : sock'[r].use \in Nat /\ sock[r].use <= sock'[r].use
        BY <2>0, <2>1
      <3>2. ASSUME NEW r \in Socks, NEW u \in Threads,
                   active_connections'[u].conn.sk = r
            PROVE  active_connections'[u].conn.use <= sock'[r].use
        <4>1. CASE u = t
          BY <2>0, <2>1, <3>2, <4>1
        <4>2. CASE u # t
          BY <2>1, <3>1, <3>2, <4>2
        <4> QED
          BY <4>1, <4>2
      <3>3. ASSUME NEW r \in Socks, NEW o \in Objects, bound'[o].sk = r
            PROVE  bound'[o].use <= sock'[r].use
        BY <2>1, <3>1, <3>3
      <3> QED
        BY <3>2, <3>3
    <2>3. RoleOfSocket'
      BY <2>1
    <2>4. ASSUME NEW r \in Socks, NEW u \in Threads,
                 active_connections'[u].conn.sk = r,
                 active_connections'[u].conn.use = sock'[r].use
          PROVE  active_connections'[u].role \in {Unknown, sock'[r].role}
      <3>1. CASE u = t
        BY <2>1, <2>4, <3>1
      <3>2. CASE u # t
        BY <2>0, <2>1, <2>4, <3>2
      <3> QED
        BY <3>1, <3>2
    <2>5. ASSUME NEW r \in Socks, NEW o \in Objects,
                 bound'[o].sk = r, bound'[o].use = sock'[r].use,
                 ssl_ptr_to_conn'[o] # NoInfo
          PROVE  ssl_ptr_to_conn'[o].role \in {Unknown, sock'[r].role}
      <3>1. CASE r = s
        <4>1. bound[o].sk = s /\ bound[o].use = use /\ bound[o].use <= sock[s].use
          <5>1. bound' = bound /\ sock'[s].use = use
            BY <2>1
          <5> QED
            BY <2>5, <3>1, <5>1
        <4>2. use = sock[s].use
          BY <2>0, <4>1
        <4> QED
          BY <2>0, <2>1, <2>5, <3>1, <4>1, <4>2
      <3>2. CASE r # s
        BY <2>1, <2>5, <3>2
      <3> QED
        BY <3>1, <3>2
    <2>6. RolesByUse'
      BY <2>4, <2>5
    <2> QED
      BY <2>2, <2>3, <2>6
  <1>3. ASSUME NEW t \in Threads, NEW s \in Socks, Accept(t, s) PROVE RolesInv'
    <2>1. /\ sock'[s].use = sock[s].use + 1
          /\ sock'[s].status = "open" /\ sock'[s].role = "server"
          /\ \A r \in Socks \ {s} : sock'[r] = sock[r]
          /\ active_connections'[t].conn.sk = s
          /\ active_connections'[t].conn.use = sock[s].use + 1
          /\ active_connections'[t].role = "server"
          /\ \A u \in Threads \ {t} : active_connections'[u] = active_connections[u]
          /\ sock_role' = [sock_role EXCEPT ![s] = "server"]
          /\ UNCHANGED <<bound, ssl_ptr_to_conn>>
      BY <1>3 DEF Accept, Remember
    <2>2. OfThePast'
      BY <2>1
    <2>3. RoleOfSocket'
      BY <2>1
    <2>4. ASSUME NEW r \in Socks, NEW u \in Threads,
                 active_connections'[u].conn.sk = r,
                 active_connections'[u].conn.use = sock'[r].use
          PROVE  active_connections'[u].role \in {Unknown, sock'[r].role}
      <3>1. CASE u = t
        BY <2>1, <2>4, <3>1
      <3>2. CASE u # t
        BY <2>1, <2>4, <3>2
      <3> QED
        BY <3>1, <3>2
    <2>5. ASSUME NEW r \in Socks, NEW o \in Objects,
                 bound'[o].sk = r, bound'[o].use = sock'[r].use,
                 ssl_ptr_to_conn'[o] # NoInfo
          PROVE  ssl_ptr_to_conn'[o].role \in {Unknown, sock'[r].role}
      BY <2>1, <2>5
    <2>6. RolesByUse'
      BY <2>4, <2>5
    <2> QED
      BY <2>2, <2>3, <2>6
  <1>4. ASSUME NEW t \in Threads, NEW s \in Socks, TcpClose(t, s) PROVE RolesInv'
    BY <1>4 DEF TcpClose, ClosingThread, ForgetRole
  <1>5. ASSUME NEW t \in Threads, NEW s \in Socks, KtlsEntry(t, s) PROVE RolesInv'
    BY <1>5 DEF KtlsEntry, Tuple
  <1>6. ASSUME NEW o \in Objects, NEW s \in Socks, SetFd(o, s) PROVE RolesInv'
    BY <1>6 DEF SetFd, Tuple
  <1>7. ASSUME NEW t \in Threads, NEW o \in Objects, RememberOwner(t, o) PROVE RolesInv'
    BY <1>7 DEF RememberOwner
  <1>8. ASSUME NEW t \in Threads, NEW o \in Objects, Emit(t, o) PROVE RolesInv'
    BY <1>8 DEF Emit, maps
  <1>9. ASSUME NEW t \in Threads, NEW o \in Objects, SslFree(t, o) PROVE RolesInv'
    BY <1>9 DEF SslFree, ForgetObject
  <1>10. CASE Evict
    <2>1. UNCHANGED <<sock, bound>>
      BY <1>10 DEF Evict
    <2>2. \A t \in Threads : active_connections'[t] \in {active_connections[t], NoInfo}
      BY <1>10 DEF Evict
    <2>3. \A o \in Objects : ssl_ptr_to_conn'[o] \in {ssl_ptr_to_conn[o], NoInfo}
      BY <1>10 DEF Evict, ForgetObject
    <2>4. \A s \in Socks : sock_role'[s] \in {sock_role[s], Unknown}
      BY <1>10 DEF Evict, ForgetRole
    <2>5. OfThePast'
      BY <2>1, <2>2
    <2>6. RoleOfSocket'
      BY <2>1, <2>4
    <2>7. ASSUME NEW s \in Socks, NEW t \in Threads,
                 active_connections'[t].conn.sk = s,
                 active_connections'[t].conn.use = sock'[s].use
          PROVE  active_connections'[t].role \in {Unknown, sock'[s].role}
      BY <2>1, <2>2, <2>7
    <2>8. ASSUME NEW s \in Socks, NEW o \in Objects,
                 bound'[o].sk = s, bound'[o].use = sock'[s].use,
                 ssl_ptr_to_conn'[o] # NoInfo
          PROVE  ssl_ptr_to_conn'[o].role \in {Unknown, sock'[s].role}
      BY <2>1, <2>3, <2>8
    <2>9. RolesByUse'
      BY <2>7, <2>8
    <2> QED
      BY <2>5, <2>6, <2>9
  <1>11. CASE UNCHANGED vars
    BY <1>11 DEF vars, maps
  <1> QED
    BY <1>1, <1>2, <1>3, <1>4, <1>5, <1>6, <1>7, <1>8, <1>9, <1>10, <1>11 DEF Next

(* The roles the maps hold for connections that exist are the roles the    *)
(* process has in them, however addresses are reused and elements dropped. *)
THEOREM RolesCorrect == Spec => []RolesAreTrue
  <1>1. Init => RolesInv
    BY Absent DEF Init, RolesInv, OfThePast, RoleOfSocket, RolesByUse
  <1> QED
    BY <1>1, TypeInit, TypeStep, RolesStep, RolesByUseSuffices, PTL DEF Spec

-----------------------------------------------------------------------------
(* sock_to_pid names the thread whose entry is about the socket.           *)
OwnFallback ==
    \A t \in Threads : active_connections[t] # NoInfo =>
        \E s \in Socks : /\ active_connections[t].conn = This(s)
                         /\ sock[s].status = "open"
                         /\ sock_to_pid[s] = t

(* Without kTLS probes, which give a socket to another thread, and without *)
(* a dropped element, tcp_close finds the entry it has to delete.          *)
LEMMA FallbackStep ==
  ASSUME ~KernelTLS, MaxEvictions = 0, TypeOK, OwnFallback, [Next]_vars
  PROVE  OwnFallback'
  <1> USE AttributionAssumption DEF TypeOK, This
  <1> SUFFICES ASSUME NEW u \in Threads, active_connections'[u] # NoInfo
               PROVE  \E r \in Socks : /\ active_connections'[u].conn = This(r)'
                                       /\ sock'[r].status = "open"
                                       /\ sock_to_pid'[r] = u
    BY DEF OwnFallback
  <1> DEFINE Own(r) == /\ active_connections[u].conn = This(r)
                       /\ sock[r].status = "open"
                       /\ sock_to_pid[r] = u
  <1>0. active_connections[u] # NoInfo => \E r \in Socks : Own(r)
    BY DEF OwnFallback
  <1>1. ASSUME NEW s \in Socks, Socket(s)
        PROVE  \E r \in Socks : Own(r)'
    <2>1. PICK r \in Socks : Own(r)
      BY <1>0, <1>1 DEF Socket, maps
    <2> QED
      BY <1>1, <2>1 DEF Socket, maps
  <1>2. ASSUME NEW t \in Threads, NEW s \in Socks, Connect(t, s) \/ Accept(t, s)
        PROVE  \E r \in Socks : Own(r)'
    <2>1. CASE u = t
      <3>1. Own(s)'
        BY <1>2, <2>1 DEF Connect, Accept, Remember
      <3> QED
        BY <3>1
    <2>2. CASE u # t
      <3>1. PICK r \in Socks : Own(r)
        BY <1>0, <1>2, <2>2 DEF Connect, Accept, Remember
      <3>2. r # s
        BY <1>2, <3>1 DEF Connect, Accept
      <3> QED
        BY <1>2, <2>2, <3>1, <3>2 DEF Connect, Accept, Remember
    <2> QED
      BY <2>1, <2>2
  <1>3. ASSUME NEW t \in Threads, NEW s \in Socks, TcpClose(t, s)
        PROVE  \E r \in Socks : Own(r)'
    <2>1. u # ClosingThread(t, s) /\ active_connections'[u] = active_connections[u]
      BY <1>3 DEF TcpClose, ClosingThread
    <2>2. PICK r \in Socks : Own(r)
      BY <1>0, <2>1
    <2>3. r # s
      BY <2>1, <2>2 DEF ClosingThread, NoThread
    <2> QED
      BY <1>3, <2>1, <2>2, <2>3 DEF TcpClose
  <1>4. ASSUME NEW t \in Threads, NEW o \in Objects, SslFree(t, o)
        PROVE  \E r \in Socks : Own(r)'
    <2>1. active_connections'[u] = active_connections[u] /\ UNCHANGED <<sock, sock_to_pid>>
      BY <1>4 DEF SslFree
    <2> QED
      BY <1>0, <2>1
  <1>5. CASE UNCHANGED <<sock, active_connections, sock_to_pid>>
    BY <1>0, <1>5
  <1>6. ~Evict /\ \A t \in Threads, s \in Socks : ~KtlsEntry(t, s)
    BY DEF Evict, KtlsEntry
  <1>7. ASSUME NEW o \in Objects, NEW s \in Socks, SetFd(o, s)
        PROVE  UNCHANGED <<sock, active_connections, sock_to_pid>>
    BY <1>7 DEF SetFd
  <1>8. ASSUME NEW t \in Threads, NEW o \in Objects, RememberOwner(t, o) \/ Emit(t, o)
        PROVE  UNCHANGED <<sock, active_connections, sock_to_pid>>
    BY <1>8 DEF RememberOwner, Emit, maps
  <1>9. CASE UNCHANGED vars
    BY <1>5, <1>9 DEF vars, maps
  <1> QED
    BY <1>1, <1>2, <1>3, <1>4, <1>5, <1>6, <1>7, <1>8, <1>9 DEF Next

(* What the run attribution_stale refutes holds where its two causes are   *)
(* absent: no thread is left with a connection that is gone.               *)
THEOREM FallbackIsFresh ==
  ASSUME ~KernelTLS, MaxEvictions = 0
  PROVE  Spec => []NoStaleFallback
  <1>1. Init => OwnFallback
    BY DEF Init, OwnFallback
  <1>2. TypeOK /\ OwnFallback /\ [Next]_vars => OwnFallback'
    BY FallbackStep
  <1>3. OwnFallback => NoStaleFallback
    BY DEF OwnFallback, NoStaleFallback
  <1> QED
    BY <1>1, <1>2, <1>3, TypeInit, TypeStep, PTL DEF Spec

=============================================================================
