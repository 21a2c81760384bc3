--------------------------- MODULE ConnAttribution ---------------------------
(***************************************************************************)
(* How bpf/http_trace.bpf.c attributes a TLS record to a TCP connection:   *)
(* the maps active_connections (per thread), ssl_ptr_to_conn (per TLS      *)
(* object), sock_role, sock_to_pid and ssl_ptr_to_pid, and the probes that *)
(* fill and clear them while threads open, share and close sockets.        *)
(*                                                                         *)
(* A connection is a socket address and the number of its use, since the   *)
(* kernel reuses the address; a TLS object likewise.  Each probe is one    *)
(* step: what it reads of a socket or an object cannot change under it.    *)
(***************************************************************************)
EXTENDS Integers

CONSTANTS
    Threads,      \* pid_tgid
    Socks,        \* addresses of struct sock
    Objects,      \* addresses of TLS objects
    KernelTLS,    \* whether the kTLS probes are attached
    MaxLives,     \* bound: uses of one address
    MaxEvictions  \* bound: elements the LRU maps drop

ASSUME AttributionAssumption ==
    /\ "none" \notin Socks \cup Threads      \* the values of NoConn and NoThread
    /\ KernelTLS \in BOOLEAN
    /\ MaxLives \in Nat
    /\ MaxEvictions \in Nat

VARIABLES
    sock,        \* each socket: its use, whether it is open, who initiated it
    bound,       \* the connection each live object was given (history)
    active_connections, ssl_ptr_to_conn, sock_role, sock_to_pid, ssl_ptr_to_pid,
    event,       \* the record an exit probe last attributed
    evictions    \* elements dropped so far

maps == <<active_connections, ssl_ptr_to_conn, sock_role, sock_to_pid,
          ssl_ptr_to_pid>>
vars == <<sock, bound, maps, event, evictions>>

Roles == {"client", "server"}
Unknown == "unknown"      \* role 0
NoConn == [sk |-> "none", use |-> 0]
Conn == [sk : Socks, use : 0..MaxLives]
NoInfo == [conn |-> NoConn, role |-> "none"]
Info == [conn : Conn \cup {NoConn}, role : Roles \cup {Unknown}]
NoThread == "none"
NoEvent == [attribution |-> "none", info |-> NoInfo, bound |-> NoConn]

This(s) == [sk |-> s, use |-> sock[s].use]

(* fill_conn_info: the tuple of the socket, empty until it is connected    *)
Tuple(s) == IF sock[s].status = "open" THEN This(s) ELSE NoConn

(* Some sockets were open before the probes were attached.                 *)
Init ==
    /\ sock \in [Socks -> {[use |-> 0, status |-> "closed", role |-> "client"],
                           [use |-> 0, status |-> "open", role |-> "server"]}]
    /\ bound = [o \in Objects |-> NoConn]
    /\ active_connections = [t \in Threads |-> NoInfo]
    /\ ssl_ptr_to_conn = [o \in Objects |-> NoInfo]
    /\ sock_role = [s \in Socks |-> Unknown]
    /\ sock_to_pid = [s \in Socks |-> NoThread]
    /\ ssl_ptr_to_pid = [o \in Objects |-> NoThread]
    /\ event = NoEvent
    /\ evictions = 0

-----------------------------------------------------------------------------
(* socket(): not probed, the address gets its next use.                    *)
Socket(s) ==
    /\ sock[s].status = "closed"
    /\ sock[s].use < MaxLives
    /\ sock' = [sock EXCEPT ![s] = [use |-> @.use + 1, status |-> "new",
                                    role |-> "client"]]
    /\ UNCHANGED <<bound, maps, event, evictions>>

(* What tcp_connect_entry and tcp_accept_ret store for a new connection.   *)
Remember(t, conn, role) ==
    /\ active_connections' =
         [active_connections EXCEPT ![t] = [conn |-> conn, role |-> role]]
    /\ sock_to_pid' = [sock_to_pid EXCEPT ![conn.sk] = t]
    /\ sock_role' = [sock_role EXCEPT ![conn.sk] = role]

(* tcp_connect of a socket made just before, or earlier                    *)
Connect(t, s) ==
    LET use == IF sock[s].status = "new" THEN sock[s].use ELSE sock[s].use + 1 IN
    /\ sock[s].status # "open"
    /\ use <= MaxLives
    /\ sock' = [sock EXCEPT ![s] = [use |-> use, status |-> "open",
                                    role |-> "client"]]
    /\ Remember(t, [sk |-> s, use |-> use], "client")
    /\ UNCHANGED <<bound, ssl_ptr_to_conn, ssl_ptr_to_pid, event, evictions>>

Accept(t, s) ==
    LET use == sock[s].use + 1 IN
    /\ sock[s].status = "closed"
    /\ use <= MaxLives
    /\ sock' = [sock EXCEPT ![s] = [use |-> use, status |-> "open",
                                    role |-> "server"]]
    /\ Remember(t, [sk |-> s, use |-> use], "server")
    /\ UNCHANGED <<bound, ssl_ptr_to_conn, ssl_ptr_to_pid, event, evictions>>

(* sock_to_pid, or the current thread when the socket is unknown           *)
ClosingThread(t, s) == IF sock_to_pid[s] = NoThread THEN t ELSE sock_to_pid[s]

(* Mutant: the role outlives the socket. *)
ForgetRole_Kept(s) == sock_role

ForgetRole(s) == [sock_role EXCEPT ![s] = Unknown]

TcpClose(t, s) ==
    /\ sock[s].status # "closed"
    /\ sock' = [sock EXCEPT ![s].status = "closed"]
    /\ active_connections' =
         [active_connections EXCEPT ![ClosingThread(t, s)] = NoInfo]
    /\ sock_to_pid' = [sock_to_pid EXCEPT ![s] = NoThread]
    /\ sock_role' = ForgetRole(s)
    /\ UNCHANGED <<bound, ssl_ptr_to_conn, ssl_ptr_to_pid, event, evictions>>

(* ktls_save_args: the thread's entry and the owner, but no role           *)
KtlsEntry(t, s) ==
    /\ KernelTLS
    /\ sock[s].status = "open"
    /\ active_connections' =
         [active_connections EXCEPT ![t] = [conn |-> Tuple(s), role |-> Unknown]]
    /\ sock_to_pid' = [sock_to_pid EXCEPT ![s] = t]
    /\ UNCHANGED <<sock, bound, ssl_ptr_to_conn, sock_role, ssl_ptr_to_pid,
                   event, evictions>>

-----------------------------------------------------------------------------
(* ssl_set_fd_entry *)
SetFd(o, s) ==
    /\ sock[s].status # "closed"
    /\ bound' = [bound EXCEPT ![o] = This(s)]
    /\ ssl_ptr_to_conn' = [ssl_ptr_to_conn EXCEPT ![o] =
                              [conn |-> Tuple(s), role |-> sock_role[s]]]
    /\ UNCHANGED <<sock, active_connections, sock_role, sock_to_pid,
                   ssl_ptr_to_pid, event, evictions>>

(* remember_ssl_owner, in the entry probes of the OpenSSL calls            *)
RememberOwner(t, o) ==
    /\ ssl_ptr_to_pid' = [ssl_ptr_to_pid EXCEPT ![o] = t]
    /\ UNCHANGED <<sock, bound, active_connections, ssl_ptr_to_conn, sock_role,
                   sock_to_pid, event, evictions>>

(* fill_event_hdr: the object's entry, else the thread's, else none        *)
Attribution(t, o) ==
    IF ssl_ptr_to_conn[o] # NoInfo
    THEN [attribution |-> "ssl", info |-> ssl_ptr_to_conn[o]]
    ELSE IF active_connections[t] # NoInfo
    THEN [attribution |-> "thread", info |-> active_connections[t]]
    ELSE [attribution |-> "none", info |-> NoInfo]

(* TLS data passes only over a connected socket.                           *)
Emit(t, o) ==
    LET a == Attribution(t, o) IN
    /\ \A s \in Socks : bound[o] = This(s) => sock[s].status # "new"
    /\ event' = [attribution |-> a.attribution, info |-> a.info,
                 bound |-> bound[o]]
    /\ UNCHANGED <<sock, bound, maps, evictions>>

(* Mutant: the entry is cleared by fields and stays in the map. *)
ForgetObject_Zeroed(o) ==
    [ssl_ptr_to_conn EXCEPT ![o] = [conn |-> NoConn, role |-> "zero"]]

(* Mutant: the object's connection outlives it. *)
ForgetObject_Kept(o) == ssl_ptr_to_conn

ForgetObject(o) == [ssl_ptr_to_conn EXCEPT ![o] = NoInfo]

(* ssl_free_entry; the next use of the address is an object of its own     *)
SslFree(t, o) ==
    LET owner == IF ssl_ptr_to_pid[o] = NoThread THEN t ELSE ssl_ptr_to_pid[o] IN
    /\ bound' = [bound EXCEPT ![o] = NoConn]
    /\ ssl_ptr_to_pid' = [ssl_ptr_to_pid EXCEPT ![o] = NoThread]
    /\ ssl_ptr_to_conn' = ForgetObject(o)
    /\ active_connections' = [active_connections EXCEPT ![owner] = NoInfo]
    /\ UNCHANGED <<sock, sock_role, sock_to_pid, event, evictions>>

-----------------------------------------------------------------------------
(* An LRU map drops an element.                                            *)
Evict ==
    /\ evictions < MaxEvictions
    /\ evictions' = evictions + 1
    /\ \/ /\ \E t \in Threads : active_connections' =
                [active_connections EXCEPT ![t] = NoInfo]
          /\ UNCHANGED <<ssl_ptr_to_conn, sock_role, sock_to_pid, ssl_ptr_to_pid>>
       \/ /\ \E o \in Objects : ssl_ptr_to_conn' = ForgetObject(o)
          /\ UNCHANGED <<active_connections, sock_role, sock_to_pid, ssl_ptr_to_pid>>
       \/ /\ \E s \in Socks : sock_role' = ForgetRole(s)
          /\ UNCHANGED <<active_connections, ssl_ptr_to_conn, sock_to_pid,
                         ssl_ptr_to_pid>>
       \/ /\ \E s \in Socks : sock_to_pid' = [sock_to_pid EXCEPT ![s] = NoThread]
          /\ UNCHANGED <<active_connections, ssl_ptr_to_conn, sock_role,
                         ssl_ptr_to_pid>>
       \/ /\ \E o \in Objects :
                ssl_ptr_to_pid' = [ssl_ptr_to_pid EXCEPT ![o] = NoThread]
          /\ UNCHANGED <<active_connections, ssl_ptr_to_conn, sock_role,
                         sock_to_pid>>
    /\ UNCHANGED <<sock, bound, event>>

Next ==
    \/ \E s \in Socks : Socket(s)
    \/ \E t \in Threads, s \in Socks :
          Connect(t, s) \/ Accept(t, s) \/ TcpClose(t, s) \/ KtlsEntry(t, s)
    \/ \E o \in Objects, s \in Socks : SetFd(o, s)
    \/ \E t \in Threads, o \in Objects :
          RememberOwner(t, o) \/ Emit(t, o) \/ SslFree(t, o)
    \/ Evict

Spec == Init /\ [][Next]_vars

-----------------------------------------------------------------------------
(* Properties.                                                             *)

(* Type invariant of the attribution maps. *)
TypeOK ==
    /\ sock \in [Socks -> [use : 0..MaxLives, status : {"closed", "new", "open"},
                           role : Roles]]
    /\ bound \in [Objects -> Conn \cup {NoConn}]
    /\ active_connections \in [Threads -> Info \cup {NoInfo}]
    /\ ssl_ptr_to_conn \in [Objects -> Info \cup {NoInfo}]
    /\ sock_role \in [Socks -> Roles \cup {Unknown}]
    /\ sock_to_pid \in [Socks -> Threads \cup {NoThread}]
    /\ ssl_ptr_to_pid \in [Objects -> Threads \cup {NoThread}]
    /\ event \in [attribution : {"ssl", "thread", "none"},
                  info : Info \cup {NoInfo}, bound : Conn \cup {NoConn}]
    /\ evictions \in 0..MaxEvictions

(* A record marked ATTR_SSL carries the connection its own object was      *)
(* given, whichever thread made the call and whatever the address of the   *)
(* object was used for before.  SSL_set_fd on a socket that is not yet     *)
(* connected stores an empty tuple, which is marked ATTR_SSL all the same. *)
ExactAttribution ==
    event.attribution = "ssl" => event.info.conn \in {NoConn, event.bound}

(* Every role the maps hold for a connection that still exists, or for the *)
(* object it was given to, is the role its process has in it, or unknown:  *)
(* userspace takes the direction of the requests from it.                  *)
RolesAreTrue ==
    \A s \in Socks :
        /\ \A t \in Threads : active_connections[t].conn = This(s) =>
              active_connections[t].role \in {Unknown, sock[s].role}
        /\ \A o \in Objects : bound[o] = This(s) /\ ssl_ptr_to_conn[o] # NoInfo =>
              ssl_ptr_to_conn[o].role \in {Unknown, sock[s].role}

(* tcp_close deletes the entry of the thread that opened the connection:   *)
(* no thread is left with a connection that is gone.                       *)
NoStaleFallback ==
    \A t \in Threads : active_connections[t] # NoInfo =>
        \E s \in Socks :
            /\ active_connections[t].conn = This(s)
            /\ sock[s].status = "open"
=============================================================================
