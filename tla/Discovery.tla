------------------------------ MODULE Discovery ------------------------------
(***************************************************************************)
(* Library discovery and probe attachment: main.rs from the first scan to  *)
(* the poll loop, discover_tls_libs_in of http.rs, attach_tls_libs and     *)
(* AttachedLibs of bpf.rs, and the exec notification of the BPF object,    *)
(* with --discover-libs and no --pid.                                      *)
(*                                                                         *)
(* A library file (device, inode) is a member of Files.  The scan returns  *)
(* it as /proc/<pid>/root/<path>; since only the pid tells two such paths  *)
(* apart here, a path is a pid.  It names the library of the image the     *)
(* process runs: nothing once the process is gone, another file when the   *)
(* pid is used again.  Self is the path of --tls-libs.                     *)
(***************************************************************************)
EXTENDS Integers, Sequences, FiniteSets

CONSTANTS
    Images,         \* the library files of the images that processes run
    OwnLib,         \* the file --tls-libs names
    Pids,           \* process ids
    Plans,          \* provider plans that apply (plans_for)
    GoTls,          \* --go-tls
    ProcSlots,      \* records proc_events holds
    LibsCapacity,   \* capacity of the channel libs_tx
    MaxDiscovered,  \* MAX_DISCOVERED_LIBS
    MaxAttached,    \* MAX_ATTACHED_LIBS
    MaxExecs,       \* bound: processes, the initial ones included
    MaxFaults       \* bound: attach calls that fail for their own reasons

ASSUME DiscoveryAssumption ==
    /\ Pids \subseteq Nat \ {0} /\ IsFiniteSet(Pids)
    /\ {Plans, ProcSlots, LibsCapacity, MaxDiscovered} \subseteq Nat \ {0}
    /\ {MaxAttached, MaxExecs, MaxFaults} \subseteq Nat
    /\ GoTls \in BOOLEAN
    /\ "none" \notin Images \cup {OwnLib}

NoFile == "none"
NoProc == [image |-> NoFile, mapped |-> FALSE]
Self == 0
Files == Images \cup {OwnLib}
Calls == {"write", "read"}
Pairs == (1..Plans) \X Calls

VARIABLES
    procs,     \* the process of each pid
    execs,     \* processes so far
    notify,    \* whether the exec tracepoint is attached
    procRing,  \* proc_events
    token,     \* the channel exec_tx (capacity 1)
    task,      \* the rescan task
    scan,      \* the running scan: pids left, paths and files found
    libs,      \* the channel libs_tx
    main,      \* where main is
    list,      \* the paths take_new has to look at
    fresh,     \* the paths to attach, with the file each stood for (history)
    half,      \* attach_pair: the file its entry probe is on, when attached
    pair,      \* how many of the pairs of the first fresh path were tried
    whole,     \* the ones of them that attached
    usable,    \* libraries with usable coverage, at startup
    seen,      \* AttachedLibs
    links,     \* entry and exit probes on each file
    failures,  \* PROBE_ATTACH_FAILURES, by the file that was meant
    faults,    \* attach calls that failed so far
    noticed,   \* an exec was notified since the last rescan for one (history)
    reused,    \* a pid was used again while its path was in use (history)
    slipped    \* files that were gone before startup recorded them (history)

history == <<reused, slipped>>
procVars == <<procs, execs, noticed>>
scanVars == <<scan, task, libs, token>>
attachVars == <<fresh, half, pair, whole, usable, links, failures, faults>>
vars == <<procVars, notify, procRing, scanVars, main, list, attachVars, seen, history>>

NoScan == [todo |-> {}, found |-> <<>>, files |-> {}]

(* What a path names at this moment. *)
FileAt(p) == IF p = Self THEN OwnLib ELSE procs[p].image

Init ==
    /\ procs \in [Pids -> {NoProc} \cup [image : Images, mapped : {TRUE}]]
    /\ execs = Cardinality({p \in Pids : procs[p] # NoProc})
    /\ notify = FALSE
    /\ procRing = 0
    /\ token = FALSE
    /\ task = "none"
    /\ scan = [NoScan EXCEPT !.todo = {p \in Pids : procs[p] # NoProc}]
    /\ libs = <<>>
    /\ main = "discover"
    /\ list = <<>>
    /\ fresh = <<>>
    /\ half = NoFile
    /\ pair = 0
    /\ whole = {}
    /\ usable = 0
    /\ seen = {}
    /\ links = [f \in Files |-> [c \in Pairs |-> [entry |-> 0, exit |-> 0]]]
    /\ failures = [f \in Files |-> 0]
    /\ faults = 0
    /\ noticed = FALSE
    /\ reused = FALSE
    /\ slipped = {}

-----------------------------------------------------------------------------
(* The node's processes.                                                   *)

Running == main \notin {"stopped", "failed"}

(* The paths some step has read and will use.                              *)
Paths(seq) == {seq[i].path : i \in DOMAIN seq}
InUse == Paths(scan.found) \cup Paths(list) \cup Paths(fresh)
         \cup UNION {Paths(libs[i]) : i \in DOMAIN libs}

(* Mutant: the reservation is not checked. *)
Told_Unchecked == notify

(* The tracepoint is attached and proc_events has room for a record.       *)
Told == notify /\ procRing < ProcSlots

(* handle_new_process: an exec is written to proc_events or goes untold.   *)
Exec(p, image, mapped) ==
    /\ Running
    /\ execs < MaxExecs
    /\ procs[p] = NoProc
    /\ execs' = execs + 1
    /\ procs' = [procs EXCEPT ![p] = [image |-> image, mapped |-> mapped]]
    /\ procRing' = IF Told THEN procRing + 1 ELSE procRing
    /\ noticed' = (noticed \/ Told)
    /\ reused' = (reused \/ p \in InUse)
    /\ UNCHANGED <<notify, scanVars, main, list, attachVars, seen, slipped>>

(* A process maps its library after it started (dlopen).                   *)
Dlopen(p) ==
    /\ Running
    /\ procs[p] # NoProc /\ ~procs[p].mapped
    /\ procs' = [procs EXCEPT ![p].mapped = TRUE]
    /\ UNCHANGED <<execs, noticed, notify, procRing, scanVars, main, list,
                   attachVars, seen, history>>

Exit(p) ==
    /\ Running
    /\ procs[p] # NoProc
    /\ procs' = [procs EXCEPT ![p] = NoProc]
    /\ slipped' = IF main \in {"discover", "start", "record"} /\ p \in InUse
                  THEN slipped \cup {procs[p].image} ELSE slipped
    /\ UNCHANGED <<execs, noticed, notify, procRing, scanVars, main, list,
                   attachVars, seen, reused>>

-----------------------------------------------------------------------------
(* discover_tls_libs_in, by main at first and by the rescan task later.    *)

Begin == scan' = [NoScan EXCEPT !.todo = {p \in Pids : procs[p] # NoProc}]
Scanning == main = "discover" \/ task = "scan"

(* The pids are read in ascending order; one that is gone, or whose        *)
(* library was found already, is skipped.                                  *)
ScanPid ==
    LET p == CHOOSE q \in scan.todo : \A r \in scan.todo : q <= r
        new == procs[p].mapped /\ FileAt(p) \notin scan.files
    IN
    /\ Running /\ Scanning
    /\ scan.todo # {}
    /\ scan' = IF ~new THEN [scan EXCEPT !.todo = @ \ {p}]
               ELSE [todo |-> IF Len(scan.found) + 1 >= MaxDiscovered THEN {}
                              ELSE scan.todo \ {p},
                     found |-> Append(scan.found, [path |-> p, file |-> FileAt(p)]),
                     files |-> scan.files \cup {FileAt(p)}]
    /\ UNCHANGED <<procVars, notify, procRing, task, libs, token, main, list,
                   attachVars, seen, history>>

-----------------------------------------------------------------------------
(* The rescan task.                                                        *)

Waits == Running /\ task = "wait"

(* Mutant: rescans follow notifications only. *)
Tick_None == FALSE

(* The interval of LIB_RESCAN_INTERVAL.                                    *)
Tick ==
    /\ Waits
    /\ Begin
    /\ task' = "scan"
    /\ UNCHANGED <<procVars, notify, procRing, libs, token, main, list, attachVars,
                   seen, history>>

(* A notification: the task gives the process two seconds first.           *)
Wake ==
    /\ Waits
    /\ token
    /\ token' = FALSE
    /\ task' = "sleep"
    /\ UNCHANGED <<procVars, notify, procRing, scan, libs, main, list, attachVars,
                   seen, history>>

Slept ==
    /\ Running
    /\ task = "sleep"
    /\ Begin
    /\ task' = "scan"
    /\ noticed' = FALSE
    /\ UNCHANGED <<procs, execs, notify, procRing, libs, token, main, list, attachVars,
                   seen, history>>

(* libs_tx.send waits for room.                                            *)
SendLibs ==
    /\ Running
    /\ task = "scan" /\ scan.todo = {}
    /\ Len(libs) < LibsCapacity
    /\ libs' = Append(libs, scan.found)
    /\ scan' = NoScan
    /\ task' = "wait"
    /\ UNCHANGED <<procVars, notify, procRing, token, main, list, attachVars, seen,
                   history>>

TaskStep == Tick \/ Wake \/ Slept \/ SendLibs

-----------------------------------------------------------------------------
(* attach_tls_libs: for every path and plan, the write pair and then the   *)
(* read pair; of a pair both probes, or neither.                           *)

Attaching == main \in {"start", "attach"} /\ fresh # <<>>
Path == Head(fresh).path

(* An attach call opens the path again.  It fails where nothing is left,   *)
(* or for want of the symbol or of resources.                              *)
Attaches(ok) ==
    /\ ok => FileAt(Path) # NoFile
    /\ ~ok /\ FileAt(Path) # NoFile => faults < MaxFaults
    /\ faults' = IF ~ok /\ FileAt(Path) # NoFile THEN faults + 1 ELSE faults

(* The next pair: the write pair of a plan, then its read pair.            *)
Trying == <<pair \div 2 + 1, IF pair % 2 = 0 THEN "write" ELSE "read">>

AttachEntry(ok) ==
    /\ Running /\ Attaching
    /\ pair < 2 * Plans /\ half = NoFile
    /\ Attaches(ok)
    /\ half' = IF ok THEN FileAt(Path) ELSE NoFile
    /\ pair' = IF ok THEN pair ELSE pair + 1
    /\ UNCHANGED <<procVars, notify, procRing, scanVars, main, list, fresh, whole,
                   usable, links, failures, seen, history>>

(* Mutant: an entry probe stays when its exit probe does not attach. *)
Extended_Half(ok) ==
    IF ok THEN [links EXCEPT ![half][Trying].entry = @ + 1,
                             ![FileAt(Path)][Trying].exit = @ + 1]
    ELSE [links EXCEPT ![half][Trying].entry = @ + 1]

(* The links, extended by the pair if it is whole.                         *)
Extended(ok) ==
    IF ok THEN [links EXCEPT ![half][Trying].entry = @ + 1,
                             ![FileAt(Path)][Trying].exit = @ + 1]
    ELSE links

AttachExit(ok) ==
    /\ Running /\ Attaching
    /\ half # NoFile
    /\ Attaches(ok)
    /\ links' = Extended(ok)
    /\ whole' = IF ok THEN whole \cup {Trying} ELSE whole
    /\ half' = NoFile
    /\ pair' = pair + 1
    /\ UNCHANGED <<procVars, notify, procRing, scanVars, main, list, fresh, usable,
                   failures, seen, history>>

(* Mutant: one pair is enough. *)
Covers_Any(pairs) == pairs # {}

(* Whether both pairs of some plan are among the pairs.                    *)
Covers(pairs) == \E n \in 1..Plans : {n} \X Calls \subseteq pairs

AttachDone ==
    /\ Running /\ Attaching
    /\ pair = 2 * Plans
    /\ failures' = IF Covers(whole) THEN failures
                   ELSE [failures EXCEPT ![Head(fresh).file] = @ + 1]
    /\ usable' = IF Covers(whole) /\ main = "start" THEN usable + 1 ELSE usable
    /\ fresh' = Tail(fresh)
    /\ pair' = 0
    /\ whole' = {}
    /\ UNCHANGED <<procVars, notify, procRing, scanVars, main, list, half, links, faults,
                   seen, history>>

-----------------------------------------------------------------------------
(* main: the first attach, take_new, the kernel probes, the poll loop.     *)

(* The libraries found replace --tls-libs, unless there are none.          *)
Start ==
    LET paths == IF scan.found = <<>> THEN <<[path |-> Self, file |-> OwnLib]>>
                 ELSE scan.found
    IN
    /\ Running
    /\ main = "discover" /\ scan.todo = {}
    /\ list' = paths
    /\ fresh' = paths
    /\ scan' = NoScan
    /\ main' = "start"
    /\ UNCHANGED <<procVars, notify, procRing, task, libs, token, half, pair, whole,
                   usable, links, failures, faults, seen, history>>

(* attach_tls_uprobes: without a usable library the sensor stops, unless   *)
(* it is to probe Go programs.                                             *)
Started ==
    /\ Running
    /\ main = "start" /\ fresh = <<>>
    /\ main' = IF usable = 0 /\ ~GoTls THEN "failed" ELSE "record"
    /\ usable' = 0
    /\ UNCHANGED <<procVars, notify, procRing, scanVars, list, fresh, half, pair, whole,
                   links, failures, faults, seen, history>>

(* Mutant: a file is taken although it was seen. *)
IsNew_Seen(f) == f # NoFile /\ Cardinality(seen \cup {f}) <= MaxAttached

(* The file exists, is within the limit and was not seen.                  *)
IsNew(f) == f # NoFile /\ Cardinality(seen) < MaxAttached /\ f \notin seen

(* take_new looks at a path: its file is recorded, and attached later if   *)
(* this is not the startup, unless it is gone, known, or one too many.     *)
TakeNew ==
    LET f == FileAt(Head(list).path) IN
    /\ Running
    /\ main \in {"record", "take"} /\ list # <<>>
    /\ seen' = IF IsNew(f) THEN seen \cup {f} ELSE seen
    /\ fresh' = IF IsNew(f) /\ main = "take"
                THEN Append(fresh, [path |-> Head(list).path, file |-> f]) ELSE fresh
    /\ list' = Tail(list)
    /\ UNCHANGED <<procVars, notify, procRing, scanVars, main, half, pair, whole, usable,
                   links, failures, faults, history>>

(* attach_kernel_probes, with or without the exec tracepoint, and the      *)
(* rescan task.                                                            *)
Recorded(attached) ==
    /\ Running
    /\ main = "record" /\ list = <<>>
    /\ notify' = attached
    /\ task' = "wait"
    /\ main' = "poll"
    /\ UNCHANGED <<procVars, procRing, scan, libs, token, list, attachVars, seen, history>>

(* Mutant: a token is left only for a task that waits. *)
Signal_Waiting == token \/ (procRing > 0 /\ task = "wait")

(* exec_tx.try_send for each record: one token at most.                    *)
Signal == token \/ procRing > 0

(* ringbuf.poll: the callback of proc_events runs for every record.        *)
Poll ==
    /\ Running
    /\ main = "poll"
    /\ token' = Signal
    /\ procRing' = 0
    /\ main' = "drain"
    /\ UNCHANGED <<procVars, notify, scan, task, libs, list, attachVars, seen, history>>

Drain ==
    /\ Running
    /\ main = "drain"
    /\ IF libs = <<>> THEN main' = "poll" /\ UNCHANGED <<libs, list>>
       ELSE main' = "take" /\ list' = Head(libs) /\ libs' = Tail(libs)
    /\ UNCHANGED <<procVars, notify, procRing, scan, task, token, attachVars, seen,
                   history>>

Taken ==
    /\ Running
    /\ \/ main = "take" /\ list = <<>> /\ main' = "attach"
       \/ main = "attach" /\ fresh = <<>> /\ main' = "drain"
    /\ UNCHANGED <<procVars, notify, procRing, scanVars, list, attachVars, seen, history>>

(* SIGTERM ends the poll loop: the links are dropped.                      *)
Shutdown ==
    /\ main = "poll"
    /\ main' = "stopped"
    /\ links' = [f \in Files |-> [c \in Pairs |-> [entry |-> 0, exit |-> 0]]]
    /\ UNCHANGED <<procVars, notify, procRing, scanVars, list, fresh, half, pair, whole,
                   usable, failures, faults, seen, history>>

MainStep ==
    \/ \E ok \in BOOLEAN : AttachEntry(ok) \/ AttachExit(ok)
    \/ AttachDone \/ Start \/ Started \/ TakeNew \/ Poll \/ Drain \/ Taken
    \/ \E attached \in BOOLEAN : Recorded(attached)

Next ==
    \/ \E p \in Pids :
          \/ \E image \in Images, mapped \in BOOLEAN : Exec(p, image, mapped)
          \/ Dlopen(p)
          \/ Exit(p)
    \/ ScanPid
    \/ TaskStep
    \/ MainStep
    \/ Shutdown

(* The timer of the interval ticks, the tasks are scheduled, and           *)
(* ringbuf.poll returns after 200 ms at most.                              *)
Spec ==
    /\ Init /\ [][Next]_vars
    /\ WF_vars(ScanPid) /\ WF_vars(TaskStep) /\ WF_vars(MainStep)

-----------------------------------------------------------------------------
(* Properties.                                                             *)

(* Type invariant of discovery, with the limit on recorded files. *)
TypeOK ==
    /\ procs \in [Pids -> {NoProc} \cup [image : Images, mapped : BOOLEAN]]
    /\ procRing \in 0..ProcSlots
    /\ {notify, token, noticed} \subseteq BOOLEAN
    /\ task \in {"none", "wait", "sleep", "scan"}
    /\ main \in {"discover", "start", "record", "poll", "drain", "take", "attach",
                 "stopped", "failed"}
    /\ scan.todo \subseteq Pids /\ Len(scan.found) <= MaxDiscovered
    /\ Len(libs) <= LibsCapacity
    /\ half \in Files \cup {NoFile}
    /\ pair \in 0..(2 * Plans) /\ whole \subseteq Pairs
    /\ seen \subseteq Files /\ Cardinality(seen) <= MaxAttached
    /\ links \in [Files -> [Pairs -> [entry : Nat, exit : Nat]]]
    /\ failures \in [Files -> Nat]

(* attach_pair, discover_tls_libs_in, AttachedLibs: no file is left with   *)
(* an entry probe without its exit probe or the reverse, which would never *)
(* emit and leak saved arguments, also when the file disappears between    *)
(* the two; and a file is probed once, however many processes map it,      *)
(* however often it is found and whenever they exit, unless it was gone    *)
(* when startup came to record what it had attached.  (Both unless a pid   *)
(* is used again in between.)                                              *)
ProbedOnce ==
    ~reused =>
        \A f \in Files : \A c \in Pairs :
            /\ links[f][c].entry = links[f][c].exit
            /\ f \notin slipped => links[f][c].entry <= 1

Probed(f) ==
    \E n \in 1..Plans : \A c \in Calls :
        links[f][<<n, c>>].entry > 0 /\ links[f][<<n, c>>].exit > 0

(* take_new records a file before it is attached and nothing retries it:   *)
(* so a recorded file is probed, on its way, or counted as a failure.      *)
SeenIsSettled ==
    ~reused /\ Running =>
        \A f \in seen :
            \/ Probed(f)
            \/ failures[f] > 0
            \/ \E i \in DOMAIN fresh : fresh[i].file = f

(* The callback of proc_events and the channel of capacity 1: after every  *)
(* exec that was notified a rescan will start for it, although try_send    *)
(* drops all notifications but one.                                        *)
NoLostWakeup == noticed => procRing > 0 \/ token \/ task = "sleep"

Mapped(f) == \E p \in Pids : procs[p] = [image |-> f, mapped |-> TRUE]

(* The rescan every 30 s covers missed notifications and late dlopen: a    *)
(* library that stays mapped is probed or its failure counted, unless the  *)
(* limit is reached, a pid was used again at the wrong time or the sensor  *)
(* ends.                                                                   *)
RescanCovers ==
    \A f \in Files :
        []<>(~Mapped(f) \/ Probed(f) \/ failures[f] > 0 \/ ~Running
             \/ (f \notin seen /\ Cardinality(seen) = MaxAttached) \/ reused)
=============================================================================
