--------------------------- MODULE DiscoveryProofs ---------------------------
(***************************************************************************)
(* Proofs about Discovery, for every set of processes, images and plans,   *)
(* every capacity and every limit.                                         *)
(***************************************************************************)
EXTENDS Discovery, FiniteSetTheorems, SequenceTheorems, WellFoundedInduction, TLAPS

(* A path with the library file it stood for.                              *)
Entry == [path : Pids \cup {Self}, file : Files]
Scan == [todo : SUBSET Pids, found : Seq(Entry), files : SUBSET Files]
Process == {NoProc} \cup [image : Images, mapped : BOOLEAN]
Link == [entry : Nat, exit : Nat]

(* What the lists of paths hold; a scan that goes on has found less than   *)
(* MAX_DISCOVERED_LIBS, and an entry probe waits for its exit probe only   *)
(* while pairs are left.                                                   *)
Shape ==
    /\ scan \in Scan
    /\ scan.todo # {} => Len(scan.found) < MaxDiscovered
    /\ list \in Seq(Entry) /\ fresh \in Seq(Entry)
    /\ libs \in Seq(Seq(Entry))
    /\ half # NoFile => pair < 2 * Plans
    /\ IsFiniteSet(seen)

TypeInv == TypeOK /\ Shape

-----------------------------------------------------------------------------
(* A set of pids that is not empty has a least one: the scan's next.       *)
LEMMA LeastPid ==
  ASSUME NEW T, T \subseteq Pids, T # {}
  PROVE  (CHOOSE q \in T : \A r \in T : q <= r) \in T
  <1>1. IsWellFoundedOn(OpToRel(<, Nat), Nat)
    BY NatLessThanWellFounded
  <1> DEFINE R == {ss \in Nat \X Nat : ss[1] < ss[2]}
  <1>2. IsWellFoundedOn(R, Nat)
    BY <1>1 DEF OpToRel
  <1>3. T \subseteq Nat
    BY DiscoveryAssumption
  <1> HIDE DEF R
  <1>4. PICK x \in T : \A y \in T : ~(<<y, x>> \in R)
    BY <1>2, <1>3, WFMin
  <1>5. ASSUME NEW y \in T PROVE x <= y
    <2>1. ~(y < x) /\ x \in Nat /\ y \in Nat
      BY <1>3, <1>4 DEF R
    <2> QED
      BY <2>1
  <1> QED
    BY <1>5

(* A path names a library file or nothing.                                 *)
LEMMA FileAtType ==
  ASSUME procs \in [Pids -> Process], NEW p \in Pids \cup {Self}
  PROVE  FileAt(p) \in Files \cup {NoFile}
  BY DEF FileAt, Process, NoProc, Files

(* The number of pairs tried names the next pair.                          *)
At(k) == <<k \div 2 + 1, IF k % 2 = 0 THEN "write" ELSE "read">>

(* attach_tls_libs tries each pair of each plan once.                      *)
LEMMA AtType ==
  ASSUME NEW k \in Nat, k < 2 * Plans
  PROVE  At(k) \in Pairs
  <1>1. Plans \in Nat
    BY DiscoveryAssumption
  <1>2. k \div 2 \in Nat /\ k \div 2 < Plans
    BY <1>1
  <1>3. k \div 2 + 1 \in 1..Plans
    BY <1>1, <1>2
  <1> QED
    BY <1>3 DEF At, Pairs, Calls

(* Two numbers name two pairs.                                             *)
LEMMA AtInjective ==
  ASSUME NEW k \in Nat, NEW m \in Nat, At(k) = At(m)
  PROVE  k = m
  <1>1. k \div 2 + 1 = m \div 2 + 1
    BY DEF At
  <1>2. (k % 2 = 0) <=> (m % 2 = 0)
    BY DEF At
  <1>3. k \div 2 \in Int /\ m \div 2 \in Int /\ k \div 2 = m \div 2
    BY <1>1
  <1>4. k = 2 * (k \div 2) + (k % 2) /\ m = 2 * (m \div 2) + (m % 2)
    OBVIOUS
  <1>5. k % 2 \in {0, 1} /\ m % 2 \in {0, 1}
    OBVIOUS
  <1>6. k % 2 = m % 2
    BY <1>2, <1>5
  <1> QED
    BY <1>3, <1>4, <1>6

(* The parts of the type invariant, by what they are about.                *)
LEMMA Typed ==
  ASSUME TypeInv
  PROVE  /\ procs \in [Pids -> Process]
         /\ procRing \in 0..ProcSlots /\ procRing \in Nat
         /\ scan \in Scan /\ scan.todo \subseteq Pids /\ scan.found \in Seq(Entry)
         /\ scan.files \subseteq Files
         /\ list \in Seq(Entry) /\ fresh \in Seq(Entry) /\ libs \in Seq(Seq(Entry))
         /\ half \in Files \cup {NoFile} /\ pair \in 0..(2 * Plans) /\ pair \in Nat
         /\ whole \subseteq Pairs
         /\ seen \subseteq Files /\ IsFiniteSet(seen) /\ Cardinality(seen) <= MaxAttached
         /\ links \in [Files -> [Pairs -> Link]] /\ failures \in [Files -> Nat]
  BY DiscoveryAssumption, SMTT(40) DEF TypeInv, TypeOK, Shape, Scan, Process, Link

(* The path attach_tls_libs works on.                                      *)
LEMMA HeadType ==
  ASSUME TypeInv, fresh # <<>>
  PROVE  /\ Head(fresh) \in Entry /\ Path \in Pids \cup {Self}
         /\ Head(fresh).file \in Files
         /\ FileAt(Path) \in Files \cup {NoFile}
  <1>1. Head(fresh) \in Entry
    BY Typed, HeadTailProperties
  <1>2. Path \in Pids \cup {Self} /\ Head(fresh).file \in Files
    BY <1>1 DEF Entry, Path
  <1> QED
    BY <1>1, <1>2, Typed, FileAtType

(* The links with one more entry probe on f and exit probe on g.           *)
Extend(L, f, g, c) == [L EXCEPT ![f][c].entry = @ + 1, ![g][c].exit = @ + 1]

(* What a whole pair adds to the links.                                    *)
LEMMA ExtendedIs ==
  ASSUME NEW L \in [Files -> [Pairs -> Link]], NEW f \in Files, NEW g \in Files,
         NEW c \in Pairs
  PROVE  /\ Extend(L, f, g, c) \in [Files -> [Pairs -> Link]]
         /\ \A h \in Files, d \in Pairs :
               /\ Extend(L, f, g, c)[h][d].entry =
                     IF h = f /\ d = c THEN L[h][d].entry + 1 ELSE L[h][d].entry
               /\ Extend(L, f, g, c)[h][d].exit =
                     IF h = g /\ d = c THEN L[h][d].exit + 1 ELSE L[h][d].exit
  <1> DEFINE x == [L[f][c] EXCEPT !.entry = @ + 1]
             X == [L[f] EXCEPT ![c] = x]
             N == [L EXCEPT ![f] = X]
             y == [N[g][c] EXCEPT !.exit = @ + 1]
             Y == [N[g] EXCEPT ![c] = y]
             M == [N EXCEPT ![g] = Y]
  <1>1. L[f] \in [Pairs -> Link] /\ L[f][c] \in Link
    OBVIOUS
  <1>2. x \in Link /\ x.entry = L[f][c].entry + 1 /\ x.exit = L[f][c].exit
    BY <1>1 DEF Link
  <1> HIDE DEF x
  <1>3. X \in [Pairs -> Link] /\ \A d \in Pairs : X[d] = IF d = c THEN x ELSE L[f][d]
    BY <1>1, <1>2
  <1> HIDE DEF X
  <1>4. N \in [Files -> [Pairs -> Link]] /\ \A h \in Files : N[h] = IF h = f THEN X ELSE L[h]
    BY <1>3
  <1> HIDE DEF N
  <1>5. N[g] \in [Pairs -> Link] /\ N[g][c] \in Link
    BY <1>4
  <1>6. y \in Link /\ y.exit = N[g][c].exit + 1 /\ y.entry = N[g][c].entry
    BY <1>5 DEF Link
  <1> HIDE DEF y
  <1>7. Y \in [Pairs -> Link] /\ \A d \in Pairs : Y[d] = IF d = c THEN y ELSE N[g][d]
    BY <1>5, <1>6
  <1> HIDE DEF Y
  <1>8. M \in [Files -> [Pairs -> Link]] /\ \A h \in Files : M[h] = IF h = g THEN Y ELSE N[h]
    BY <1>4, <1>7
  <1> HIDE DEF M
  <1>9. ASSUME NEW h \in Files, NEW d \in Pairs
        PROVE  /\ N[h][d].entry = IF h = f /\ d = c THEN L[h][d].entry + 1
                                  ELSE L[h][d].entry
               /\ N[h][d].exit = L[h][d].exit
    BY <1>2, <1>3, <1>4
  <1>10. ASSUME NEW h \in Files, NEW d \in Pairs
         PROVE  /\ M[h][d].entry = N[h][d].entry
                /\ M[h][d].exit = IF h = g /\ d = c THEN N[h][d].exit + 1 ELSE N[h][d].exit
    BY <1>6, <1>7, <1>8
  <1>11. M = Extend(L, f, g, c)
    BY DEF M, Y, y, N, X, x, Extend
  <1>12. M \in [Files -> [Pairs -> Link]]
    BY <1>8
  <1>13. \A h \in Files, d \in Pairs :
            /\ M[h][d].entry = IF h = f /\ d = c THEN L[h][d].entry + 1 ELSE L[h][d].entry
            /\ M[h][d].exit = IF h = g /\ d = c THEN L[h][d].exit + 1 ELSE L[h][d].exit
    BY <1>9, <1>10
  <1> QED
    BY <1>11, <1>12, <1>13, Zenon

(* A path and its file join a list, or leave it.                           *)
LEMMA EntryAppend ==
  ASSUME NEW s \in Seq(Entry), NEW p \in Pids \cup {Self}, NEW f \in Files
  PROVE  /\ Append(s, [path |-> p, file |-> f]) \in Seq(Entry)
         /\ Len(Append(s, [path |-> p, file |-> f])) = Len(s) + 1
  <1>1. [path |-> p, file |-> f] \in Entry
    BY DEF Entry
  <1> QED
    BY <1>1, AppendProperties

(* discover_tls_libs_in looks at one pid of those left: it finds nothing   *)
(* new, or a file it had not found.                                        *)
LEMMA ScanChanges ==
  ASSUME TypeInv, ScanPid
  PROVE  \E p \in scan.todo :
            \/ scan' = [scan EXCEPT !.todo = @ \ {p}]
            \/ /\ FileAt(p) \in Files /\ FileAt(p) \notin scan.files
               /\ scan'.found = Append(scan.found, [path |-> p, file |-> FileAt(p)])
               /\ scan'.files = scan.files \cup {FileAt(p)}
               /\ scan' \in Scan
               /\ scan'.todo # {} => Len(scan.found) + 1 < MaxDiscovered
               /\ Len(scan.found) < MaxDiscovered
  <1> DEFINE p == CHOOSE q \in scan.todo : \A r \in scan.todo : q <= r
             new == procs[p].mapped /\ FileAt(p) \notin scan.files
             todo == IF Len(scan.found) + 1 >= MaxDiscovered THEN {} ELSE scan.todo \ {p}
             found == Append(scan.found, [path |-> p, file |-> FileAt(p)])
  <1>1. p \in scan.todo
    BY LeastPid, Typed DEF ScanPid
  <1>2. scan' = IF ~new THEN [scan EXCEPT !.todo = @ \ {p}]
                ELSE [todo |-> todo, found |-> found, files |-> scan.files \cup {FileAt(p)}]
    BY DEF ScanPid
  <1>3. p \in Pids
    BY <1>1, Typed
  <1>4. new => FileAt(p) \in Files
    <2>1. procs[p] \in Process /\ p # Self
      BY <1>3, Typed, DiscoveryAssumption DEF Self
    <2>2. new => procs[p] # NoProc
      BY DEF NoProc
    <2> QED
      BY <2>1, <2>2 DEF FileAt, Process, Files
  <1>5. /\ Len(scan.found) \in Nat /\ MaxDiscovered \in Nat
        /\ Len(scan.found) < MaxDiscovered
    BY Typed, LenProperties, DiscoveryAssumption DEF ScanPid, TypeInv, Shape
  <1> HIDE DEF p
  <1>6. todo \in SUBSET Pids
    BY Typed
  <1>7. todo # {} => Len(scan.found) + 1 < MaxDiscovered
    BY <1>5
  <1>8. CASE ~new
    BY <1>1, <1>2, <1>8
  <1>9. CASE new
    <2>1. found \in Seq(Entry)
      BY <1>3, <1>4, <1>9, Typed, EntryAppend
    <2>2. scan.files \cup {FileAt(p)} \in SUBSET Files
      BY <1>4, <1>9, Typed
    <2> HIDE DEF todo, found
    <2>3. scan' = [todo |-> todo, found |-> found, files |-> scan.files \cup {FileAt(p)}]
      BY <1>2, <1>9
    <2>4. scan' \in Scan
      BY <2>1, <2>2, <2>3, <1>6 DEF Scan
    <2>5. /\ scan'.todo = todo /\ scan'.found = found
          /\ scan'.files = scan.files \cup {FileAt(p)}
      BY <2>3
    <2> QED
      BY <1>1, <1>4, <1>5, <1>7, <1>9, <2>4, <2>5 DEF found
  <1> QED
    BY <1>8, <1>9

(* attach_pair keeps the types of the links and of what it counts.         *)
LEMMA AttachExitType ==
  ASSUME TypeInv, NEW ok \in BOOLEAN, AttachExit(ok)
  PROVE  /\ links' \in [Files -> [Pairs -> Link]]
         /\ pair' \in 0..(2 * Plans) /\ whole' \subseteq Pairs
         /\ pair < 2 * Plans /\ Trying = At(pair) /\ Trying \in Pairs
         /\ half \in Files
         /\ ok => FileAt(Path) \in Files
  <1>1. half \in Files /\ pair < 2 * Plans /\ pair \in Nat /\ Plans \in Nat
    BY Typed, DiscoveryAssumption DEF TypeInv, Shape, AttachExit
  <1>2. Trying = At(pair) /\ Trying \in Pairs
    BY <1>1, AtType DEF Trying, At
  <1>3. ok => FileAt(Path) \in Files
    BY HeadType DEF AttachExit, Attaches, Attaching
  <1>4. links' \in [Files -> [Pairs -> Link]]
    <2>1. links' = Extended(ok) /\ links \in [Files -> [Pairs -> Link]]
      BY Typed DEF AttachExit
    <2>2. CASE ok
      <3>1. Extended(ok) = Extend(links, half, FileAt(Path), Trying)
        BY <2>2 DEF Extended, Extend
      <3>2. FileAt(Path) \in Files
        BY <2>2, <1>3
      <3>3. Extend(links, half, FileAt(Path), Trying) \in [Files -> [Pairs -> Link]]
        BY <2>1, <3>2, <1>1, <1>2, ExtendedIs, Zenon
      <3> QED
        BY <2>1, <3>1, <3>3
    <2>3. CASE ~ok
      BY <2>1, <2>3 DEF Extended
    <2> QED
      BY <2>2, <2>3
  <1>5. pair' \in 0..(2 * Plans) /\ whole' \subseteq Pairs
    BY <1>1, <1>2, Typed DEF AttachExit
  <1> QED
    BY <1>1, <1>2, <1>3, <1>4, <1>5

(* Each step keeps the types.                                              *)
LEMMA TypeStep == TypeInv /\ [Next]_vars => TypeInv'
  <1> SUFFICES ASSUME TypeInv, [Next]_vars PROVE TypeInv'
    OBVIOUS
  <1> DEFINE
        TP == procs \in [Pids -> Process]
        TN == /\ procRing \in 0..ProcSlots /\ {notify, token, noticed} \subseteq BOOLEAN
              /\ task \in {"none", "wait", "sleep", "scan"}
              /\ main \in {"discover", "start", "record", "poll", "drain", "take", "attach",
                           "stopped", "failed"}
        TS == /\ scan \in Scan /\ Len(scan.found) <= MaxDiscovered
              /\ scan.todo # {} => Len(scan.found) < MaxDiscovered
        TL == /\ list \in Seq(Entry) /\ fresh \in Seq(Entry)
              /\ libs \in Seq(Seq(Entry)) /\ Len(libs) <= LibsCapacity
        TA == /\ half \in Files \cup {NoFile} /\ pair \in 0..(2 * Plans)
              /\ whole \subseteq Pairs /\ (half # NoFile => pair < 2 * Plans)
              /\ links \in [Files -> [Pairs -> Link]] /\ failures \in [Files -> Nat]
        TR == seen \subseteq Files /\ IsFiniteSet(seen) /\ Cardinality(seen) <= MaxAttached
  <1>a. TP /\ TN /\ TS /\ TL /\ TA /\ TR
    BY DEF TypeInv, TypeOK, Shape, Process, Link
  <1>b. SUFFICES TP' /\ TN' /\ TS' /\ TL' /\ TA' /\ TR'
    BY DEF TypeInv, TypeOK, Shape, Process, Link, Scan
  <1>c. /\ procs' = procs => TP'
        /\ UNCHANGED <<procRing, notify, token, noticed, task, main>> => TN'
        /\ UNCHANGED scan => TS'
        /\ UNCHANGED <<list, fresh, libs>> => TL'
        /\ UNCHANGED <<half, pair, whole, links, failures>> => TA'
        /\ UNCHANGED seen => TR'
    BY <1>a
  <1>d. NoScan.todo = {} /\ NoScan.found = <<>> /\ NoScan.files = {}
        /\ <<>> \in Seq(Entry) /\ Len(<<>>) = 0
    BY DEF NoScan
  <1>e. ASSUME scan' = NoScan \/ \E T \in SUBSET Pids : scan' = [NoScan EXCEPT !.todo = T]
        PROVE  TS'
    <2>1. /\ scan' \in Scan /\ scan'.found = <<>>
      BY <1>e, <1>d DEF Scan, NoScan
    <2> QED
      BY <2>1, <1>d, DiscoveryAssumption
  <1>f. ASSUME Begin PROVE TS'
    BY <1>e, <1>f DEF Begin
  <1>1. ASSUME NEW p \in Pids, NEW image \in Images, NEW mapped \in BOOLEAN,
               Exec(p, image, mapped)
        PROVE  <1>b!1
    <2>1. TP'
      BY <1>1, <1>a DEF Exec, Process
    <2>2. TN'
      <3>1. Told => procRing + 1 \in 0..ProcSlots
        BY <1>a, DiscoveryAssumption, SMTT(40) DEF Told
      <3>2. Told \in BOOLEAN
        BY <1>a DEF Told
      <3> QED
        BY <1>1, <1>a, <3>1, <3>2 DEF Exec, scanVars
    <2> QED
      BY <1>1, <1>c, <2>1, <2>2 DEF Exec, scanVars, attachVars
  <1>2. ASSUME NEW p \in Pids, Dlopen(p) PROVE <1>b!1
    <2>1. TP'
      <3>1. procs[p] \in [image : Images, mapped : BOOLEAN]
        BY <1>2, <1>a DEF Dlopen, Process
      <3>2. [procs[p] EXCEPT !.mapped = TRUE] \in Process
        BY <3>1 DEF Process
      <3> QED
        BY <1>2, <1>a, <3>2 DEF Dlopen
    <2> QED
      BY <1>2, <1>c, <2>1 DEF Dlopen, scanVars, attachVars
  <1>3. ASSUME NEW p \in Pids, Exit(p) PROVE <1>b!1
    <2>1. TP'
      BY <1>3, <1>a DEF Exit, Process
    <2> QED
      BY <1>3, <1>c, <2>1 DEF Exit, scanVars, attachVars
  <1>4. CASE ScanPid
    <2>1. PICK p \in scan.todo :
            \/ scan' = [scan EXCEPT !.todo = @ \ {p}]
            \/ /\ FileAt(p) \in Files
               /\ scan'.found = Append(scan.found, [path |-> p, file |-> FileAt(p)])
               /\ scan' \in Scan
               /\ scan'.todo # {} => Len(scan.found) + 1 < MaxDiscovered
               /\ Len(scan.found) < MaxDiscovered
      BY <1>4, ScanChanges
    <2>2. TS'
      <3>1. CASE scan' = [scan EXCEPT !.todo = @ \ {p}]
        <4>1. scan' \in Scan /\ scan'.found = scan.found /\ scan.todo # {}
          BY <3>1, <1>a DEF Scan
        <4> QED
          BY <4>1, <1>a
      <3>2. CASE /\ FileAt(p) \in Files
                 /\ scan'.found = Append(scan.found, [path |-> p, file |-> FileAt(p)])
                 /\ scan' \in Scan
                 /\ scan'.todo # {} => Len(scan.found) + 1 < MaxDiscovered
                 /\ Len(scan.found) < MaxDiscovered
        <4>1. Len(scan'.found) = Len(scan.found) + 1 /\ Len(scan.found) \in Nat
          BY <3>2, Typed, EntryAppend, LenProperties
        <4> QED
          BY <3>2, <4>1, DiscoveryAssumption
      <3> QED
        BY <2>1, <3>1, <3>2
    <2> QED
      BY <1>4, <1>c, <2>2 DEF ScanPid, procVars, attachVars
  <1>5. CASE Tick \/ Wake \/ Slept
    <2>1. TS'
      BY <1>5, <1>c, <1>f DEF Tick, Wake, Slept
    <2>2. TN'
      BY <1>5, <1>a DEF Tick, Wake, Slept, procVars
    <2> QED
      BY <1>5, <1>c, <2>1, <2>2 DEF Tick, Wake, Slept, procVars, attachVars
  <1>6. CASE SendLibs
    <2>1. TS'
      BY <1>6, <1>e DEF SendLibs
    <2>2. libs' \in Seq(Seq(Entry)) /\ Len(libs') = Len(libs) + 1 /\ Len(libs) \in Nat
      BY <1>6, Typed, AppendProperties, LenProperties DEF SendLibs
    <2>3. TL'
      BY <1>6, <1>a, <2>2, DiscoveryAssumption DEF SendLibs, attachVars
    <2>4. TN'
      BY <1>6, <1>a DEF SendLibs, procVars
    <2> QED
      BY <1>6, <1>c, <2>1, <2>3, <2>4 DEF SendLibs, procVars, attachVars
  <1>7. ASSUME NEW ok \in BOOLEAN, AttachEntry(ok) PROVE <1>b!1
    <2>1. ok => FileAt(Path) \in Files
      BY <1>7, HeadType DEF AttachEntry, Attaches, Attaching
    <2>2. TA'
      BY <1>7, <2>1, <1>a, DiscoveryAssumption DEF AttachEntry
    <2> QED
      BY <1>7, <1>c, <2>2 DEF AttachEntry, procVars, scanVars
  <1>8. ASSUME NEW ok \in BOOLEAN, AttachExit(ok) PROVE <1>b!1
    <2>1. TA'
      BY <1>8, <1>a, AttachExitType DEF AttachExit
    <2> QED
      BY <1>8, <1>c, <2>1 DEF AttachExit, procVars, scanVars
  <1>9. CASE AttachDone
    <2>1. Head(fresh).file \in Files /\ Tail(fresh) \in Seq(Entry)
      BY <1>9, Typed, HeadType, HeadTailProperties DEF AttachDone, Attaching
    <2>2. TA'
      <3>1. failures' \in [Files -> Nat]
        BY <1>9, <2>1, <1>a, SMTT(40) DEF AttachDone
      <3>2. half = NoFile /\ 0 \in 0..(2 * Plans)
        BY <1>9, <1>a, DiscoveryAssumption DEF AttachDone
      <3> QED
        BY <1>9, <3>1, <3>2, <1>a DEF AttachDone
    <2>3. TL'
      BY <1>9, <2>1, <1>a DEF AttachDone, scanVars
    <2> QED
      BY <1>9, <1>c, <2>2, <2>3 DEF AttachDone, procVars, scanVars
  <1>10. CASE Start
    <2>1. <<[path |-> Self, file |-> OwnLib]>> \in Seq(Entry)
      <3>1. [path |-> Self, file |-> OwnLib] \in Entry
        BY DEF Entry, Files
      <3> QED
        BY <3>1
    <2>2. TL'
      BY <1>10, <2>1, <1>a, Typed DEF Start
    <2>3. TS'
      BY <1>10, <1>e DEF Start
    <2>4. TN'
      BY <1>10, <1>a DEF Start, procVars
    <2> QED
      BY <1>10, <1>c, <2>2, <2>3, <2>4 DEF Start, procVars
  <1>11. CASE Started
    <2>1. TN'
      BY <1>11, <1>a DEF Started, procVars, scanVars
    <2> QED
      BY <1>11, <1>c, <2>1 DEF Started, procVars, scanVars
  <1>12. CASE TakeNew
    <2> DEFINE h == Head(list)
               f == FileAt(h.path)
    <2>1. h \in Entry /\ Tail(list) \in Seq(Entry)
      BY <1>12, Typed, HeadTailProperties DEF TakeNew
    <2>2. h.path \in Pids \cup {Self}
      BY <2>1 DEF Entry
    <2>3. f \in Files \cup {NoFile}
      BY <2>2, Typed, FileAtType
    <2>4. /\ seen' = IF IsNew(f) THEN seen \cup {f} ELSE seen
          /\ fresh' \in {fresh, Append(fresh, [path |-> h.path, file |-> f])}
          /\ fresh' # fresh => IsNew(f)
          /\ list' = Tail(list)
      BY <1>12 DEF TakeNew
    <2> HIDE DEF f
    <2>5. IsNew(f) => f \in Files
      BY <2>3 DEF IsNew
    <2>6. TR'
      <3>1. CASE IsNew(f)
        <4>1. /\ IsFiniteSet(seen \cup {f}) /\ Cardinality(seen) \in Nat
              /\ Cardinality(seen \cup {f}) = Cardinality(seen) + 1
          BY <3>1, <1>a, FS_AddElement, FS_CardinalityType DEF IsNew
        <4> QED
          BY <3>1, <4>1, <2>4, <2>5, <1>a, DiscoveryAssumption, SMTT(40) DEF IsNew
      <3>2. CASE ~IsNew(f)
        BY <3>2, <2>4, <1>a
      <3> QED
        BY <3>1, <3>2
    <2>7. TL'
      <3>1. fresh' \in Seq(Entry)
        BY <2>2, <2>4, <2>5, <1>a, EntryAppend, ZenonT(60)
      <3> QED
        BY <1>12, <2>1, <2>4, <3>1, <1>a DEF TakeNew, scanVars
    <2> QED
      BY <1>12, <1>c, <2>6, <2>7 DEF TakeNew, procVars, scanVars
  <1>13. ASSUME NEW attached \in BOOLEAN, Recorded(attached) PROVE <1>b!1
    <2>1. TN'
      BY <1>13, <1>a DEF Recorded, procVars
    <2> QED
      BY <1>13, <1>c, <2>1 DEF Recorded, procVars, attachVars
  <1>14. CASE Poll
    <2>1. TN'
      BY <1>14, <1>a, DiscoveryAssumption DEF Poll, Signal, procVars
    <2> QED
      BY <1>14, <1>c, <2>1 DEF Poll, procVars, attachVars
  <1>15. CASE Drain
    <2>1. TN'
      BY <1>15, <1>a DEF Drain, procVars
    <2>2. TL'
      <3>1. CASE libs = <<>>
        BY <1>15, <3>1, <1>a DEF Drain, attachVars
      <3>2. CASE libs # <<>>
        <4>1. /\ Head(libs) \in Seq(Entry) /\ Tail(libs) \in Seq(Seq(Entry))
              /\ Len(Tail(libs)) = Len(libs) - 1 /\ Len(libs) \in Nat
          BY <3>2, Typed, HeadTailProperties, LenProperties
        <4>2. list' = Head(libs) /\ libs' = Tail(libs) /\ fresh' = fresh
          BY <1>15, <3>2 DEF Drain, attachVars
        <4>3. LibsCapacity \in Nat /\ Len(libs) <= LibsCapacity
          BY <1>a, DiscoveryAssumption
        <4>4. Len(Tail(libs)) <= LibsCapacity
          BY <4>1, <4>3
        <4> QED
          BY <4>1, <4>2, <4>4, <1>a
      <3> QED
        BY <3>1, <3>2
    <2> QED
      BY <1>15, <1>c, <2>1, <2>2 DEF Drain, procVars, attachVars
  <1>16. CASE Taken
    <2>1. TN'
      BY <1>16, <1>a DEF Taken, procVars, scanVars
    <2> QED
      BY <1>16, <1>c, <2>1 DEF Taken, procVars, scanVars, attachVars
  <1>17. CASE Shutdown
    <2>1. TN'
      BY <1>17, <1>a DEF Shutdown, procVars, scanVars
    <2>2. TA'
      BY <1>17, <1>a DEF Shutdown, Link
    <2> QED
      BY <1>17, <1>c, <2>1, <2>2 DEF Shutdown, procVars, scanVars
  <1>18. CASE UNCHANGED vars
    BY <1>18, <1>c DEF vars, procVars, scanVars, attachVars
  <1> QED
    BY <1>1, <1>2, <1>3, <1>4, <1>5, <1>6, <1>7, <1>8, <1>9, <1>10, <1>11, <1>12, <1>13,
       <1>14, <1>15, <1>16, <1>17, <1>18
    DEF Next, TaskStep, MainStep

(* A scan that has found nothing yet.                                      *)
LEMMA EmptyScan ==
  ASSUME NEW T \in SUBSET Pids
  PROVE  [todo |-> T, found |-> <<>>, files |-> {}] \in Scan
  <1>1. <<>> \in Seq(Entry) /\ {} \in SUBSET Files
    OBVIOUS
  <1> QED
    BY <1>1 DEF Scan

(* Discovery starts well typed.                                            *)
LEMMA TypeInit == Init => TypeInv
  <1> SUFFICES ASSUME Init PROVE TypeInv
    OBVIOUS
  <1>1. /\ scan = [NoScan EXCEPT !.todo = {p \in Pids : procs[p] # NoProc}]
        /\ libs = <<>> /\ list = <<>> /\ fresh = <<>> /\ seen = {}
    BY DEF Init
  <1>2. scan \in Scan /\ scan.found = <<>> /\ Len(<<>>) = 0
    <2> DEFINE T == {p \in Pids : procs[p] # NoProc}
    <2>1. T \in SUBSET Pids /\ scan = [NoScan EXCEPT !.todo = T]
      BY <1>1
    <2> HIDE DEF T
    <2>2. scan = [todo |-> T, found |-> <<>>, files |-> {}]
      BY <2>1 DEF NoScan
    <2>3. <<>> \in Seq(Entry) /\ {} \in SUBSET Files /\ Len(<<>>) = 0
      OBVIOUS
    <2>4. scan \in Scan
      BY <2>1, <2>2, EmptyScan
    <2>5. scan.found = <<>>
      BY <2>2
    <2> QED
      BY <2>3, <2>4, <2>5
  <1>3. Shape
    BY <1>1, <1>2, FS_EmptySet, DiscoveryAssumption DEF Shape, Init
  <1>4. /\ procs \in [Pids -> {NoProc} \cup [image : Images, mapped : BOOLEAN]]
        /\ links \in [Files -> [Pairs -> [entry : Nat, exit : Nat]]]
        /\ failures \in [Files -> Nat]
    BY DEF Init
  <1>5. scan.todo \subseteq Pids /\ Len(scan.found) <= MaxDiscovered
    BY <1>2, DiscoveryAssumption DEF Scan
  <1>6. Len(libs) <= LibsCapacity /\ Cardinality(seen) <= MaxAttached /\ seen \subseteq Files
    BY <1>1, <1>2, FS_EmptySet, DiscoveryAssumption
  <1>7. /\ procRing = 0 /\ notify = FALSE /\ token = FALSE /\ noticed = FALSE
        /\ task = "none" /\ main = "discover" /\ half = NoFile /\ pair = 0 /\ whole = {}
    BY DEF Init
  <1>8. 0 \in 0..ProcSlots /\ 0 \in 0..(2 * Plans)
    BY DiscoveryAssumption
  <1>9. TypeOK
    BY <1>4, <1>5, <1>6, <1>7, <1>8 DEF TypeOK
  <1> QED
    BY <1>3, <1>9 DEF TypeInv

(* The inductive type invariant always holds.                              *)
LEMMA TypeInvariant == Spec => []TypeInv
  BY TypeInit, TypeStep, PTL DEF Spec

(* Every state of discovery and attachment is well typed: a scan returns   *)
(* MAX_DISCOVERED_LIBS paths at most, MAX_ATTACHED_LIBS files are recorded *)
(* at most, and no more pairs are tried than the plans have.               *)
THEOREM TypeCorrect == Spec => []TypeOK
  BY TypeInvariant, PTL DEF TypeInv

-----------------------------------------------------------------------------
(* The exec notification.                                                  *)

(* The rescan task is not there before main is in its loop: starting it    *)
(* takes no wakeup away.                                                   *)
NoTaskYet == main \in {"discover", "start", "record"} => task = "none"

WakeupInv == NoLostWakeup /\ NoTaskYet

(* Every step leaves a notified exec a way to start a rescan.              *)
LEMMA WakeupStep == TypeInv /\ WakeupInv /\ [Next]_vars => WakeupInv'
  <1> SUFFICES ASSUME TypeInv, WakeupInv, [Next]_vars PROVE WakeupInv'
    OBVIOUS
  <1> USE DEF WakeupInv, NoLostWakeup, NoTaskYet
  <1>a. procRing \in Nat
    BY Typed
  <1>b. UNCHANGED <<noticed, procRing, token, task, main>> => WakeupInv'
    OBVIOUS
  <1>1. ASSUME NEW p \in Pids, NEW image \in Images, NEW mapped \in BOOLEAN,
               Exec(p, image, mapped)
        PROVE  WakeupInv'
    <2>1. /\ procRing' = IF Told THEN procRing + 1 ELSE procRing
          /\ noticed' = (noticed \/ Told) /\ UNCHANGED <<token, task, main>>
      BY <1>1 DEF Exec, scanVars
    <2>2. CASE Told
      BY <2>1, <2>2, <1>a
    <2>3. CASE ~Told
      BY <2>1, <2>3
    <2> QED
      BY <2>2, <2>3
  <1>2. ASSUME NEW p \in Pids, Dlopen(p) \/ Exit(p) PROVE WakeupInv'
    BY <1>2 DEF Dlopen, Exit, scanVars
  <1>3. CASE ScanPid
    BY <1>3 DEF ScanPid, procVars
  <1>4. CASE TaskStep
    <2>1. CASE Tick
      BY <1>4, <2>1 DEF Tick, Waits, procVars
    <2>2. CASE Wake
      BY <2>2 DEF Wake, Waits
    <2>3. CASE Slept
      BY <2>3 DEF Slept
    <2>4. CASE SendLibs
      BY <2>4 DEF SendLibs, procVars
    <2> QED
      BY <1>4, <2>1, <2>2, <2>3, <2>4 DEF TaskStep
  <1>5. CASE MainStep
    <2>1. ASSUME NEW ok \in BOOLEAN, AttachEntry(ok) \/ AttachExit(ok) PROVE WakeupInv'
      BY <2>1 DEF AttachEntry, AttachExit, procVars, scanVars
    <2>2. CASE AttachDone \/ Start \/ Started \/ TakeNew
      BY <2>2 DEF AttachDone, Start, Started, TakeNew, procVars, scanVars
    <2>3. CASE Poll
      <3>1. token' = (token \/ procRing > 0) /\ UNCHANGED <<noticed, task>>
             /\ main = "poll" /\ main' = "drain"
        BY <2>3 DEF Poll, Signal, procVars
      <3> QED
        BY <3>1
    <2>4. CASE Drain \/ Taken
      BY <2>4 DEF Drain, Taken, procVars, scanVars
    <2>5. ASSUME NEW attached \in BOOLEAN, Recorded(attached) PROVE WakeupInv'
      BY <2>5 DEF Recorded, procVars
    <2> QED
      BY <1>5, <2>1, <2>2, <2>3, <2>4, <2>5 DEF MainStep
  <1>6. CASE Shutdown
    BY <1>6 DEF Shutdown, procVars, scanVars
  <1>7. CASE UNCHANGED vars
    BY <1>7 DEF vars, procVars, scanVars
  <1> QED
    BY <1>1, <1>2, <1>3, <1>4, <1>5, <1>6, <1>7 DEF Next

(* main.rs, the callback of proc_events and exec_tx: although the channel  *)
(* holds one token and try_send drops the others, an exec that was written *)
(* to proc_events is still in the ring, has left a token, or has woken the *)
(* task that will rescan for it.                                           *)
THEOREM WakeupIsKept == Spec => []NoLostWakeup
  <1>1. Init => WakeupInv
    BY DEF Init, WakeupInv, NoLostWakeup, NoTaskYet
  <1>2. Spec => []WakeupInv
    BY <1>1, TypeInvariant, WakeupStep, PTL DEF Spec
  <1> QED
    BY <1>2, PTL DEF WakeupInv

-----------------------------------------------------------------------------
(* One probe of each kind per file, and no file forgotten.                 *)

FilesOf(s) == {s[i].file : i \in DOMAIN s}

(* No two paths of a list stand for the same file.                         *)
Distinct(s) == \A i, j \in DOMAIN s : s[i].file = s[j].file => i = j

(* A path names its file still, or nothing.                                *)
StillThere(s) == \A i \in DOMAIN s : FileAt(s[i].path) \in {s[i].file, NoFile}

(* A path names its file still, or its exit was noted.                     *)
NotGone(s) ==
    \A i \in DOMAIN s : FileAt(s[i].path) = s[i].file \/ s[i].file \in slipped

ScanPaths ==
    /\ scan.files = FilesOf(scan.found) /\ Distinct(scan.found)
    /\ main = "discover" => StillThere(scan.found) /\ NotGone(scan.found)

(* The paths found at startup are attached first and recorded then.        *)
StartPaths ==
    /\ main \in {"start", "record"} => StillThere(list) /\ NotGone(list)
    /\ main = "start" => FilesOf(fresh) \subseteq FilesOf(list)

(* The paths to attach; later each was recorded before.                    *)
FreshPaths ==
    /\ StillThere(fresh) /\ Distinct(fresh)
    /\ main \notin {"start", "take", "attach"} => fresh = <<>>
    /\ main \in {"take", "attach"} => FilesOf(fresh) \subseteq seen

(* Between two libraries attach_tls_libs has nothing in hand; within one,  *)
(* the entry probe it attached is on the file of that library.             *)
InHand ==
    /\ fresh = <<>> \/ main = "take" => half = NoFile /\ pair = 0 /\ whole = {}
    /\ half # NoFile => fresh # <<>> /\ half = Head(fresh).file

PathsInv == ~reused => ScanPaths /\ StartPaths /\ FreshPaths /\ InHand

(* What is still to be attached is not attached yet.                       *)
Unprobed ==
    \A i \in DOMAIN fresh, k \in 0..(2 * Plans - 1) :
        fresh[i].file \notin slipped /\ (i > 1 \/ k >= pair) =>
            links[fresh[i].file][At(k)].entry = 0

(* What is attached is recorded, is to be recorded, or the limit is        *)
(* reached and nothing will be attached any more.                          *)
ProbedIsRecorded ==
    main # "failed" =>
    \A f \in Files \ slipped, c \in Pairs :
        links[f][c].entry > 0 =>
            \/ f \in seen \/ Cardinality(seen) = MaxAttached
            \/ main \in {"start", "record"} /\ f \in FilesOf(list)

(* The pairs that are whole are on the file.                               *)
WholeIsProbed ==
    \A c \in whole :
        /\ links[Head(fresh).file][c].entry > 0
        /\ links[Head(fresh).file][c].exit > 0

OnePair ==
    \A f \in Files, c \in Pairs :
        /\ links[f][c].entry = links[f][c].exit
        /\ f \notin slipped => links[f][c].entry <= 1

(* Nothing is attached before the first scan is over.                      *)
NothingYet == main = "discover" => \A f \in Files, c \in Pairs : links[f][c].entry = 0

LinksInv ==
    ~reused => Unprobed /\ ProbedIsRecorded /\ WholeIsProbed /\ OnePair /\ NothingYet

Settled(f) == Probed(f) \/ failures[f] > 0 \/ f \in FilesOf(fresh)

(* Every file recorded, and at startup every file to be recorded.          *)
SettledInv ==
    ~reused /\ Running =>
        /\ \A f \in seen : Settled(f)
        /\ main \in {"start", "record"} => \A f \in FilesOf(list) : Settled(f)

(* A list with one more entry, and without its first.                      *)
LEMMA AppendIs ==
  ASSUME NEW s \in Seq(Entry), NEW e \in Entry
  PROVE  /\ DOMAIN s = 1..Len(s) /\ Len(s) \in Nat
         /\ DOMAIN Append(s, e) = 1..(Len(s) + 1)
         /\ Append(s, e)[Len(s) + 1] = e
         /\ \A i \in DOMAIN s : i \in DOMAIN Append(s, e) /\ Append(s, e)[i] = s[i]
  BY AppendProperties, LenProperties

(* Tail(s) is s without s[1].                                              *)
LEMMA TailIs ==
  ASSUME NEW s \in Seq(Entry), s # <<>>
  PROVE  /\ DOMAIN s = 1..Len(s) /\ Len(s) \in Nat \ {0}
         /\ Head(s) = s[1] /\ 1 \in DOMAIN s
         /\ DOMAIN Tail(s) = 1..(Len(s) - 1)
         /\ \A i \in DOMAIN Tail(s) : i + 1 \in DOMAIN s /\ Tail(s)[i] = s[i + 1]
  <1>1. Len(s) \in Nat \ {0} /\ DOMAIN s = 1..Len(s)
    BY LenProperties, EmptySeq
  <1>2. Head(s) = s[1] /\ DOMAIN Tail(s) = 1..(Len(s) - 1)
        /\ \A i \in 1..(Len(s) - 1) : Tail(s)[i] = s[i + 1]
    BY <1>1, HeadTailProperties, LenProperties
  <1> QED
    BY <1>1, <1>2

(* The files of a longer list, and of a shorter one.                       *)
LEMMA FilesAppend ==
  ASSUME NEW s \in Seq(Entry), NEW e \in Entry
  PROVE  FilesOf(Append(s, e)) = FilesOf(s) \cup {e.file}
  <1> DEFINE t == Append(s, e)
             n == Len(s)
  <1>1. /\ DOMAIN s = 1..n /\ n \in Nat /\ DOMAIN t = 1..(n + 1) /\ t[n + 1] = e
        /\ \A i \in DOMAIN s : i \in DOMAIN t /\ t[i] = s[i]
    BY AppendIs
  <1> HIDE DEF t, n
  <1>2. ASSUME NEW i \in DOMAIN t PROVE t[i].file \in FilesOf(s) \cup {e.file}
    <2>1. CASE i = n + 1
      BY <2>1, <1>1
    <2>2. CASE i # n + 1
      <3>1. i \in DOMAIN s
        BY <2>2, <1>1
      <3> QED
        BY <3>1, <1>1 DEF FilesOf
    <2> QED
      BY <2>1, <2>2
  <1>3. ASSUME NEW i \in DOMAIN s PROVE s[i].file \in {t[j].file : j \in DOMAIN t}
    <2>1. i \in DOMAIN t /\ t[i] = s[i]
      BY <1>1
    <2> QED
      BY <2>1
  <1>4. e.file \in {t[j].file : j \in DOMAIN t}
    <2>1. n + 1 \in DOMAIN t
      BY <1>1
    <2> QED
      BY <2>1, <1>1
  <1>5. FilesOf(t) = FilesOf(s) \cup {e.file}
    BY <1>2, <1>3, <1>4 DEF FilesOf
  <1> QED
    BY <1>5 DEF t

(* The first file, and the files of the rest.                              *)
LEMMA FilesTail ==
  ASSUME NEW s \in Seq(Entry), s # <<>>
  PROVE  FilesOf(s) = FilesOf(Tail(s)) \cup {Head(s).file}
  <1> DEFINE t == Tail(s)
             n == Len(s)
  <1>1. /\ DOMAIN s = 1..n /\ n \in Nat \ {0} /\ Head(s) = s[1] /\ 1 \in DOMAIN s
        /\ DOMAIN t = 1..(n - 1)
        /\ \A i \in DOMAIN t : i + 1 \in DOMAIN s /\ t[i] = s[i + 1]
    BY TailIs
  <1> HIDE DEF t, n
  <1>2. ASSUME NEW i \in DOMAIN s PROVE s[i].file \in FilesOf(t) \cup {Head(s).file}
    <2>1. CASE i = 1
      BY <2>1, <1>1
    <2>2. CASE i # 1
      <3>1. i - 1 \in DOMAIN t /\ (i - 1) + 1 = i
        BY <2>2, <1>1
      <3>2. t[i - 1] = s[i]
        BY <3>1, <1>1
      <3> QED
        BY <3>1, <3>2 DEF FilesOf
    <2> QED
      BY <2>1, <2>2
  <1>3. ASSUME NEW i \in DOMAIN t PROVE t[i].file \in {s[j].file : j \in DOMAIN s}
    <2>1. i + 1 \in DOMAIN s /\ t[i] = s[i + 1]
      BY <1>1
    <2> QED
      BY <2>1
  <1>4. Head(s).file \in {s[j].file : j \in DOMAIN s}
    BY <1>1
  <1>5. FilesOf(s) = FilesOf(t) \cup {Head(s).file}
    BY <1>2, <1>3, <1>4 DEF FilesOf
  <1> QED
    BY <1>5 DEF t

(* A new file keeps the files of a list apart; so does leaving one out.    *)
LEMMA DistinctAppend ==
  ASSUME NEW s \in Seq(Entry), NEW e \in Entry, Distinct(s), e.file \notin FilesOf(s)
  PROVE  Distinct(Append(s, e))
  <1> DEFINE t == Append(s, e)
             n == Len(s)
  <1>1. /\ DOMAIN s = 1..n /\ n \in Nat /\ DOMAIN t = 1..(n + 1) /\ t[n + 1] = e
        /\ \A i \in DOMAIN s : i \in DOMAIN t /\ t[i] = s[i]
    BY AppendIs
  <1>2. \A i \in DOMAIN s : s[i].file # e.file
    BY DEF FilesOf
  <1> HIDE DEF t, n
  <1>3. \A i \in DOMAIN t : i \in DOMAIN s \/ i = n + 1
    BY <1>1
  <1>4. ASSUME NEW i \in DOMAIN t, NEW j \in DOMAIN t, t[i].file = t[j].file
        PROVE  i = j
    <2>1. CASE i \in DOMAIN s /\ j \in DOMAIN s
      BY <2>1, <1>1, <1>4 DEF Distinct
    <2>2. CASE i = n + 1 /\ j \in DOMAIN s
      BY <2>2, <1>1, <1>2, <1>4
    <2>3. CASE i \in DOMAIN s /\ j = n + 1
      BY <2>3, <1>1, <1>2, <1>4
    <2> QED
      BY <1>3, <2>1, <2>2, <2>3
  <1>5. Distinct(t)
    BY <1>4 DEF Distinct
  <1> QED
    BY <1>5 DEF t

(* The first file of a list is not among the rest.                         *)
LEMMA DistinctTail ==
  ASSUME NEW s \in Seq(Entry), s # <<>>, Distinct(s)
  PROVE  Distinct(Tail(s)) /\ \A i \in DOMAIN s : i > 1 => s[i].file # Head(s).file
  <1> DEFINE t == Tail(s)
             n == Len(s)
  <1>1. /\ DOMAIN s = 1..n /\ n \in Nat \ {0} /\ Head(s) = s[1] /\ 1 \in DOMAIN s
        /\ DOMAIN t = 1..(n - 1)
        /\ \A i \in DOMAIN t : i + 1 \in DOMAIN s /\ t[i] = s[i + 1]
    BY TailIs
  <1> HIDE DEF t, n
  <1>2. ASSUME NEW i \in DOMAIN t, NEW j \in DOMAIN t, t[i].file = t[j].file
        PROVE  i = j
    <2>1. i + 1 = j + 1
      BY <1>1, <1>2 DEF Distinct
    <2> QED
      BY <2>1, <1>1
  <1>3. \A i \in DOMAIN s : i > 1 => s[i].file # Head(s).file
    BY <1>1 DEF Distinct
  <1>4. Distinct(t)
    BY <1>2 DEF Distinct
  <1> QED
    BY <1>3, <1>4 DEF t

(* What holds of the paths of a list holds of the rest and of one more.    *)
LEMMA ThereTail ==
  ASSUME NEW s \in Seq(Entry), s # <<>>
  PROVE  /\ StillThere(s) => StillThere(Tail(s)) /\ FileAt(Head(s).path) \in {Head(s).file, NoFile}
         /\ NotGone(s) => /\ NotGone(Tail(s))
                          /\ FileAt(Head(s).path) = Head(s).file \/ Head(s).file \in slipped
  <1>1. /\ Head(s) = s[1] /\ 1 \in DOMAIN s
        /\ \A i \in DOMAIN Tail(s) : i + 1 \in DOMAIN s /\ Tail(s)[i] = s[i + 1]
    BY TailIs
  <1>2. StillThere(s) => StillThere(Tail(s)) /\ FileAt(Head(s).path) \in {Head(s).file, NoFile}
    BY <1>1 DEF StillThere
  <1>3. NotGone(s) => /\ NotGone(Tail(s))
                      /\ FileAt(Head(s).path) = Head(s).file \/ Head(s).file \in slipped
    BY <1>1 DEF NotGone
  <1> QED
    BY <1>2, <1>3

(* A path that was just read names its file.                               *)
LEMMA ThereAppend ==
  ASSUME NEW s \in Seq(Entry), NEW e \in Entry, FileAt(e.path) = e.file
  PROVE  /\ StillThere(s) => StillThere(Append(s, e))
         /\ NotGone(s) => NotGone(Append(s, e))
  <1> DEFINE t == Append(s, e)
             n == Len(s)
  <1>1. /\ DOMAIN s = 1..n /\ n \in Nat /\ DOMAIN t = 1..(n + 1) /\ t[n + 1] = e
        /\ \A i \in DOMAIN s : i \in DOMAIN t /\ t[i] = s[i]
    BY AppendIs
  <1> HIDE DEF t, n
  <1>2. \A i \in DOMAIN t : (i \in DOMAIN s /\ t[i] = s[i]) \/ t[i] = e
    BY <1>1
  <1>3. StillThere(s) => StillThere(t)
    BY <1>2 DEF StillThere
  <1>4. NotGone(s) => NotGone(t)
    BY <1>2 DEF NotGone
  <1> QED
    BY <1>3, <1>4 DEF t

(* What the processes of the node do to the paths in use: one may cease to *)
(* name its file, and at startup that is noted.                            *)
LEMMA ProcChanges ==
  ASSUME TypeInv, NEW p \in Pids,
         (\E image \in Images, mapped \in BOOLEAN : Exec(p, image, mapped))
         \/ Dlopen(p) \/ Exit(p),
         ~reused'
  PROVE  /\ ~reused /\ slipped \subseteq slipped'
         /\ UNCHANGED <<scan, list, attachVars, main, seen>>
         /\ \A q \in (Pids \cup {Self}) \cap InUse :
               /\ FileAt(q)' \in {FileAt(q), NoFile}
               /\ main \in {"discover", "start", "record"} /\ FileAt(q)' # FileAt(q) =>
                      FileAt(q) \in slipped'
  <1>a. procs \in [Pids -> Process] /\ Self \notin Pids
    BY Typed, DiscoveryAssumption DEF Self
  <1>1. ASSUME NEW image \in Images, NEW mapped \in BOOLEAN, Exec(p, image, mapped)
        PROVE  /\ ~reused /\ slipped' = slipped
               /\ UNCHANGED <<scan, list, attachVars, main, seen>>
               /\ \A q \in (Pids \cup {Self}) \cap InUse : FileAt(q)' = FileAt(q)
    <2>1. /\ ~reused /\ p \notin InUse /\ slipped' = slipped
          /\ UNCHANGED <<scan, list, attachVars, main, seen>>
          /\ procs' = [procs EXCEPT ![p] = [image |-> image, mapped |-> mapped]]
      BY <1>1 DEF Exec, scanVars
    <2>2. ASSUME NEW q \in (Pids \cup {Self}) \cap InUse
          PROVE  FileAt(q)' = FileAt(q)
      BY <1>a, <2>1 DEF FileAt
    <2> QED
      BY <2>1, <2>2
  <1>2. CASE Dlopen(p)
    <2>1. /\ UNCHANGED <<scan, list, attachVars, main, seen, reused, slipped>>
          /\ procs' = [procs EXCEPT ![p].mapped = TRUE]
      BY <1>2 DEF Dlopen, scanVars, history
    <2>2. ASSUME NEW q \in Pids PROVE procs'[q].image = procs[q].image
      <3>1. procs[p] \in [image : Images, mapped : BOOLEAN]
        BY <1>2, <1>a DEF Dlopen, Process
      <3> QED
        BY <1>a, <2>1, <3>1
    <2> QED
      BY <1>a, <2>1, <2>2 DEF FileAt
  <1>3. CASE Exit(p)
    <2>1. /\ UNCHANGED <<scan, list, attachVars, main, seen, reused>>
          /\ procs' = [procs EXCEPT ![p] = NoProc]
          /\ slipped' = IF main \in {"discover", "start", "record"} /\ p \in InUse
                        THEN slipped \cup {procs[p].image} ELSE slipped
      BY <1>3 DEF Exit, scanVars
    <2>2. ASSUME NEW q \in (Pids \cup {Self}) \cap InUse
          PROVE  /\ FileAt(q)' \in {FileAt(q), NoFile}
                 /\ main \in {"discover", "start", "record"} /\ FileAt(q)' # FileAt(q) =>
                        FileAt(q) \in slipped'
      <3>1. CASE q = p
        <4>1. FileAt(q) = procs[p].image /\ FileAt(q)' = NoFile
          BY <3>1, <1>a, <2>1 DEF FileAt, NoProc
        <4> QED
          BY <3>1, <4>1, <2>1
      <3>2. CASE q # p
        <4>1. FileAt(q)' = FileAt(q)
          BY <3>2, <1>a, <2>1 DEF FileAt
        <4> QED
          BY <4>1
      <3> QED
        BY <3>1, <3>2
    <2> QED
      BY <2>1, <2>2
  <1> QED
    BY <1>1, <1>2, <1>3

(* The paths of a list in use after such a step.                           *)
LEMMA ListUnderway ==
  ASSUME NEW s \in Seq(Entry), Paths(s) \subseteq InUse, slipped \subseteq slipped',
         \A q \in (Pids \cup {Self}) \cap InUse :
               /\ FileAt(q)' \in {FileAt(q), NoFile}
               /\ main \in {"discover", "start", "record"} /\ FileAt(q)' # FileAt(q) =>
                      FileAt(q) \in slipped'
  PROVE  /\ StillThere(s) =>
               \A i \in DOMAIN s : FileAt(s[i].path)' \in {s[i].file, NoFile}
         /\ main \in {"discover", "start", "record"} /\ NotGone(s) =>
               \A i \in DOMAIN s : FileAt(s[i].path)' = s[i].file \/ s[i].file \in slipped'
  <1>1. ASSUME NEW i \in DOMAIN s
        PROVE  s[i].path \in (Pids \cup {Self}) \cap InUse
    <2>1. s[i] \in Entry
      BY LenProperties, ElementOfSeq
    <2>2. s[i].path \in Paths(s)
      BY DEF Paths
    <2> QED
      BY <2>1, <2>2 DEF Entry
  <1>2. ASSUME StillThere(s), NEW i \in DOMAIN s
        PROVE  FileAt(s[i].path)' \in {s[i].file, NoFile}
    <2> DEFINE q == s[i].path
    <2>1. q \in (Pids \cup {Self}) \cap InUse /\ FileAt(q) \in {s[i].file, NoFile}
      BY <1>1, <1>2 DEF StillThere
    <2>2. FileAt(q)' \in {FileAt(q), NoFile}
      BY <2>1
    <2> QED
      BY <2>1, <2>2
  <1>3. ASSUME main \in {"discover", "start", "record"}, NotGone(s), NEW i \in DOMAIN s
        PROVE  FileAt(s[i].path)' = s[i].file \/ s[i].file \in slipped'
    <2> DEFINE q == s[i].path
    <2>1. /\ q \in (Pids \cup {Self}) \cap InUse
          /\ FileAt(q) = s[i].file \/ s[i].file \in slipped
      BY <1>1, <1>3 DEF NotGone
    <2>2. FileAt(q)' # FileAt(q) => FileAt(q) \in slipped'
      BY <1>3, <2>1
    <2> QED
      BY <2>1, <2>2
  <1> QED
    BY <1>2, <1>3

(* The lists a step may use are in use.                                    *)
LEMMA ListsInUse ==
  Paths(scan.found) \subseteq InUse /\ Paths(list) \subseteq InUse /\ Paths(fresh) \subseteq InUse
  BY DEF InUse

(* Every step keeps the paths in use true to their files.                  *)
LEMMA PathsStep == TypeInv /\ TypeInv' /\ PathsInv /\ [Next]_vars => PathsInv'
  <1> SUFFICES ASSUME TypeInv, TypeInv', PathsInv, [Next]_vars, ~reused'
               PROVE  ScanPaths' /\ StartPaths' /\ FreshPaths' /\ InHand'
    BY DEF PathsInv
  <1> DEFINE Goal == ScanPaths' /\ StartPaths' /\ FreshPaths' /\ InHand'
  <1>t. /\ scan.found \in Seq(Entry) /\ list \in Seq(Entry) /\ fresh \in Seq(Entry)
        /\ libs \in Seq(Seq(Entry)) /\ scan \in Scan
    BY Typed
  <1>a. ASSUME ~reused PROVE ScanPaths /\ StartPaths /\ FreshPaths /\ InHand
    BY <1>a DEF PathsInv
  <1>b. ASSUME procs' = procs, slipped' = slipped
        PROVE  /\ StillThere(scan.found) /\ scan' = scan => StillThere(scan.found)'
               /\ NotGone(scan.found) /\ scan' = scan => NotGone(scan.found)'
               /\ StillThere(list) /\ list' = list => StillThere(list)'
               /\ NotGone(list) /\ list' = list => NotGone(list)'
               /\ StillThere(fresh) /\ fresh' = fresh => StillThere(fresh)'
    BY <1>b DEF StillThere, NotGone, FileAt
  <1>c. ASSUME procs' = procs, slipped' = slipped, ~reused, scan' = scan,
               main' = main \/ main' # "discover"
        PROVE  ScanPaths'
    BY <1>a, <1>b, <1>c DEF ScanPaths, FilesOf, Distinct
  <1>d. ASSUME procs' = procs, slipped' = slipped, ~reused, list' = list, fresh' = fresh,
               main' = main \/ main' \notin {"start", "record"}
        PROVE  StartPaths'
    BY <1>a, <1>b, <1>d DEF StartPaths, FilesOf
  <1>e. ASSUME procs' = procs, ~reused, fresh' = fresh, seen' = seen, slipped' = slipped,
               main' = main
        PROVE  FreshPaths'
    BY <1>a, <1>b, <1>e DEF FreshPaths, FilesOf, Distinct
  <1>f. ASSUME ~reused, UNCHANGED <<fresh, half, pair, whole, main>>
        PROVE  InHand'
    BY <1>a, <1>f DEF InHand
  (* An empty scan.                                                        *)
  <1>g. ASSUME scan'.found = <<>>, scan'.files = {}
        PROVE  ScanPaths'
    <2>1. DOMAIN scan'.found = {}
      BY <1>g
    <2> QED
      BY <1>g, <2>1 DEF ScanPaths, FilesOf, Distinct, StillThere, NotGone
  <1>1. ASSUME NEW p \in Pids,
               (\E image \in Images, mapped \in BOOLEAN : Exec(p, image, mapped))
               \/ Dlopen(p) \/ Exit(p)
        PROVE  Goal
    <2>1. /\ ~reused /\ slipped \subseteq slipped'
          /\ UNCHANGED <<scan, list, fresh, half, pair, whole, main, seen>>
      BY <1>1, ProcChanges DEF attachVars
    <2>2. \A q \in (Pids \cup {Self}) \cap InUse :
               /\ FileAt(q)' \in {FileAt(q), NoFile}
               /\ main \in {"discover", "start", "record"} /\ FileAt(q)' # FileAt(q) =>
                      FileAt(q) \in slipped'
      BY <1>1, ProcChanges
    <2>3. ScanPaths /\ StartPaths /\ FreshPaths /\ InHand
      BY <1>a, <2>1
    <2>4. ASSUME main = "discover" PROVE StillThere(scan.found)' /\ NotGone(scan.found)'
      <3>1. StillThere(scan.found) /\ NotGone(scan.found)
        BY <2>3, <2>4 DEF ScanPaths
      <3>2. \A i \in DOMAIN scan.found :
               /\ FileAt(scan.found[i].path)' \in {scan.found[i].file, NoFile}
               /\ FileAt(scan.found[i].path)' = scan.found[i].file
                  \/ scan.found[i].file \in slipped'
        BY <1>t, <2>1, <2>2, <2>4, <3>1, ListUnderway, ListsInUse
      <3> QED
        BY <3>2, <2>1 DEF StillThere, NotGone
    <2>5. ASSUME main \in {"start", "record"} PROVE StillThere(list)' /\ NotGone(list)'
      <3>1. StillThere(list) /\ NotGone(list)
        BY <2>3, <2>5 DEF StartPaths
      <3>2. \A i \in DOMAIN list :
               /\ FileAt(list[i].path)' \in {list[i].file, NoFile}
               /\ FileAt(list[i].path)' = list[i].file \/ list[i].file \in slipped'
        BY <1>t, <2>1, <2>2, <2>5, <3>1, ListUnderway, ListsInUse
      <3> QED
        BY <3>2, <2>1 DEF StillThere, NotGone
    <2>6. StillThere(fresh)'
      <3>1. \A i \in DOMAIN fresh : FileAt(fresh[i].path)' \in {fresh[i].file, NoFile}
        BY <1>t, <2>1, <2>2, <2>3, ListUnderway, ListsInUse DEF FreshPaths
      <3> QED
        BY <3>1, <2>1 DEF StillThere
    <2>7. ScanPaths'
      BY <2>1, <2>3, <2>4 DEF ScanPaths, FilesOf, Distinct
    <2>8. StartPaths'
      BY <2>1, <2>3, <2>5 DEF StartPaths, FilesOf
    <2>9. FreshPaths'
      BY <2>1, <2>3, <2>6 DEF FreshPaths, FilesOf, Distinct
    <2>10. InHand'
      BY <2>1, <2>3 DEF InHand
    <2> QED
      BY <2>7, <2>8, <2>9, <2>10
  <1>2. CASE ScanPid
    <2>1. UNCHANGED <<procs, slipped, reused, list, fresh, half, pair, whole, main, seen>>
      BY <1>2 DEF ScanPid, procVars, attachVars, history
    <2>2. ScanPaths
      BY <2>1, <1>a
    <2>3. PICK p \in scan.todo :
            \/ scan' = [scan EXCEPT !.todo = @ \ {p}]
            \/ /\ FileAt(p) \in Files /\ FileAt(p) \notin scan.files
               /\ scan'.found = Append(scan.found, [path |-> p, file |-> FileAt(p)])
               /\ scan'.files = scan.files \cup {FileAt(p)}
      BY <1>2, ScanChanges
    <2>4. ScanPaths'
      <3>1. CASE scan' = [scan EXCEPT !.todo = @ \ {p}]
        <4>1. scan'.found = scan.found /\ scan'.files = scan.files
          BY <3>1, <1>t DEF Scan
        <4> QED
          BY <4>1, <2>1, <2>2
          DEF ScanPaths, FilesOf, Distinct, StillThere, NotGone, FileAt
      <3>2. CASE /\ FileAt(p) \in Files /\ FileAt(p) \notin scan.files
                 /\ scan'.found = Append(scan.found, [path |-> p, file |-> FileAt(p)])
                 /\ scan'.files = scan.files \cup {FileAt(p)}
        <4> DEFINE e == [path |-> p, file |-> FileAt(p)]
                   t == Append(scan.found, e)
        <4>1. e \in Entry /\ FileAt(e.path) = e.file /\ e.file = FileAt(p)
          BY <3>2, Typed DEF Entry
        <4>2. FilesOf(t) = FilesOf(scan.found) \cup {e.file}
          BY <4>1, <1>t, FilesAppend
        <4>3. Distinct(t)
          BY <4>1, <1>t, <3>2, <2>2, DistinctAppend DEF ScanPaths
        <4>4. main = "discover" => StillThere(t) /\ NotGone(t)
          BY <4>1, <1>t, <2>2, ThereAppend DEF ScanPaths
        <4>5. scan'.found = t /\ scan'.files = scan.files \cup {e.file}
          BY <3>2, <4>1
        <4> HIDE DEF e, t
        <4>6. FilesOf(scan.found)' = FilesOf(t) /\ (Distinct(scan.found)' <=> Distinct(t))
          BY <4>5 DEF FilesOf, Distinct
        <4>7. /\ StillThere(scan.found)' <=> StillThere(t)
              /\ NotGone(scan.found)' <=> NotGone(t)
          BY <4>5, <2>1 DEF StillThere, NotGone, FileAt
        <4> QED
          BY <4>2, <4>3, <4>4, <4>5, <4>6, <4>7, <2>1, <2>2 DEF ScanPaths
      <3> QED
        BY <2>3, <3>1, <3>2
    <2> QED
      BY <2>1, <2>4, <1>d, <1>e, <1>f
  <1>3. CASE TaskStep
    <2>1. UNCHANGED <<procs, slipped, reused, list, fresh, half, pair, whole, main, seen>>
      BY <1>3 DEF TaskStep, Tick, Wake, Slept, SendLibs, procVars, attachVars, history
    <2>2. ScanPaths'
      <3>1. CASE Wake
        BY <3>1, <2>1, <1>c DEF Wake
      <3>2. CASE Tick \/ Slept \/ SendLibs
        <4>1. scan'.found = <<>> /\ scan'.files = {}
          BY <3>2 DEF Tick, Slept, SendLibs, Begin, NoScan
        <4> QED
          BY <4>1, <1>g
      <3> QED
        BY <1>3, <3>1, <3>2 DEF TaskStep
    <2> QED
      BY <2>1, <2>2, <1>d, <1>e, <1>f
  <1>4. ASSUME NEW ok \in BOOLEAN, AttachEntry(ok) PROVE Goal
    <2>1. /\ UNCHANGED <<procs, slipped, reused, scan, list, fresh, whole, main, seen>>
          /\ fresh # <<>> /\ main # "take"
          /\ half' = IF ok THEN FileAt(Path) ELSE NoFile
          /\ ok => FileAt(Path) # NoFile
      BY <1>4 DEF AttachEntry, Attaching, Attaches, procVars, scanVars, history
    <2>2. FileAt(Path) \in {Head(fresh).file, NoFile}
      BY <2>1, <1>a, <1>t, ThereTail DEF FreshPaths, Path
    <2>3. InHand'
      BY <2>1, <2>2 DEF InHand
    <2> QED
      BY <2>1, <2>3, <1>c, <1>d, <1>e
  <1>5. ASSUME NEW ok \in BOOLEAN, AttachExit(ok) PROVE Goal
    <2>1. /\ UNCHANGED <<procs, slipped, reused, scan, list, fresh, main, seen>>
          /\ fresh # <<>> /\ main # "take" /\ half' = NoFile
      BY <1>5 DEF AttachExit, Attaching, procVars, scanVars, history
    <2>2. InHand'
      BY <2>1 DEF InHand
    <2> QED
      BY <2>1, <2>2, <1>c, <1>d, <1>e
  <1>6. CASE AttachDone
    <2>1. /\ UNCHANGED <<procs, slipped, reused, scan, list, half, main, seen>>
          /\ fresh # <<>> /\ fresh' = Tail(fresh) /\ pair' = 0 /\ whole' = {}
          /\ pair = 2 * Plans
      BY <1>6 DEF AttachDone, Attaching, procVars, scanVars, history
    <2>2. half' = NoFile
      BY <2>1, DiscoveryAssumption DEF TypeInv, Shape
    <2>3. StartPaths /\ FreshPaths
      BY <2>1, <1>a
    <2>4. /\ StillThere(Tail(fresh)) /\ Distinct(Tail(fresh))
          /\ FilesOf(Tail(fresh)) \subseteq FilesOf(fresh)
      BY <2>1, <2>3, <1>t, ThereTail, DistinctTail, FilesTail DEF FreshPaths
    <2>5. /\ StillThere(fresh)' /\ Distinct(fresh)' /\ FilesOf(fresh)' \subseteq FilesOf(fresh)
      BY <2>1, <2>4 DEF StillThere, FileAt, Distinct, FilesOf
    <2>6. FreshPaths'
      <3>1. main \in {"start", "attach"}
        BY <1>6 DEF AttachDone, Attaching
      <3> QED
        BY <2>1, <2>3, <2>5, <3>1 DEF FreshPaths
    <2>7. StartPaths'
      <3>1. FilesOf(list)' = FilesOf(list)
        BY <2>1 DEF FilesOf
      <3> QED
        BY <2>1, <2>3, <2>5, <3>1, <1>b DEF StartPaths
    <2>8. InHand'
      BY <2>1, <2>2 DEF InHand
    <2> QED
      BY <2>1, <2>6, <2>7, <2>8, <1>c
  <1>7. CASE Start
    <2> DEFINE own == [path |-> Self, file |-> OwnLib]
    <2>1. /\ UNCHANGED <<procs, slipped, reused, half, pair, whole, seen>>
          /\ main = "discover" /\ main' = "start" /\ scan' = NoScan
          /\ list' = IF scan.found = <<>> THEN <<own>> ELSE scan.found
          /\ fresh' = list'
      BY <1>7 DEF Start, procVars, history
    <2>2. ScanPaths /\ FreshPaths /\ InHand
      BY <2>1, <1>a
    <2>3. StillThere(list') /\ NotGone(list') /\ Distinct(list')
      <3>1. CASE scan.found = <<>>
        <4>1. list' = <<own>> /\ own.path = Self /\ own.file = OwnLib
          BY <2>1, <3>1
        <4>2. FileAt(Self) = OwnLib
          BY DEF FileAt
        <4>3. DOMAIN <<own>> = {1} /\ <<own>>[1] = own
          OBVIOUS
        <4> HIDE DEF own
        <4> QED
          BY <4>1, <4>2, <4>3 DEF StillThere, NotGone, Distinct
      <3>2. CASE scan.found # <<>>
        BY <2>1, <2>2, <3>2 DEF ScanPaths
      <3> QED
        BY <3>1, <3>2
    <2>4. /\ StillThere(list)' /\ NotGone(list)' /\ StillThere(fresh)' /\ Distinct(fresh)'
          /\ FilesOf(fresh)' = FilesOf(list)'
      BY <2>1, <2>3 DEF StillThere, NotGone, Distinct, FileAt, FilesOf
    <2>5. ScanPaths'
      BY <2>1, <1>g DEF NoScan
    <2>6. half = NoFile /\ pair = 0 /\ whole = {}
      BY <2>1, <2>2 DEF FreshPaths, InHand
    <2>7. InHand'
      BY <2>1, <2>6 DEF InHand
    <2>8. StartPaths'
      BY <2>1, <2>4 DEF StartPaths
    <2>9. FreshPaths'
      BY <2>1, <2>4 DEF FreshPaths
    <2> QED
      BY <2>5, <2>7, <2>8, <2>9
  <1>8. CASE Started
    <2>1. /\ UNCHANGED <<procs, slipped, reused, scan, list, fresh, half, pair, whole, seen>>
          /\ main = "start" /\ main' \in {"failed", "record"} /\ fresh = <<>>
      BY <1>8 DEF Started, procVars, scanVars, history
    <2>2. StartPaths /\ FreshPaths /\ InHand
      BY <2>1, <1>a
    <2>3. FreshPaths' /\ InHand'
      BY <2>1, <2>2, <1>b DEF FreshPaths, InHand, Distinct
    <2>4. StartPaths'
      BY <2>1, <2>2, <1>b DEF StartPaths
    <2> QED
      BY <2>1, <2>3, <2>4, <1>c
  <1>9. CASE TakeNew
    <2> DEFINE h == Head(list)
               f == FileAt(h.path)
               e == [path |-> h.path, file |-> f]
    <2>1. /\ UNCHANGED <<procs, slipped, reused, scan, half, pair, whole, main>>
          /\ main \in {"record", "take"} /\ list # <<>> /\ list' = Tail(list)
          /\ seen' = IF IsNew(f) THEN seen \cup {f} ELSE seen
          /\ fresh' = IF IsNew(f) /\ main = "take" THEN Append(fresh, e) ELSE fresh
      BY <1>9 DEF TakeNew, procVars, scanVars, history
    <2>2. StartPaths /\ FreshPaths /\ InHand
      BY <2>1, <1>a
    <2>3. StartPaths'
      <3>1. main = "record" => StillThere(Tail(list)) /\ NotGone(Tail(list))
        BY <2>1, <2>2, <1>t, ThereTail DEF StartPaths
      <3>2. main = "record" => StillThere(list)' /\ NotGone(list)'
        BY <2>1, <3>1 DEF StillThere, NotGone, FileAt
      <3> QED
        BY <2>1, <3>2 DEF StartPaths
    <2>4. FreshPaths'
      <3>1. CASE IsNew(f) /\ main = "take"
        <4>1. h \in Entry
          BY <2>1, <1>t, HeadTailProperties
        <4>2. h.path \in Pids \cup {Self}
          BY <4>1 DEF Entry
        <4>3. f \in Files \cup {NoFile}
          BY <4>2, Typed, FileAtType
        <4>4. e.path = h.path /\ e.file = f /\ FileAt(e.path) = e.file
          OBVIOUS
        <4> HIDE DEF f
        <4>5. e \in Entry /\ f \notin seen
          BY <3>1, <4>2, <4>3 DEF IsNew, Entry
        <4> HIDE DEF e
        <4>6. StillThere(Append(fresh, e))
          BY <4>4, <4>5, <1>t, <2>2, ThereAppend DEF FreshPaths
        <4>7. FilesOf(fresh) \subseteq seen /\ Distinct(fresh)
          BY <3>1, <2>2 DEF FreshPaths
        <4>8. Distinct(Append(fresh, e))
          BY <4>4, <4>5, <4>7, <1>t, DistinctAppend
        <4>9. FilesOf(Append(fresh, e)) \subseteq seen \cup {f}
          BY <4>4, <4>5, <4>7, <1>t, FilesAppend
        <4>10. StillThere(fresh)' /\ Distinct(fresh)' /\ FilesOf(fresh)' \subseteq seen'
          BY <2>1, <3>1, <4>6, <4>8, <4>9 DEF StillThere, FileAt, Distinct, FilesOf
        <4> QED
          BY <4>10, <2>1, <3>1 DEF FreshPaths
      <3>2. CASE ~(IsNew(f) /\ main = "take")
        <4>1. fresh' = fresh /\ seen \subseteq seen'
          BY <2>1, <3>2
        <4> QED
          BY <4>1, <2>1, <2>2, <1>b DEF FreshPaths, FilesOf, Distinct
      <3> QED
        BY <3>1, <3>2
    <2>5. InHand'
      <3>1. half = NoFile /\ pair = 0 /\ whole = {}
        BY <2>1, <2>2 DEF FreshPaths, InHand
      <3> QED
        BY <2>1, <3>1 DEF InHand
    <2> QED
      BY <2>1, <2>3, <2>4, <2>5, <1>c
  <1>10. ASSUME UNCHANGED <<procs, slipped, reused, scan, fresh, half, pair, whole, seen>>,
                main' \notin {"discover", "start", "record"}, fresh = <<>>
         PROVE  Goal
    <2>1. FreshPaths' /\ InHand'
      <3>1. FreshPaths /\ InHand
        BY <1>10, <1>a
      <3>2. FilesOf(fresh)' = {}
        BY <1>10 DEF FilesOf
      <3> QED
        BY <1>10, <3>1, <3>2, <1>b DEF FreshPaths, InHand, Distinct
    <2>2. StartPaths'
      BY <1>10 DEF StartPaths
    <2> QED
      BY <1>10, <2>1, <2>2, <1>c
  <1>11. ASSUME NEW attached \in BOOLEAN, Recorded(attached) PROVE Goal
    <2>1. /\ UNCHANGED <<procs, slipped, reused, scan, fresh, half, pair, whole, seen>>
          /\ main = "record" /\ main' = "poll"
      BY <1>11 DEF Recorded, procVars, attachVars, history
    <2>2. fresh = <<>>
      BY <2>1, <1>a DEF FreshPaths
    <2> QED
      BY <2>1, <2>2, <1>10
  <1>12. CASE Poll \/ Drain \/ Shutdown
    <2>1. /\ UNCHANGED <<procs, slipped, reused, scan, fresh, half, pair, whole, seen>>
          /\ main \in {"poll", "drain"} /\ main' \in {"drain", "poll", "take", "stopped"}
      BY <1>12 DEF Poll, Drain, Shutdown, procVars, scanVars, attachVars, history
    <2>2. fresh = <<>>
      BY <2>1, <1>a DEF FreshPaths
    <2> QED
      BY <2>1, <2>2, <1>10
  <1>13. CASE Taken
    <2>1. UNCHANGED <<procs, slipped, reused, scan, list, fresh, half, pair, whole, seen>>
      BY <1>13 DEF Taken, procVars, scanVars, attachVars, history
    <2>2. FreshPaths /\ InHand
      BY <2>1, <1>a
    <2>3. CASE main = "take" /\ main' = "attach"
      <3>1. FreshPaths' /\ InHand'
        BY <2>1, <2>2, <2>3, <1>b DEF FreshPaths, InHand, FilesOf, Distinct
      <3>2. StartPaths'
        BY <2>3 DEF StartPaths
      <3> QED
        BY <2>1, <2>3, <3>1, <3>2, <1>c
    <2>4. CASE fresh = <<>> /\ main' = "drain"
      BY <2>1, <2>4, <1>10
    <2> QED
      BY <1>13, <2>3, <2>4 DEF Taken
  <1>14. CASE UNCHANGED vars
    <2>1. UNCHANGED <<procs, slipped, reused, scan, list, fresh, half, pair, whole, main, seen>>
      BY <1>14 DEF vars, procVars, scanVars, attachVars, history
    <2> QED
      BY <2>1, <1>c, <1>d, <1>e, <1>f
  <1> QED
    BY <1>1, <1>2, <1>3, <1>4, <1>5, <1>6, <1>7, <1>8, <1>9, <1>11, <1>12, <1>13, <1>14
    DEF Next, MainStep

(* M is L with one more pair of probes c on the file f.                    *)
Adds(M, L, f, c) ==
    \A h \in Files, d \in Pairs :
        /\ M[h][d].entry = IF h = f /\ d = c THEN L[h][d].entry + 1 ELSE L[h][d].entry
        /\ M[h][d].exit = IF h = f /\ d = c THEN L[h][d].exit + 1 ELSE L[h][d].exit

(* A whole pair adds one to both probes of the file.                       *)
LEMMA ExtendAdds ==
  ASSUME NEW L \in [Files -> [Pairs -> Link]], NEW f \in Files, NEW c \in Pairs
  PROVE  Adds(Extend(L, f, f, c), L, f, c)
  BY ExtendedIs DEF Adds

(* A whole pair is on the file of the library, where there was none.       *)
LEMMA AttachChanges ==
  ASSUME TypeInv, PathsInv, ~reused, NEW ok \in BOOLEAN, AttachExit(ok)
  PROVE  /\ Head(fresh).file \in Files /\ fresh # <<>>
         /\ pair \in Nat /\ pair < 2 * Plans /\ pair' = pair + 1
         /\ At(pair) \in Pairs
         /\ ok => /\ whole' = whole \cup {At(pair)}
                  /\ Adds(links', links, Head(fresh).file, At(pair))
         /\ ~ok => whole' = whole /\ links' = links
  <1> DEFINE f == Head(fresh).file
  <1>1. fresh # <<>> /\ f \in Files /\ pair \in Nat /\ pair < 2 * Plans
        /\ Trying = At(pair) /\ Trying \in Pairs /\ half \in Files
        /\ (ok => FileAt(Path) \in Files)
    BY Typed, HeadType, AttachExitType DEF AttachExit, Attaching
  <1>2. half = f
    BY DEF PathsInv, InHand, AttachExit
  <1>3. ok => FileAt(Path) = f
    <2>1. FileAt(Path) \in {f, NoFile}
      BY <1>1, Typed, ThereTail DEF PathsInv, FreshPaths, Path
    <2> QED
      BY <2>1 DEF AttachExit, Attaches
  <1>4. /\ links' = IF ok THEN Extend(links, half, FileAt(Path), Trying) ELSE links
        /\ pair' = pair + 1
        /\ whole' = IF ok THEN whole \cup {Trying} ELSE whole
    BY DEF AttachExit, Extended, Extend
  <1>5. ok => Adds(links', links, f, At(pair))
    <2> HIDE DEF f
    <2>1. ok => links' = Extend(links, f, f, At(pair))
      BY <1>1, <1>2, <1>3, <1>4
    <2>2. Adds(Extend(links, f, f, At(pair)), links, f, At(pair))
      <3>1. f \in Files /\ At(pair) \in Pairs /\ links \in [Files -> [Pairs -> Link]]
        BY <1>1, Typed
      <3> QED
        BY <3>1, ExtendAdds
    <2> QED
      BY <2>1, <2>2
  <1> QED
    BY <1>1, <1>4, <1>5

(* Every step keeps one pair of probes at most on a file.                  *)
LEMMA LinksStep ==
  TypeInv /\ TypeInv' /\ PathsInv /\ LinksInv /\ [Next]_vars => LinksInv'
  <1> SUFFICES ASSUME TypeInv, TypeInv', PathsInv, LinksInv, [Next]_vars, ~reused'
               PROVE  /\ Unprobed' /\ ProbedIsRecorded' /\ WholeIsProbed' /\ OnePair'
                      /\ NothingYet'
    BY DEF LinksInv
  <1> DEFINE Goal == /\ Unprobed' /\ ProbedIsRecorded' /\ WholeIsProbed' /\ OnePair'
                     /\ NothingYet'
  <1>t. /\ scan.found \in Seq(Entry) /\ list \in Seq(Entry) /\ fresh \in Seq(Entry)
        /\ links \in [Files -> [Pairs -> Link]] /\ Plans \in Nat \ {0}
        /\ \A k \in 0..(2 * Plans - 1) : At(k) \in Pairs
    <2>1. Plans \in Nat \ {0}
      BY DiscoveryAssumption
    <2>2. ASSUME NEW k \in 0..(2 * Plans - 1) PROVE At(k) \in Pairs
      <3>1. k \in Nat /\ k < 2 * Plans
        BY <2>1
      <3> QED
        BY <3>1, AtType
    <2> QED
      BY <2>1, <2>2, Typed
  <1>a. ASSUME ~reused
        PROVE  /\ Unprobed /\ ProbedIsRecorded /\ WholeIsProbed /\ OnePair /\ NothingYet
               /\ StartPaths /\ FreshPaths /\ InHand
    BY <1>a DEF LinksInv, PathsInv
  <1>h. \A i \in DOMAIN fresh : fresh[i].file \in Files
    <2>1. \A i \in DOMAIN fresh : fresh[i] \in Entry
      BY <1>t, LenProperties, ElementOfSeq
    <2> QED
      BY <2>1 DEF Entry
  (* Steps that change none of the probes and only note exits.             *)
  <1>b. ASSUME ~reused, UNCHANGED <<fresh, pair, links, whole>>, slipped \subseteq slipped'
        PROVE  Unprobed' /\ WholeIsProbed' /\ OnePair'
    BY <1>a, <1>b DEF Unprobed, WholeIsProbed, OnePair
  <1>c. ASSUME ~reused, UNCHANGED <<links, seen>>, slipped \subseteq slipped',
               main # "failed",
               list' = list \/ main \notin {"start", "record"},
               main \in {"start", "record"} => main' \in {"start", "record"}
        PROVE  ProbedIsRecorded'
    <2>1. list' = list => FilesOf(list)' = FilesOf(list)
      BY DEF FilesOf
    <2> QED
      BY <1>a, <1>c, <2>1 DEF ProbedIsRecorded
  <1>e. ASSUME main' # "discover" \/ (main' = main /\ UNCHANGED links), ~reused
        PROVE  NothingYet'
    BY <1>a, <1>e DEF NothingYet
  <1>f. ASSUME ~reused, UNCHANGED <<list, links, seen, main>>, slipped \subseteq slipped',
               main # "failed"
        PROVE  ProbedIsRecorded' /\ NothingYet'
    <2>1. ProbedIsRecorded'
      BY <1>f, <1>c
    <2>2. NothingYet'
      BY <1>f, <1>e
    <2> QED
      BY <2>1, <2>2
  <1>d. ASSUME main' = "failed" PROVE ProbedIsRecorded'
    BY <1>d DEF ProbedIsRecorded
  <1>1. ASSUME NEW p \in Pids,
               (\E image \in Images, mapped \in BOOLEAN : Exec(p, image, mapped))
               \/ Dlopen(p) \/ Exit(p)
        PROVE  Goal
    <2>1. /\ ~reused /\ slipped \subseteq slipped'
          /\ UNCHANGED <<list, fresh, pair, links, whole, main, seen>>
      BY <1>1, ProcChanges DEF attachVars
    <2>2. main # "failed"
      BY <1>1 DEF Exec, Dlopen, Exit, Running
    <2> QED
      BY <2>1, <2>2, <1>b, <1>f
  <1>2. CASE ScanPid \/ TaskStep
    <2>1. UNCHANGED <<slipped, reused, list, fresh, pair, links, whole, main, seen>>
      BY <1>2
      DEF ScanPid, TaskStep, Tick, Wake, Slept, SendLibs, attachVars, history
    <2>2. main # "failed"
      BY <1>2 DEF ScanPid, TaskStep, Tick, Wake, Slept, SendLibs, Waits, Running
    <2> QED
      BY <2>1, <2>2, <1>b, <1>f
  <1>3. ASSUME NEW ok \in BOOLEAN, AttachEntry(ok) PROVE Goal
    <2>1. /\ UNCHANGED <<slipped, reused, list, fresh, links, whole, main, seen>>
          /\ pair' \in {pair, pair + 1} /\ main # "failed"
      BY <1>3 DEF AttachEntry, scanVars, history, Running
    <2>2. pair \in Nat
      BY Typed
    <2>3. Unprobed'
      BY <2>1, <2>2, <1>a DEF Unprobed
    <2>4. WholeIsProbed' /\ OnePair'
      BY <2>1, <1>a DEF WholeIsProbed, OnePair
    <2> QED
      BY <2>1, <2>3, <2>4, <1>f
  <1>4. ASSUME NEW ok \in BOOLEAN, AttachExit(ok) PROVE Goal
    <2> DEFINE f == Head(fresh).file
               c == At(pair)
    <2>1. /\ UNCHANGED <<slipped, reused, list, fresh, main, seen>>
          /\ main \in {"start", "attach"} /\ fresh # <<>>
      BY <1>4 DEF AttachExit, Attaching, scanVars, history
    <2>2. /\ f \in Files /\ pair \in Nat /\ pair < 2 * Plans /\ pair' = pair + 1
          /\ c \in Pairs /\ whole' = IF ok THEN whole \cup {c} ELSE whole
          /\ \A h \in Files, d \in Pairs :
               /\ links'[h][d].entry = IF ok /\ h = f /\ d = c
                                       THEN links[h][d].entry + 1 ELSE links[h][d].entry
               /\ links'[h][d].exit = IF ok /\ h = f /\ d = c
                                      THEN links[h][d].exit + 1 ELSE links[h][d].exit
      <3>1. ~reused
        BY <2>1
      <3>2. CASE ok
        BY <3>1, <3>2, <1>4, AttachChanges DEF Adds
      <3>3. CASE ~ok
        BY <3>1, <3>3, <1>4, AttachChanges
      <3> QED
        BY <3>2, <3>3
    <2>3. \A h \in Files, d \in Pairs :
             links[h][d].entry \in Nat /\ links[h][d].exit \in Nat
      BY <1>t DEF Link
    <2>4. /\ Unprobed /\ ProbedIsRecorded /\ WholeIsProbed /\ OnePair
          /\ StartPaths /\ FreshPaths
      BY <2>1, <1>a
    <2>5. 1 \in DOMAIN fresh /\ fresh[1].file = f
      BY <2>1, <1>t, TailIs
    <2>6. \A i \in DOMAIN fresh : i > 1 => fresh[i].file # f
      BY <2>1, <2>4, <1>t, DistinctTail DEF FreshPaths
    <2>7. \A k \in 0..(2 * Plans - 1) : k >= pair + 1 => At(k) # c
      <3> SUFFICES ASSUME NEW k \in 0..(2 * Plans - 1), k >= pair + 1, At(k) = At(pair)
                   PROVE  FALSE
        OBVIOUS
      <3>1. k \in Nat /\ k # pair
        BY <2>2, <1>t
      <3> QED
        BY <3>1, <2>2, AtInjective
    <2>8. f \notin slipped => links[f][c].entry = 0
      <3>1. pair \in 0..(2 * Plans - 1)
        BY <2>2, <1>t
      <3>2. fresh[1].file \notin slipped => links[fresh[1].file][At(pair)].entry = 0
        BY <3>1, <2>2, <2>4, <2>5 DEF Unprobed
      <3> QED
        BY <3>2, <2>5
    <2>9. (main = "start" => f \in FilesOf(list)) /\ (main = "attach" => f \in seen)
      <3>1. f \in FilesOf(fresh)
        BY <2>5 DEF FilesOf
      <3> QED
        BY <3>1, <2>4 DEF StartPaths, FreshPaths
    <2>10. Unprobed'
      <3> SUFFICES ASSUME NEW i \in DOMAIN fresh, NEW k \in 0..(2 * Plans - 1),
                          fresh[i].file \notin slipped, i > 1 \/ k >= pair + 1
                   PROVE  links'[fresh[i].file][At(k)].entry = 0
        BY <2>1, <2>2 DEF Unprobed
      <3>0. k \in Nat /\ (i > 1 \/ k >= pair)
        BY <2>2, <1>t
      <3>1. links[fresh[i].file][At(k)].entry = 0
        BY <3>0, <2>4 DEF Unprobed
      <3>2. ~(fresh[i].file = f /\ At(k) = c)
        <4>1. CASE i > 1
          BY <4>1, <2>6
        <4>2. CASE k >= pair + 1
          BY <4>2, <2>7
        <4> QED
          BY <4>1, <4>2
      <3>3. fresh[i].file \in Files /\ At(k) \in Pairs
        BY <1>h, <1>t
      <3> HIDE DEF f, c
      <3> QED
        BY <3>1, <3>2, <3>3, <2>2
    <2> HIDE DEF f, c
    <2>11. ProbedIsRecorded'
      <3>1. FilesOf(list)' = FilesOf(list)
        BY <2>1 DEF FilesOf
      <3>2. ASSUME NEW h \in Files \ slipped, NEW d \in Pairs, links'[h][d].entry > 0
            PROVE  \/ h \in seen \/ Cardinality(seen) = MaxAttached
                   \/ main \in {"start", "record"} /\ h \in FilesOf(list)
        <4>1. CASE h = f
          BY <4>1, <2>1, <2>9
        <4>2. CASE h # f
          <5>1. links[h][d].entry > 0
            BY <4>2, <3>2, <2>2
          <5> QED
            BY <5>1, <2>1, <2>4 DEF ProbedIsRecorded
        <4> QED
          BY <4>1, <4>2
      <3> QED
        BY <2>1, <3>1, <3>2 DEF ProbedIsRecorded
    <2>12. WholeIsProbed'
      <3>1. whole \subseteq Pairs
        BY Typed
      <3>2. ASSUME NEW d \in whole'
            PROVE  links'[f][d].entry > 0 /\ links'[f][d].exit > 0
        <4>1. CASE d \in whole
          <5>1. links[f][d].entry > 0 /\ links[f][d].exit > 0 /\ d \in Pairs
            BY <4>1, <3>1, <2>4 DEF WholeIsProbed, f
          <5> QED
            BY <5>1, <2>2, <2>3
        <4>2. CASE ok /\ d = c
          BY <4>2, <2>2, <2>3
        <4> QED
          BY <2>2, <4>1, <4>2
      <3>3. Head(fresh').file = f
        BY <2>1 DEF f
      <3> QED
        BY <3>2, <3>3 DEF WholeIsProbed
    <2>13. OnePair'
      <3> SUFFICES ASSUME NEW h \in Files, NEW d \in Pairs
                   PROVE  /\ links'[h][d].entry = links'[h][d].exit
                          /\ h \notin slipped => links'[h][d].entry <= 1
        BY <2>1 DEF OnePair
      <3>1. links[h][d].entry = links[h][d].exit /\ links[h][d].entry \in Nat
            /\ (h \notin slipped => links[h][d].entry <= 1)
        BY <2>3, <2>4 DEF OnePair
      <3>2. CASE ok /\ h = f /\ d = c
        <4>1. links'[h][d].entry = links[h][d].entry + 1
              /\ links'[h][d].exit = links[h][d].exit + 1
          BY <3>2, <2>2
        <4>2. h \notin slipped => links[h][d].entry = 0
          BY <3>2, <2>8
        <4> QED
          BY <4>1, <4>2, <3>1
      <3>3. CASE ~(ok /\ h = f /\ d = c)
        BY <3>1, <3>3, <2>2
      <3> QED
        BY <3>2, <3>3
    <2> QED
      BY <2>1, <2>10, <2>11, <2>12, <2>13, <1>e
  <1>5. CASE AttachDone
    <2>1. /\ UNCHANGED <<slipped, reused, list, links, main, seen>>
          /\ fresh # <<>> /\ fresh' = Tail(fresh) /\ pair' = 0 /\ whole' = {}
          /\ main # "failed"
      BY <1>5 DEF AttachDone, Attaching, scanVars, history, Running
    <2>2. /\ DOMAIN fresh = 1..Len(fresh) /\ Len(fresh) \in Nat \ {0}
          /\ DOMAIN Tail(fresh) = 1..(Len(fresh) - 1)
          /\ \A i \in DOMAIN Tail(fresh) :
                i + 1 \in DOMAIN fresh /\ Tail(fresh)[i] = fresh[i + 1]
      BY <2>1, <1>t, TailIs
    <2>3. Unprobed'
      <3> SUFFICES ASSUME NEW i \in DOMAIN Tail(fresh), NEW k \in 0..(2 * Plans - 1),
                          Tail(fresh)[i].file \notin slipped
                   PROVE  links[Tail(fresh)[i].file][At(k)].entry = 0
        BY <2>1 DEF Unprobed
      <3>1. i + 1 \in DOMAIN fresh /\ Tail(fresh)[i] = fresh[i + 1] /\ i + 1 > 1
        BY <2>2
      <3> QED
        BY <3>1, <2>1, <1>a DEF Unprobed
    <2>4. WholeIsProbed' /\ OnePair'
      BY <2>1, <1>a DEF WholeIsProbed, OnePair
    <2> QED
      BY <2>1, <2>3, <2>4, <1>f
  <1>6. CASE Start
    <2>1. /\ UNCHANGED <<slipped, reused, links, seen, pair, whole>>
          /\ main = "discover" /\ main' = "start"
      BY <1>6 DEF Start, history
    <2>2. pair = 0 /\ whole = {}
      BY <2>1, <1>a DEF FreshPaths, InHand
    <2>3. \A f \in Files, c \in Pairs : links[f][c].entry = 0
      BY <2>1, <1>a DEF NothingYet
    <2>4. \A i \in DOMAIN fresh' : fresh'[i].file \in Files
      <3>1. fresh' \in Seq(Entry)
        BY DEF TypeInv, Shape
      <3>2. \A i \in DOMAIN fresh' : fresh'[i] \in Entry
        BY <3>1, LenProperties, ElementOfSeq
      <3> QED
        BY <3>2 DEF Entry
    <2>5. Unprobed'
      BY <2>1, <2>3, <2>4, <1>t DEF Unprobed
    <2>6. ProbedIsRecorded'
      BY <2>1, <2>3 DEF ProbedIsRecorded
    <2>7. WholeIsProbed' /\ OnePair'
      BY <2>1, <2>2, <1>a DEF WholeIsProbed, OnePair
    <2> QED
      BY <2>1, <2>5, <2>6, <2>7, <1>e
  <1>7. CASE Started
    <2>1. /\ UNCHANGED <<slipped, reused, list, fresh, pair, links, whole, seen>>
          /\ main = "start" /\ main' \in {"failed", "record"}
      BY <1>7 DEF Started, scanVars, history
    <2> QED
      BY <2>1, <1>b, <1>c, <1>d, <1>e
  <1>8. CASE TakeNew
    <2> DEFINE h == Head(list)
               f == FileAt(h.path)
               e == [path |-> h.path, file |-> f]
    <2>1. /\ UNCHANGED <<slipped, reused, links, pair, whole, main>>
          /\ main \in {"record", "take"} /\ list # <<>> /\ list' = Tail(list)
          /\ seen' = IF IsNew(f) THEN seen \cup {f} ELSE seen
          /\ fresh' = IF IsNew(f) /\ main = "take" THEN Append(fresh, e) ELSE fresh
      BY <1>8 DEF TakeNew, scanVars, history
    <2>2. /\ Unprobed /\ ProbedIsRecorded /\ WholeIsProbed /\ OnePair
          /\ StartPaths /\ FreshPaths /\ InHand
      BY <2>1, <1>a
    <2>3. pair = 0 /\ whole = {}
      BY <2>1, <2>2 DEF FreshPaths, InHand
    <2>4. h \in Entry
      BY <2>1, <1>t, HeadTailProperties
    <2>5. h.path \in Pids \cup {Self} /\ h.file \in Files /\ h.file # NoFile
      BY <2>4, DiscoveryAssumption DEF Entry, Files, NoFile
    <2>6. f \in Files \cup {NoFile}
      BY <2>5, Typed, FileAtType
    <2>7. main = "record" => f = h.file \/ h.file \in slipped
      BY <2>1, <2>2, <1>t, ThereTail DEF StartPaths
    <2>8. FilesOf(list) = FilesOf(Tail(list)) \cup {h.file}
      BY <2>1, <1>t, FilesTail
    <2>9. FilesOf(list)' = FilesOf(Tail(list))
      BY <2>1 DEF FilesOf
    <2> HIDE DEF f
    <2>10. ASSUME NEW g \in Files \ slipped, NEW c \in Pairs, links[g][c].entry > 0
           PROVE  \/ g \in seen \/ Cardinality(seen) = MaxAttached
                  \/ main = "record" /\ g \in FilesOf(list)
      BY <2>1, <2>2, <2>10 DEF ProbedIsRecorded
    <2>11. Cardinality(seen) = MaxAttached => seen' = seen
      <3>1. MaxAttached \in Nat
        BY DiscoveryAssumption
      <3> QED
        BY <2>1, <3>1 DEF IsNew
    <2>12. ProbedIsRecorded'
      <3> SUFFICES ASSUME NEW g \in Files \ slipped, NEW c \in Pairs,
                          links[g][c].entry > 0
                   PROVE  \/ g \in seen' \/ Cardinality(seen') = MaxAttached
                          \/ main = "record" /\ g \in FilesOf(list)'
        BY <2>1 DEF ProbedIsRecorded
      <3>1. CASE g \in seen \/ Cardinality(seen) = MaxAttached
        BY <3>1, <2>1, <2>11
      <3>2. CASE main = "record" /\ g \in FilesOf(Tail(list))
        BY <3>2, <2>9
      <3>3. CASE main = "record" /\ g = h.file
        <4>1. f = g /\ f # NoFile
          BY <3>3, <2>5, <2>7
        <4>2. CASE IsNew(f)
          BY <4>1, <4>2, <2>1
        <4>3. CASE ~IsNew(f)
          <5>1. ~(Cardinality(seen) < MaxAttached) \/ f \in seen
            BY <4>1, <4>3 DEF IsNew
          <5>2. Cardinality(seen) \in Nat /\ MaxAttached \in Nat
                /\ Cardinality(seen) <= MaxAttached
            BY Typed, FS_CardinalityType, DiscoveryAssumption
          <5>3. f \in seen \/ Cardinality(seen) = MaxAttached
            BY <5>1, <5>2
          <5> QED
            BY <5>3, <4>1, <2>1, <2>11
        <4> QED
          BY <4>2, <4>3
      <3> QED
        BY <2>8, <2>10, <3>1, <3>2, <3>3
    <2>13. Unprobed'
      <3>1. CASE IsNew(f) /\ main = "take"
        <4> DEFINE n == Len(fresh)
                   t == Append(fresh, e)
        <4>1. f \in Files /\ f \notin seen /\ Cardinality(seen) # MaxAttached
          <5>1. MaxAttached \in Nat
            BY DiscoveryAssumption
          <5> QED
            BY <3>1, <2>6, <5>1 DEF IsNew
        <4>2. e \in Entry /\ e.file = f
          BY <4>1, <2>5 DEF Entry
        <4> HIDE DEF e
        <4>3. /\ DOMAIN fresh = 1..n /\ n \in Nat /\ DOMAIN t = 1..(n + 1) /\ t[n + 1] = e
              /\ \A i \in DOMAIN fresh : i \in DOMAIN t /\ t[i] = fresh[i]
          BY <4>2, <1>t, AppendIs
        <4>4. fresh' = t
          BY <2>1, <3>1
        <4> HIDE DEF t, n
        <4> SUFFICES ASSUME NEW i \in DOMAIN t, NEW k \in 0..(2 * Plans - 1),
                            t[i].file \notin slipped
                     PROVE  links[t[i].file][At(k)].entry = 0
          BY <2>1, <4>4 DEF Unprobed
        <4>5. CASE i \in DOMAIN fresh
          <5>1. k >= pair /\ t[i] = fresh[i]
            BY <2>3, <1>t, <4>3, <4>5
          <5> QED
            BY <4>5, <5>1, <2>2 DEF Unprobed
        <4>6. CASE i = n + 1
          <5>1. t[i].file = f /\ At(k) \in Pairs /\ f \in Files \ slipped
            BY <4>1, <4>2, <4>3, <4>6, <1>t
          <5>2. ~(links[f][At(k)].entry > 0)
            BY <5>1, <4>1, <3>1, <2>10
          <5>3. links[f][At(k)].entry \in Nat
            BY <5>1, <1>t DEF Link
          <5> QED
            BY <5>1, <5>2, <5>3
        <4> QED
          BY <4>3, <4>5, <4>6
      <3>2. CASE ~(IsNew(f) /\ main = "take")
        BY <3>2, <2>1, <2>2 DEF Unprobed
      <3> QED
        BY <3>1, <3>2
    <2>14. WholeIsProbed' /\ OnePair'
      BY <2>1, <2>2, <2>3 DEF WholeIsProbed, OnePair
    <2> QED
      BY <2>1, <2>12, <2>13, <2>14, <1>e
  <1>9. ASSUME NEW attached \in BOOLEAN, Recorded(attached) PROVE Goal
    <2>1. /\ UNCHANGED <<slipped, reused, fresh, pair, links, whole, seen>>
          /\ main = "record" /\ main' = "poll" /\ list = <<>>
      BY <1>9 DEF Recorded, attachVars, history
    <2>2. FilesOf(list) = {}
      BY <2>1 DEF FilesOf
    <2>3. ProbedIsRecorded'
      BY <2>1, <2>2, <1>a DEF ProbedIsRecorded
    <2> QED
      BY <2>1, <2>3, <1>b, <1>e
  <1>10. CASE Poll \/ Drain \/ Taken
    <2>1. /\ UNCHANGED <<slipped, reused, fresh, pair, links, whole, seen>>
          /\ main \in {"poll", "drain", "take", "attach"}
          /\ main' \in {"poll", "drain", "take", "attach"}
      BY <1>10 DEF Poll, Drain, Taken, attachVars, history
    <2> QED
      BY <2>1, <1>b, <1>c, <1>e
  <1>11. CASE Shutdown
    <2>1. /\ UNCHANGED <<slipped, reused, fresh, pair, whole>>
          /\ main = "poll" /\ main' = "stopped"
          /\ links' = [f \in Files |-> [c \in Pairs |-> [entry |-> 0, exit |-> 0]]]
      BY <1>11 DEF Shutdown, history
    <2>2. fresh = <<>> /\ whole = {}
      BY <2>1, <1>a DEF FreshPaths, InHand
    <2>3. \A f \in Files, c \in Pairs : links'[f][c].entry = 0 /\ links'[f][c].exit = 0
      BY <2>1
    <2>4. Unprobed' /\ WholeIsProbed'
      BY <2>1, <2>2 DEF Unprobed, WholeIsProbed
    <2>5. OnePair' /\ ProbedIsRecorded'
      BY <2>3 DEF OnePair, ProbedIsRecorded
    <2> QED
      BY <2>1, <2>4, <2>5, <1>e
  <1>12. CASE UNCHANGED vars
    <2>1. UNCHANGED <<slipped, reused, list, fresh, pair, links, whole, main, seen>>
      BY <1>12 DEF vars, scanVars, attachVars, history
    <2>2. CASE main = "failed"
      BY <2>1, <2>2, <1>b, <1>d, <1>e
    <2>3. CASE main # "failed"
      BY <2>1, <2>3, <1>b, <1>f
    <2> QED
      BY <2>2, <2>3
  <1> QED
    BY <1>1, <1>2, <1>3, <1>4, <1>5, <1>6, <1>7, <1>8, <1>9, <1>10, <1>11, <1>12
    DEF Next, MainStep

-----------------------------------------------------------------------------
(* Recorded files.                                                         *)

(* Probed(f) is about the links of f alone, and more links keep it.        *)
LEMMA ProbedGrows ==
  ASSUME NEW f \in Files, Probed(f), TypeInv, TypeInv',
         \A d \in Pairs : /\ links'[f][d].entry >= links[f][d].entry
                          /\ links'[f][d].exit >= links[f][d].exit
  PROVE  Probed(f)'
  <1>1. PICK n \in 1..Plans : \A c \in Calls :
               links[f][<<n, c>>].entry > 0 /\ links[f][<<n, c>>].exit > 0
    BY DEF Probed
  <1>2. ASSUME NEW c \in Calls
        PROVE  links'[f][<<n, c>>].entry > 0 /\ links'[f][<<n, c>>].exit > 0
    <2>1. <<n, c>> \in Pairs
      BY <1>2 DEF Pairs
    <2>2. links[f][<<n, c>>] \in Link
      BY <2>1, Typed
    <2>3. links'[f][<<n, c>>] \in Link
      <3>1. links' \in [Files -> [Pairs -> Link]]
        BY DEF TypeInv, TypeOK, Link
      <3> QED
        BY <2>1, <3>1
    <2>4. /\ links[f][<<n, c>>].entry \in Nat /\ links[f][<<n, c>>].exit \in Nat
          /\ links'[f][<<n, c>>].entry \in Nat /\ links'[f][<<n, c>>].exit \in Nat
      BY <2>2, <2>3 DEF Link
    <2> DEFINE a == links[f][<<n, c>>].entry
               b == links[f][<<n, c>>].exit
               u == links'[f][<<n, c>>].entry
               v == links'[f][<<n, c>>].exit
    <2>5. u >= a /\ v >= b /\ a > 0 /\ b > 0
      BY <1>1, <2>1
    <2>6. a \in Nat /\ b \in Nat /\ u \in Nat /\ v \in Nat
      BY <2>4
    <2> HIDE DEF a, b, u, v
    <2>7. u > 0 /\ v > 0
      BY <2>5, <2>6
    <2> QED
      BY <2>7 DEF u, v
  <1> QED
    BY <1>2 DEF Probed

(* The files of a typed list.                                              *)
LEMMA FilesType ==
  ASSUME NEW s \in Seq(Entry)
  PROVE  FilesOf(s) \subseteq Files
  <1>1. \A i \in DOMAIN s : s[i] \in Entry
    BY LenProperties, ElementOfSeq
  <1> QED
    BY <1>1 DEF FilesOf, Entry

(* Every step keeps what is recorded probed, on its way or counted.        *)
LEMMA SettledStep ==
  TypeInv /\ TypeInv' /\ PathsInv /\ LinksInv /\ SettledInv /\ [Next]_vars => SettledInv'
  <1> SUFFICES ASSUME TypeInv, TypeInv', PathsInv, LinksInv, SettledInv, [Next]_vars,
                      ~reused', Running'
               PROVE  /\ \A f \in seen' : Settled(f)'
                      /\ main' \in {"start", "record"} =>
                            \A f \in FilesOf(list)' : Settled(f)'
    BY DEF SettledInv
  <1> DEFINE Goal == /\ \A f \in seen' : Settled(f)'
                     /\ main' \in {"start", "record"} =>
                           \A f \in FilesOf(list)' : Settled(f)'
  <1>t. /\ list \in Seq(Entry) /\ fresh \in Seq(Entry) /\ seen \subseteq Files
        /\ FilesOf(list) \subseteq Files /\ failures \in [Files -> Nat]
    BY Typed, FilesType
  <1>a. ASSUME ~reused, Running
        PROVE  /\ \A f \in seen : Settled(f)
               /\ main \in {"start", "record"} => \A f \in FilesOf(list) : Settled(f)
               /\ StartPaths /\ FreshPaths /\ InHand /\ WholeIsProbed
    BY <1>a DEF SettledInv, PathsInv, LinksInv
  <1>b. ASSUME ~reused, Running, \A f \in Files : Settled(f) => Settled(f)', seen' = seen,
               main' \in {"start", "record"} => list' = list /\ main \in {"start", "record"}
        PROVE  Goal
    <2>1. \A f \in seen' : Settled(f)'
      BY <1>a, <1>b, <1>t
    <2>2. main' \in {"start", "record"} => \A f \in FilesOf(list)' : Settled(f)'
      <3>1. list' = list => FilesOf(list)' = FilesOf(list)
        BY DEF FilesOf
      <3> QED
        BY <3>1, <1>a, <1>b, <1>t
    <2> QED
      BY <2>1, <2>2
  <1>c. ASSUME ~reused, Running, UNCHANGED <<fresh, links, failures, seen>>,
               main' \in {"start", "record"} => list' = list /\ main \in {"start", "record"}
        PROVE  Goal
    <2>1. ASSUME NEW f \in Files, Settled(f) PROVE Settled(f)'
      BY <2>1, <1>c DEF Settled, Probed, FilesOf
    <2> QED
      BY <2>1, <1>b, <1>c
  <1>1. ASSUME NEW p \in Pids,
               (\E image \in Images, mapped \in BOOLEAN : Exec(p, image, mapped))
               \/ Dlopen(p) \/ Exit(p)
        PROVE  Goal
    <2>1. ~reused /\ UNCHANGED <<list, fresh, links, failures, main, seen>>
      BY <1>1, ProcChanges DEF attachVars
    <2>2. Running
      BY <1>1 DEF Exec, Dlopen, Exit
    <2> QED
      BY <2>1, <2>2, <1>c
  <1>2. CASE ScanPid \/ TaskStep
    <2>1. UNCHANGED <<reused, list, fresh, links, failures, main, seen>>
      BY <1>2
      DEF ScanPid, TaskStep, Tick, Wake, Slept, SendLibs, attachVars, history
    <2>2. Running
      BY <1>2 DEF ScanPid, TaskStep, Tick, Wake, Slept, SendLibs, Waits
    <2> QED
      BY <2>1, <2>2, <1>c
  <1>3. ASSUME NEW ok \in BOOLEAN, AttachEntry(ok) PROVE Goal
    <2>1. UNCHANGED <<reused, list, fresh, links, failures, main, seen>> /\ Running
      BY <1>3 DEF AttachEntry, scanVars, history
    <2> QED
      BY <2>1, <1>c
  <1>4. ASSUME NEW ok \in BOOLEAN, AttachExit(ok) PROVE Goal
    <2>1. UNCHANGED <<reused, list, fresh, failures, main, seen>> /\ Running
      BY <1>4 DEF AttachExit, scanVars, history
    <2>2. CASE ok
      <3>1. /\ Adds(links', links, Head(fresh).file, At(pair))
            /\ Head(fresh).file \in Files /\ At(pair) \in Pairs
        BY <2>1, <2>2, <1>4, AttachChanges
      <3>2. ASSUME NEW f \in Files, NEW d \in Pairs
            PROVE  /\ links'[f][d].entry >= links[f][d].entry
                   /\ links'[f][d].exit >= links[f][d].exit
        <4>1. links[f][d].entry \in Nat /\ links[f][d].exit \in Nat
          BY Typed DEF Link
        <4>2. /\ links'[f][d].entry \in {links[f][d].entry, links[f][d].entry + 1}
              /\ links'[f][d].exit \in {links[f][d].exit, links[f][d].exit + 1}
          BY <3>1 DEF Adds
        <4> QED
          BY <4>1, <4>2
      <3>3. ASSUME NEW f \in Files, Settled(f) PROVE Settled(f)'
        <4>1. Probed(f) => Probed(f)'
          BY <3>2, ProbedGrows
        <4> QED
          BY <3>3, <4>1, <2>1 DEF Settled, FilesOf
      <3> QED
        BY <3>3, <2>1, <1>b
    <2>3. CASE ~ok
      <3>1. links' = links
        BY <2>1, <2>3, <1>4, AttachChanges
      <3> QED
        BY <2>1, <3>1, <1>c
    <2> QED
      BY <2>2, <2>3
  <1>5. CASE AttachDone
    <2> DEFINE g == Head(fresh).file
    <2>1. /\ UNCHANGED <<reused, list, links, main, seen>> /\ Running
          /\ fresh # <<>> /\ fresh' = Tail(fresh)
          /\ failures' = IF Covers(whole) THEN failures
                         ELSE [failures EXCEPT ![g] = @ + 1]
      BY <1>5 DEF AttachDone, Attaching, scanVars, history
    <2>2. FilesOf(fresh) = FilesOf(Tail(fresh)) \cup {g}
      BY <2>1, <1>t, FilesTail
    <2>3. FilesOf(fresh)' = FilesOf(Tail(fresh))
      BY <2>1 DEF FilesOf
    <2>4. g \in Files
      BY <2>1, HeadType
    <2>5. Covers(whole) => Probed(g)
      <3>1. SUFFICES ASSUME NEW n \in 1..Plans, {n} \X Calls \subseteq whole
                     PROVE  Probed(g)
        BY DEF Covers
      <3>2. \A c \in Calls : <<n, c>> \in whole
        BY <3>1
      <3>3. WholeIsProbed
        BY <2>1, <1>a
      <3> QED
        BY <3>2, <3>3 DEF WholeIsProbed, Probed
    <2> HIDE DEF g
    <2>6. ASSUME NEW f \in Files, Settled(f) PROVE Settled(f)'
      <3>1. Probed(f)' <=> Probed(f)
        BY <2>1 DEF Probed
      <3>2. failures[f] > 0 => failures'[f] > 0
        BY <2>1, <2>4, <1>t
      <3>3. CASE f = g
        <4>1. CASE Covers(whole)
          BY <3>1, <3>3, <4>1, <2>5 DEF Settled
        <4>2. CASE ~Covers(whole)
          <5>1. failures'[f] > 0
            BY <3>3, <4>2, <2>1, <2>4, <1>t
          <5> QED
            BY <5>1 DEF Settled
        <4> QED
          BY <4>1, <4>2
      <3>4. CASE f # g
        BY <3>1, <3>2, <3>4, <2>2, <2>3, <2>6 DEF Settled
      <3> QED
        BY <3>3, <3>4
    <2> QED
      BY <2>1, <2>6, <1>b
  <1>6. CASE Start
    <2>1. /\ UNCHANGED <<reused, links, failures, seen>> /\ Running
          /\ main = "discover" /\ main' = "start" /\ list' = fresh'
      BY <1>6 DEF Start, history
    <2>2. FilesOf(fresh) = {}
      BY <2>1, <1>a DEF FreshPaths, FilesOf
    <2>3. \A f \in seen' : Settled(f)'
      BY <2>1, <2>2, <1>a DEF Settled, Probed
    <2>4. \A f \in FilesOf(list)' : Settled(f)'
      BY <2>1 DEF Settled, FilesOf
    <2> QED
      BY <2>3, <2>4
  <1>7. CASE Started
    <2>1. UNCHANGED <<reused, list, fresh, links, failures, seen>> /\ Running
          /\ main = "start"
      BY <1>7 DEF Started, scanVars, history
    <2> QED
      BY <2>1, <1>c
  <1>8. CASE TakeNew
    <2> DEFINE h == Head(list)
               f == FileAt(h.path)
               e == [path |-> h.path, file |-> f]
    <2>1. /\ UNCHANGED <<reused, links, failures, main>> /\ Running
          /\ main \in {"record", "take"} /\ list # <<>> /\ list' = Tail(list)
          /\ seen' = IF IsNew(f) THEN seen \cup {f} ELSE seen
          /\ fresh' = IF IsNew(f) /\ main = "take" THEN Append(fresh, e) ELSE fresh
      BY <1>8 DEF TakeNew, scanVars, history
    <2>2. /\ \A g \in seen : Settled(g)
          /\ main = "record" => \A g \in FilesOf(list) : Settled(g)
          /\ StartPaths
      BY <2>1, <1>a
    <2>3. FilesOf(list) = FilesOf(Tail(list)) \cup {h.file}
      BY <2>1, <1>t, FilesTail
    <2>4. FilesOf(list)' = FilesOf(Tail(list))
      BY <2>1 DEF FilesOf
    <2>5. main = "record" => f \in {h.file, NoFile}
      BY <2>1, <2>2, <1>t, ThereTail DEF StartPaths
    <2>6. h.path \in Pids \cup {Self}
      <3>1. h \in Entry
        BY <2>1, <1>t, HeadTailProperties
      <3> QED
        BY <3>1 DEF Entry
    <2>7. f \in Files \cup {NoFile}
      BY <2>6, Typed, FileAtType
    <2> HIDE DEF f
    <2>8. CASE IsNew(f) /\ main = "take"
      <3>1. e \in Entry /\ e.file = f
        BY <2>6, <2>7, <2>8 DEF IsNew, Entry
      <3> HIDE DEF e
      <3>2. FilesOf(Append(fresh, e)) = FilesOf(fresh) \cup {f}
        BY <3>1, <1>t, FilesAppend
      <3>3. FilesOf(fresh)' = FilesOf(fresh) \cup {f}
        BY <2>1, <2>8, <3>2 DEF FilesOf
      <3>4. \A g \in seen' : Settled(g)'
        <4>1. ASSUME NEW g \in seen PROVE Settled(g)'
          <5>1. Settled(g)
            BY <2>2
          <5>2. Probed(g)' <=> Probed(g)
            BY <2>1 DEF Probed
          <5> QED
            BY <5>1, <5>2, <3>3, <2>1 DEF Settled
        <4>2. ASSUME NEW g, g = f PROVE Settled(g)'
          BY <3>3, <4>2 DEF Settled
        <4> QED
          BY <4>1, <4>2, <2>1, <2>8
      <3> QED
        BY <3>4, <2>1, <2>8
    <2>9. CASE ~(IsNew(f) /\ main = "take")
      <3>1. fresh' = fresh
        BY <2>1, <2>9
      <3>2. ASSUME NEW g, Settled(g) PROVE Settled(g)'
        BY <3>2, <3>1, <2>1 DEF Settled, Probed, FilesOf
      <3>3. IsNew(f) => Settled(f)
        BY <2>1, <2>2, <2>3, <2>5, <2>9 DEF IsNew
      <3>4. \A g \in seen' : Settled(g)'
        BY <3>2, <3>3, <2>1, <2>2
      <3>5. main' \in {"start", "record"} => \A g \in FilesOf(list)' : Settled(g)'
        BY <3>2, <2>1, <2>2, <2>3, <2>4
      <3> QED
        BY <3>4, <3>5
    <2> QED
      BY <2>8, <2>9
  <1>9. ASSUME NEW attached \in BOOLEAN, Recorded(attached) PROVE Goal
    <2>1. UNCHANGED <<reused, fresh, links, failures, seen>> /\ Running /\ main' = "poll"
      BY <1>9 DEF Recorded, attachVars, history
    <2> QED
      BY <2>1, <1>c
  <1>10. CASE Poll \/ Drain \/ Taken
    <2>1. /\ UNCHANGED <<reused, fresh, links, failures, seen>> /\ Running
          /\ main' \in {"poll", "drain", "take", "attach"}
      BY <1>10 DEF Poll, Drain, Taken, attachVars, history
    <2> QED
      BY <2>1, <1>c
  <1>11. CASE Shutdown
    BY <1>11 DEF Shutdown, Running
  <1>12. CASE UNCHANGED vars
    <2>1. UNCHANGED <<reused, list, fresh, links, failures, main, seen>>
      BY <1>12 DEF vars, scanVars, attachVars, history
    <2>2. Running
      BY <2>1 DEF Running
    <2> QED
      BY <2>1, <2>2, <1>c
  <1> QED
    BY <1>1, <1>2, <1>3, <1>4, <1>5, <1>6, <1>7, <1>8, <1>9, <1>10, <1>11, <1>12
    DEF Next, MainStep

(* The invariants hold at the start: nothing is found, attached or         *)
(* recorded.                                                               *)
LEMMA InitInv == Init => PathsInv /\ LinksInv /\ SettledInv
  <1> SUFFICES ASSUME Init PROVE PathsInv /\ LinksInv /\ SettledInv
    OBVIOUS
  <1>1. /\ scan.found = <<>> /\ scan.files = {} /\ list = <<>> /\ fresh = <<>>
        /\ libs = <<>> /\ main = "discover"
        /\ half = NoFile /\ pair = 0 /\ whole = {} /\ seen = {} /\ slipped = {}
    BY DEF Init, NoScan
  <1>2. \A f \in Files, c \in Pairs : links[f][c].entry = 0 /\ links[f][c].exit = 0
    BY DEF Init
  <1>3. PathsInv
    BY <1>1 DEF PathsInv, ScanPaths, StartPaths, FreshPaths, InHand, StillThere, NotGone,
                Distinct, FilesOf
  <1>4. LinksInv
    BY <1>1, <1>2 DEF LinksInv, Unprobed, ProbedIsRecorded, WholeIsProbed, OnePair,
                      NothingYet
  <1>5. SettledInv
    BY <1>1 DEF SettledInv
  <1> QED
    BY <1>3, <1>4, <1>5

(* The three invariants hold of every behaviour.                           *)
LEMMA LinksInvariant == Spec => [](PathsInv /\ LinksInv /\ SettledInv)
  BY InitInv, TypeInvariant, PathsStep, LinksStep, SettledStep, PTL DEF Spec

(* attach_pair, discover_tls_libs_in and AttachedLibs: no file is left     *)
(* with half a pair of probes, and none is probed twice unless it was gone *)
(* when startup recorded it, for any number of processes, plans and        *)
(* failures, while no pid in use is used again.                            *)
THEOREM ProbesAreOnce == Spec => []ProbedOnce
  <1>1. LinksInv => ProbedOnce
    BY DEF LinksInv, OnePair, ProbedOnce
  <1> QED
    BY <1>1, LinksInvariant, PTL

(* take_new and attach_tls_libs: a file that is recorded, and so never     *)
(* looked at again, is probed, is about to be attached or has a failure    *)
(* counted, for any number of processes, plans and failures.               *)
THEOREM SeenSettles == Spec => []SeenIsSettled
  <1>1. SettledInv => SeenIsSettled
    BY DEF SettledInv, SeenIsSettled, Settled, FilesOf
  <1> QED
    BY <1>1, LinksInvariant, PTL

=============================================================================
