---------------------------- MODULE SyncerProofs ----------------------------
(***************************************************************************)
(* Theorems about Syncer, for every set of files, number of workers and    *)
(* bound on edits, faults and restarts, in either direction, in service    *)
(* mode and in one-time mode: its types, the number of its tokens, the     *)
(* truth of the times it gives, and that it implements the safety part of  *)
(* Mirror.                                                                 *)
(***************************************************************************)
EXTENDS Syncer, FiniteSetTheorems, TLAPS

-----------------------------------------------------------------------------
(* The type invariant in parts, with what makes it inductive. *)

(* What scan_once's count can be at each place of the scanner. *)
CountOK ==
  /\ scanner \in {"connect", "ready", "stopped", "exited"} => dispatched = 0
  /\ scanner \in {"walk", "full"} => dispatched >= 0
  /\ scanner = "send" => dispatched >= -1
  /\ scanner = "drain" => dispatched >= 1

ScanOK == SyncScannerTypeOK /\ CountOK

StoreOK ==
  /\ source \in [Path -> {Absent} \cup Version]
  /\ latest \in [Path -> {Absent} \cup Version]
  /\ target \in [Path -> [ver : {Absent, Partial} \cup Version,
                          time : {NoStat} \cup Version,
                          last : {Absent} \cup Version]]

LoopOK ==
  /\ loop \in [Agent -> LoopState]
  /\ fo \in [Agent -> FileObj \cup {NoFile}]
  /\ \A w \in Agent : fo[w] \in IF w \in Holding THEN FileObj ELSE {NoFile}
  /\ to_exit \in [Agent -> BOOLEAN]

(* A goroutine waits for one transfer, of the file it has received, and    *)
(* only in the call.                                                       *)
TransferOK ==
  /\ transfers \subseteq Transfer
  /\ \A w \in Agent :
       loop[w] = "call" => \E t \in transfers : t.id = 0 /\ t.owner = w
  /\ \A t \in transfers :
       t.id = 0 => /\ t.owner \in Agent /\ loop[t.owner] = "call"
                   /\ t.path = fo[t.owner].path
  /\ \A t, u \in transfers :
       t.id = 0 /\ u.id = 0 /\ t.owner = u.owner => t = u
  /\ ~Remote => \A t \in transfers : t.id = 0

BoundOK ==
  /\ panicked \in BOOLEAN
  /\ suspect \subseteq Path
  /\ faults \in 0..MaxFaults
  /\ restarts \in 0..MaxRestarts

TypeInv == ScanOK /\ StoreOK /\ LoopOK /\ TransferOK /\ BoundOK

LEMMA TypeInvType == TypeInv => TypeOK
BY DEF TypeInv, TypeOK, ScanOK, StoreOK, LoopOK, TransferOK, BoundOK

LEMMA TypeInit == Init => TypeInv
<1> SUFFICES ASSUME Init PROVE TypeInv
  OBVIOUS
<1>1. StoreOK
  BY SyncAssumption DEF Init, StoreOK, Version, Absent, NoStat
<1>2. [f \in FileObj |-> IF f.stat = source[f.path] THEN f.stat ELSE Absent]
        \in [FileObj -> Nat]
  BY SyncAssumption DEF FileObj, NoStat, Absent
<1>3. ScanOK
  BY <1>2, SyncAssumption
     DEF Init, ScanOK, CountOK, SyncScannerTypeOK, SyncScannerInit,
         NothingKnown, Scan!ScannerTypeOK, Scan!ScannerInit,
         Scan!ScannerState, Scan!Cap
<1>4. LoopOK
  BY DEF Init, LoopOK, LoopState, Holding
<1>5. TransferOK
  BY DEF Init, TransferOK
<1>6. BoundOK
  <2>1. panicked = FALSE /\ suspect = {} /\ faults = 0 /\ restarts = 0
    BY DEF Init
  <2>2. MaxFaults \in Nat /\ MaxRestarts \in Nat
    BY AgentAssumption
  <2>3. panicked \in BOOLEAN /\ suspect \subseteq Path
    BY <2>1
  <2>4. faults \in 0..MaxFaults /\ restarts \in 0..MaxRestarts
    BY <2>1, <2>2
  <2> QED
    BY <2>3, <2>4 DEF BoundOK
<1> QED
  BY <1>1, <1>3, <1>4, <1>5, <1>6 DEF TypeInv

-----------------------------------------------------------------------------
(* The scanners. *)

LEMMA ServerScanner ==
  ASSUME ScanOK, Scan!ScannerStep, UNCHANGED <<mode, LocalFolderMap>>
  PROVE  ScanOK'
<1> USE SyncAssumption
    DEF Scan!Cap, Scan!ScannerState, Scan!ScannerTypeOK, CountOK, ScanOK,
        SyncScannerTypeOK
<1>0. [f \in FileObj |-> IF f.stat = source'[f.path] THEN f.stat ELSE Absent]
        \in [FileObj -> Nat]
  BY DEF FileObj, NoStat, Absent
<1>1. CASE Scan!ScannerConnect
  BY <1>0, <1>1 DEF Scan!ScannerConnect
<1>2. CASE Scan!BeginScan
  BY <1>0, <1>2 DEF Scan!BeginScan, Scan!Listing
<1>3. CASE \E f \in todo : Scan!Dispatch(f)
  BY <1>0, <1>3 DEF Scan!Dispatch, Scan!Send
<1>4. CASE Scan!ChannelFull
  BY <1>0, <1>4 DEF Scan!ChannelFull
<1>5. CASE Scan!AwaitToken
  BY <1>0, <1>5 DEF Scan!AwaitToken, Scan!TakeToken
<1>6. CASE \E f \in todo : Scan!BlockedSend(f)
  BY <1>0, <1>6 DEF Scan!BlockedSend, Scan!Send
<1>7. CASE Scan!EndWalk
  BY <1>0, <1>7 DEF Scan!EndWalk, Scan!Returned
<1>8. CASE Scan!Drain
  BY <1>0, <1>8 DEF Scan!Drain, Scan!TakeToken, Scan!Returned
<1>9. CASE Scan!WalkError
  BY <1>0, <1>9 DEF Scan!WalkError
<1>10. CASE Scan!RecreateScanner
  BY <1>0, <1>10 DEF Scan!RecreateScanner
<1>11. CASE Scan!ExitProcess
  BY <1>0, <1>11 DEF Scan!ExitProcess
<1> QED
  BY <1>1, <1>2, <1>3, <1>4, <1>5, <1>6, <1>7, <1>8, <1>9, <1>10, <1>11
     DEF Scan!ScannerStep

LEMMA FolderScannerTypes ==
  ASSUME ScanOK, StoreOK, WatcherStep, UNCHANGED <<mode, source>>
  PROVE  ScanOK'
<1> USE SyncAssumption
    DEF Scan!Cap, Scan!ScannerState, Scan!ScannerTypeOK, CountOK, ScanOK,
        SyncScannerTypeOK
<1>0. /\ [f \in FileObj |-> IF f.stat = source'[f.path] THEN f.stat ELSE Absent]
           \in [FileObj -> Nat]
      /\ \A f \in todo : f.path \in Path
      /\ \A p \in Path : source[p] \in {NoStat} \cup 1..MaxVersion
  BY DEF FileObj, NoStat, Absent, StoreOK, Version
<1>1. CASE StartWithWatcher
  BY <1>0, <1>1 DEF StartWithWatcher, Scan!ScannerConnect, NothingKnown
<1>2. CASE ListFolder
  BY <1>0, <1>2 DEF ListFolder, FileObj
<1>3. CASE StatFile
  <2>1. PICK f \in todo : StatFails(f) \/ StatSame(f) \/ StatChanged(f)
    BY <1>3 DEF StatFile
  <2>2. /\ [path |-> f.path, stat |-> source[f.path]] \in FileObj
        /\ f.path \in Path
    BY <1>0 DEF FileObj
  <2>3. /\ todo' \subseteq FileObj /\ walkErrors' \in 0..MaxWalkErrors
        /\ LocalFolderMap' \in [Path -> {NoStat} \cup 1..MaxVersion]
    BY <1>0, <2>1, <2>2 DEF StatFails, StatSame, StatChanged
  <2> QED
    BY <1>0, <1>3, <2>3 DEF StatFile
<1>4. CASE /\ UNCHANGED LocalFolderMap
           /\ \/ \E f \in Decided : Scan!Dispatch(f) \/ Scan!BlockedSend(f)
              \/ Scan!ChannelFull \/ Scan!AwaitToken \/ Scan!EndWalk
              \/ Scan!Drain \/ Scan!RecreateScanner \/ Scan!ExitProcess
  <2>1. Scan!ScannerStep
    BY <1>4 DEF Scan!ScannerStep, Decided
  <2> QED
    BY <1>4, <2>1, ServerScanner
<1>5. CASE Scan!ReadError /\ UNCHANGED LocalFolderMap
  BY <1>0, <1>5 DEF Scan!ReadError
<1> QED
  BY <1>1, <1>2, <1>3, <1>4, <1>5 DEF WatcherStep

LEMMA TypeScanner == TypeInv /\ ScannerAct => TypeInv'
<1> SUFFICES ASSUME TypeInv, ScannerAct PROVE TypeInv'
  OBVIOUS
<1>1. ScanOK'
  BY ServerScanner, FolderScannerTypes
     DEF TypeInv, ScannerAct, SyncScannerStep, storeVars
<1>2. StoreOK' /\ LoopOK' /\ TransferOK' /\ BoundOK'
  BY DEF TypeInv, ScannerAct, StoreOK, LoopOK, Holding, TransferOK, BoundOK,
         Remote, storeVars, loopVars, boundVars
<1> QED
  BY <1>1, <1>2 DEF TypeInv

-----------------------------------------------------------------------------
(* The loops. *)

LEMMA FailsCounted ==
  ASSUME BoundOK, NEW condition \in BOOLEAN, Fails(condition) \/ Fault
  PROVE  faults' \in 0..MaxFaults
BY AgentAssumption DEF BoundOK, Fails, Fault

(* A goroutine that is not in the call moves, and no other; transfers are  *)
(* what they were.                                                         *)
LEMMA LoopMoves ==
  ASSUME NEW w \in Agent, TypeInv, loop[w] # "call", ScanOK', StoreOK', BoundOK',
         NEW place \in LoopState \ {"call"}, Goto(w, place),
         to_exit' \in [Agent -> BOOLEAN], UNCHANGED <<mode, transfers>>,
         \/ fo' = fo /\ (w \in Holding <=> w \in Holding')
         \/ fo' = [fo EXCEPT ![w] = NoFile] /\ w \notin Holding'
         \/ \E f \in FileObj : fo' = [fo EXCEPT ![w] = f] /\ w \in Holding'
  PROVE  TypeInv'
<1> USE DEF TypeInv, Goto
<1>1. loop' \in [Agent -> LoopState] /\ loop'[w] = place
  BY DEF LoopOK
<1>2. \A r \in Agent \ {w} : loop'[r] = loop[r] /\ (r \in Holding' <=> r \in Holding)
  BY DEF LoopOK, Holding
<1>3. \A r \in Agent \ {w} : fo'[r] = fo[r]
  BY DEF LoopOK
<1>4. fo'[w] \in IF w \in Holding' THEN FileObj ELSE {NoFile}
  BY DEF LoopOK
<1> QED
  BY <1>1, <1>2, <1>3, <1>4 DEF LoopOK, TransferOK, Remote

(* The transfer that a received file needs is new. *)
LEMMA TypeDiffers ==
  ASSUME NEW w \in Agent, TypeInv, LookDiffers(w)
  PROVE  TypeInv'
<1> DEFINE new == [id |-> 0, owner |-> w, path |-> fo[w].path,
                   pc |-> IF Remote THEN "open" ELSE "mkdir", ver |-> Absent]
<1> USE DEF TypeInv, LookDiffers, Goto
<1>1. fo[w] \in FileObj /\ loop[w] = "look"
  BY DEF LoopOK, Holding
<1>2. /\ new \in Transfer /\ new.id = 0 /\ new.owner = w
      /\ new.path = fo[w].path
  BY <1>1, AgentAssumption DEF Transfer, TransferState, FileObj
<1>3. transfers' = transfers \cup {new}
  OBVIOUS
<1> HIDE DEF new
<1>4. loop' \in [Agent -> LoopState] /\ loop'[w] = "call"
      /\ \A r \in Agent \ {w} : loop'[r] = loop[r]
  BY DEF LoopOK, LoopState
<1>5. LoopOK'
  BY <1>1, <1>4 DEF LoopOK, Holding
<1>6. \A t \in transfers : t.id = 0 => t.owner # w
  BY <1>1 DEF TransferOK
<1>7. TransferOK'
  BY <1>2, <1>3, <1>4, <1>6 DEF TransferOK, Remote, storeVars
<1>8. (Same(fo[w])) \in BOOLEAN /\ faults' \in 0..MaxFaults
  BY AgentAssumption DEF BoundOK, Fails, Fault, Same
<1>9. ScanOK' /\ StoreOK' /\ BoundOK'
  BY <1>8
     DEF ScanOK, SyncScannerTypeOK, CountOK, StoreOK, BoundOK, syncScannerVars,
         exchangeVars, storeVars, Scan!ScannerTypeOK
<1> QED
  BY <1>5, <1>7, <1>9

(* Start has returned: what the object has left behind is nobody's now. *)
LEMMA TypeCheck ==
  ASSUME NEW w \in Agent, TypeInv, Check(w)
  PROVE  TypeInv'
<1> DEFINE new(t) == IF to_exit[w] /\ t.owner = w
                     THEN [t EXCEPT !.owner = Nobody] ELSE t
<1> USE DEF TypeInv, Check, Goto
<1>1. \A t \in transfers : t.id = 0 => t.owner # w
  BY DEF TransferOK
<1>2. \A t \in transfers :
        /\ new(t) \in Transfer /\ new(t).id = t.id /\ new(t).path = t.path
        /\ t.id = 0 => new(t) = t
  BY <1>1 DEF TransferOK, Transfer
<1>3. transfers' = {new(t) : t \in transfers}
  OBVIOUS
<1> HIDE DEF new
<1>4. /\ loop' \in [Agent -> LoopState]
      /\ loop'[w] \in {"receive", "gone", "connect"}
      /\ \A r \in Agent \ {w} : loop'[r] = loop[r]
  BY DEF LoopOK, LoopState
<1>5. LoopOK'
  BY <1>4 DEF LoopOK, Holding
<1>6. \A t : t \in transfers' /\ t.id = 0 => t \in transfers /\ t.owner # w
  BY <1>1, <1>2, <1>3
<1>7. \A t \in transfers : t.id = 0 => t \in transfers'
  BY <1>2, <1>3
<1>8. TransferOK'
  BY <1>2, <1>3, <1>4, <1>6, <1>7 DEF TransferOK, Remote, storeVars
<1>9. ScanOK' /\ StoreOK' /\ BoundOK'
  BY DEF ScanOK, SyncScannerTypeOK, CountOK, StoreOK, BoundOK, syncScannerVars,
         exchangeVars, storeVars, boundVars, Scan!ScannerTypeOK
<1> QED
  BY <1>5, <1>8, <1>9

LEMMA TypeLoop ==
  ASSUME NEW w \in Agent, TypeInv, LoopStep(w)
  PROVE  TypeInv'
<1> USE DEF TypeInv
<1>0. ASSUME UNCHANGED <<syncScannerVars, storeVars>>
      PROVE  ScanOK' /\ (UNCHANGED target => StoreOK')
             /\ (UNCHANGED <<panicked, suspect, boundVars>> => BoundOK')
  BY <1>0
     DEF ScanOK, SyncScannerTypeOK, CountOK, StoreOK, BoundOK, syncScannerVars,
         exchangeVars, storeVars, boundVars, Scan!ScannerTypeOK
<1>1. CASE Connect(w)
  <2>1. w \in Holding <=> w \in Holding'
    BY <1>1 DEF Connect, Goto, LoopOK, Holding
  <2> QED
    BY <1>0, <1>1, <2>1, LoopMoves DEF Connect, LoopOK, LoopState, storeVars
<1>2. CASE Receive(w)
  <2>1. Head(c) \in FileObj /\ Tail(c) \in Seq(FileObj) /\ Len(Tail(c)) = Len(c) - 1
    BY <1>2
       DEF Receive, Scan!ReceiveFile, ScanOK, SyncScannerTypeOK,
           Scan!ScannerTypeOK
  <2>2. ScanOK' /\ StoreOK' /\ BoundOK'
    BY <1>2, <2>1, SyncAssumption
       DEF Receive, Scan!ReceiveFile, ScanOK, SyncScannerTypeOK,
           Scan!ScannerTypeOK, Scan!Cap, CountOK, StoreOK, BoundOK, storeVars,
           boundVars, FileObj
  <2>3. w \in Holding'
    BY <1>2 DEF Receive, Goto, LoopOK, Holding
  <2> QED
    BY <1>2, <2>1, <2>2, <2>3, LoopMoves
       DEF Receive, LoopOK, LoopState, storeVars
<1>3. CASE LookSame(w)
  <2>1. w \in Holding <=> w \in Holding'
    BY <1>3 DEF LookSame, Goto, LoopOK, Holding
  <2> QED
    BY <1>0, <1>3, <2>1, LoopMoves DEF LookSame, LoopOK, LoopState, storeVars
<1>4. CASE LookDiffers(w)
  BY <1>4, TypeDiffers
<1>5. CASE TouchOk(w)
  <2>1. w \in Holding <=> w \in Holding'
    BY <1>5 DEF TouchOk, Goto, LoopOK, Holding
  <2>2. fo[w].path \in Path /\ fo[w].stat \in {NoStat} \cup Version
    BY <1>5 DEF TouchOk, LoopOK, Holding, FileObj, Version
  <2>3. StoreOK'
    BY <1>5, <2>2 DEF TouchOk, StoreOK, storeVars
  <2> QED
    BY <1>0, <1>5, <2>1, <2>3, LoopMoves DEF TouchOk, LoopOK, LoopState, storeVars
<1>6. CASE TouchErr(w)
  <2>1. w \in Holding <=> w \in Holding'
    BY <1>6 DEF TouchErr, Goto, LoopOK, Holding
  <2>2. BoundOK'
    BY <1>6, AgentAssumption DEF TouchErr, BoundOK, Fails, Fault
  <2> QED
    BY <1>0, <1>6, <2>1, <2>2, LoopMoves
       DEF TouchErr, LoopOK, LoopState, storeVars
<1>7. CASE Signal(w)
  <2>1. w \notin Holding'
    BY <1>7 DEF Signal, Goto, LoopOK, Holding
  <2>2. ScanOK' /\ StoreOK' /\ BoundOK'
    BY <1>7, SyncAssumption
       DEF Signal, Scan!SendToken, ScanOK, SyncScannerTypeOK,
           Scan!ScannerTypeOK, Scan!Cap, CountOK, StoreOK, BoundOK, storeVars,
           boundVars
  <2> QED
    BY <1>7, <2>1, <2>2, LoopMoves DEF Signal, LoopOK, LoopState, storeVars
<1>8. CASE Check(w)
  BY <1>8, TypeCheck
<1> QED
  BY <1>1, <1>2, <1>3, <1>4, <1>5, <1>6, <1>7, <1>8 DEF LoopStep

-----------------------------------------------------------------------------
(* Downloads and uploads. *)

(* What a transfer's step leaves alone, and what others may change. *)
LEMMA TypeFrame ==
  ASSUME ScanOK, UNCHANGED <<syncScannerVars, mode>>
  PROVE  ScanOK'
<1>1. [f \in FileObj |-> IF f.stat = source'[f.path] THEN f.stat ELSE Absent]
        \in [FileObj -> Nat]
  BY SyncAssumption DEF FileObj, NoStat, Absent
<1> QED
  BY <1>1
     DEF ScanOK, SyncScannerTypeOK, CountOK, syncScannerVars, exchangeVars,
         Scan!ScannerTypeOK, Scan!Cap

LEMMA TransferGoes ==
  ASSUME TypeInv, NEW t \in transfers, NEW next \in Transfer,
         next.id = t.id, next.owner = t.owner, next.path = t.path,
         Becomes(t, next), ScanOK', StoreOK', BoundOK', UNCHANGED mode
  PROVE  TypeInv'
<1> USE DEF TypeInv, Becomes
<1>1. LoopOK'
  BY DEF LoopOK, Holding, loopVars
<1>2. TransferOK'
  BY DEF TransferOK, Remote, loopVars
<1> QED
  BY <1>1, <1>2

(* The transfer ends for its loop; one that is left behind ends, or stays  *)
(* without it.                                                             *)
LEMMA TransferEnds ==
  ASSUME TypeInv, NEW t \in transfers,
         \/ End(t)
         \/ /\ t.id = 0 /\ Goto(t.owner, "touch") /\ UNCHANGED fo /\ Remote
            /\ \E rest \in SUBSET Transfer :
                 /\ \A u \in rest : u.id > 0
                 /\ transfers' = (transfers \ {t}) \cup rest,
         to_exit' \in [Agent -> BOOLEAN],
         ScanOK', StoreOK', BoundOK', UNCHANGED mode
  PROVE  TypeInv'
<1> USE DEF TypeInv
<1>1. PICK rest \in SUBSET Transfer :
        /\ \A u \in rest : u.id > 0 /\ Remote
        /\ transfers' = (transfers \ {t}) \cup rest
  <2>1. CASE End(t)
    <3>1. transfers' = (transfers \ {t}) \cup {}
      BY <2>1 DEF End
    <3> QED
      BY <3>1
  <2> QED
    BY <2>1
<1>2. fo' = fo /\ loop' = IF t.id = 0 THEN [loop EXCEPT ![t.owner] = "touch"] ELSE loop
  BY DEF End, Goto
<1>3. t.id = 0 => t.owner \in Agent /\ loop[t.owner] = "call"
  BY DEF TransferOK
<1>4. /\ loop' \in [Agent -> LoopState]
      /\ \A w \in Agent : IF t.id = 0 /\ w = t.owner THEN loop'[w] = "touch"
                          ELSE loop'[w] = loop[w]
  BY <1>2 DEF LoopOK, LoopState
<1>5. LoopOK'
  BY <1>2, <1>3, <1>4 DEF LoopOK, Holding
<1>6. \A u \in transfers : u.id = 0 /\ t.id = 0 /\ u # t => u.owner # t.owner
  BY DEF TransferOK
<1>7. \A u \in transfers' : u.id = 0 => u \in transfers /\ u # t
  BY <1>1
<1>8. /\ \A u \in transfers' :
           u.id = 0 => u.owner \in Agent /\ loop'[u.owner] = "call"
                       /\ u.path = fo'[u.owner].path
      /\ \A u, v \in transfers' :
           u.id = 0 /\ v.id = 0 /\ u.owner = v.owner => u = v
  BY <1>2, <1>4, <1>6, <1>7 DEF TransferOK
<1>9. \A w \in Agent :
        loop'[w] = "call" => \E u \in transfers' : u.id = 0 /\ u.owner = w
  BY <1>1, <1>3, <1>4 DEF TransferOK
<1>10. transfers' \subseteq Transfer /\ (~Remote' => \A u \in transfers' : u.id = 0)
  BY <1>1 DEF TransferOK, Remote
<1> QED
  BY <1>5, <1>8, <1>9, <1>10 DEF TransferOK

LEMMA DistrustedType ==
  ASSUME TypeInv, NEW t \in transfers
  PROVE  Distrusted(t) \subseteq Path
BY DEF TypeInv, BoundOK, TransferOK, Transfer, Distrusted

LEMMA TypeFail ==
  ASSUME TypeInv, NEW t \in transfers, Fail(t), to_exit' \in [Agent -> BOOLEAN],
         NEW condition \in BOOLEAN, Fails(condition) \/ Fault, UNCHANGED restarts
  PROVE  TypeInv'
<1>1. BoundOK' /\ StoreOK' /\ ScanOK' /\ UNCHANGED mode
  BY FailsCounted, DistrustedType, TypeFrame
     DEF TypeInv, BoundOK, StoreOK, Fail, storeVars
<1> QED
  BY <1>1, TransferEnds DEF Fail

LEMMA CondemnedType ==
  ASSUME TypeInv, NEW t \in transfers
  PROVE  Condemned(t) \in [Agent -> BOOLEAN]
BY DEF TypeInv, LoopOK, Condemned

LEMMA WriteType ==
  ASSUME TypeInv, NEW t \in transfers, NEW v \in {Absent, Partial} \cup Version,
         Write(t, v), UNCHANGED storeVars
  PROVE  StoreOK'
BY DEF TypeInv, StoreOK, TransferOK, Transfer, Write, storeVars

LEMMA TypeDownload ==
  ASSUME TypeInv, NEW t \in transfers, DownloadStep(t)
  PROVE  TypeInv'
<1>0. /\ ScanOK /\ StoreOK /\ BoundOK /\ t \in Transfer /\ t.path \in Path
      /\ to_exit \in [Agent -> BOOLEAN]
  BY DEF TypeInv, TransferOK, Transfer, LoopOK
<1>1. CASE OpenRemote(t)
  <2> DEFINE next == [t EXCEPT !.pc = "copy", !.ver = source[t.path]]
  <2>1. next \in Transfer /\ next.id = t.id /\ next.owner = t.owner /\ next.path = t.path
    BY <1>0 DEF Transfer, TransferState, StoreOK
  <2>2. ScanOK' /\ StoreOK' /\ BoundOK' /\ UNCHANGED mode
    BY <1>0, <1>1, TypeFrame
       DEF OpenRemote, Quiet, StoreOK, BoundOK, storeVars, boundVars
  <2>3. CASE t.id = 0
    <3>1. Becomes(t, next)
      BY <1>1, <2>3 DEF OpenRemote
    <3> HIDE DEF next
    <3> QED
      BY <2>1, <2>2, <3>1, TransferGoes
  <2>4. CASE t.id # 0
    <3>1. End(t) /\ to_exit' = to_exit
      BY <1>1, <2>4 DEF OpenRemote, End, loopVars
    <3> QED
      BY <1>0, <2>2, <3>1, TransferEnds
  <2> QED
    BY <2>3, <2>4
<1>2. CASE OpenRemoteErr(t)
  <2>1. (t.owner = Nobody \/ source[t.path] = Absent) \in BOOLEAN
    OBVIOUS
  <2> QED
    BY <1>2, <2>1, CondemnedType, TypeFail DEF OpenRemoteErr
<1>3. CASE Copied(t)
  <2> DEFINE next == [t EXCEPT !.pc = "rename"]
  <2>1. next \in Transfer /\ next.id = t.id /\ next.owner = t.owner /\ next.path = t.path
    BY <1>0 DEF Transfer, TransferState
  <2>2. ScanOK' /\ StoreOK' /\ BoundOK' /\ UNCHANGED mode
    BY <1>0, <1>3, TypeFrame
       DEF Copied, Quiet, StoreOK, BoundOK, storeVars, boundVars
  <2>3. Becomes(t, next)
    BY <1>3 DEF Copied
  <2> HIDE DEF next
  <2> QED
    BY <2>1, <2>2, <2>3, TransferGoes
<1>4. CASE CopyRemoteErr(t)
  BY <1>4, CondemnedType, TypeFail DEF CopyRemoteErr
<1>5. CASE RenameOk(t)
  <2>1. t.ver \in {Absent, Partial} \cup Version
    BY <1>0 DEF Transfer
  <2>2. ScanOK' /\ StoreOK' /\ BoundOK' /\ UNCHANGED mode
    BY <1>0, <1>5, <2>1, WriteType, TypeFrame
       DEF RenameOk, BoundOK, storeVars, boundVars
  <2> QED
    BY <1>0, <1>5, <2>2, TransferEnds DEF RenameOk
<1>6. CASE RenameErr(t)
  BY <1>0, <1>6, TypeFail DEF RenameErr
<1> QED
  BY <1>1, <1>2, <1>3, <1>4, <1>5, <1>6 DEF DownloadStep

LEMMA TypeTimeout ==
  ASSUME TypeInv, NEW t \in transfers, Timeout(t), Remote
  PROVE  TypeInv'
<1> DEFINE left == [t EXCEPT !.id = faults + 1]
<1>1. left \in Transfer /\ left.id > 0
  BY AgentAssumption
     DEF TypeInv, BoundOK, TransferOK, Transfer, Timeout, Fault
<1> HIDE DEF left
<1>2. \E rest \in SUBSET Transfer :
        /\ \A u \in rest : u.id > 0
        /\ transfers' = (transfers \ {t}) \cup rest
  <2>1. transfers' = (transfers \ {t}) \cup IF t.pc = "copy" THEN {} ELSE {left}
    BY DEF Timeout, left
  <2>2. CASE t.pc = "copy"
    <3>1. transfers' = (transfers \ {t}) \cup {}
      BY <2>1, <2>2
    <3> QED
      BY <3>1
  <2>3. CASE t.pc # "copy"
    <3>1. transfers' = (transfers \ {t}) \cup {left}
      BY <2>1, <2>3
    <3> QED
      BY <1>1, <3>1
  <2> QED
    BY <2>2, <2>3
<1>3. BoundOK' /\ StoreOK' /\ ScanOK' /\ UNCHANGED mode
  BY AgentAssumption, DistrustedType, TypeFrame
     DEF TypeInv, BoundOK, StoreOK, Timeout, Fault, storeVars
<1>4. to_exit' \in [Agent -> BOOLEAN]
  BY DEF TypeInv, LoopOK, Timeout
<1> QED
  BY <1>2, <1>3, <1>4, TransferEnds DEF Timeout

LEMMA TypeUpload ==
  ASSUME TypeInv, NEW t \in transfers, UploadStep(t)
  PROVE  TypeInv'
<1>0. /\ ScanOK /\ StoreOK /\ BoundOK /\ t \in Transfer /\ t.path \in Path
      /\ to_exit \in [Agent -> BOOLEAN]
  BY DEF TypeInv, TransferOK, Transfer, LoopOK
<1>1. CASE MkdirOk(t)
  <2> DEFINE next == [t EXCEPT !.pc = "open"]
  <2>1. next \in Transfer /\ next.id = t.id /\ next.owner = t.owner /\ next.path = t.path
    BY <1>0 DEF Transfer, TransferState
  <2>2. ScanOK' /\ StoreOK' /\ BoundOK' /\ UNCHANGED mode
    BY <1>0, <1>1, TypeFrame
       DEF MkdirOk, Quiet, StoreOK, BoundOK, storeVars, boundVars
  <2>3. Becomes(t, next)
    BY <1>1 DEF MkdirOk
  <2> HIDE DEF next
  <2> QED
    BY <2>1, <2>2, <2>3, TransferGoes
<1>2. CASE UploadErr(t)
  BY <1>2, CondemnedType, TypeFail DEF UploadErr
<1>3. CASE OpenLocal(t)
  <2> DEFINE next == [t EXCEPT !.pc = "create", !.ver = source[t.path]]
  <2>1. next \in Transfer /\ next.id = t.id /\ next.owner = t.owner /\ next.path = t.path
    BY <1>0 DEF Transfer, TransferState, StoreOK
  <2>2. ScanOK' /\ StoreOK' /\ BoundOK' /\ UNCHANGED mode
    BY <1>0, <1>3, TypeFrame
       DEF OpenLocal, Quiet, StoreOK, BoundOK, storeVars, boundVars
  <2>3. Becomes(t, next)
    BY <1>3 DEF OpenLocal
  <2> HIDE DEF next
  <2> QED
    BY <2>1, <2>2, <2>3, TransferGoes
<1>4. CASE OpenLocalErr(t)
  <2>1. (source[t.path] = Absent) \in BOOLEAN
    OBVIOUS
  <2> QED
    BY <1>0, <1>4, <2>1, TypeFail DEF OpenLocalErr
<1>5. CASE CreateOk(t)
  <2> DEFINE next == [t EXCEPT !.pc = "copy"]
  <2>1. next \in Transfer /\ next.id = t.id /\ next.owner = t.owner /\ next.path = t.path
    BY <1>0 DEF Transfer, TransferState
  <2>2. ScanOK' /\ StoreOK' /\ BoundOK' /\ UNCHANGED mode
    BY <1>0, <1>5, WriteType, TypeFrame DEF CreateOk, BoundOK, storeVars, boundVars
  <2>3. Becomes(t, next)
    BY <1>5 DEF CreateOk
  <2> HIDE DEF next
  <2> QED
    BY <2>1, <2>2, <2>3, TransferGoes
<1>6. CASE CreateErr(t)
  <2>1. Becomes(t, t)
    BY <1>6 DEF CreateErr, Becomes
  <2>2. ScanOK' /\ StoreOK' /\ BoundOK' /\ UNCHANGED mode
    BY <1>0, <1>6, FailsCounted, TypeFrame
       DEF CreateErr, StoreOK, BoundOK, storeVars
  <2> QED
    BY <1>0, <2>1, <2>2, TransferGoes
<1>7. CASE CopyOk(t)
  <2>1. t.ver \in {Absent, Partial} \cup Version
    BY <1>0 DEF Transfer
  <2>2. ScanOK' /\ StoreOK' /\ BoundOK' /\ UNCHANGED mode
    BY <1>0, <1>7, <2>1, WriteType, TypeFrame
       DEF CopyOk, BoundOK, storeVars, boundVars
  <2> QED
    BY <1>0, <1>7, <2>2, TransferEnds DEF CopyOk
<1> QED
  BY <1>1, <1>2, <1>3, <1>4, <1>5, <1>6, <1>7 DEF UploadStep

-----------------------------------------------------------------------------
LEMMA TypeEnvironment ==
  ASSUME TypeInv, NEW p \in Path, Edit(p) \/ Delete(p)
  PROVE  TypeInv'
<1> USE DEF TypeInv
<1>1. StoreOK'
  <2>1. CASE Edit(p)
    <3>1. latest[p] + 1 \in Version
      BY <2>1, SyncAssumption DEF Edit, StoreOK, Version, Absent
    <3> QED
      BY <2>1, <3>1 DEF Edit, StoreOK
  <2>2. CASE Delete(p)
    BY <2>2 DEF Delete, StoreOK
  <2> QED
    BY <2>1, <2>2
<1>2. UNCHANGED <<syncScannerVars, mode, loopVars, transfers, panicked, suspect,
                  boundVars>>
  BY DEF Edit, Delete
<1>3. ScanOK' /\ LoopOK' /\ TransferOK' /\ BoundOK'
  BY <1>2, TypeFrame
     DEF LoopOK, Holding, TransferOK, Remote, BoundOK, loopVars, boundVars
<1> QED
  BY <1>1, <1>3

LEMMA TypeRestart == TypeInv /\ Restart => TypeInv'
<1> SUFFICES ASSUME TypeInv, Restart PROVE TypeInv'
  OBVIOUS
<1> USE DEF TypeInv, Restart
<1>1. [f \in FileObj |-> IF f.stat = source'[f.path] THEN f.stat ELSE Absent]
        \in [FileObj -> Nat]
  BY SyncAssumption DEF FileObj, NoStat, Absent
<1>2. ScanOK'
  BY <1>1, SyncAssumption
     DEF ScanOK, CountOK, SyncScannerTypeOK, NothingKnown, Scan!ScannerTypeOK,
         Scan!ScannerState, Scan!Cap, storeVars
<1>3. StoreOK' /\ BoundOK'
  <2>1. StoreOK'
    BY DEF StoreOK, storeVars
  <2>2. restarts' \in 0..MaxRestarts
    BY AgentAssumption DEF BoundOK
  <2> QED
    BY <2>1, <2>2 DEF BoundOK
<1>4. LoopOK'
  BY DEF LoopOK, LoopState, Holding
<1>5. TransferOK'
  BY DEF TransferOK
<1> QED
  BY <1>2, <1>3, <1>4, <1>5

LEMMA TypeUnchanged == TypeInv /\ UNCHANGED vars => TypeInv'
BY TypeFrame
   DEF TypeInv, StoreOK, LoopOK, Holding, TransferOK, Remote, BoundOK, vars,
       storeVars, loopVars, boundVars

LEMMA TypeNext == TypeInv /\ [Next]_vars => TypeInv'
BY TypeScanner, TypeLoop, TypeDownload, TypeUpload, TypeTimeout,
   TypeEnvironment, TypeRestart, TypeUnchanged
   DEF Next, LoopAct, TransferAct, TransferStep, TimeoutAct

LEMMA TypeAlways == Spec => []TypeInv
BY TypeInit, TypeNext, PTL DEF Spec

(* Every variable keeps its type: the channels stay within their capacity, *)
(* a loop that has no file waits for no transfer, one that waits for a     *)
(* transfer has it, and uploads have no timeout (syncer.go 35-110,         *)
(* server-syncer.go 33-203, local-syncer.go 32-179).                       *)
THEOREM TypeCorrect == Spec => []TypeOK
BY TypeAlways, TypeInvType, PTL

-----------------------------------------------------------------------------
(* The tokens.  TokenConservation is inductive once the types are known:   *)
(* a step leaves its five terms alone or moves one file from one term to   *)
(* another.                                                                *)

LEMMA HoldingFinite ==
  /\ IsFiniteSet(Holding) /\ Cardinality(Holding) \in Nat
<1>1. Holding \in SUBSET Agent
  BY DEF Holding
<1> QED
  BY <1>1, AgentAssumption, FS_Subset, FS_CardinalityType

LEMMA TokenInit == Init => TokenConservation
<1> SUFFICES ASSUME Init PROVE TokenConservation
  OBVIOUS
<1>1. Holding = {}
  BY DEF Init, Holding
<1>2. Len(c) = 0 /\ done = 0 /\ dispatched = 0 /\ stale = 0
  BY DEF Init, SyncScannerInit, Scan!ScannerInit
<1> QED
  BY <1>1, <1>2, FS_EmptySet DEF TokenConservation

(* A step that leaves the channels, the counts and the holders alone. *)
LEMMA TokenQuiet ==
  ASSUME TokenConservation, UNCHANGED <<c, done, dispatched, stale>>,
         Holding' = Holding
  PROVE  TokenConservation'
BY DEF TokenConservation

LEMMA TokenScanner ==
  ASSUME ScanOK, TokenConservation, SyncScannerStep, UNCHANGED loopVars
  PROVE  TokenConservation'
<1>1. Holding' = Holding
  BY DEF loopVars, Holding
<1>2. /\ c \in Seq(FileObj) /\ Len(c) \in Nat /\ done \in Nat
      /\ dispatched \in Int /\ stale \in Nat /\ todo \subseteq FileObj
  BY SyncAssumption
     DEF ScanOK, SyncScannerTypeOK, Scan!ScannerTypeOK, Scan!Cap
<1>3. /\ Cardinality(Holding) \in Nat
      /\ Len(c) + Cardinality(Holding) + done = dispatched + stale
  BY HoldingFinite DEF TokenConservation
<1>4. Len(c') + Cardinality(Holding) + done' = dispatched' + stale'
  <2>1. CASE \/ StartWithWatcher \/ ListFolder \/ StatFile
             \/ Scan!ScannerConnect \/ Scan!BeginScan \/ Scan!ReadError
             \/ Scan!ChannelFull \/ Scan!EndWalk
             \/ Scan!RecreateScanner \/ Scan!ExitProcess
    <3>1. UNCHANGED <<c, done, dispatched, stale>>
      BY <2>1
         DEF StartWithWatcher, ListFolder, StatFile, Scan!ScannerConnect,
             Scan!BeginScan, Scan!ReadError, Scan!ChannelFull, Scan!EndWalk,
             Scan!RecreateScanner, Scan!ExitProcess
    <3> QED
      BY <1>3, <3>1
  <2>2. CASE \E f \in todo : Scan!Dispatch(f) \/ Scan!BlockedSend(f)
    <3>1. PICK f \in FileObj :
            /\ c' = Append(c, f) /\ dispatched' = dispatched + 1
            /\ UNCHANGED <<done, stale>>
      BY <1>2, <2>2 DEF Scan!Dispatch, Scan!BlockedSend, Scan!Send
    <3>2. Len(c') = Len(c) + 1
      BY <1>2, <3>1
    <3>3. dispatched' = dispatched + 1 /\ done' = done /\ stale' = stale
      BY <3>1
    <3> QED
      BY <1>2, <1>3, <3>2, <3>3
  <2>3. CASE Scan!AwaitToken \/ Scan!Drain
    BY <1>2, <1>3, <2>3 DEF Scan!AwaitToken, Scan!Drain, Scan!TakeToken
  <2>4. CASE Scan!WalkError
    BY <1>2, <1>3, <2>4 DEF Scan!WalkError
  <2> QED
    BY <2>1, <2>2, <2>3, <2>4
       DEF SyncScannerStep, Scan!ScannerStep, WatcherStep, Decided
<1> QED
  BY <1>1, <1>4 DEF TokenConservation

(* Receive makes a holder of a file of c; Signal turns a holder into a     *)
(* token; no other action of a loop makes or frees a holder.               *)
LEMMA TokenLoop ==
  ASSUME NEW w \in Agent, TypeInv, TokenConservation, LoopStep(w)
  PROVE  TokenConservation'
<1> USE DEF Goto
<1>0. /\ loop \in [Agent -> LoopState]
      /\ c \in Seq(FileObj) /\ Len(c) \in Nat /\ done \in Nat
      /\ dispatched \in Int /\ stale \in Nat
  BY SyncAssumption
     DEF TypeInv, LoopOK, ScanOK, SyncScannerTypeOK, Scan!ScannerTypeOK, Scan!Cap
<1>1. CASE Receive(w)
  <2>1. w \notin Holding /\ Holding' = Holding \cup {w}
    BY <1>0, <1>1 DEF Receive, Holding
  <2>2. Cardinality(Holding') = Cardinality(Holding) + 1
    BY <2>1, HoldingFinite, FS_AddElement
  <2>3. Len(c') = Len(c) - 1 /\ UNCHANGED <<done, dispatched, stale>>
    BY <1>0, <1>1 DEF Receive, Scan!ReceiveFile
  <2> QED
    BY <1>0, <2>2, <2>3, HoldingFinite DEF TokenConservation
<1>2. CASE Signal(w)
  <2>1. w \in Holding /\ Holding' = Holding \ {w}
    BY <1>0, <1>2 DEF Signal, Holding
  <2>2. Cardinality(Holding') = Cardinality(Holding) - 1
    BY <2>1, HoldingFinite, FS_RemoveElement
  <2>3. done' = done + 1 /\ UNCHANGED <<c, dispatched, stale>>
    BY <1>2 DEF Signal, Scan!SendToken
  <2> QED
    BY <1>0, <2>2, <2>3, HoldingFinite DEF TokenConservation
<1>3. CASE \/ Connect(w) \/ LookSame(w) \/ LookDiffers(w)
           \/ TouchOk(w) \/ TouchErr(w) \/ Check(w)
  <2>1. Holding' = Holding
    BY <1>0, <1>3
       DEF Connect, LookSame, LookDiffers, TouchOk, TouchErr, Check, Holding
  <2>2. UNCHANGED <<c, done, dispatched, stale>>
    BY <1>3
       DEF Connect, LookSame, LookDiffers, TouchOk, TouchErr, Check,
           syncScannerVars, exchangeVars
  <2> QED
    BY <2>1, <2>2, TokenQuiet
<1> QED
  BY <1>1, <1>2, <1>3 DEF LoopStep

(* A transfer that ends leaves its file in its loop's hand. *)
LEMMA TransferMoves ==
  ASSUME NEW t \in transfers, TypeInv, TransferStep(t) \/ Timeout(t)
  PROVE  /\ UNCHANGED syncScannerVars
         /\ \/ loop' = loop
            \/ loop[t.owner] = "call" /\ loop' = [loop EXCEPT ![t.owner] = "touch"]
         /\ Holding' = Holding
<1>1. UNCHANGED syncScannerVars
  BY DEF TransferStep, DownloadStep, UploadStep, OpenRemote, OpenRemoteErr,
         Copied, CopyRemoteErr, RenameOk, RenameErr, MkdirOk, UploadErr,
         OpenLocal, OpenLocalErr, CreateOk, CreateErr, CopyOk, Fail, Quiet,
         Timeout
<1>2. \/ loop' = loop
      \/ t.id = 0 /\ loop' = [loop EXCEPT ![t.owner] = "touch"]
  BY DEF TransferStep, DownloadStep, UploadStep, OpenRemote, OpenRemoteErr,
         Copied, CopyRemoteErr, RenameOk, RenameErr, MkdirOk, UploadErr,
         OpenLocal, OpenLocalErr, CreateOk, CreateErr, CopyOk, Fail, Timeout,
         End, Becomes, Goto, loopVars
<1>3. t.id = 0 => loop[t.owner] = "call" /\ t.owner \in Agent
  BY DEF TypeInv, TransferOK
<1>4. Holding' = Holding
  BY <1>2, <1>3 DEF TypeInv, LoopOK, Holding
<1> QED
  BY <1>1, <1>2, <1>3, <1>4

LEMMA TokenTransfer ==
  ASSUME NEW t \in transfers, TypeInv, TokenConservation,
         TransferStep(t) \/ Timeout(t)
  PROVE  TokenConservation'
BY TransferMoves, TokenQuiet DEF syncScannerVars, exchangeVars

LEMMA TokenNext == TypeInv /\ TokenConservation /\ [Next]_vars => TokenConservation'
<1> SUFFICES ASSUME TypeInv, TokenConservation, [Next]_vars
             PROVE  TokenConservation'
  OBVIOUS
<1>1. CASE ScannerAct
  BY <1>1, TokenScanner DEF ScannerAct, TypeInv
<1>2. CASE \E w \in Agent : LoopAct(w)
  BY <1>2, TokenLoop DEF LoopAct
<1>3. CASE \E t \in transfers : TransferAct(t) \/ TimeoutAct(t)
  BY <1>3, TokenTransfer DEF TransferAct, TimeoutAct
<1>4. CASE (\E p \in Path : Edit(p) \/ Delete(p)) \/ UNCHANGED vars
  <2>1. UNCHANGED <<syncScannerVars, loopVars>>
    BY <1>4 DEF Edit, Delete, vars
  <2> QED
    BY <2>1, TokenQuiet DEF Holding, syncScannerVars, exchangeVars, loopVars
<1>5. CASE Restart
  <2>1. Holding' = {}
    BY <1>5 DEF Restart, Holding
  <2>2. Len(c') = 0 /\ done' = 0 /\ dispatched' = 0 /\ stale' = 0
    BY <1>5 DEF Restart
  <2> QED
    BY <2>1, <2>2, FS_EmptySet DEF TokenConservation
<1> QED
  BY <1>1, <1>2, <1>3, <1>4, <1>5 DEF Next

(* Every file that a scan has sent is queued, in hand or answered, also    *)
(* when its object is replaced meanwhile, so a scan neither overtakes the  *)
(* one before it nor waits for an answer that will not come                *)
(* (server-syncer.go 189-201, local-syncer.go 165-177).                    *)
THEOREM TokensConserved == Spec => []TokenConservation
BY TypeAlways, TokenInit, TokenNext, PTL DEF Spec

-----------------------------------------------------------------------------
(* When all wait for each other.  The scanner waits for a token with files *)
(* out, or for room in c with room in done, so that the goroutine that has *)
(* filled done again is free to receive.                                   *)

(* The wait for a token begins with c full. *)
FullCounted == scanner = "full" => dispatched + stale >= Scan!Cap

(* A goroutine that has filled done again has no file in hand. *)
SendServed ==
  scanner = "send" =>
    Len(c) < Scan!Cap \/ done < Scan!Cap \/ \E w \in Agent : w \notin Holding

(* A goroutine ends in one-time mode only. *)
GoneOnce == \A w \in Agent : loop[w] = "gone" => OneTime

WaitInv == FullCounted /\ SendServed /\ GoneOnce

LEMMA WaitInit == Init => WaitInv
BY DEF Init, SyncScannerInit, Scan!ScannerInit, WaitInv, FullCounted, SendServed,
       GoneOnce

LEMMA WaitScanner ==
  ASSUME TypeInv, TokenConservation, WaitInv, SyncScannerStep, UNCHANGED loopVars
  PROVE  WaitInv'
<1> USE DEF WaitInv
<1>1. /\ done \in 0..Scan!Cap /\ Scan!Cap \in Nat
      /\ Len(c) \in Nat /\ dispatched \in Int /\ stale \in Nat
  BY SyncAssumption
     DEF TypeInv, ScanOK, SyncScannerTypeOK, Scan!ScannerTypeOK, Scan!Cap
<1>2. scanner' = "full" => Len(c) = Scan!Cap /\ UNCHANGED <<dispatched, stale>>
  BY DEF SyncScannerStep, WatcherStep, StartWithWatcher, ListFolder, StatFile,
         Scan!ScannerStep, Scan!ScannerConnect, Scan!BeginScan, Scan!ReadError,
         Scan!Dispatch, Scan!Send, Scan!ChannelFull, Scan!AwaitToken,
         Scan!BlockedSend, Scan!EndWalk, Scan!Returned, Scan!Drain,
         Scan!WalkError, Scan!RecreateScanner, Scan!ExitProcess
<1>3. scanner' = "send" => done > 0 /\ done' = done - 1
  BY DEF SyncScannerStep, WatcherStep, StartWithWatcher, ListFolder, StatFile,
         Scan!ScannerStep, Scan!ScannerConnect, Scan!BeginScan, Scan!ReadError,
         Scan!Dispatch, Scan!Send, Scan!ChannelFull, Scan!AwaitToken,
         Scan!TakeToken, Scan!BlockedSend, Scan!EndWalk, Scan!Returned,
         Scan!Drain, Scan!WalkError, Scan!RecreateScanner, Scan!ExitProcess
<1>4. FullCounted'
  BY <1>1, <1>2, HoldingFinite DEF FullCounted, TokenConservation, Scan!Cap
<1>5. SendServed'
  BY <1>1, <1>3 DEF SendServed, Scan!Cap
<1>6. GoneOnce'
  BY DEF GoneOnce, loopVars
<1> QED
  BY <1>4, <1>5, <1>6

LEMMA WaitLoop ==
  ASSUME NEW w \in Agent, TypeInv, WaitInv, LoopStep(w)
  PROVE  WaitInv'
<1> USE DEF WaitInv, Goto
<1>0. /\ loop \in [Agent -> LoopState]
      /\ c \in Seq(FileObj) /\ Len(c) <= Scan!Cap /\ Scan!Cap \in Nat
  BY SyncAssumption
     DEF TypeInv, LoopOK, ScanOK, SyncScannerTypeOK, Scan!ScannerTypeOK, Scan!Cap
<1>1. UNCHANGED <<scanner, dispatched, stale>>
  BY DEF LoopStep, Connect, Receive, LookSame, LookDiffers, TouchOk, TouchErr,
         Signal, Check, syncScannerVars, exchangeVars
<1>2. FullCounted'
  BY <1>1 DEF FullCounted, Scan!Cap
<1>3. GoneOnce'
  BY <1>0
     DEF GoneOnce, LoopStep, Connect, Receive, LookSame, LookDiffers, TouchOk,
         TouchErr, Signal, Check
<1>4. SendServed'
  <2>1. CASE Receive(w)
    <3>1. Len(c') < Scan!Cap
      BY <1>0, <2>1 DEF Receive, Scan!ReceiveFile
    <3> QED
      BY <3>1 DEF SendServed, Scan!Cap
  <2>2. CASE Signal(w)
    BY <1>0, <2>2 DEF Signal, SendServed, Holding
  <2>3. CASE \/ Connect(w) \/ LookSame(w) \/ LookDiffers(w)
             \/ TouchOk(w) \/ TouchErr(w) \/ Check(w)
    <3>1. Holding' = Holding
      BY <1>0, <2>3
         DEF Connect, LookSame, LookDiffers, TouchOk, TouchErr, Check, Holding
    <3>2. UNCHANGED <<c, done>>
      BY <2>3
         DEF Connect, LookSame, LookDiffers, TouchOk, TouchErr, Check,
             syncScannerVars, exchangeVars
    <3> QED
      BY <1>1, <3>1, <3>2 DEF SendServed, Scan!Cap
  <2> QED
    BY <2>1, <2>2, <2>3 DEF LoopStep
<1> QED
  BY <1>2, <1>3, <1>4

LEMMA WaitNext ==
  TypeInv /\ TokenConservation /\ WaitInv /\ [Next]_vars => WaitInv'
<1> SUFFICES ASSUME TypeInv, TokenConservation, WaitInv, [Next]_vars
             PROVE  WaitInv'
  OBVIOUS
<1>1. CASE ScannerAct
  BY <1>1, WaitScanner DEF ScannerAct
<1>2. CASE \E w \in Agent : LoopAct(w)
  BY <1>2, WaitLoop DEF LoopAct
<1>3. ASSUME NEW t \in transfers, TransferAct(t) \/ TimeoutAct(t)
      PROVE  WaitInv'
  <2>1. /\ UNCHANGED <<syncScannerVars, Holding>>
        /\ \A w \in Agent : loop'[w] = "gone" => loop[w] = "gone"
    BY <1>3, TransferMoves DEF TransferAct, TimeoutAct, TypeInv, LoopOK
  <2> QED
    BY <2>1
       DEF WaitInv, FullCounted, SendServed, GoneOnce, Scan!Cap,
           syncScannerVars, exchangeVars
<1>4. CASE (\E p \in Path : Edit(p) \/ Delete(p)) \/ UNCHANGED vars
  <2>1. UNCHANGED <<syncScannerVars, loopVars>>
    BY <1>4 DEF Edit, Delete, vars
  <2> QED
    BY <2>1
       DEF WaitInv, FullCounted, SendServed, GoneOnce, Holding, Scan!Cap,
           syncScannerVars, exchangeVars, loopVars
<1>5. CASE Restart
  BY <1>5 DEF Restart, WaitInv, FullCounted, SendServed, GoneOnce
<1> QED
  BY <1>1, <1>2, <1>3, <1>4, <1>5 DEF Next

(* What the invariants say together. *)
LEMMA NotStuckWithAgents ==
  TypeInv /\ TokenConservation /\ WaitInv => StuckOnlyWhenLost
<1> SUFFICES ASSUME TypeInv, TokenConservation, WaitInv, Stuck,
                    \A w \in Agent : loop[w] # "gone"
             PROVE  FALSE
  BY DEF StuckOnlyWhenLost, WaitInv, GoneOnce
<1>0. /\ Scan!Cap \in Nat /\ Scan!Cap > 0 /\ c \in Seq(FileObj)
      /\ dispatched \in Int /\ stale \in Nat
  BY SyncAssumption
     DEF TypeInv, ScanOK, SyncScannerTypeOK, Scan!ScannerTypeOK, Scan!Cap
<1>1. \A w \in Agent : \/ loop[w] = "receive" /\ c = <<>>
                       \/ loop[w] = "signal" /\ done = Scan!Cap
  BY DEF Stuck, LoopWaits
<1>2. PICK w \in Agent : TRUE
  BY AgentAssumption, SyncAssumption, FS_EmptySet
<1>3. CASE scanner \in {"full", "drain"} /\ done = 0
  <2>1. c = <<>> /\ \A r \in Agent : loop[r] = "receive"
    BY <1>0, <1>1, <1>2, <1>3
  <2>2. Holding = {}
    BY <2>1 DEF Holding
  <2>3. dispatched + stale = 0
    BY <1>3, <2>1, <2>2, FS_EmptySet DEF TokenConservation
  <2> QED
    BY <1>0, <1>3, <2>3 DEF TypeInv, ScanOK, CountOK, WaitInv, FullCounted
<1>4. CASE scanner = "send" /\ Len(c) = Scan!Cap
  <2>1. c # <<>>
    BY <1>0, <1>4
  <2>2. \A r \in Agent : loop[r] = "signal" /\ done = Scan!Cap
    BY <1>1, <2>1
  <2> QED
    BY <1>0, <1>2, <1>4, <2>2 DEF WaitInv, SendServed, Holding
<1> QED
  BY <1>3, <1>4 DEF Stuck, ScannerWaits

(* However many files there are, a service is never stuck, nor a one-time  *)
(* run that has its goroutines (syncer.go 35-110, sftp-scanner.go 67-96,   *)
(* folder-scanner.go 109-149).                                             *)
THEOREM NeverStuckWithAgents == Spec => []StuckOnlyWhenLost
BY TypeAlways, TokenInit, TokenNext, WaitInit, WaitNext, NotStuckWithAgents, PTL
   DEF Spec

-----------------------------------------------------------------------------
(* What is known of versions.  Each of the facts below is needed for the   *)
(* last one, or for the refinement: a Stat in hand is not newer than the   *)
(* file, what a transfer has opened is not older than the Stat, and not    *)
(* older than any version that the copy has had.                           *)

StoreInv ==
  \A p \in Path : /\ source[p] \in {Absent, latest[p]}
                  /\ target[p].ver <= latest[p]
                  /\ target[p].time <= latest[p]
                  /\ target[p].last <= latest[p]

StatInv ==
  /\ \A f \in todo : f.stat <= latest[f.path]
  /\ \A i \in 1..Len(c) : c[i].stat <= latest[c[i].path]
  /\ \A w \in Holding : fo[w].stat <= latest[fo[w].path]

(* Two loops have one file only if it has been entered in suspect. *)
OneHolder ==
  \A w, r \in Holding : w # r /\ fo[w].path = fo[r].path => fo[w].path \in suspect

TransferInv ==
  \A t \in transfers :
    /\ t.pc \in {"create", "copy", "rename"} =>
         /\ t.ver # Absent
         /\ t.ver <= latest[t.path]
    /\ t.id = 0 /\ t.pc \in {"create", "copy", "rename"} =>
         /\ fo[t.owner].stat <= t.ver
         /\ t.path \notin suspect => target[t.path].last <= t.ver

(* A loop about to give a copy the time of its source has it made of that  *)
(* very version.                                                           *)
TouchInv ==
  \A w \in Holding :
    /\ loop[w] = "touch"
    /\ fo[w].path \notin suspect
    /\ source[fo[w].path] # Absent
    /\ fo[w].stat = source[fo[w].path]
    /\ target[fo[w].path].ver \in Version
    => target[fo[w].path].ver = source[fo[w].path]

MirrorInv == StoreInv /\ StatInv /\ OneHolder /\ TransferInv /\ TouchInv /\ LabelsTrue

LEMMA MirrorInvInit == Init => MirrorInv
<1> SUFFICES ASSUME Init PROVE MirrorInv
  OBVIOUS
<1>1. /\ latest \in [Path -> {Absent, 1}] /\ source = latest
      /\ \A p \in Path : /\ target[p].ver = Absent /\ target[p].time = NoStat
                          /\ target[p].last = Absent
      /\ Holding = {} /\ transfers = {} /\ todo = {} /\ Len(c) = 0
  BY DEF Init, Holding, SyncScannerInit, Scan!ScannerInit
<1>2. ASSUME NEW p \in Path
      PROVE  /\ source[p] = latest[p] /\ 0 <= latest[p]
             /\ target[p].ver = 0 /\ target[p].time = 0 /\ target[p].last = 0
  BY <1>1 DEF Absent, NoStat
<1>3. StatInv /\ OneHolder /\ TransferInv /\ TouchInv
  BY <1>1 DEF StatInv, OneHolder, TransferInv, TouchInv
<1>4. LabelsTrue
  BY <1>1 DEF LabelsTrue, Same, Absent, NoStat, Version
<1> QED
  BY <1>2, <1>3, <1>4 DEF MirrorInv, StoreInv

(* The numbers that the facts are about. *)
LEMMA Numbers ==
  ASSUME TypeInv
  PROVE  /\ \A p \in Path : /\ source[p] \in Nat /\ latest[p] \in Nat
                            /\ target[p].ver \in Int /\ target[p].time \in Nat
                            /\ target[p].last \in Nat
         /\ \A f \in todo : f.path \in Path /\ f.stat \in Nat
         /\ \A i \in 1..Len(c) : c[i].path \in Path /\ c[i].stat \in Nat
         /\ \A w \in Holding : w \in Agent /\ fo[w].path \in Path /\ fo[w].stat \in Nat
         /\ \A t \in transfers : t.path \in Path /\ t.ver \in Nat /\ t.id \in Nat
         /\ \A t \in transfers : t.id = 0 => /\ t.owner \in Holding
                                             /\ loop[t.owner] = "call"
                                             /\ t.path = fo[t.owner].path
<1>1. /\ \A v \in Version : v \in Nat /\ v # Absent
      /\ Absent \in Nat /\ NoStat \in Nat /\ Partial \in Int
  BY SyncAssumption DEF Version, Absent, NoStat, Partial
<1>2. \A f \in FileObj : f.path \in Path /\ f.stat \in Nat
  BY SyncAssumption DEF FileObj, NoStat
<1>3. todo \subseteq FileObj /\ c \in Seq(FileObj)
  BY DEF TypeInv, ScanOK, SyncScannerTypeOK, Scan!ScannerTypeOK
<1>4. \A w \in Holding : w \in Agent /\ fo[w] \in FileObj
  BY DEF TypeInv, LoopOK, Holding
<1>5. \A t \in transfers : /\ t.path \in Path /\ t.ver \in Nat /\ t.id \in Nat
                           /\ t.id = 0 => /\ t.owner \in Holding
                                          /\ loop[t.owner] = "call"
                                          /\ t.path = fo[t.owner].path
  BY <1>1, AgentAssumption DEF TypeInv, TransferOK, Transfer, Holding
<1>6. \A p \in Path : /\ source[p] \in Nat /\ latest[p] \in Nat
                      /\ target[p].ver \in Int /\ target[p].time \in Nat
                            /\ target[p].last \in Nat
  BY <1>1 DEF TypeInv, StoreOK
<1> QED
  BY <1>2, <1>3, <1>4, <1>5, <1>6

(* A file that the scanner takes up has no newer Stat than the file. *)
LEMMA MirrorScanner ==
  ASSUME TypeInv, MirrorInv, ScannerAct
  PROVE  MirrorInv'
<1> USE DEF MirrorInv
<1>1. /\ UNCHANGED <<storeVars, target, loopVars, transfers, suspect>>
      /\ Holding' = Holding
  BY DEF ScannerAct, Holding, loopVars
<1>2. StoreInv' /\ OneHolder' /\ TransferInv' /\ TouchInv' /\ LabelsTrue'
  BY <1>1
     DEF StoreInv, OneHolder, TransferInv, TouchInv, LabelsTrue, Same,
         storeVars, loopVars
<1>3. /\ c \in Seq(FileObj) /\ todo \subseteq FileObj
      /\ \A p \in Path : source[p] <= latest[p] /\ 0 <= latest[p]
  BY Numbers
     DEF TypeInv, ScanOK, SyncScannerTypeOK, Scan!ScannerTypeOK, StoreInv, Absent
<1>4. \/ /\ c' = c
         /\ \A f \in todo' : \/ f \in todo
                             \/ f.path \in Path /\ f.stat \in {0, source[f.path]}
      \/ \E f \in todo : c' = Append(c, f) /\ todo' \subseteq todo
  <2>1. CASE \/ Scan!ScannerConnect \/ Scan!ReadError \/ Scan!ChannelFull
             \/ Scan!AwaitToken \/ Scan!EndWalk \/ Scan!Drain
             \/ Scan!WalkError \/ Scan!RecreateScanner \/ Scan!ExitProcess
    BY <2>1
       DEF Scan!ScannerConnect, Scan!ReadError, Scan!ChannelFull,
           Scan!AwaitToken, Scan!TakeToken, Scan!EndWalk, Scan!Drain,
           Scan!WalkError, Scan!RecreateScanner, Scan!ExitProcess
  <2>2. CASE Scan!BeginScan
    <3>1. c' = c /\ todo' = Scan!Listing
      BY <2>2 DEF Scan!BeginScan
    <3>2. \A f \in Scan!Listing : f.path \in Path /\ f.stat = source[f.path]
      BY DEF Scan!Listing, Scan!Absent, FileObj, Absent
    <3> QED
      BY <3>1, <3>2
  <2>3. CASE \E f \in todo : Scan!Dispatch(f) \/ Scan!BlockedSend(f)
    BY <2>3 DEF Scan!Dispatch, Scan!BlockedSend, Scan!Send
  <2>4. CASE StartWithWatcher
    BY <2>4 DEF StartWithWatcher, Scan!ScannerConnect
  <2>5. CASE ListFolder
    BY <2>5 DEF ListFolder, NoStat
  <2>6. CASE StatFile
    BY <1>3, <2>6 DEF StatFile, StatFails, StatSame, StatChanged, FileObj
  <2> QED
    BY <2>1, <2>2, <2>3, <2>4, <2>5, <2>6
       DEF ScannerAct, SyncScannerStep, Scan!ScannerStep, WatcherStep, Decided
<1>5. StatInv'
  <2>1. /\ \A f \in todo' : f.stat <= latest[f.path]
        /\ \A i \in 1..Len(c') : c'[i].stat <= latest[c'[i].path]
    <3>1. CASE /\ c' = c
               /\ \A f \in todo' : \/ f \in todo
                                   \/ f.path \in Path /\ f.stat \in {0, source[f.path]}
      BY <1>3, <3>1 DEF StatInv
    <3>2. CASE \E f \in todo : c' = Append(c, f) /\ todo' \subseteq todo
      <4>1. PICK f \in todo : c' = Append(c, f) /\ todo' \subseteq todo
        BY <3>2
      <4>2. /\ Len(c') = Len(c) + 1
            /\ \A i \in 1..Len(c') : c'[i] = IF i <= Len(c) THEN c[i] ELSE f
        BY <1>3, <4>1
      <4> QED
        BY <1>3, <4>1, <4>2 DEF StatInv
    <3> QED
      BY <1>4, <3>1, <3>2
  <2> QED
    BY <1>1, <2>1 DEF StatInv, storeVars, loopVars
<1> QED
  BY <1>2, <1>5

(* A loop goes on with the file it has, or puts it away. *)
LEMMA LoopKeeps ==
  ASSUME TypeInv, MirrorInv, NEW w \in Agent, loop[w] # "call",
         UNCHANGED <<source, latest, target, suspect, transfers, todo, c>>,
         loop'[w] # "touch", \A r \in Agent : r # w => loop'[r] = loop[r],
         Holding' \subseteq Holding,
         \A r \in Agent : r \in Holding' \/ r # w => fo'[r] = fo[r]
  PROVE  MirrorInv'
<1> USE DEF MirrorInv
<1>1. StoreInv' /\ LabelsTrue'
  BY DEF StoreInv, LabelsTrue, Same
<1>2. StatInv' /\ OneHolder' /\ TouchInv'
  BY DEF StatInv, OneHolder, TouchInv, Holding
<1>3. \A t \in transfers : t.id = 0 => fo'[t.owner] = fo[t.owner]
  BY Numbers DEF Holding
<1>4. TransferInv'
  BY <1>3 DEF TransferInv
<1> QED
  BY <1>1, <1>2, <1>4

LEMMA MirrorReceive ==
  ASSUME TypeInv, MirrorInv, NEW w \in Agent, Receive(w)
  PROVE  MirrorInv'
<1> USE DEF MirrorInv, Receive, Goto
<1>1. /\ UNCHANGED <<source, latest, target, transfers, todo>>
      /\ loop \in [Agent -> LoopState] /\ fo \in [Agent -> FileObj \cup {NoFile}]
      /\ c \in Seq(FileObj) /\ c # <<>> /\ c' = Tail(c)
  BY DEF TypeInv, LoopOK, ScanOK, SyncScannerTypeOK, Scan!ScannerTypeOK,
         Scan!ReceiveFile, storeVars
<1>2. /\ Head(c) = c[1] /\ 1 \in 1..Len(c)
      /\ \A i \in 1..Len(c') : c'[i] = c[i + 1] /\ i + 1 \in 1..Len(c)
  BY <1>1
<1>3. /\ Holding' = Holding \cup {w} /\ w \notin Holding /\ loop'[w] = "look"
      /\ fo'[w] = Head(c)
      /\ \A r \in Agent : r # w => fo'[r] = fo[r] /\ loop'[r] = loop[r]
  BY <1>1 DEF Holding
<1>4. /\ suspect \subseteq suspect'
      /\ \A r \in Holding : fo[r].path = Head(c).path => fo[r].path \in suspect'
  OBVIOUS
<1>5. StoreInv' /\ LabelsTrue'
  BY <1>1, <1>4 DEF StoreInv, LabelsTrue, Same
<1>6. StatInv'
  BY <1>1, <1>2, <1>3 DEF StatInv, Holding
<1>7. OneHolder' /\ TouchInv'
  BY <1>1, <1>3, <1>4 DEF OneHolder, TouchInv, Holding
<1>8. TransferInv'
  BY <1>1, <1>3, <1>4, Numbers DEF TransferInv, Holding
<1> QED
  BY <1>5, <1>6, <1>7, <1>8

LEMMA MirrorDiffers ==
  ASSUME TypeInv, MirrorInv, NEW w \in Agent, LookDiffers(w)
  PROVE  MirrorInv'
<1> USE DEF MirrorInv, LookDiffers, Goto
<1>1. /\ UNCHANGED <<source, latest, target, suspect, todo, c, fo>>
      /\ loop \in [Agent -> LoopState] /\ loop[w] = "look"
  BY DEF TypeInv, LoopOK, storeVars, syncScannerVars, exchangeVars
<1>2. /\ Holding' = Holding /\ loop'[w] = "call"
      /\ \A r \in Agent : r # w => loop'[r] = loop[r]
  BY <1>1 DEF Holding
<1>3. StoreInv' /\ LabelsTrue' /\ StatInv' /\ OneHolder' /\ TouchInv'
  BY <1>1, <1>2
     DEF StoreInv, LabelsTrue, Same, StatInv, OneHolder, TouchInv, Holding
<1>4. TransferInv'
  BY <1>1 DEF TransferInv
<1> QED
  BY <1>3, <1>4

(* The time that updateModTime gives is that of the version that is there. *)
LEMMA MirrorTouch ==
  ASSUME TypeInv, MirrorInv, NEW w \in Agent, TouchOk(w)
  PROVE  MirrorInv'
<1> USE DEF MirrorInv, TouchOk, Goto
<1>1. /\ UNCHANGED <<source, latest, suspect, todo, c, fo, transfers>>
      /\ loop \in [Agent -> LoopState] /\ loop[w] = "touch" /\ w \in Holding
  BY DEF TypeInv, LoopOK, Holding, storeVars, syncScannerVars, exchangeVars
<1>2. /\ Holding' = Holding /\ loop'[w] = "signal"
      /\ \A r \in Agent : r # w => loop'[r] = loop[r]
  BY <1>1 DEF Holding
<1>3. /\ fo[w].path \in Path
      /\ \A p \in Path :
           /\ target'[p].ver = target[p].ver
           /\ target'[p].last = target[p].last
           /\ target'[p].time = IF p = fo[w].path THEN fo[w].stat
                                ELSE target[p].time
  BY <1>1, Numbers DEF TypeInv, StoreOK
<1>4. StoreInv'
  BY <1>1, <1>3 DEF StoreInv, StatInv
<1>5. LabelsTrue'
  BY <1>1, <1>3 DEF LabelsTrue, Same, TouchInv
<1>6. StatInv' /\ OneHolder'
  BY <1>1, <1>2 DEF StatInv, OneHolder
<1>7. TouchInv'
  BY <1>1, <1>2, <1>3, Numbers DEF TouchInv, Holding
<1>8. TransferInv'
  BY <1>1, <1>3, Numbers DEF TransferInv
<1> QED
  BY <1>4, <1>5, <1>6, <1>7, <1>8

LEMMA MirrorCheck ==
  ASSUME TypeInv, MirrorInv, NEW w \in Agent, Check(w)
  PROVE  MirrorInv'
<1> DEFINE new(t) == IF to_exit[w] /\ t.owner = w
                     THEN [t EXCEPT !.owner = Nobody] ELSE t
<1> USE DEF MirrorInv, Check, Goto
<1>1. /\ UNCHANGED <<source, latest, target, suspect, todo, c, fo>>
      /\ loop \in [Agent -> LoopState] /\ loop[w] = "check" /\ w \notin Holding
      /\ transfers' = {new(t) : t \in transfers}
  BY DEF TypeInv, LoopOK, Holding, storeVars, syncScannerVars, exchangeVars
<1>2. \A t \in transfers :
        /\ new(t).id = t.id /\ new(t).path = t.path /\ new(t).pc = t.pc
        /\ new(t).ver = t.ver /\ (t.id = 0 => new(t) = t)
  BY <1>1, Numbers DEF TypeInv, TransferOK, Transfer
<1> HIDE DEF new
<1>3. TransferInv'
  BY <1>1, <1>2 DEF TransferInv
<1>4. /\ Holding' = Holding
      /\ \A r \in Holding : loop'[r] = loop[r]
  BY <1>1 DEF Holding
<1>5. StoreInv' /\ LabelsTrue' /\ StatInv' /\ OneHolder' /\ TouchInv'
  BY <1>1, <1>4 DEF StoreInv, LabelsTrue, Same, StatInv, OneHolder, TouchInv
<1> QED
  BY <1>3, <1>5

LEMMA MirrorLoop ==
  ASSUME TypeInv, MirrorInv, NEW w \in Agent, LoopStep(w)
  PROVE  MirrorInv'
<1>1. CASE Receive(w)
  BY <1>1, MirrorReceive
<1>2. CASE LookDiffers(w)
  BY <1>2, MirrorDiffers
<1>3. CASE TouchOk(w)
  BY <1>3, MirrorTouch
<1>4. CASE Check(w)
  BY <1>4, MirrorCheck
<1>5. CASE Connect(w) \/ LookSame(w) \/ TouchErr(w) \/ Signal(w)
  <2>1. /\ loop \in [Agent -> LoopState]
        /\ loop[w] \in {"connect", "look", "touch", "signal"}
        /\ \A r \in Agent : r # w => loop'[r] = loop[r]
        /\ loop'[w] \in IF w \in Holding THEN {"signal", "check"} ELSE {"receive"}
    BY <1>5
       DEF Connect, LookSame, TouchErr, Signal, Goto, TypeInv, LoopOK, Holding
  <2>2. Holding' \subseteq Holding
    BY <2>1 DEF Holding
  <2>3. UNCHANGED <<source, latest, target, suspect, transfers, todo, c>>
    BY <1>5
       DEF Connect, LookSame, TouchErr, Signal, storeVars, syncScannerVars,
           exchangeVars
  <2>4. \A r \in Agent : r \in Holding' \/ r # w => fo'[r] = fo[r]
    BY <1>5, <2>1
       DEF Connect, LookSame, TouchErr, Signal, Goto, TypeInv, LoopOK, Holding
  <2> QED
    BY <2>1, <2>2, <2>3, <2>4, LoopKeeps
<1> QED
  BY <1>1, <1>2, <1>3, <1>4, <1>5 DEF LoopStep

-----------------------------------------------------------------------------
(* Transfers hand no file on, and never take one out of suspect. *)
LEMMA TransferFrame ==
  ASSUME MirrorInv, UNCHANGED <<syncScannerVars, storeVars, fo>>,
         Holding' = Holding, suspect \subseteq suspect'
  PROVE  /\ StatInv' /\ OneHolder'
         /\ target' = target => StoreInv' /\ LabelsTrue'
BY DEF MirrorInv, StatInv, OneHolder, StoreInv, LabelsTrue, Same,
       syncScannerVars, exchangeVars, storeVars

(* The end of a transfer brings its loop to updateModTime, and no other. *)
LEMMA EndMoves ==
  ASSUME TypeInv, NEW t \in transfers,
         loop' = IF t.id = 0 THEN [loop EXCEPT ![t.owner] = "touch"] ELSE loop
  PROVE  /\ Holding' = Holding
         /\ \A r \in Holding :
              loop'[r] = "touch" => loop[r] = "touch" \/ (t.id = 0 /\ r = t.owner)
<1>1. loop \in [Agent -> LoopState] /\ (t.id = 0 => loop[t.owner] = "call")
  BY Numbers DEF TypeInv, LoopOK
<1> QED
  BY <1>1 DEF Holding

(* After a failure the loop is about to give a time to something that is   *)
(* not there, is distrusted, or has lost its source.                       *)
LEMMA MirrorForgets ==
  ASSUME TypeInv, MirrorInv, NEW t \in transfers,
         UNCHANGED <<syncScannerVars, storeVars, target, fo>>,
         suspect' = Distrusted(t),
         loop' = IF t.id = 0 THEN [loop EXCEPT ![t.owner] = "touch"] ELSE loop,
         \A u \in transfers' :
           \/ u \in transfers
           \/ u.id > 0 /\ u.pc = t.pc /\ u.ver = t.ver /\ u.path = t.path
  PROVE  MirrorInv'
<1> USE DEF MirrorInv
<1>1. suspect \subseteq suspect'
  BY DEF Distrusted
<1>2. StoreInv' /\ LabelsTrue' /\ StatInv' /\ OneHolder' /\ Holding' = Holding
  BY <1>1, EndMoves, TransferFrame
<1>3. TransferInv'
  <2>1. UNCHANGED <<latest, target, fo>>
    BY DEF storeVars
  <2>2. \A u \in transfers' :
          u \in transfers \/ (u.id # 0 /\ u.pc = t.pc /\ u.ver = t.ver /\ u.path = t.path)
    BY SMT
  <2> QED
    BY <1>1, <2>1, <2>2 DEF TransferInv
<1>4. TouchInv'
  <2>1. Absent \notin Version
    BY SyncAssumption DEF Absent, Version
  <2>2. ASSUME t.id = 0, t.path \notin suspect', source[t.path] # Absent
        PROVE  target[t.path].ver \notin Version
    BY <2>1, <2>2 DEF Distrusted
  <2> QED
    BY <1>1, <1>2, <2>2, EndMoves, Numbers DEF TouchInv, storeVars
<1> QED
  BY <1>2, <1>3, <1>4

LEMMA MirrorFail ==
  ASSUME TypeInv, MirrorInv, NEW t \in transfers, Fail(t)
  PROVE  MirrorInv'
BY MirrorForgets DEF Fail, End

LEMMA MirrorTimeout ==
  ASSUME TypeInv, MirrorInv, NEW t \in transfers, Timeout(t)
  PROVE  MirrorInv'
<1>1. t \in Transfer /\ faults + 1 > 0
  BY AgentAssumption DEF TypeInv, TransferOK, BoundOK
<1>2. \A u \in transfers' :
        \/ u \in transfers
        \/ u.id > 0 /\ u.pc = t.pc /\ u.ver = t.ver /\ u.path = t.path
  BY <1>1 DEF Timeout, Transfer
<1> QED
  BY <1>2, MirrorForgets DEF Timeout, Goto

(* A step of one transfer that leaves the copy alone. *)
LEMMA MirrorGoes ==
  ASSUME TypeInv, MirrorInv, NEW t \in transfers, Quiet,
         \/ transfers' = transfers \ {t} /\ UNCHANGED loopVars
         \/ \E next :
              /\ Becomes(t, next)
              /\ next.id = t.id /\ next.owner = t.owner /\ next.path = t.path
              /\ \/ next.pc \notin {"create", "copy", "rename"}
                 \/ next.ver # Absent /\ next.ver = latest[t.path]
                 \/ next.ver = t.ver /\ t.pc \in {"create", "copy", "rename"}
  PROVE  MirrorInv'
<1> USE DEF MirrorInv
<1>1. /\ UNCHANGED <<syncScannerVars, storeVars, target, suspect, loop, fo>>
      /\ Holding' = Holding
  BY DEF Quiet, Becomes, loopVars, Holding
<1>2. StoreInv' /\ LabelsTrue' /\ StatInv' /\ OneHolder'
  BY <1>1, TransferFrame
<1>3. TouchInv'
  BY <1>1 DEF TouchInv, storeVars
<1>4. TransferInv'
  <2>1. CASE transfers' = transfers \ {t}
    BY <1>1, <2>1 DEF TransferInv, storeVars
  <2>2. ASSUME NEW next, Becomes(t, next),
               next.id = t.id, next.owner = t.owner, next.path = t.path,
               \/ next.pc \notin {"create", "copy", "rename"}
               \/ next.ver # Absent /\ next.ver = latest[t.path]
               \/ next.ver = t.ver /\ t.pc \in {"create", "copy", "rename"}
        PROVE  TransferInv'
    <3>1. /\ latest[t.path] <= latest[t.path]
          /\ target[t.path].last <= latest[t.path]
          /\ t.id = 0 => fo[t.owner].stat <= latest[t.path]
      BY Numbers DEF StoreInv, StatInv
    <3>2. next.pc \in {"create", "copy", "rename"} =>
            /\ next.ver # Absent
            /\ next.ver <= latest[next.path]
            /\ next.id = 0 =>
                 /\ fo[next.owner].stat <= next.ver
                 /\ next.path \notin suspect => target[next.path].last <= next.ver
      BY <2>2, <3>1 DEF TransferInv
    <3>3. transfers' = (transfers \ {t}) \cup {next} /\ UNCHANGED <<latest, target, fo, suspect>>
      BY <1>1, <2>2 DEF Becomes, storeVars
    <3> QED
      BY <3>2, <3>3 DEF TransferInv
  <2> QED
    BY <2>1, <2>2
<1> QED
  BY <1>2, <1>3, <1>4

(* What a step that writes the copy of a file needs: it is a version that  *)
(* is not older than one it has had, by the one loop that has the file, or *)
(* the file is suspect, or it is Partial, which no one takes for a version.*)
LEMMA MirrorWrite ==
  ASSUME TypeInv, MirrorInv, NEW t \in transfers, NEW v,
         UNCHANGED <<syncScannerVars, storeVars, fo>>, Write(t, v),
         suspect \subseteq suspect',
         \/ /\ v = Partial /\ t.pc = "create" /\ loop' = loop
            /\ \E next : /\ transfers' = (transfers \ {t}) \cup {next}
                         /\ next.pc = "copy" /\ next.ver = t.ver
                         /\ next.id = t.id /\ next.owner = t.owner
                         /\ next.path = t.path
         \/ /\ v = t.ver /\ t.pc \in {"copy", "rename"}
            /\ transfers' = transfers \ {t}
            /\ loop' = IF t.id = 0 THEN [loop EXCEPT ![t.owner] = "touch"] ELSE loop
            /\ t.id = 0 \/ t.path \in suspect'
  PROVE  MirrorInv'
<1> USE DEF MirrorInv
<1>1. /\ t.path \in Path
      /\ \A p \in Path :
           /\ target'[p].ver = IF p = t.path THEN v ELSE target[p].ver
           /\ target'[p].time = IF p = t.path THEN NoStat ELSE target[p].time
           /\ target'[p].last = IF p = t.path /\ v \in Version THEN v
                                ELSE target[p].last
  BY Numbers DEF Write, TypeInv, StoreOK
<1>2. /\ Holding' = Holding
      /\ UNCHANGED <<source, latest, fo>>
      /\ \A r \in Holding :
           loop'[r] = "touch"
             => loop[r] = "touch" \/ (t.id = 0 /\ r = t.owner /\ v = t.ver)
  BY EndMoves DEF storeVars, Holding
<1>3. StatInv' /\ OneHolder'
  BY <1>2, TransferFrame
<1>4. v \in Int /\ v <= latest[t.path] /\ NoStat <= latest[t.path]
  BY Numbers DEF TransferInv, Partial, NoStat
<1>5. StoreInv'
  BY <1>1, <1>2, <1>4 DEF StoreInv
<1>6. LabelsTrue'
  BY <1>1, <1>2 DEF LabelsTrue, Same, Absent, NoStat
<1>7. ASSUME NEW r \in Holding, fo[r].path = t.path, t.path \notin suspect',
             v = t.ver
      PROVE  t.id = 0 /\ r = t.owner
  BY <1>7, SyncAssumption, Numbers DEF OneHolder, Partial
<1>8. TouchInv'
  <2> SUFFICES ASSUME NEW r \in Holding, loop'[r] = "touch",
                      fo[r].path \notin suspect', source[fo[r].path] # Absent,
                      fo[r].stat = source[fo[r].path],
                      target'[fo[r].path].ver \in Version
               PROVE  target'[fo[r].path].ver = source[fo[r].path]
    BY <1>2 DEF TouchInv
  <2>1. CASE fo[r].path # t.path
    <3>1. loop[r] = "touch"
      BY <1>2, <2>1, Numbers
    <3> QED
      BY <1>1, <2>1, <3>1, Numbers DEF TouchInv
  <2>2. CASE fo[r].path = t.path
    <3>1. target'[fo[r].path].ver = v /\ v # Partial
      BY <1>1, <2>2, SyncAssumption DEF Partial, Version
    <3>2. v = t.ver /\ t.pc \in {"copy", "rename"} /\ t.id = 0 /\ r = t.owner
      BY <1>7, <2>2, <3>1
    <3>3. fo[r].stat <= v /\ v <= latest[t.path]
      BY <3>2 DEF TransferInv
    <3>4. source[t.path] = latest[t.path]
      BY <1>1, <2>2 DEF StoreInv
    <3> QED
      BY <1>4, <2>2, <3>1, <3>3, <3>4, Numbers
  <2> QED
    BY <2>1, <2>2
<1>9. TransferInv'
  <2>1. ASSUME NEW u \in transfers'
        PROVE  \E old \in transfers :
                 /\ u.id = old.id /\ u.owner = old.owner /\ u.path = old.path
                 /\ u.ver = old.ver
                 /\ \/ u.pc = old.pc
                    \/ old.pc = "create"
                 /\ v = t.ver => old # t
    BY <1>4, Numbers DEF TransferInv, Partial
  <2>2. ASSUME NEW u \in transfers, u.id = 0, u.path = t.path, u.path \notin suspect',
               u.pc \in {"create", "copy", "rename"}, v = t.ver => u # t
        PROVE  v \in Version => v <= u.ver
    <3>1. CASE v = Partial
      BY <3>1, SyncAssumption DEF Partial, Version
    <3>2. CASE v = t.ver
      <4>1. u.owner \in Holding /\ fo[u.owner].path = t.path
        BY <2>2, Numbers
      <4>2. t.id = 0 /\ u.owner = t.owner
        BY <1>7, <2>2, <3>2, <4>1
      <4> QED
        BY <2>2, <3>2, <4>2 DEF TypeInv, TransferOK
    <3> QED
      BY <3>1, <3>2
  <2> QED
    BY <1>1, <1>2, <2>1, <2>2, Numbers DEF TransferInv
<1> QED
  BY <1>3, <1>5, <1>6, <1>8, <1>9

LEMMA MirrorUnchanged ==
  ASSUME MirrorInv,
         UNCHANGED <<source, latest, target, todo, c, fo, loop, suspect, transfers>>
  PROVE  MirrorInv'
BY DEF MirrorInv, StoreInv, StatInv, OneHolder, TransferInv, TouchInv,
       LabelsTrue, Same, Holding

(* What a transfer opens is the last version. *)
LEMMA OpenedLatest ==
  ASSUME TypeInv, MirrorInv, NEW t \in transfers, source[t.path] # Absent,
         NEW place \in {"copy", "create"},
         Becomes(t, [t EXCEPT !.pc = place, !.ver = source[t.path]])
  PROVE  \E next :
           /\ Becomes(t, next)
           /\ next.id = t.id /\ next.owner = t.owner /\ next.path = t.path
           /\ next.ver # Absent /\ next.ver = latest[t.path]
<1> DEFINE next == [t EXCEPT !.pc = place, !.ver = source[t.path]]
<1>1. t \in Transfer /\ source[t.path] = latest[t.path]
  BY Numbers DEF TypeInv, TransferOK, MirrorInv, StoreInv
<1>2. next.id = t.id /\ next.owner = t.owner /\ next.path = t.path
      /\ next.ver = source[t.path]
  BY <1>1 DEF Transfer
<1>3. Becomes(t, next)
  OBVIOUS
<1> HIDE DEF next
<1> QED
  BY <1>1, <1>2, <1>3

(* A step to another place, with the same version. *)
LEMMA PlaceChanged ==
  ASSUME TypeInv, NEW t \in transfers, NEW place,
         Becomes(t, [t EXCEPT !.pc = place])
  PROVE  \E next :
           /\ Becomes(t, next)
           /\ next.id = t.id /\ next.owner = t.owner /\ next.path = t.path
           /\ next.ver = t.ver /\ next.pc = place
<1> DEFINE next == [t EXCEPT !.pc = place]
<1>1. t \in Transfer
  BY DEF TypeInv, TransferOK
<1>2. /\ next.id = t.id /\ next.owner = t.owner /\ next.path = t.path
      /\ next.ver = t.ver /\ next.pc = place
  BY <1>1 DEF Transfer
<1>3. Becomes(t, next)
  OBVIOUS
<1> HIDE DEF next
<1> QED
  BY <1>2, <1>3

LEMMA MirrorTransfer ==
  ASSUME TypeInv, MirrorInv, NEW t \in transfers, TransferStep(t)
  PROVE  MirrorInv'
<1>1. CASE OpenRemote(t)
  <2>1. CASE t.id = 0
    BY <1>1, <2>1, OpenedLatest, MirrorGoes DEF OpenRemote
  <2>2. CASE t.id # 0
    BY <1>1, <2>2, MirrorGoes DEF OpenRemote
  <2> QED
    BY <2>1, <2>2
<1>2. CASE OpenLocal(t)
  BY <1>2, OpenedLatest, MirrorGoes DEF OpenLocal
<1>3. CASE Copied(t)
  BY <1>3, PlaceChanged, MirrorGoes DEF Copied
<1>4. CASE MkdirOk(t)
  BY <1>4, PlaceChanged, MirrorGoes DEF MkdirOk
<1>5. CASE \/ OpenRemoteErr(t) \/ CopyRemoteErr(t) \/ RenameErr(t)
           \/ UploadErr(t) \/ OpenLocalErr(t)
  BY <1>5, MirrorFail
     DEF OpenRemoteErr, CopyRemoteErr, RenameErr, UploadErr, OpenLocalErr
<1>6. CASE CreateErr(t)
  BY <1>6, MirrorUnchanged
     DEF CreateErr, syncScannerVars, exchangeVars, storeVars, loopVars
<1>7. CASE CreateOk(t)
  <2>1. PICK next :
          /\ Becomes(t, next)
          /\ next.id = t.id /\ next.owner = t.owner /\ next.path = t.path
          /\ next.ver = t.ver /\ next.pc = "copy"
    BY <1>7, PlaceChanged DEF CreateOk
  <2> QED
    BY <1>7, <2>1, MirrorWrite DEF CreateOk, Becomes, loopVars
<1>8. CASE CopyOk(t) /\ ~Remote
  <2>1. t.id = 0
    BY <1>8 DEF TypeInv, TransferOK
  <2> QED
    BY <1>8, <2>1, MirrorWrite DEF CopyOk, End
<1>9. CASE RenameOk(t)
  <2>1. t.id = 0 \/ t.path \in suspect'
    BY <1>9, Numbers DEF RenameOk
  <2>2. suspect \subseteq suspect'
    BY <1>9 DEF RenameOk
  <2> QED
    BY <1>9, <2>1, <2>2, MirrorWrite DEF RenameOk, End
<1> QED
  BY <1>1, <1>2, <1>3, <1>4, <1>5, <1>6, <1>7, <1>8, <1>9
     DEF TransferStep, DownloadStep, UploadStep

LEMMA MirrorEnvironment ==
  ASSUME TypeInv, MirrorInv, NEW p \in Path, Edit(p) \/ Delete(p)
  PROVE  MirrorInv'
<1> USE DEF MirrorInv
<1>1. /\ UNCHANGED <<target, todo, c, fo, loop, suspect, transfers>>
      /\ Holding' = Holding
  BY DEF Edit, Delete, syncScannerVars, exchangeVars, loopVars, Holding
<1>2. \A q \in Path :
        \/ latest'[q] = latest[q] /\ source'[q] \in {Absent, source[q]}
        \/ latest'[q] = latest[q] + 1 /\ source'[q] = latest'[q]
  <2>1. CASE Edit(p)
    BY <2>1 DEF Edit, TypeInv, StoreOK
  <2>2. CASE Delete(p)
    BY <2>2 DEF Delete, TypeInv, StoreOK
  <2> QED
    BY <2>1, <2>2
<1>3. StoreInv'
  BY <1>1, <1>2, Numbers DEF StoreInv
<1>4. StatInv'
  <2>1. \A q \in Path : \A v \in Nat : v <= latest[q] => v <= latest'[q]
    BY <1>2, Numbers
  <2>2. \A w \in Holding : fo[w].stat <= latest'[fo[w].path]
    BY <2>1, Numbers DEF StatInv
  <2>3. \A f \in todo : f.stat <= latest'[f.path]
    BY <2>1, Numbers DEF StatInv
  <2>4. \A i \in 1..Len(c) : c[i].stat <= latest'[c[i].path]
    BY <2>1, Numbers DEF StatInv
  <2> QED
    BY <1>1, <2>2, <2>3, <2>4 DEF StatInv
<1>5. OneHolder' /\ TransferInv'
  BY <1>1, <1>2, Numbers DEF OneHolder, TransferInv
<1>6. TouchInv'
  BY <1>1, <1>2, Numbers DEF TouchInv, StatInv
<1>7. LabelsTrue'
  BY <1>1, <1>2, Numbers DEF LabelsTrue, Same, StoreInv
<1> QED
  BY <1>3, <1>4, <1>5, <1>6, <1>7

(* A new process knows nothing, and finds the same folders. *)
LEMMA MirrorRestart == TypeInv /\ MirrorInv /\ Restart => MirrorInv'
<1> SUFFICES ASSUME TypeInv, MirrorInv, Restart PROVE MirrorInv'
  OBVIOUS
<1>1. /\ UNCHANGED <<source, latest, target, suspect>>
      /\ todo' = {} /\ transfers' = {} /\ Len(c') = 0 /\ Holding' = {}
  BY DEF Restart, Holding, storeVars
<1> QED
  BY <1>1
     DEF MirrorInv, StoreInv, StatInv, OneHolder, TransferInv, TouchInv,
         LabelsTrue, Same

LEMMA MirrorInvNext == TypeInv /\ MirrorInv /\ [Next]_vars => MirrorInv'
<1> SUFFICES ASSUME TypeInv, MirrorInv, [Next]_vars PROVE MirrorInv'
  OBVIOUS
<1>1. CASE UNCHANGED vars
  BY <1>1, MirrorUnchanged
     DEF vars, syncScannerVars, exchangeVars, storeVars, loopVars
<1> QED
  BY <1>1, MirrorScanner, MirrorLoop, MirrorTransfer, MirrorTimeout,
     MirrorEnvironment, MirrorRestart
     DEF Next, LoopAct, TransferAct, TimeoutAct

LEMMA MirrorAlways == Spec => []MirrorInv
BY TypeAlways, MirrorInvInit, MirrorInvNext, PTL DEF Spec

(* A copy with the size and time of its source has its contents too,       *)
(* unless a transfer has failed over an older copy or two transfers have   *)
(* met (server-syncer.go 194-197, local-syncer.go 170-173).                *)
THEOREM LabelsAreTrue == Spec => []LabelsTrue
BY MirrorAlways, PTL DEF MirrorInv

-----------------------------------------------------------------------------
(* The refinement.  Renames and finished uploads are updates, an upload's  *)
(* truncation begins one, a loss of trust excludes the file, and nothing   *)
(* else is seen.                                                           *)

Copy == [p \in Path |-> target[p].ver]
Last == [p \in Path |-> target[p].last]
Excluded == IF panicked THEN Path ELSE suspect

LEMMA MirrorInit == Init => M!MirrorInit
<1> SUFFICES ASSUME Init PROVE M!MirrorInit
  OBVIOUS
<1>1. source = latest /\ panicked = FALSE /\ suspect = {}
  BY DEF Init
<1>2. /\ [p \in Path |-> target[p].ver] = [p \in Path |-> 0]
      /\ [p \in Path |-> target[p].last] = [p \in Path |-> 0]
  BY DEF Init, Absent
<1> QED
  BY <1>1, <1>2 DEF M!MirrorInit

(* Trust is lost, or regained by nothing but the restart of a process that *)
(* has panicked; the copies stay.                                          *)
LEMMA StepExcludes ==
  ASSUME UNCHANGED <<source, latest, mode, target>>
  PROVE  M!MirrorNext
BY DEF M!MirrorNext, M!Exclude, Remote

LEMMA StepWrites ==
  ASSUME TypeInv, NEW t \in transfers, NEW v, ~panicked, ~panicked',
         UNCHANGED storeVars, Write(t, v),
         \/ t.path \in suspect' /\ suspect \subseteq suspect'
         \/ suspect' = suspect /\ v = Partial /\ ~Remote
         \/ /\ suspect' = suspect
            /\ v \in 1..latest[t.path] /\ target[t.path].last <= v
  PROVE  M!MirrorNext
<1> DEFINE p == t.path
<1>1. /\ p \in Path
      /\ \A q \in Path :
           /\ Copy[q] = target[q].ver /\ Last[q] = target[q].last
           /\ Copy'[q] = IF q = p THEN v ELSE Copy[q]
           /\ Last'[q] = IF q = p /\ v \in Version THEN v ELSE Last[q]
  BY Numbers DEF Write, Copy, Last, TypeInv, StoreOK
<1> HIDE DEF p
<1>2. Excluded = suspect /\ Excluded' = suspect' /\ UNCHANGED <<source, latest, mode>>
  BY DEF Excluded, storeVars
<1>3. CASE p \in suspect' /\ suspect \subseteq suspect'
  <2>1. M!Exclude
    BY <1>1, <1>2, <1>3 DEF M!Exclude, Copy, Last, Excluded, Remote
  <2> QED
    BY <2>1 DEF M!MirrorNext
<1>4. CASE suspect' = suspect /\ v = Partial /\ ~Remote
  <2>1. v \notin Version
    BY <1>4, SyncAssumption DEF Partial, Version
  <2>2. Copy' = [Copy EXCEPT ![p] = v] /\ Last' = Last
    BY <1>1, <2>1 DEF Copy, Last
  <2>3. M!BeginUpdate(p)
    BY <1>2, <1>4, <2>2
       DEF M!BeginUpdate, M!Partial, Partial, Copy, Last, Excluded, Remote
  <2> QED
    BY <1>1, <2>3 DEF M!MirrorNext
<1>5. CASE suspect' = suspect /\ v \in 1..latest[p] /\ target[p].last <= v
  <2>0. /\ latest[p] \in 0..MaxVersion /\ v \in 1..latest[p]
        /\ Last[p] \in Nat /\ Last[p] <= v
    BY <1>1, <1>5, Numbers, SyncAssumption DEF TypeInv, StoreOK, Version, Absent
  <2>1. v \in Version /\ v \in Last[p]..latest[p] /\ v > 0
    BY <2>0, SyncAssumption DEF Version
  <2>2. Copy' = [Copy EXCEPT ![p] = v] /\ Last' = [Last EXCEPT ![p] = v]
    BY <1>1, <2>1 DEF Copy, Last
  <2>3. M!Update(p)
    BY <1>2, <1>5, <2>1, <2>2 DEF M!Update, Copy, Last, Excluded, Remote
  <2> QED
    BY <1>1, <2>3 DEF M!MirrorNext
<1> QED
  BY <1>3, <1>4, <1>5 DEF p

LEMMA StepTransfer ==
  ASSUME TypeInv, MirrorInv, ~panicked, NEW t \in transfers, TransferStep(t)
  PROVE  M!MirrorNext
<1>1. CASE UNCHANGED <<storeVars, target>>
  BY <1>1, StepExcludes DEF storeVars
<1>2. /\ t.path \in Path
      /\ t.pc \in {"copy", "rename"} =>
           /\ t.ver \in 1..latest[t.path]
           /\ t.id = 0 /\ t.path \notin suspect => target[t.path].last <= t.ver
  BY Numbers DEF MirrorInv, TransferInv, Absent
<1>3. CASE CreateOk(t) /\ ~Remote
  BY <1>2, <1>3, StepWrites DEF CreateOk
<1>4. CASE CopyOk(t) /\ ~Remote
  <2>1. t.id = 0
    BY <1>4 DEF TypeInv, TransferOK
  <2> QED
    BY <1>2, <1>4, <2>1, StepWrites DEF CopyOk
<1>5. CASE RenameOk(t)
  <2>1. CASE t.id > 0
    BY <1>2, <1>5, <2>1, StepWrites DEF RenameOk
  <2>2. CASE t.id = 0
    BY <1>2, <1>5, <2>2, StepWrites DEF RenameOk
  <2> QED
    BY <2>1, <2>2, Numbers
<1> QED
  BY <1>1, <1>3, <1>4, <1>5
     DEF TransferStep, DownloadStep, UploadStep, OpenRemote, OpenRemoteErr,
         Copied, CopyRemoteErr, RenameErr, MkdirOk, UploadErr, OpenLocal,
         OpenLocalErr, CreateErr, Fail, Quiet

LEMMA StepMirror ==
  ASSUME TypeInv, MirrorInv, [Next]_vars
  PROVE  [M!MirrorNext]_(M!mirrorVars)
<1>1. CASE ScannerAct \/ (\E w \in Agent : LoopAct(w) /\ ~TouchOk(w))
           \/ (\E t \in transfers : TimeoutAct(t)) \/ Restart
  <2>1. UNCHANGED <<source, latest, mode, target>>
    BY <1>1
       DEF ScannerAct, LoopAct, LoopStep, Connect, Receive, LookSame,
           LookDiffers, TouchErr, Signal, Check, TimeoutAct, Timeout, Restart,
           storeVars
  <2> QED
    BY <2>1, StepExcludes
<1>2. ASSUME NEW w \in Agent, TouchOk(w) PROVE M!MirrorNext
  <2>1. UNCHANGED <<source, latest, mode, panicked, suspect>>
    BY <1>2 DEF TouchOk, storeVars
  <2>2. Copy' = Copy /\ Last' = Last
    BY <1>2 DEF TouchOk, Copy, Last, TypeInv, StoreOK
  <2> QED
    BY <2>1, <2>2 DEF M!MirrorNext, M!Exclude, Copy, Last, Remote
<1>3. CASE \E t \in transfers : TransferAct(t)
  BY <1>3, StepTransfer DEF TransferAct, Alive
<1>4. ASSUME NEW p \in Path, Edit(p) \/ Delete(p) PROVE M!MirrorNext
  <2>1. UNCHANGED <<mode, target, panicked, suspect>>
    BY <1>4 DEF Edit, Delete
  <2>2. CASE Edit(p)
    <3>1. latest'[p] = latest[p] + 1
      BY <2>2 DEF Edit, TypeInv, StoreOK
    <3>2. /\ latest[p] < MaxVersion
          /\ latest' = [latest EXCEPT ![p] = @ + 1]
          /\ source' = [source EXCEPT ![p] = latest'[p]]
      BY <2>2, <3>1 DEF Edit
    <3>3. UNCHANGED <<Copy, Last, Remote, Excluded>>
      BY <2>1 DEF Copy, Last, Remote, Excluded
    <3>4. M!Edit(p)
      BY <3>2, <3>3 DEF M!Edit, Copy, Last, Remote, Excluded
    <3> QED
      BY <3>4 DEF M!MirrorNext
  <2>3. CASE Delete(p)
    <3>1. M!Delete(p)
      BY <2>1, <2>3 DEF Delete, M!Delete, Remote, Absent
    <3> QED
      BY <3>1 DEF M!MirrorNext
  <2> QED
    BY <1>4, <2>2, <2>3
<1>5. CASE UNCHANGED vars
  BY <1>5 DEF vars, storeVars, M!mirrorVars, Remote
<1> QED
  BY <1>1, <1>2, <1>3, <1>4, <1>5 DEF Next, LoopAct, LoopStep

(* A syncer implements the safety part of Mirror: through every            *)
(* interleaving, failure, replacement and restart the copy changes only to *)
(* what the source has held, and never to an older version than one it has *)
(* had, in place or not (syncer.go 35-110, server-syncer.go 33-117,        *)
(* local-syncer.go 32-91).                                                 *)
THEOREM ImplementsMirror == Spec => StaysMirrored
<1>1. Init => M!MirrorInit
  BY MirrorInit
<1>2. TypeInv /\ MirrorInv /\ [Next]_vars => [M!MirrorNext]_(M!mirrorVars)
  BY StepMirror
<1> QED
  BY <1>1, <1>2, TypeAlways, MirrorAlways, PTL
     DEF Spec, StaysMirrored, M!MirrorSafety
=============================================================================
