--------------------------- MODULE DeadlockProofs ---------------------------
(***************************************************************************)
(* When the goroutines of a pipeline can all be waiting for each other:    *)
(* lemmas about the actions of Workers and SftpScanner, as in              *)
(* WorkersProofs, and the argument that a one-time run is stuck only after *)
(* it has lost a worker, and a service only when a scan is long.           *)
(*                                                                         *)
(* A waiting scanner is freed by a token or by room in c.  In the drain,   *)
(* or in the wait for a token, it has files out (or abandoned ones are     *)
(* out).  A loop that has one sends its token in the end, or waits for     *)
(* room in done, and then there are tokens.  If none has one, c holds them *)
(* and some loop is there to receive them.  In the blocking send c is full *)
(* and the scanner has just taken a token, so done has room: a worker that *)
(* holds a file can send, then receive, and make room in c.  Only the loop *)
(* of a condemned object gives its token and does not receive.  In one-time*)
(* mode it was then a worker that is lost.  In service mode it has been    *)
(* replaced already by an object with hands of its own, so that there are  *)
(* more files about than both channels and Worker hands can hold.          *)
(***************************************************************************)
EXTENDS WorkersProofs

Managed == {s \in Slot : sup[s] # "none"}

(* The objects that work or will, as WorkerLost counts them. *)
Crew == {s \in Slot : sup[s] = "connect" \/ loop[s] # "none"}

(* A select has a transfer to wait for. *)
SelectWaits ==
  \A s \in Slot : loop[s] = "select" =>
    \E t \in transfers : t.id = 0 /\ t.owner = s

(* An object that is watched, and not condemned, has a loop. *)
WatchedRuns ==
  \A s \in Slot : sup[s] = "watch" /\ ~to_exit[s] => loop[s] # "none"

(* The managers keep Worker objects in service mode.  In one-time mode no  *)
(* loop is ever added.                                                     *)
CrewSize ==
  IF OneTime THEN Cardinality(Crew) <= Worker
             ELSE Cardinality(Managed) = Worker

(* The wait for a token begins with c full. *)
FullCounted == scanner = "full" => dispatched + stale >= Cap

(* A loop that has filled done again is about to receive, or is lost. *)
SendServed ==
  OneTime /\ scanner = "send" =>
    \/ Len(c) < Cap
    \/ done < Cap
    \/ WorkerLost
    \/ \E s \in Slot : \/ sup[s] = "connect"
                       \/ loop[s] \in {"top", "receive", "check"}

CrewInv ==
  SelectWaits /\ WatchedRuns /\ CrewSize /\ FullCounted /\ SendServed

(* What a scan has sent and has still to send are files of the folder. *)
WalkBound ==
  /\ scanner \in {"walk", "full"} =>
       dispatched + Cardinality(todo) <= Cardinality(Path)
  /\ scanner \in {"full", "send"} => todo # {}
  /\ scanner = "send" =>
       dispatched + 1 + Cardinality(todo) <= Cardinality(Path)

-----------------------------------------------------------------------------
LEMMA CrewFinite ==
  /\ IsFiniteSet(Crew) /\ Cardinality(Crew) \in Nat
  /\ IsFiniteSet(Managed) /\ Cardinality(Managed) \in Nat
<1>1. Crew \in SUBSET Slot /\ Managed \in SUBSET Slot
  BY DEF Crew, Managed
<1> QED
  BY <1>1, WorkersAssumption, FS_Subset, FS_CardinalityType

LEMMA LostCrew == WorkerLost <=> Cardinality(Crew) < Worker
BY DEF WorkerLost, Crew

LEMMA CrewInit == WorkersInit => CrewInv
<1> SUFFICES ASSUME WorkersInit PROVE CrewInv
  OBVIOUS
<1>1. PICK objects \in SUBSET Slot :
        Cardinality(objects) = Worker /\ sup = Connecting(objects)
  BY DEF WorkersInit
<1>2. Crew = objects /\ Managed = objects
  BY <1>1 DEF WorkersInit, Connecting, Crew, Managed
<1> QED
  BY <1>1, <1>2, ScannerAssumption
     DEF WorkersInit, ScannerInit, Connecting, CrewInv, SelectWaits,
         WatchedRuns, CrewSize, FullCounted, SendServed

(* A step of the scanner.  It goes to "full" with c full, and to "send"    *)
(* with a token taken.                                                     *)
LEMMA CrewScanner ==
  ASSUME WorkersInv, TokenInv, CrewInv, UNCHANGED <<objVars, loopVars, transfers>>,
         scanner' = "full" =>
           Len(c) = Cap /\ UNCHANGED <<dispatched, stale>>,
         scanner' = "send" => done > 0 /\ done' = done - 1
  PROVE  CrewInv'
<1> USE DEF CrewInv, objVars, loopVars
<1>1. Crew' = Crew /\ Managed' = Managed
  BY DEF Crew, Managed
<1>2. SelectWaits' /\ WatchedRuns' /\ CrewSize'
  BY <1>1 DEF SelectWaits, WatchedRuns, CrewSize
<1>3. done \in 0..Cap
  BY DEF WorkersInv, WorkersTypeOK, ScannerTypeOK
<1>4. SendServed'
  BY <1>3, ScannerAssumption DEF SendServed, Cap
<1>5. FullCounted'
  BY <1>3, HoldingFinite, ScannerAssumption
     DEF FullCounted, TokenInv, Pending, Cap
<1> QED
  BY <1>2, <1>4, <1>5

LEMMA CrewScannerStep ==
  ASSUME WorkersInv, TokenInv, CrewInv, ScannerStep,
         UNCHANGED <<objVars, loopVars, transfers>>
  PROVE  CrewInv'
<1>1. scanner' = "full" => Len(c) = Cap /\ UNCHANGED <<dispatched, stale>>
  BY DEF ScannerStep, ScannerConnect, BeginScan, Dispatch, Send, ChannelFull,
         AwaitToken, BlockedSend, EndWalk, Returned, Drain, WalkError,
         RecreateScanner, ExitProcess
<1>2. scanner' = "send" => done > 0 /\ done' = done - 1
  BY DEF ScannerStep, ScannerConnect, BeginScan, Dispatch, Send, ChannelFull,
         AwaitToken, TakeToken, BlockedSend, EndWalk, Returned, Drain,
         WalkError, RecreateScanner, ExitProcess
<1> QED
  BY <1>1, <1>2, CrewScanner

LEMMA CrewManager ==
  ASSUME NEW s \in Slot, NEW first \in {"receive", "top"}, WorkersInv, CrewInv,
         ManagerStep(s, first)
  PROVE  CrewInv'
<1> USE DEF CrewInv, scannerVars, loopVars
<1>0. /\ loop \in [Slot -> LoopState] /\ sup \in [Slot -> SupState]
      /\ to_exit \in [Slot -> BOOLEAN]
  BY DEF WorkersInv, WorkersTypeOK, LoopTypeOK, ObjectTypeOK
<1>1. CASE Start(s, first)
  <2>1. Crew' = Crew /\ Managed' = Managed
    BY <1>0, <1>1 DEF Start, Crew, Managed
  <2>2. SelectWaits' /\ WatchedRuns' /\ CrewSize' /\ FullCounted'
    BY <1>0, <1>1, <2>1
       DEF Start, SelectWaits, WatchedRuns, CrewSize, FullCounted
  <2>3. SendServed'
    BY <1>0, <1>1, <2>1, LostCrew DEF Start, SendServed, WorkerLost, Crew
  <2> QED
    BY <2>2, <2>3
<1>2. CASE Leave(s)
  <2>1. SelectWaits' /\ FullCounted'
    BY <1>2 DEF Leave, SelectWaits, FullCounted
  <2>2. CASE OneTime
    <3>1. Crew' = Crew
      BY <1>0, <1>2, <2>2 DEF Leave, Crew
    <3>2. WatchedRuns' /\ CrewSize'
      BY <1>0, <1>2, <2>2, <3>1 DEF Leave, WatchedRuns, CrewSize
    <3>3. SendServed'
      BY <1>0, <1>2, <2>2, <3>1 DEF Leave, SendServed, WorkerLost, Crew
    <3> QED
      BY <2>1, <3>2, <3>3
  <2>3. CASE ~OneTime
    <3>1. PICK n \in Slot :
            /\ n = s \/ sup[n] = "none"
            /\ sup' = [sup EXCEPT ![s] = "none", ![n] = "connect"]
            /\ to_exit' = [to_exit EXCEPT ![n] = FALSE]
      BY <1>2, <2>3 DEF Leave
    <3>2. Managed' = (Managed \ {s}) \cup {n}
      BY <1>0, <3>1 DEF Managed
    <3>3. s \in Managed /\ n \notin Managed \ {s}
      BY <1>2, <3>1 DEF Leave, Managed
    <3>4. /\ IsFiniteSet(Managed \ {s})
          /\ Cardinality(Managed \ {s}) = Cardinality(Managed) - 1
      BY <3>3, CrewFinite, FS_RemoveElement
    <3>5. Cardinality(Managed') = Cardinality(Managed \ {s}) + 1
      BY <3>2, <3>3, <3>4, FS_AddElement
    <3>6. CrewSize'
      BY <2>3, <3>4, <3>5, CrewFinite DEF CrewSize
    <3>7. WatchedRuns'
      BY <1>0, <1>2, <3>1 DEF Leave, WatchedRuns
    <3> QED
      BY <2>1, <2>3, <3>6, <3>7 DEF SendServed
  <2> QED
    BY <2>2, <2>3
<1> QED
  BY <1>1, <1>2 DEF ManagerStep

(* A loop goes on from one place to another, neither of them the select.   *)
LEMMA CrewLoopMoves ==
  ASSUME NEW s \in Slot, NEW place \in LoopState \ {"none", "select"},
         WorkersInv, CrewInv, loop[s] \notin {"none", "select"},
         loop' = [loop EXCEPT ![s] = place],
         UNCHANGED <<scanner, dispatched, stale, objVars, transfers>>,
         SendServed'
  PROVE  CrewInv'
<1> USE DEF CrewInv, objVars
<1>0. loop \in [Slot -> LoopState]
  BY DEF WorkersInv, WorkersTypeOK, LoopTypeOK
<1>1. Crew' = Crew /\ Managed' = Managed
  BY <1>0 DEF Crew, Managed
<1> QED
  BY <1>0, <1>1 DEF SelectWaits, WatchedRuns, CrewSize, FullCounted

(* A loop ends: its object is condemned or stopped, and a one-time run has *)
(* lost it.                                                                *)
LEMMA CrewLoopEnds ==
  ASSUME NEW s \in Slot, WorkersInv, CrewInv,
         loop[s] \notin {"none", "select"}, to_exit[s] \/ Closed(s),
         loop' = [loop EXCEPT ![s] = "none"],
         UNCHANGED <<scannerVars, objVars, transfers>>
  PROVE  CrewInv'
<1> USE DEF CrewInv, objVars, scannerVars
<1>0. loop \in [Slot -> LoopState] /\ sup \in [Slot -> SupState]
  BY DEF WorkersInv, WorkersTypeOK, LoopTypeOK, ObjectTypeOK
<1>1. SelectWaits' /\ WatchedRuns' /\ FullCounted'
  BY <1>0 DEF SelectWaits, WatchedRuns, FullCounted, Closed
<1>2. Managed' = Managed
  BY DEF Managed
<1>3. OneTime => Cardinality(Crew') < Worker /\ Cardinality(Crew') <= Worker
  <2> SUFFICES ASSUME OneTime
               PROVE  Cardinality(Crew') < Worker /\ Cardinality(Crew') <= Worker
    OBVIOUS
  <2>1. sup[s] # "connect" /\ s \in Crew
    BY DEF WorkersInv, NewObjectIdle, Crew
  <2>2. Crew' = Crew \ {s}
    BY <1>0, <2>1 DEF Crew
  <2>3. Cardinality(Crew') = Cardinality(Crew) - 1
    BY <2>1, <2>2, CrewFinite, FS_RemoveElement
  <2> QED
    BY <2>3, CrewFinite, ScannerAssumption DEF CrewSize
<1>4. CrewSize'
  BY <1>2, <1>3 DEF CrewSize
<1>5. SendServed'
  BY <1>3 DEF SendServed, WorkerLost, Crew
<1> QED
  BY <1>1, <1>4, <1>5

LEMMA CrewReceive ==
  ASSUME NEW s \in Slot, NEW begin \in TransferState, WorkersInv, CrewInv,
         Receive(s, begin)
  PROVE  CrewInv'
<1> USE DEF CrewInv, Receive, ReceiveFile, objVars
<1>0. /\ loop \in [Slot -> LoopState]
      /\ c \in Seq(Path) /\ Len(c) <= Cap
  BY DEF WorkersInv, WorkersTypeOK, LoopTypeOK, ScannerTypeOK
<1>1. Crew' = Crew /\ Managed' = Managed
  BY <1>0 DEF Crew, Managed
<1>2. WatchedRuns' /\ CrewSize' /\ FullCounted'
  BY <1>0, <1>1 DEF WatchedRuns, CrewSize, FullCounted
<1>3. SelectWaits'
  <2> DEFINE new == [id |-> 0, owner |-> s, path |-> Head(c), pc |-> begin,
                     ver |-> Absent, late |-> FALSE]
  <2>1. new.id = 0 /\ new.owner = s /\ transfers' = transfers \cup {new}
    OBVIOUS
  <2> HIDE DEF new
  <2> QED
    BY <1>0, <2>1 DEF SelectWaits
<1>4. SendServed'
  BY <1>0, ScannerAssumption DEF SendServed, Cap
<1> QED
  BY <1>2, <1>3, <1>4

LEMMA CrewEndSelect ==
  ASSUME NEW t \in transfers, NEW place \in {"remove", "signal"}, NEW rest,
         WorkersInv, CrewInv, EndSelect(t, place, rest)
  PROVE  CrewInv'
<1> USE DEF CrewInv, EndSelect, objVars, scannerVars
<1>0. /\ loop \in [Slot -> LoopState] /\ t.owner \in Slot
      /\ loop[t.owner] = "select"
  BY DEF WorkersInv, WorkersTypeOK, LoopTypeOK, TransferTypeOK, Transfer,
         TransferInLoop
<1>1. Crew' = Crew /\ Managed' = Managed
  BY <1>0 DEF Crew, Managed
<1>2. WatchedRuns' /\ CrewSize' /\ FullCounted'
  BY <1>0, <1>1 DEF WatchedRuns, CrewSize, FullCounted
<1>3. SelectWaits'
  BY <1>0 DEF SelectWaits
<1>4. SendServed'
  <2>1. \A s \in Slot : loop[s] \in {"top", "receive", "check"} => loop'[s] = loop[s]
    BY <1>0
  <2>2. WorkerLost' <=> WorkerLost
    BY <1>1, LostCrew DEF WorkerLost, Crew
  <2> QED
    BY <2>1, <2>2 DEF SendServed
<1> QED
  BY <1>2, <1>3, <1>4

LEMMA CrewLoop ==
  ASSUME NEW s \in Slot, NEW first \in {"receive", "top"},
         NEW begin \in TransferState, NEW remote \in BOOLEAN,
         WorkersInv, CrewInv, LoopStep(s, first, begin, remote) \/ Top(s)
  PROVE  CrewInv'
<1> USE DEF scannerVars
<1>0. /\ loop \in [Slot -> LoopState] /\ done \in 0..Cap
      /\ to_exit \in [Slot -> BOOLEAN]
  BY DEF WorkersInv, WorkersTypeOK, LoopTypeOK, ScannerTypeOK, ObjectTypeOK
<1>1. CASE Receive(s, begin)
  BY <1>1, CrewReceive
<1>2. ASSUME NEW t \in transfers, SelectResult(t) \/ SelectTimeout(t)
      PROVE  CrewInv'
  BY <1>2, CrewEndSelect DEF SelectResult, SelectTimeout
<1>3. CASE \/ RemoveOk(s, remote) \/ RemoveErr(s, remote)
           \/ VerifyGone(s, remote) \/ VerifyPresent(s, remote)
  <2>1. PICK place \in {"remove", "verify", "signal"} :
          loop' = [loop EXCEPT ![s] = place]
    BY <1>3 DEF RemoveOk, RemoveErr, VerifyGone, VerifyPresent, NextTry
  <2>2. /\ loop[s] \in {"remove", "verify"}
        /\ UNCHANGED <<c, done, scanner, dispatched, stale, objVars, transfers>>
    BY <1>3 DEF RemoveOk, RemoveErr, VerifyGone, VerifyPresent
  <2>3. SendServed'
    <3>1. Crew' = Crew
      BY <1>0, <2>1, <2>2 DEF Crew, objVars
    <3>2. WorkerLost' <=> WorkerLost
      BY <3>1 DEF WorkerLost, Crew
    <3>3. \A r \in Slot : loop[r] \in {"top", "receive", "check"} => loop'[r] = loop[r]
      BY <1>0, <2>1, <2>2
    <3> QED
      BY <2>2, <3>2, <3>3 DEF CrewInv, SendServed, objVars
  <2> QED
    BY <2>1, <2>2, <2>3, CrewLoopMoves DEF LoopState
<1>4. CASE Signal(s)
  <2>1. loop' = [loop EXCEPT ![s] = "check"]
    BY <1>4 DEF Signal
  <2>2. SendServed'
    BY <1>0, <2>1 DEF SendServed
  <2> QED
    BY <1>4, <2>1, <2>2, CrewLoopMoves DEF Signal, LoopState
<1>5. CASE Check(s, first) \/ Top(s)
  <2>1. CASE loop' = [loop EXCEPT ![s] = "none"]
    BY <1>0, <1>5, <2>1, CrewLoopEnds DEF Check, Top
  <2>2. CASE loop' # [loop EXCEPT ![s] = "none"]
    <3>1. PICK place \in {"top", "receive"} : loop' = [loop EXCEPT ![s] = place]
      BY <1>5, <2>2 DEF Check, Top
    <3>2. SendServed'
      BY <1>0, <3>1 DEF SendServed
    <3> QED
      BY <1>5, <3>1, <3>2, CrewLoopMoves DEF Check, Top, LoopState
  <2> QED
    BY <2>1, <2>2
<1> QED
  BY <1>1, <1>2, <1>3, <1>4, <1>5 DEF LoopStep

(* What a transfer, or the environment, may do without disturbing it:      *)
(* condemn objects, and end any transfer but one that a select waits for.  *)
LEMMA CrewOther ==
  ASSUME CrewInv, ObjectTypeOK, UNCHANGED <<scannerVars, sup, loopVars>>,
         \A s \in Slot : to_exit[s] => to_exit'[s],
         \A t \in transfers : t.id = 0 =>
           \E u \in transfers' : u.id = 0 /\ u.owner = t.owner
  PROVE  CrewInv'
<1> USE DEF CrewInv, scannerVars, loopVars
<1>1. Crew' = Crew /\ Managed' = Managed
  BY DEF Crew, Managed
<1>2. SelectWaits' /\ WatchedRuns' /\ CrewSize' /\ FullCounted'
  BY <1>1 DEF SelectWaits, WatchedRuns, CrewSize, FullCounted
<1>3. SendServed'
  BY DEF SendServed, WorkerLost
<1> QED
  BY <1>2, <1>3

(* The steps a transfer is made of satisfy the last of these conditions.   *)
LEMMA StillWaitedFor ==
  ASSUME WorkersInv, NEW t \in transfers,
         \/ \E next : next.id = t.id /\ next.owner = t.owner /\ Becomes(t, next)
         \/ \E result \in TransferState : Report(t, result)
         \/ t.id > 0 /\ transfers' = transfers \ {t}
         \/ Expire(t)
  PROVE  \A v \in transfers : v.id = 0 =>
           \E u \in transfers' : u.id = 0 /\ u.owner = v.owner
<1>1. t \in Transfer
  BY DEF WorkersInv, WorkersTypeOK, TransferTypeOK
<1>2. CASE \E next : next.id = t.id /\ next.owner = t.owner /\ Becomes(t, next)
  BY <1>2 DEF Becomes
<1>3. ASSUME NEW result \in TransferState, Report(t, result)
      PROVE  \A v \in transfers : v.id = 0 =>
               \E u \in transfers' : u.id = 0 /\ u.owner = v.owner
  <2>1. t.id = 0 => [t EXCEPT !.pc = result].id = 0
                    /\ [t EXCEPT !.pc = result].owner = t.owner
    BY <1>1 DEF Transfer
  <2> QED
    BY <1>3, <2>1 DEF Report
<1>4. CASE t.id > 0 /\ transfers' = transfers \ {t}
  BY <1>4
<1>5. CASE Expire(t)
  <2>1. /\ [t EXCEPT !.late = TRUE].id = t.id
        /\ [t EXCEPT !.late = TRUE].owner = t.owner
    BY <1>1 DEF Transfer
  <2> QED
    BY <1>5, <2>1 DEF Expire, Becomes
<1> QED
  BY <1>2, <1>3, <1>4, <1>5

LEMMA CrewExpire ==
  ASSUME WorkersInv, CrewInv, NEW t \in transfers, Expire(t)
  PROVE  CrewInv'
BY StillWaitedFor, CrewOther
   DEF Expire, WorkersInv, WorkersTypeOK, ObjectTypeOK, objVars

LEMMA CrewRestart == Restart => CrewInv'
<1> SUFFICES ASSUME Restart PROVE CrewInv'
  OBVIOUS
<1>1. PICK objects \in SUBSET Slot :
        Cardinality(objects) = Worker /\ sup' = Connecting(objects)
  BY DEF Restart
<1>2. Crew' = objects /\ Managed' = objects
  BY <1>1 DEF Restart, Connecting, Crew, Managed
<1> QED
  BY <1>1, <1>2, ScannerAssumption
     DEF Restart, Connecting, CrewInv, SelectWaits, WatchedRuns, CrewSize,
         FullCounted, SendServed

-----------------------------------------------------------------------------
(* The size of a walk. *)

LEMMA TodoFinite ==
  ASSUME IsFiniteSet(Path), ScannerTypeOK
  PROVE  /\ IsFiniteSet(todo) /\ Cardinality(todo) \in Nat
         /\ Cardinality(Path) \in Nat
         /\ \A p \in todo : Cardinality(todo \ {p}) = Cardinality(todo) - 1
         /\ todo # {} => Cardinality(todo) >= 1
<1>1. todo \in SUBSET Path
  BY DEF ScannerTypeOK
<1>2. IsFiniteSet(todo) /\ Cardinality(todo) \in Nat /\ Cardinality(Path) \in Nat
  BY <1>1, FS_Subset, FS_CardinalityType
<1>3. \A p \in todo : Cardinality(todo \ {p}) = Cardinality(todo) - 1
  BY <1>2, FS_RemoveElement
<1>4. todo # {} => Cardinality(todo) >= 1
  BY <1>2, FS_EmptySet
<1> QED
  BY <1>2, <1>3, <1>4

LEMMA WalkBoundScanner ==
  ASSUME IsFiniteSet(Path), ScannerTypeOK, CountOK, WalkBound, ScannerStep
  PROVE  WalkBound'
<1> USE DEF WalkBound
<1>0. /\ dispatched \in Int /\ scanner \in ScannerState
      /\ Cardinality(todo) \in Nat /\ Cardinality(Path) \in Nat
      /\ \A p \in todo : Cardinality(todo \ {p}) = Cardinality(todo) - 1
      /\ todo # {} => Cardinality(todo) >= 1
  BY TodoFinite DEF ScannerTypeOK
<1>1. CASE BeginScan
  <2>1. todo' \in SUBSET Path
    BY <1>1 DEF BeginScan, Listing
  <2>2. Cardinality(todo') \in Nat /\ Cardinality(todo') <= Cardinality(Path)
    BY <2>1, FS_Subset, FS_CardinalityType
  <2>3. scanner' = "walk" /\ dispatched' = 0
    BY <1>1 DEF BeginScan, CountOK
  <2> QED
    BY <2>2, <2>3
<1>2. ASSUME NEW p \in todo, Dispatch(p) \/ BlockedSend(p) PROVE WalkBound'
  <2>1. /\ scanner' = "walk" /\ dispatched' = dispatched + 1
        /\ todo' = todo \ {p} /\ Cardinality(todo') = Cardinality(todo) - 1
    BY <1>0, <1>2 DEF Dispatch, BlockedSend, Send
  <2> QED
    BY <1>0, <1>2, <2>1 DEF Dispatch, BlockedSend
<1>3. CASE ChannelFull
  BY <1>0, <1>3 DEF ChannelFull
<1>4. CASE AwaitToken
  BY <1>0, <1>4 DEF AwaitToken, TakeToken
<1>5. CASE \/ ScannerConnect \/ EndWalk \/ Drain \/ WalkError
           \/ RecreateScanner \/ ExitProcess
  BY <1>5
     DEF ScannerConnect, EndWalk, Drain, Returned, WalkError, RecreateScanner,
         ExitProcess
<1> QED
  BY <1>1, <1>2, <1>3, <1>4, <1>5 DEF ScannerStep

LEMMA WalkBoundOther ==
  ASSUME WalkBound, UNCHANGED <<scanner, todo, dispatched>>
  PROVE  WalkBound'
BY DEF WalkBound

-----------------------------------------------------------------------------
(* What the invariants say together. *)

(* A loop that can only wait receives from an empty c, or sends to a full  *)
(* done.                                                                   *)
LEMMA HowLoopsWait ==
  ASSUME CrewInv, NEW s \in Slot, LoopWaits(s), loop[s] # "none"
  PROVE  \/ loop[s] = "receive" /\ c = <<>>
         \/ loop[s] = "signal" /\ done = Cap
BY DEF CrewInv, SelectWaits, LoopWaits

(* A service has a loop for every manager, and a one-time run has one      *)
(* unless it has lost a worker.                                            *)
LEMMA SomeoneWaits ==
  ASSUME WorkersInv, CrewInv, \A s \in Slot : ManagerWaits(s),
         ~(OneTime /\ WorkerLost)
  PROVE  \E s \in Slot : loop[s] # "none"
<1>1. CASE OneTime
  <2>1. Crew # {}
    BY <1>1, LostCrew, ScannerAssumption, FS_EmptySet
  <2> QED
    BY <2>1 DEF Crew, ManagerWaits
<1>2. CASE ~OneTime
  <2>1. Managed # {}
    BY <1>2, ScannerAssumption, FS_EmptySet DEF CrewInv, CrewSize
  <2> QED
    BY <2>1 DEF Managed, ManagerWaits, CrewInv, WatchedRuns
<1> QED
  BY <1>1, <1>2

(* Nobody is stuck while the scanner waits for a token. *)
LEMMA StuckInSend ==
  ASSUME WorkersInv, TokenInv, CrewInv, Stuck, ~(OneTime /\ WorkerLost)
  PROVE  scanner = "send" /\ Len(c) = Cap
<1> SUFFICES ASSUME scanner \in {"full", "drain"}, done = 0 PROVE FALSE
  BY DEF Stuck, ScannerWaits
<1>1. PICK s \in Slot : loop[s] # "none"
  BY SomeoneWaits DEF Stuck
<1>2. done # Cap
  BY ScannerAssumption DEF Cap
<1>3. c = <<>> /\ \A r \in Slot : loop[r] \in {"none", "receive"}
  BY <1>1, <1>2, HowLoopsWait DEF Stuck
<1>4. Holding = {}
  BY <1>3 DEF Holding, Owing
<1>5. dispatched + stale = 0
  BY <1>3, <1>4, FS_EmptySet DEF TokenInv, Pending
<1>6. dispatched \in Int /\ stale \in Nat
  BY DEF WorkersInv, WorkersTypeOK, ScannerTypeOK
<1> QED
  BY <1>5, <1>6, ScannerAssumption
     DEF WorkersInv, CountOK, CrewInv, FullCounted, Cap

LEMMA NotStuckWithWorkers ==
  WorkersInv /\ TokenInv /\ CrewInv => StuckOnlyWhenLost
<1> SUFFICES ASSUME WorkersInv, TokenInv, CrewInv, OneTime, Stuck, ~WorkerLost
             PROVE  FALSE
  BY DEF StuckOnlyWhenLost
<1>1. scanner = "send" /\ Len(c) = Cap /\ c # <<>>
  BY StuckInSend, ScannerAssumption DEF Cap
<1>2. \A s \in Slot : loop[s] \in {"none", "signal"} /\ sup[s] # "connect"
  BY <1>1, HowLoopsWait DEF Stuck, ManagerWaits
<1>3. PICK s \in Slot : loop[s] # "none"
  BY SomeoneWaits DEF Stuck
<1>4. done = Cap
  BY <1>1, <1>3, HowLoopsWait DEF Stuck
<1> QED
  BY <1>1, <1>2, <1>4, ScannerAssumption DEF CrewInv, SendServed, Cap

LEMMA NotStuckWhenShort ==
  ASSUME IsFiniteSet(Path), WorkersInv, TokenInv, CrewInv, WalkBound
  PROVE  StuckOnlyWhenLong
<1> SUFFICES ASSUME ~OneTime, Stuck
             PROVE  Cardinality(Path) + stale >= 5 * Worker + 2
  BY DEF StuckOnlyWhenLong
<1>1. scanner = "send" /\ Len(c) = Cap /\ c # <<>>
  BY StuckInSend, ScannerAssumption DEF Cap
<1>2. \A s \in Managed : loop[s] = "signal" /\ done = Cap
  BY <1>1, HowLoopsWait DEF Stuck, ManagerWaits, Managed, CrewInv, WatchedRuns
<1>3. Managed \subseteq Holding
  BY <1>2 DEF Holding, Managed, Owing
<1>4. Cardinality(Holding) \in Nat /\ Cardinality(Holding) >= Worker
  BY <1>3, HoldingFinite, FS_Subset DEF CrewInv, CrewSize
<1>5. Managed # {}
  BY ScannerAssumption, FS_EmptySet DEF CrewInv, CrewSize
<1>6. dispatched + stale >= 5 * Worker
  BY <1>1, <1>2, <1>4, <1>5, ScannerAssumption DEF TokenInv, Pending, Cap
<1>7. /\ ScannerTypeOK /\ dispatched \in Int /\ stale \in Nat
      /\ Cardinality(Path) >= dispatched + 2 /\ Cardinality(Path) \in Nat
  BY <1>1, TodoFinite DEF WalkBound, WorkersInv, WorkersTypeOK, ScannerTypeOK
<1> QED
  BY <1>6, <1>7, ScannerAssumption
=============================================================================
