--------------------------- MODULE StreamerProofs ---------------------------
(***************************************************************************)
(* Theorems about Streamer, for every set of files and objects, every      *)
(* number of workers and every bound on faults and restarts, in service    *)
(* mode and in one-time mode.                                              *)
(***************************************************************************)
EXTENDS Streamer, HolderProofs, DeadlockProofs

-----------------------------------------------------------------------------
(* Only a walk error abandons a scan. *)
TypeInv == WorkersInv /\ TypeOK /\ (walkErrors = 0 => stale = 0)

LEMMA TypeInit == Init => TypeInv
<1>1. Init => WorkersInv
  BY WorkersInvInit DEF Init
<1> QED
  BY <1>1 DEF Init, TypeInv, TypeOK, WorkersInv, WorkersInit, ScannerInit

LEMMA TypeScanner ==
  ASSUME TypeInv, ScannerAct
  PROVE  TypeInv'
<1>0. ScannerTypeOK /\ CountOK
  BY DEF TypeInv, WorkersInv, WorkersTypeOK
<1>1. ScannerTypeOK' /\ CountOK'
  BY <1>0, ScannerTypes DEF ScannerAct, storeVars
<1>2. WorkersInv'
  BY <1>1, WorkersInvScanner DEF TypeInv, ScannerAct
<1>3. walkErrors' = 0 => stale' = 0
  BY <1>0, ScannerAssumption
     DEF TypeInv, ScannerAct, ScannerTypeOK, ScannerStep, ScannerConnect,
         BeginScan, Dispatch, Send, ChannelFull, AwaitToken, BlockedSend,
         TakeToken, EndWalk, Drain, WalkError, RecreateScanner, ExitProcess
<1> QED
  BY <1>2, <1>3 DEF TypeInv, TypeOK, WorkersInv, ScannerAct, ownVars

(* A stream's steps: it goes on as next, ends, or, in CreateOk, goes on    *)
(* and truncates others.                                                   *)
LEMMA StreamMoves ==
  ASSUME TypeInv, NEW t \in transfers, StreamStep(t)
  PROVE  /\ WorkersInv'
         /\ \A u \in transfers' :
              u.id = 0 /\ ~u.late /\ u.pc \notin {"abort", "rename"}
<1> USE DEF TypeInv, TypeOK
<1>0. /\ WorkersInv /\ StoreTypeOK /\ ObjectTypeOK /\ faults \in 0..MaxFaults
      /\ t \in Transfer /\ t.owner \in Slot /\ t.path \in Path
      /\ t.id = 0 /\ ~t.late
      /\ \A u \in transfers : u \in Transfer
  BY DEF WorkersInv, WorkersTypeOK, TransferTypeOK, Transfer, BoundTypeOK
<1>1. CASE MkdirOk(t)
  <2> DEFINE next == [t EXCEPT !.pc = "open"]
  <2>1. /\ next \in Transfer /\ next.pc = "open" /\ next.late = t.late
        /\ next.id = t.id /\ next.owner = t.owner /\ next.path = t.path
    BY <1>0 DEF Transfer, TransferState
  <2>2. Becomes(t, next)
    BY <1>1 DEF MkdirOk
  <2> HIDE DEF next
  <2>3. WorkersInv'
    BY <1>0, <1>1, <2>1, <2>2, WorkersInvBecomes
       DEF MkdirOk, StoreTypeOK, ObjectTypeOK, storeVars, objVars, boundVars
  <2> QED
    BY <1>0, <2>1, <2>2, <2>3 DEF Becomes
<1>2. CASE OpenOk(t)
  <2> DEFINE next == [t EXCEPT !.pc = "create", !.ver = source[t.path]]
  <2>1. source[t.path] \in {Absent, Partial} \cup Version
    BY <1>0 DEF StoreTypeOK
  <2>2. /\ next \in Transfer /\ next.pc = "create" /\ next.late = t.late
        /\ next.id = t.id /\ next.owner = t.owner /\ next.path = t.path
    BY <1>0, <2>1 DEF Transfer, TransferState
  <2>3. Becomes(t, next)
    BY <1>2 DEF OpenOk
  <2> HIDE DEF next
  <2>4. WorkersInv'
    BY <1>0, <1>2, <2>2, <2>3, WorkersInvBecomes
       DEF OpenOk, StoreTypeOK, ObjectTypeOK, storeVars, objVars, boundVars
  <2> QED
    BY <1>0, <2>2, <2>3, <2>4 DEF Becomes
<1>3. CASE MkdirErr(t) \/ OpenErr(t) \/ CopyErr(t)
  <2>1. WorkersInv'
    BY <1>0, <1>3, WorkersInvCondemn
       DEF MkdirErr, OpenErr, CopyErr, Closed
  <2>2. PICK next : /\ next.pc = "ko" /\ next.id = t.id /\ next.late = t.late
                    /\ Becomes(t, next) \/ transfers' = transfers \ {t}
    BY <1>0, <1>3, ReportBecomes
       DEF MkdirErr, OpenErr, CopyErr, Condemn, TransferState
  <2> QED
    BY <1>0, <2>1, <2>2 DEF Becomes
<1>4. CASE CreateOk(t)
  <2> DEFINE created == [t EXCEPT !.pc = "copy"]
             new == [u \in transfers |->
                       IF u = t THEN created ELSE Truncated(u, t.path)]
  <2>1. /\ created \in Transfer /\ created.pc = "copy" /\ created.late = t.late
        /\ created.id = t.id /\ created.owner = t.owner /\ created.path = t.path
    BY <1>0 DEF Transfer, TransferState
  <2>2. ASSUME NEW u \in transfers
        PROVE  /\ Truncated(u, t.path) \in Transfer
               /\ Truncated(u, t.path).pc = u.pc
               /\ Truncated(u, t.path).late = u.late
               /\ Truncated(u, t.path).id = u.id
               /\ Truncated(u, t.path).owner = u.owner
               /\ Truncated(u, t.path).path = u.path
    BY <1>0 DEF Truncated, Transfer
  <2> HIDE DEF created
  <2>3. /\ new \in [transfers -> Transfer]
        /\ \A u \in transfers :
             /\ new[u].id = u.id /\ new[u].owner = u.owner
             /\ new[u].path = u.path /\ new[u].late = u.late
             /\ new[u].pc \notin {"abort", "rename"}
    BY <2>1, <2>2
  <2>4. transfers' = {new[u] : u \in transfers \ {}}
    <3>1. transfers' = {Truncated(u, t.path) : u \in transfers \ {t}}
                         \cup {created}
      BY <1>4 DEF CreateOk, created
    <3>2. {new[u] : u \in transfers \ {}} =
            {Truncated(u, t.path) : u \in transfers \ {t}} \cup {created}
      OBVIOUS
    <3> QED
      BY <3>1, <3>2
  <2>5. StoreTypeOK' /\ ObjectTypeOK'
    BY <1>0, <1>4 DEF CreateOk, StoreTypeOK, ObjectTypeOK, objVars
  <2> HIDE DEF new
  <2>6. UNCHANGED <<scannerVars, objVars, loopVars, boundVars>>
    BY <1>4 DEF CreateOk
  <2>7. WorkersInv'
    BY <1>0, <2>3, <2>4, <2>5, <2>6, WorkersInvTransfer DEF objVars, boundVars
  <2> QED
    BY <2>3, <2>4, <2>7
<1>5. CASE CreateErr(t)
  <2>1. Becomes(t, t)
    BY <1>5 DEF CreateErr, Becomes
  <2>2. WorkersInv'
    BY <1>0, <1>5, <2>1, FaultsCounted, WorkersInvBecomes
       DEF CreateErr, Closed, StoreTypeOK, ObjectTypeOK, storeVars, objVars
  <2> QED
    BY <1>5, <2>2 DEF CreateErr
<1>6. CASE CopyOk(t)
  <2>1. StoreTypeOK' /\ ObjectTypeOK'
    BY <1>0, <1>6 DEF CopyOk, StoreTypeOK, ObjectTypeOK, objVars, Transfer
  <2>2. WorkersInv'
    BY <1>0, <1>6, <2>1, WorkersInvReport
       DEF CopyOk, TransferState, objVars, boundVars
  <2>3. PICK next : /\ next.pc = "ok" /\ next.id = t.id /\ next.late = t.late
                    /\ Becomes(t, next) \/ transfers' = transfers \ {t}
    BY <1>0, <1>6, ReportBecomes DEF CopyOk, TransferState
  <2> QED
    BY <1>0, <2>2, <2>3 DEF Becomes
<1> QED
  BY <1>1, <1>2, <1>3, <1>4, <1>5, <1>6 DEF StreamStep

LEMMA TypeStream ==
  ASSUME TypeInv, NEW t \in transfers, StreamStep(t)
  PROVE  TypeInv'
<1>1. /\ UNCHANGED <<walkErrors, stale, shared>>
      /\ panicked' \in BOOLEAN
  BY
     DEF TypeInv, TypeOK, StreamStep, MkdirOk, MkdirErr, OpenOk, OpenErr,
         CreateOk, CreateErr, CopyOk, CopyErr, Condemn, scannerVars, ownVars
<1> QED
  BY <1>1, StreamMoves DEF TypeInv, TypeOK, WorkersInv

LEMMA TypeConnect ==
  ASSUME TypeInv, NEW s \in Slot, ConnectErr(s)
  PROVE  TypeInv'
<1> USE DEF ConnectErr, TypeInv, TypeOK, WorkersInv, WorkersTypeOK, scannerVars,
            storeVars, loopVars, ownVars
<1>1. ObjectTypeOK' /\ BoundTypeOK'
  BY WorkersAssumption DEF ObjectTypeOK, BoundTypeOK
<1>2. /\ ScannerTypeOK' /\ StoreTypeOK' /\ LoopTypeOK' /\ TransferTypeOK'
      /\ CountOK' /\ TransferInLoop' /\ NewObjectIdle' /\ TimeoutCounted'
  BY DEF ScannerTypeOK, StoreTypeOK, LoopTypeOK, TransferTypeOK, CountOK,
         TransferInLoop, NewObjectIdle, TimeoutCounted
<1> QED
  BY <1>1, <1>2

(* The other actions. *)
LEMMA TypeOther ==
  ASSUME TypeInv,
         \/ \E s \in Slot : ManagerAct(s) \/ LoopAct(s)
         \/ (\E p \in Path : Produce(p)) /\ UNCHANGED ownVars
         \/ Restart /\ panicked' = FALSE /\ UNCHANGED shared
         \/ UNCHANGED vars
  PROVE  TypeInv'
<1> USE DEF TypeInv, TypeOK, WorkersInv, ownVars, scannerVars
<1>1. ASSUME NEW s \in Slot, ManagerAct(s) PROVE TypeInv'
  BY <1>1, WorkersInvManager
     DEF ManagerAct, ManagerStep, Start, Leave
<1>2. ASSUME NEW s \in Slot, LoopAct(s) PROVE TypeInv'
  <2>0. Top(s) \/ LoopStep(s, "top", "mkdir", TRUE)
    BY <1>2 DEF LoopAct, StreamLoop
  <2>1. WorkersInv'
    BY <2>0, WorkersInvLoop DEF TransferState
  <2>2. UNCHANGED <<walkErrors, stale, panicked>>
    BY <1>2
       DEF LoopAct, StreamLoop, LoopStep, Receive, SelectResult, SelectTimeout,
           EndSelect, RemoveOk, RemoveErr, VerifyGone, VerifyPresent, Signal,
           Check, Top
  <2>3. \A t \in transfers' :
          t.id = 0 /\ ~t.late /\ t.pc \notin {"abort", "rename"}
    <3>1. CASE Receive(s, "mkdir")
      <4> DEFINE new == [id |-> 0, owner |-> s, path |-> Head(c),
                         pc |-> "mkdir", ver |-> Absent, late |-> FALSE]
      <4>1. new.id = 0 /\ ~new.late /\ new.pc = "mkdir"
        OBVIOUS
      <4>2. transfers' = transfers \cup {new}
        BY <3>1 DEF Receive
      <4> QED
        BY <4>1, <4>2
    <3>2. CASE \E t \in transfers :
                 t.owner = s /\ (SelectResult(t) \/ SelectTimeout(t))
      BY <3>2 DEF SelectResult, SelectTimeout, EndSelect
    <3>3. CASE \/ RemoveOk(s, TRUE) \/ RemoveErr(s, TRUE)
               \/ VerifyGone(s, TRUE) \/ VerifyPresent(s, TRUE)
               \/ Signal(s) \/ Check(s, "top") \/ Top(s)
      BY <3>3
         DEF RemoveOk, RemoveErr, VerifyGone, VerifyPresent, Signal, Check, Top
    <3> QED
      BY <2>0, <3>1, <3>2, <3>3 DEF LoopStep
  <2>4. shared' \subseteq Path
    <3>0. \A t \in transfers : t.id = 0 => loop[t.owner] = "select"
      BY DEF TransferInLoop
    <3>1. loop[s] = "receive" => c # <<>> /\ c \in Seq(Path)
      <4>1. c \in Seq(Path)
        BY DEF WorkersTypeOK, ScannerTypeOK
      <4>2. CASE \E t \in transfers :
                   t.owner = s /\ (SelectResult(t) \/ SelectTimeout(t))
        BY <3>0, <4>2 DEF SelectResult, SelectTimeout, EndSelect
      <4>3. CASE Receive(s, "mkdir")
        BY <4>1, <4>3 DEF Receive, ReceiveFile
      <4>4. CASE \/ RemoveOk(s, TRUE) \/ RemoveErr(s, TRUE)
                 \/ VerifyGone(s, TRUE) \/ VerifyPresent(s, TRUE)
                 \/ Signal(s) \/ Check(s, "top") \/ Top(s)
        BY <4>4
           DEF RemoveOk, RemoveErr, VerifyGone, VerifyPresent, Signal, Check, Top
      <4> QED
        BY <2>0, <4>2, <4>3, <4>4 DEF LoopStep
    <3>2. loop[s] = "receive" => Head(c) \in Path
      BY <3>1
    <3> QED
      BY <1>2, <3>2 DEF LoopAct, StreamLoop
  <2> QED
    BY <2>1, <2>2, <2>3, <2>4
<1>3. ASSUME NEW p \in Path, Produce(p), UNCHANGED ownVars PROVE TypeInv'
  BY <1>3, WorkersInvProduce DEF Produce
<1>4. CASE Restart /\ panicked' = FALSE /\ UNCHANGED shared
  BY <1>4, WorkersInvRestart DEF Restart
<1>5. CASE UNCHANGED vars
  BY <1>5, WorkersInvUnchanged DEF vars, workersVars
<1> QED
  BY <1>1, <1>2, <1>3, <1>4, <1>5

LEMMA TypeStep == TypeInv /\ [Next]_vars => TypeInv'
BY TypeScanner, TypeStream, TypeConnect, TypeOther
   DEF Next, StreamAct, ConnectAct

(* Every variable keeps its type, and no stream is ever late: an object    *)
(* has at most the one that its loop waits for.                            *)
THEOREM TypeCorrect == Spec => []TypeOK
<1>1. TypeInv => TypeOK
  BY DEF TypeInv
<1> QED
  BY <1>1, TypeInit, TypeStep, PTL DEF Spec

-----------------------------------------------------------------------------
(* Tokens and holders, as in the other pipelines. *)

HeldInv == TokenInv /\ HolderInv

LEMMA HeldInit == Init => HeldInv
BY TokenInit, HolderInit DEF Init, HeldInv

LEMMA HeldStep == TypeInv /\ HeldInv /\ [Next]_vars => HeldInv'
<1> SUFFICES ASSUME TypeInv, HeldInv, [Next]_vars PROVE HeldInv'
  OBVIOUS
<1>0. WorkersInv /\ TokenInv /\ HolderInv
  BY DEF TypeInv, HeldInv
<1>1. CASE ScannerAct
  <2>1. ScannerTypeOK /\ UNCHANGED loopVars
    BY <1>0, <1>1 DEF WorkersInv, WorkersTypeOK, ScannerAct
  <2> QED
    BY <1>0, <1>1, <2>1, TokenScanner, HolderScanner DEF ScannerAct, HeldInv
<1>2. ASSUME NEW s \in Slot, ManagerAct(s) \/ LoopAct(s) PROVE HeldInv'
  BY <1>0, <1>2, TokenManager, TokenLoop, HolderManager, HolderLoop
     DEF ManagerAct, LoopAct, StreamLoop, TransferState, HeldInv
<1>3. ASSUME NEW t \in transfers, StreamAct(t) PROVE HeldInv'
  <2>1. UNCHANGED <<scannerVars, loopVars>>
    BY <1>3
       DEF StreamAct, StreamStep, MkdirOk, MkdirErr, OpenOk, OpenErr, CreateOk,
           CreateErr, CopyOk, CopyErr, Condemn
  <2> QED
    BY <1>0, <2>1, TokenOther, HolderOther DEF HeldInv
<1>4. CASE \/ (\E p \in Path : Produce(p)) \/ UNCHANGED vars
           \/ \E s \in Slot : ConnectAct(s)
  BY <1>0, <1>4, TokenOther, HolderOther
     DEF Produce, ConnectAct, ConnectErr, vars, workersVars, HeldInv
<1>5. CASE Restart
  BY <1>5, TokenRestart, HolderRestart DEF HeldInv
<1> QED
  BY <1>1, <1>2, <1>3, <1>4, <1>5 DEF Next

(* No token is lost or sent twice, whatever init does to the exit flag. *)
THEOREM TokensConserved == Spec => []TokenConservation
<1>1. TypeInv /\ HeldInv => TokenConservation
  BY ConservedTokens DEF TypeInv, HeldInv
<1> QED
  BY <1>1, TypeInit, TypeStep, HeldInit, HeldStep, PTL DEF Spec

(* What shared remembers. *)
SharedInv ==
  /\ SharedNeedsWalkError
  /\ \A s, r \in Holding : fo[s] = fo[r] => s = r \/ fo[s] \in shared

LEMMA SharedInit == Init => SharedInv
BY DEF Init, WorkersInit, SharedInv, SharedNeedsWalkError, Holding, Owing

(* The steps by which no loop receives a file. *)
LEMMA SharedQuiet ==
  ASSUME SharedInv, UNCHANGED shared, walkErrors' = 0 => walkErrors = 0,
         Holding' \subseteq Holding, \A s \in Holding' : fo'[s] = fo[s]
  PROVE  SharedInv'
BY DEF SharedInv, SharedNeedsWalkError

LEMMA SharedReceive ==
  ASSUME TypeInv, HeldInv, SharedInv, NEW s \in Slot, LoopAct(s),
         Receive(s, "mkdir")
  PROVE  SharedInv'
<1>0. /\ loop \in [Slot -> LoopState] /\ fo \in [Slot -> Path \cup {NoPath}]
      /\ c \in Seq(Path) /\ c # <<>> /\ loop[s] = "receive"
  BY DEF TypeInv, WorkersInv, WorkersTypeOK, ScannerTypeOK, LoopTypeOK, Receive,
         ReceiveFile
<1>1. /\ s \notin Holding /\ Holding' = Holding \cup {s}
      /\ fo'[s] = Head(c) /\ \A r \in Holding : fo'[r] = fo[r]
  BY <1>0 DEF Receive, Holding, Owing
<1>2. /\ UNCHANGED walkErrors
      /\ shared' = IF Shares(s) THEN shared \cup {Head(c)} ELSE shared
  BY <1>0 DEF Receive, LoopAct, StreamLoop
<1>3. SharedNeedsWalkError'
  <2>1. CASE walkErrors = 0
    <3>1. \A r \in Holding : \A i \in 1..Len(c) : c[i] # fo[r]
      BY <2>1 DEF TypeInv, HeldInv, HolderInv, UniquelyHeld
    <3>2. Len(c) >= 1 /\ Head(c) = c[1] /\ Len(c) \in Nat
      BY <1>0
    <3> QED
      BY <1>2, <3>1, <3>2 DEF Shares, SharedInv, SharedNeedsWalkError
  <2>2. CASE walkErrors # 0
    BY <1>2, <2>2 DEF SharedNeedsWalkError
  <2> QED
    BY <2>1, <2>2
<1> QED
  BY <1>1, <1>2, <1>3 DEF SharedInv, Shares

LEMMA SharedStep == TypeInv /\ HeldInv /\ SharedInv /\ [Next]_vars => SharedInv'
<1> SUFFICES ASSUME TypeInv, HeldInv, SharedInv, [Next]_vars PROVE SharedInv'
  OBVIOUS
<1> USE DEF ownVars, scannerVars, loopVars, Holding
<1>0. /\ WorkersInv /\ loop \in [Slot -> LoopState] /\ walkErrors \in Nat
      /\ fo \in [Slot -> Path \cup {NoPath}]
      /\ \A t \in transfers : t.id = 0 => loop[t.owner] = "select"
  BY ScannerAssumption
     DEF TypeInv, WorkersInv, WorkersTypeOK, LoopTypeOK, ScannerTypeOK,
         TransferInLoop
<1>1. CASE ScannerAct
  <2>1. walkErrors' = 0 => walkErrors = 0
    BY <1>0, <1>1
       DEF ScannerAct, ScannerStep, ScannerConnect, BeginScan, Dispatch, Send,
           ChannelFull, AwaitToken, BlockedSend, TakeToken, EndWalk, Drain,
           WalkError, RecreateScanner, ExitProcess
  <2> QED
    BY <1>1, <2>1, SharedQuiet DEF ScannerAct
<1>2. ASSUME NEW s \in Slot, ManagerAct(s) \/ ConnectAct(s) PROVE SharedInv'
  BY <1>0, <1>2, SharedQuiet
     DEF ManagerAct, ManagerStep, Start, Leave, ConnectAct, ConnectErr, Owing
<1>3. ASSUME NEW s \in Slot, LoopAct(s) PROVE SharedInv'
  <2>1. CASE Receive(s, "mkdir")
    BY <1>3, <2>1, SharedReceive
  <2>2. CASE \E t \in transfers :
               t.owner = s /\ (SelectResult(t) \/ SelectTimeout(t))
    <3>1. /\ loop[s] = "select" /\ UNCHANGED <<walkErrors, fo>>
          /\ \E place : loop' = [loop EXCEPT ![s] = place]
      BY <1>0, <2>2 DEF SelectResult, SelectTimeout, EndSelect
    <3>2. UNCHANGED shared
      BY <1>3, <3>1 DEF LoopAct, StreamLoop
    <3> QED
      BY <1>0, <3>1, <3>2, SharedQuiet DEF Owing
  <2>3. CASE \/ RemoveOk(s, TRUE) \/ RemoveErr(s, TRUE)
             \/ VerifyGone(s, TRUE) \/ VerifyPresent(s, TRUE)
             \/ Check(s, "top") \/ Top(s)
    <3>1. UNCHANGED <<walkErrors, shared, fo>> /\ Holding' \subseteq Holding
      BY <1>0, <1>3, <2>3
         DEF LoopAct, StreamLoop, RemoveOk, RemoveErr, VerifyGone,
             VerifyPresent, NextTry, Check, Top, Owing
    <3> QED
      BY <3>1, SharedQuiet
  <2>4. CASE Signal(s)
    BY <1>0, <1>3, <2>4, SharedQuiet DEF LoopAct, StreamLoop, Signal, Owing
  <2> QED
    BY <1>3, <2>1, <2>2, <2>3, <2>4 DEF LoopAct, StreamLoop, LoopStep
<1>4. ASSUME NEW t \in transfers, StreamAct(t) PROVE SharedInv'
  BY <1>4, SharedQuiet
     DEF StreamAct, StreamStep, MkdirOk, MkdirErr, OpenOk, OpenErr, CreateOk,
         CreateErr, CopyOk, CopyErr, Condemn
<1>5. CASE (\E p \in Path : Produce(p)) /\ UNCHANGED ownVars
  BY <1>5, SharedQuiet DEF Produce
<1>6. CASE Restart /\ UNCHANGED shared
  BY <1>6, SharedQuiet DEF Restart, Owing
<1>7. CASE UNCHANGED vars
  BY <1>7, SharedQuiet DEF vars, workersVars
<1> QED
  BY <1>1, <1>2, <1>3, <1>4, <1>5, <1>6, <1>7 DEF Next

(* Two streamers never have one file, unless a walk has ended with an      *)
(* error.                                                                  *)
THEOREM StreamsSeparate == Spec => []SharedNeedsWalkError
<1>1. SharedInv => SharedNeedsWalkError
  BY DEF SharedInv
<1> QED
  BY <1>1, TypeInit, TypeStep, HeldInit, HeldStep, SharedInit, SharedStep, PTL
     DEF Spec

-----------------------------------------------------------------------------
(* When all wait for each other. *)

LEMMA CrewStep == TypeInv /\ HeldInv /\ CrewInv /\ [Next]_vars => CrewInv'
<1> SUFFICES ASSUME TypeInv, HeldInv, CrewInv, [Next]_vars PROVE CrewInv'
  OBVIOUS
<1>0. WorkersInv /\ TokenInv /\ ObjectTypeOK
  BY DEF TypeInv, WorkersInv, WorkersTypeOK, HeldInv
<1>1. CASE ScannerAct
  BY <1>0, <1>1, CrewScannerStep DEF ScannerAct
<1>2. ASSUME NEW s \in Slot, ManagerAct(s) \/ LoopAct(s) PROVE CrewInv'
  BY <1>0, <1>2, CrewManager, CrewLoop
     DEF ManagerAct, LoopAct, StreamLoop, TransferState
<1>3. ASSUME NEW t \in transfers, StreamAct(t) PROVE CrewInv'
  <2>1. /\ UNCHANGED <<scannerVars, sup, loopVars>>
        /\ \A s \in Slot : to_exit[s] => to_exit'[s]
    BY <1>0, <1>3
       DEF StreamAct, StreamStep, MkdirOk, MkdirErr, OpenOk, OpenErr, CreateOk,
           CreateErr, CopyOk, CopyErr, Condemn, objVars, ObjectTypeOK
  <2>2. /\ {"ok", "ko"} \subseteq TransferState
        /\ \A u \in transfers : u \in Transfer
    BY DEF TypeInv, WorkersInv, WorkersTypeOK, TransferTypeOK, TransferState
  <2>3. CASE CreateOk(t)
    <3> DEFINE created == [t EXCEPT !.pc = "copy"]
    <3>1. created.id = t.id /\ created.owner = t.owner
      BY <2>2 DEF Transfer
    <3>2. \A u \in transfers :
            /\ Truncated(u, t.path).id = u.id
            /\ Truncated(u, t.path).owner = u.owner
      BY <2>2 DEF Truncated, Transfer
    <3>3. transfers' = {Truncated(u, t.path) : u \in transfers \ {t}}
                         \cup {created}
      BY <2>3 DEF CreateOk
    <3> HIDE DEF created
    <3>4. ASSUME NEW v \in transfers, v.id = 0
          PROVE  \E u \in transfers' : u.id = 0 /\ u.owner = v.owner
      <4>1. CASE v = t
        BY <1>3, <3>1, <3>3, <3>4, <4>1
      <4>2. CASE v # t
        <5>1. Truncated(v, t.path) \in transfers'
          BY <3>3, <3>4, <4>2
        <5> QED
          BY <3>2, <3>4, <5>1
      <4> QED
        BY <4>1, <4>2
    <3> QED
      BY <1>0, <2>1, <3>4, CrewOther
  <2>4. CASE ~CreateOk(t)
    <3>1. \/ \E next : next.id = t.id /\ next.owner = t.owner /\ Becomes(t, next)
          \/ \E result \in TransferState : Report(t, result)
      <4>1. CASE MkdirOk(t)
        <5>1. /\ [t EXCEPT !.pc = "open"].id = t.id
              /\ [t EXCEPT !.pc = "open"].owner = t.owner
          BY <2>2 DEF Transfer
        <5> QED
          BY <4>1, <5>1 DEF MkdirOk
      <4>2. CASE OpenOk(t)
        <5>1. /\ [t EXCEPT !.pc = "create", !.ver = source[t.path]].id = t.id
              /\ [t EXCEPT !.pc = "create", !.ver = source[t.path]].owner = t.owner
          BY <2>2 DEF Transfer
        <5> QED
          BY <4>2, <5>1 DEF OpenOk
      <4>3. CASE MkdirErr(t) \/ OpenErr(t) \/ CopyOk(t) \/ CopyErr(t)
        BY <2>2, <4>3 DEF MkdirErr, OpenErr, CopyOk, CopyErr, Condemn
      <4>4. CASE CreateErr(t)
        BY <4>4 DEF CreateErr, Becomes
      <4> QED
        BY <1>3, <2>4, <4>1, <4>2, <4>3, <4>4 DEF StreamAct, StreamStep
    <3> QED
      BY <1>0, <2>1, <3>1, StillWaitedFor, CrewOther
  <2> QED
    BY <2>3, <2>4
<1>4. ASSUME NEW s \in Slot, ConnectAct(s) PROVE CrewInv'
  BY <1>0, <1>4, CrewOther DEF ConnectAct, ConnectErr, ObjectTypeOK
<1>5. CASE (\E p \in Path : Produce(p)) \/ UNCHANGED vars
  BY <1>0, <1>5, CrewOther DEF Produce, vars, workersVars, objVars
<1>6. CASE Restart
  BY <1>6, CrewRestart
<1> QED
  BY <1>1, <1>2, <1>3, <1>4, <1>5, <1>6 DEF Next

LEMMA WalkBoundStep ==
  ASSUME IsFiniteSet(Path), TypeInv, WalkBound, [Next]_vars
  PROVE  WalkBound'
<1>1. CASE ScannerAct
  BY <1>1, WalkBoundScanner DEF ScannerAct, TypeInv, WorkersInv, WorkersTypeOK
<1>2. CASE Restart
  BY <1>2 DEF Restart, WalkBound
<1>3. CASE ~ScannerAct /\ ~Restart
  <2>1. UNCHANGED <<scanner, todo, dispatched>>
    BY <1>3
       DEF Next, ManagerAct, ConnectAct, ConnectErr, LoopAct, StreamLoop,
           StreamAct, ManagerStep, LoopStep, Start, Leave, Top, Receive,
           SelectResult, SelectTimeout, EndSelect, RemoveOk, RemoveErr,
           VerifyGone, VerifyPresent, Signal, Check, StreamStep, MkdirOk,
           MkdirErr, OpenOk, OpenErr, CreateOk, CreateErr, CopyOk, CopyErr,
           Condemn, Produce, vars, workersVars, scannerVars
  <2> QED
    BY <2>1, WalkBoundOther
<1> QED
  BY <1>1, <1>2, <1>3

LEMMA CrewInvInit == Init => CrewInv /\ WalkBound
BY CrewInit DEF Init, WorkersInit, ScannerInit, WalkBound

(* A one-time run with its workers is never stuck, whatever the number of  *)
(* files and the objects that start condemned.                             *)
THEOREM OneTimeStuckOnlyWhenLost == Spec => []StuckOnlyWhenLost
<1>1. TypeInv /\ HeldInv /\ CrewInv => StuckOnlyWhenLost
  BY NotStuckWithWorkers DEF TypeInv, HeldInv
<1> QED
  BY <1>1, TypeInit, TypeStep, HeldInit, HeldStep, CrewInvInit, CrewStep, PTL
     DEF Spec

(* A service whose folder has fewer than 5 * Worker + 2 files, with those  *)
(* that walk errors have abandoned, is never stuck.                        *)
THEOREM ServiceStuckOnlyWhenLong ==
  ASSUME IsFiniteSet(Path)
  PROVE  Spec => []StuckOnlyWhenLong
<1>1. TypeInv /\ HeldInv /\ CrewInv /\ WalkBound => StuckOnlyWhenLong
  BY NotStuckWhenShort DEF TypeInv, HeldInv
<1>2. TypeInv /\ WalkBound /\ [Next]_vars => WalkBound'
  BY WalkBoundStep
<1> QED
  BY <1>1, <1>2, TypeInit, TypeStep, HeldInit, HeldStep, CrewInvInit, CrewStep,
     PTL DEF Spec

-----------------------------------------------------------------------------
(* Delivery.  What was streamed stays whole outside shared, because no     *)
(* second loop can have the file: SharedInv is what the argument rests on. *)

(* The source holds the last version produced or nothing. *)
SourceIsLatest == \A p \in Path : source[p] \in {Absent, latest[p]}

(* What a stream has opened, and what is left of it once it copies. *)
OpenedWhole ==
  \A t \in transfers :
    /\ t.pc \in {"create", "copy"} => t.ver # Absent
    /\ t.pc = "create" => t.ver # Partial
    /\ t.pc = "copy" /\ t.ver = Partial => t.path \in shared

(* A stream works on a file that is still there. *)
SourceKept ==
  \A t \in transfers :
    t.pc \in {"create", "copy", "ok"} =>
      t.path \in shared \/ source[t.path] # Absent

(* A success, and a removal that follows it, are for a file that is whole. *)
WholeBeforeRemoval ==
  /\ \A t \in transfers :
       t.pc = "ok" => t.path \in shared \/ target[t.path] \in Version
  /\ \A s \in Slot :
       loop[s] \in {"remove", "verify"} =>
         fo[s] \in shared \/ target[fo[s]] \in Version

DeliveryInv ==
  /\ SourceIsLatest
  /\ OpenedWhole
  /\ SourceKept
  /\ WholeBeforeRemoval
  /\ LostOnlyWhenShared

Known == TypeInv /\ SharedInv

LEMMA DeliveryInit == Init => DeliveryInv
BY DEF Init, WorkersInit, DeliveryInv, SourceIsLatest, OpenedWhole, SourceKept,
       WholeBeforeRemoval, LostOnlyWhenShared, Delivered, Absent

(* Outside shared, a file that is streamed is held by one loop alone. *)
LEMMA Alone ==
  ASSUME Known, NEW t \in transfers, t.path \notin shared
  PROVE  /\ t.owner \in Slot /\ loop[t.owner] = "select" /\ fo[t.owner] = t.path
         /\ \A s \in Holding : fo[s] = t.path => s = t.owner
         /\ \A u \in transfers : u.path = t.path => u = t
<1>1. /\ TransferInLoop
      /\ \A u \in transfers : u.owner \in Slot /\ u.id = 0
  BY DEF Known, TypeInv, TypeOK, WorkersInv, WorkersTypeOK, TransferTypeOK,
         Transfer
<1>2. \A u \in transfers : u.owner \in Holding /\ fo[u.owner] = u.path
  BY <1>1 DEF TransferInLoop, Holding, Owing
<1> QED
  BY <1>1, <1>2 DEF Known, SharedInv, TransferInLoop

(* The steps that change neither the folders nor removeSrc's place, and    *)
(* take no stream to "create", "copy" or "ok".                             *)
LEMMA DeliveryQuiet ==
  ASSUME DeliveryInv, UNCHANGED <<storeVars, fo>>, shared \subseteq shared',
         \A u \in transfers' :
           \/ u.pc \notin {"create", "copy", "ok"}
           \/ \E t \in transfers :
                t.pc = u.pc /\ t.ver = u.ver /\ t.path = u.path,
         \A s \in Slot : loop'[s] \in {"remove", "verify"} =>
           loop[s] \in {"remove", "verify"}
  PROVE  DeliveryInv'
BY DEF DeliveryInv, SourceIsLatest, OpenedWhole, SourceKept,
       WholeBeforeRemoval, LostOnlyWhenShared, Delivered, storeVars

LEMMA DeliveryLoop ==
  ASSUME MaxVersion = 1, NEW s \in Slot, Known, DeliveryInv,
         ManagerAct(s) \/ ConnectAct(s) \/ LoopAct(s)
  PROVE  DeliveryInv'
<1> USE DEF storeVars, loopVars, ownVars
<1>0. /\ LoopTypeOK /\ StoreTypeOK /\ TransferInLoop /\ shared \subseteq shared'
      /\ \A t \in transfers : t \in Transfer /\ t.id = 0 /\ ~t.late
  BY DEF Known, TypeInv, TypeOK, WorkersInv, WorkersTypeOK, TransferTypeOK,
         ManagerAct, ConnectAct, ConnectErr, LoopAct, StreamLoop
<1>1. CASE Start(s, "top") \/ Leave(s) \/ Check(s, "top") \/ Top(s)
  BY <1>0, <1>1, DeliveryQuiet DEF Start, Leave, Check, Top, LoopTypeOK
<1>2. CASE ConnectAct(s)
  BY <1>0, <1>2, DeliveryQuiet DEF ConnectAct, ConnectErr
<1>3. CASE Receive(s, "mkdir")
  BY <1>0, <1>3
     DEF Receive, DeliveryInv, SourceIsLatest, OpenedWhole, SourceKept,
         WholeBeforeRemoval, LostOnlyWhenShared, Delivered, LoopTypeOK
<1>4. ASSUME NEW t \in transfers, SelectResult(t) \/ SelectTimeout(t)
      PROVE DeliveryInv'
  <2>1. /\ transfers' \subseteq transfers /\ t.owner \in Slot
        /\ t.path = fo[t.owner] /\ UNCHANGED <<storeVars, fo>>
    BY <1>0, <1>4
       DEF SelectResult, SelectTimeout, EndSelect, TransferInLoop, Transfer
  <2>2. CASE t.pc = "ok"
    <3>1. loop' = [loop EXCEPT ![t.owner] = "remove"]
      BY <1>0, <1>4, <2>2 DEF SelectResult, SelectTimeout, EndSelect
    <3> QED
      BY <1>0, <2>1, <2>2, <3>1
         DEF DeliveryInv, SourceIsLatest, OpenedWhole, SourceKept,
             WholeBeforeRemoval, LostOnlyWhenShared, Delivered, LoopTypeOK
  <2>3. CASE t.pc # "ok"
    <3>1. loop' = [loop EXCEPT ![t.owner] = "signal"]
      BY <1>0, <1>4, <2>3 DEF SelectResult, SelectTimeout, EndSelect
    <3> QED
      BY <1>0, <2>1, <3>1, DeliveryQuiet DEF LoopTypeOK
  <2> QED
    BY <2>2, <2>3
<1>5. CASE RemoveOk(s, TRUE)
  <2>1. /\ fo[s] \in Path
        /\ fo[s] \in shared \/ target[fo[s]] \in Version
        /\ s \in Holding /\ loop[s] # "select"
        /\ UNCHANGED <<target, latest, transfers, fo>>
    BY <1>0, <1>5
       DEF RemoveOk, LoopTypeOK, Owing, Holding, DeliveryInv, WholeBeforeRemoval
  <2>2. \A p \in Path : source'[p] = IF p = fo[s] THEN Absent ELSE source[p]
    BY <1>0, <1>5, <2>1 DEF RemoveOk, StoreTypeOK
  <2>3. \A t \in transfers : t.path \in shared \/ t.path # fo[s]
    BY <2>1, Alone
  <2>4. SourceIsLatest' /\ OpenedWhole'
    BY <1>0, <2>1, <2>2 DEF DeliveryInv, SourceIsLatest, OpenedWhole
  <2>5. SourceKept'
    BY <1>0, <2>1, <2>2, <2>3 DEF DeliveryInv, SourceKept, Transfer
  <2>6. WholeBeforeRemoval'
    BY <1>0, <1>5, <2>1
       DEF RemoveOk, DeliveryInv, WholeBeforeRemoval, LoopTypeOK
  <2>7. LostOnlyWhenShared'
    BY <1>0, <2>1, <2>2
       DEF DeliveryInv, LostOnlyWhenShared, Delivered, StoreTypeOK, Version,
           Absent
  <2> QED
    BY <2>4, <2>5, <2>6, <2>7 DEF DeliveryInv
<1>6. CASE RemoveErr(s, TRUE) \/ VerifyGone(s, TRUE) \/ VerifyPresent(s, TRUE)
  BY <1>0, <1>6, DeliveryQuiet
     DEF RemoveErr, VerifyGone, VerifyPresent, NextTry, LoopTypeOK
<1>7. CASE Signal(s)
  BY <1>0, <1>7
     DEF Signal, DeliveryInv, SourceIsLatest, OpenedWhole, SourceKept,
         WholeBeforeRemoval, LostOnlyWhenShared, Delivered, LoopTypeOK
<1> QED
  BY <1>1, <1>2, <1>3, <1>4, <1>5, <1>6, <1>7
     DEF ManagerAct, LoopAct, ManagerStep, StreamLoop, LoopStep

LEMMA DeliveryStream ==
  ASSUME MaxVersion = 1, Known, DeliveryInv, NEW t \in transfers, StreamStep(t)
  PROVE  DeliveryInv'
<1> USE DEF storeVars, loopVars, ownVars
<1>0. /\ LoopTypeOK /\ StoreTypeOK /\ t \in Transfer /\ t.path \in Path
      /\ Version = {1} /\ t.id = 0
      /\ \A u \in transfers : u \in Transfer
      /\ \A s \in Slot : loop[s] \in {"remove", "verify"} => s \in Holding
  BY DEF Known, TypeInv, TypeOK, WorkersInv, WorkersTypeOK, TransferTypeOK,
         Transfer, Version, Holding, Owing
<1>00. /\ SourceIsLatest /\ OpenedWhole /\ SourceKept /\ WholeBeforeRemoval
       /\ LostOnlyWhenShared
  BY DEF DeliveryInv
<1>1. CASE MkdirOk(t)
  <2> DEFINE next == [t EXCEPT !.pc = "open"]
  <2>1. next.pc = "open"
    BY <1>0 DEF Transfer
  <2>2. transfers' = (transfers \ {t}) \cup {next}
    BY <1>1 DEF MkdirOk, Becomes
  <2> HIDE DEF next
  <2> QED
    BY <1>1, <2>1, <2>2, DeliveryQuiet DEF MkdirOk
<1>2. CASE OpenOk(t)
  <2> DEFINE next == [t EXCEPT !.pc = "create", !.ver = source[t.path]]
  <2>1. /\ next.path = t.path /\ next.pc = "create"
        /\ next.ver = source[t.path]
    BY <1>0 DEF Transfer
  <2>2. source[t.path] # Absent /\ source[t.path] # Partial
    BY <1>0, <1>2 DEF OpenOk, StoreTypeOK, Partial, Absent
  <2>3. /\ transfers' = (transfers \ {t}) \cup {next}
        /\ UNCHANGED <<storeVars, shared, loop, fo>>
    BY <1>2 DEF OpenOk, Becomes
  <2> HIDE DEF next
  <2> QED
    BY <2>1, <2>2, <2>3
       DEF DeliveryInv, SourceIsLatest, OpenedWhole, SourceKept,
           WholeBeforeRemoval, LostOnlyWhenShared, Delivered
<1>3. CASE MkdirErr(t) \/ OpenErr(t) \/ CopyErr(t)
  <2>1. PICK next : /\ next.pc = "ko"
                    /\ Becomes(t, next) \/ transfers' = transfers \ {t}
    BY <1>0, <1>3, ReportBecomes
       DEF MkdirErr, OpenErr, CopyErr, Condemn, TransferState
  <2> QED
    BY <1>3, <2>1, DeliveryQuiet
       DEF MkdirErr, OpenErr, CopyErr, Condemn, Becomes
<1>4. CASE CreateErr(t)
  BY <1>4, DeliveryQuiet DEF CreateErr
<1>5. CASE CreateOk(t)
  <2>1. /\ t.pc = "create" /\ t.ver # Absent /\ t.ver # Partial
        /\ UNCHANGED <<source, latest, loop, fo, shared>>
    BY <1>00, <1>5 DEF CreateOk, OpenedWhole
  <2>2. \A p \in Path : target'[p] = IF p = t.path THEN Partial ELSE target[p]
    BY <1>0, <1>5 DEF CreateOk, StoreTypeOK
  (* Nobody else's success or removal is for its file. *)
  <2>3. ASSUME t.path \notin shared
        PROVE  /\ \A u \in transfers : u.path = t.path => u = t
               /\ \A s \in Slot : loop[s] \in {"remove", "verify"} => fo[s] # t.path
               /\ source[t.path] # Absent
    BY <1>0, <1>00, <2>1, <2>3, Alone DEF SourceKept
  <2>4. ASSUME NEW u \in transfers'
        PROVE  \/ u.pc = "copy" /\ u.ver = t.ver /\ u.path = t.path
               \/ \E v \in transfers \ {t} :
                    /\ u.pc = v.pc /\ u.path = v.path
                    /\ \/ u.ver = v.ver
                       \/ u.ver = Partial /\ v.pc = "copy" /\ v.path = t.path
    <3> DEFINE created == [t EXCEPT !.pc = "copy"]
    <3>1. CASE u = created
      BY <1>0, <3>1 DEF Transfer
    <3>2. CASE u # created
      <4>1. PICK v \in transfers \ {t} : u = Truncated(v, t.path)
        BY <1>5, <3>2 DEF CreateOk
      <4> QED
        BY <1>0, <4>1 DEF Truncated, Transfer
    <3> QED
      BY <3>1, <3>2
  <2>5. SourceIsLatest' /\ SourceKept'
    BY <1>00, <2>1, <2>3, <2>4 DEF SourceIsLatest, SourceKept
  <2>6. OpenedWhole'
    <3>1. Partial # Absent
      BY DEF Partial, Absent
    <3> QED
      BY <1>00, <2>1, <2>3, <2>4, <3>1 DEF OpenedWhole
  <2>7. WholeBeforeRemoval'
    <3>1. ASSUME NEW u \in transfers', u.pc = "ok"
          PROVE  u.path \in shared \/ target'[u.path] \in Version
      <4>1. PICK v \in transfers \ {t} : u.pc = v.pc /\ u.path = v.path
        BY <2>4, <3>1
      <4>2. /\ v.path \in Path
            /\ v.path \in shared \/ target[v.path] \in Version
        BY <1>0, <1>00, <3>1, <4>1 DEF WholeBeforeRemoval, Transfer
      <4> QED
        BY <2>2, <2>3, <4>1, <4>2
    <3>2. ASSUME NEW s \in Slot, loop[s] \in {"remove", "verify"}
          PROVE  fo[s] \in shared \/ target'[fo[s]] \in Version
      <4>1. /\ fo[s] \in Path
            /\ fo[s] \in shared \/ target[fo[s]] \in Version
        BY <1>0, <1>00, <3>2 DEF WholeBeforeRemoval, LoopTypeOK, Owing
      <4> QED
        BY <2>2, <2>3, <3>2, <4>1
    <3> QED
      BY <2>1, <3>1, <3>2 DEF WholeBeforeRemoval
  <2>8. LostOnlyWhenShared'
    BY <1>0, <1>00, <2>1, <2>2, <2>3
       DEF LostOnlyWhenShared, Delivered, SourceIsLatest
  <2> QED
    BY <2>5, <2>6, <2>7, <2>8 DEF DeliveryInv
<1>6. CASE CopyOk(t)
  <2>1. /\ t.pc = "copy" /\ UNCHANGED <<source, latest, loop, fo, shared>>
        /\ t.ver \in Version \/ (t.ver = Partial /\ t.path \in shared)
    BY <1>0, <1>00, <1>6 DEF CopyOk, OpenedWhole, Transfer
  <2>2. \A p \in Path : target'[p] = IF p = t.path /\ t.ver # Partial
                                     THEN t.ver ELSE target[p]
    BY <1>0, <1>6 DEF CopyOk, StoreTypeOK
  <2>3. \A p \in Path : target[p] \in Version => target'[p] \in Version
    BY <1>0, <2>1, <2>2
  <2>4. ASSUME NEW u \in transfers'
        PROVE  u \in transfers \/ (u.pc = "ok" /\ u.path = t.path)
    BY <1>0, <1>6 DEF CopyOk, Report, Transfer
  <2>5. SourceIsLatest' /\ SourceKept' /\ OpenedWhole'
    BY <1>00, <2>1, <2>4 DEF SourceIsLatest, SourceKept, OpenedWhole
  <2>6. t.path \in shared \/ target'[t.path] \in Version
    BY <1>0, <2>1, <2>2 DEF Partial
  <2>7. WholeBeforeRemoval'
    <3>1. ASSUME NEW u \in transfers', u.pc = "ok"
          PROVE  u.path \in shared \/ target'[u.path] \in Version
      BY <1>0, <1>00, <2>1, <2>3, <2>4, <2>6, <3>1
         DEF WholeBeforeRemoval, Transfer
    <3>2. ASSUME NEW s \in Slot, loop[s] \in {"remove", "verify"}
          PROVE  fo[s] \in shared \/ target'[fo[s]] \in Version
      BY <1>0, <1>00, <2>1, <2>3, <3>2 DEF WholeBeforeRemoval, LoopTypeOK, Owing
    <3> QED
      BY <2>1, <3>1, <3>2 DEF WholeBeforeRemoval
  <2>8. LostOnlyWhenShared'
    <3>1. \A p \in Path : latest[p] > 0 => latest[p] = 1
      BY <1>0 DEF StoreTypeOK, Absent
    <3> QED
      BY <1>0, <1>00, <2>1, <2>3, <3>1 DEF LostOnlyWhenShared, Delivered
  <2> QED
    BY <2>5, <2>7, <2>8 DEF DeliveryInv
<1> QED
  BY <1>1, <1>2, <1>3, <1>4, <1>5, <1>6 DEF StreamStep

LEMMA DeliveryEnvironment ==
  ASSUME Known, DeliveryInv,
         \/ ScannerAct
         \/ (\E p \in Path : Produce(p)) /\ UNCHANGED ownVars
         \/ Restart /\ UNCHANGED shared
         \/ UNCHANGED vars
  PROVE  DeliveryInv'
<1> USE DEF storeVars, loopVars, ownVars
<1>0. StoreTypeOK /\ \A u \in transfers : u \in Transfer
  BY DEF Known, TypeInv, WorkersInv, WorkersTypeOK, TransferTypeOK
<1>1. CASE ScannerAct \/ UNCHANGED vars
  BY <1>1, DeliveryQuiet DEF ScannerAct, vars, workersVars
<1>2. ASSUME NEW p \in Path, Produce(p), UNCHANGED ownVars PROVE DeliveryInv'
  <2>1. /\ latest[p] + 1 # Absent
        /\ UNCHANGED <<target, loop, fo, transfers, shared>>
        /\ latest' = [latest EXCEPT ![p] = latest[p] + 1]
        /\ source' = [source EXCEPT ![p] = latest[p] + 1]
    BY <1>0, <1>2 DEF Produce, StoreTypeOK, Absent, Version
  <2>2. \A q : source[q] # Absent => source'[q] # Absent
    BY <1>0, <2>1 DEF StoreTypeOK
  <2> QED
    BY <1>0, <2>1, <2>2
       DEF DeliveryInv, SourceIsLatest, OpenedWhole, SourceKept,
           WholeBeforeRemoval, LostOnlyWhenShared, Delivered, StoreTypeOK
<1>3. CASE Restart /\ UNCHANGED shared
  BY <1>3
     DEF Restart, DeliveryInv, SourceIsLatest, OpenedWhole, SourceKept,
         WholeBeforeRemoval, LostOnlyWhenShared, Delivered
<1> QED
  BY <1>1, <1>2, <1>3

LEMMA DeliveryStep ==
  ASSUME MaxVersion = 1, Known, DeliveryInv, [Next]_vars
  PROVE  DeliveryInv'
BY DeliveryLoop, DeliveryStream, DeliveryEnvironment DEF Next, StreamAct

(* While no name is used twice at the source, a file put there is there or *)
(* whole at the target, whatever fails, is condemned or restarted, unless  *)
(* two streamers had it at the same time.                                  *)
THEOREM LossNeedsTwoStreamers ==
  ASSUME MaxVersion = 1
  PROVE  Spec => []LostOnlyWhenShared
<1>1. /\ TypeInv /\ SharedInv /\ DeliveryInv /\ [Next]_vars => DeliveryInv'
      /\ DeliveryInv => LostOnlyWhenShared
  BY DeliveryStep DEF Known, DeliveryInv
<1> QED
  BY <1>1, TypeInit, TypeStep, HeldInit, HeldStep, SharedInit, SharedStep,
     DeliveryInit, PTL DEF Spec
=============================================================================
