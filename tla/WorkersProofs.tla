--------------------------- MODULE WorkersProofs ---------------------------
(***************************************************************************)
(* Lemmas about the actions of Workers and SftpScanner: each preserves the *)
(* types and the number of tokens, whatever the transfers of the pipeline  *)
(* are made of.  They hold for every set of files and objects, every       *)
(* number of workers and every bound, in service and in one-time mode.     *)
(***************************************************************************)
EXTENDS Workers, FiniteSetTheorems, TLAPS

-----------------------------------------------------------------------------
(* The type invariant is not inductive as it stands.  The facts it needs   *)
(* are about who owns what.                                                *)

(* What scan_once's count can be at each place of the scanner: it is -1    *)
(* only between taking a token for room and sending the file.              *)
CountOK ==
  /\ scanner \in {"connect", "ready", "stopped", "exited"} => dispatched = 0
  /\ scanner \in {"walk", "full"} => dispatched >= 0
  /\ scanner = "send" => dispatched >= -1
  /\ scanner = "drain" => dispatched >= 1

(* A loop waits for one transfer, of the file it has received, and only in *)
(* the select.                                                             *)
TransferInLoop ==
  /\ \A t \in transfers :
       t.id = 0 => loop[t.owner] = "select" /\ t.path = fo[t.owner]
  /\ \A t, u \in transfers :
       t.id = 0 /\ u.id = 0 /\ t.owner = u.owner => t = u

(* An object still connecting has no loop yet. *)
NewObjectIdle == \A s \in Slot : sup[s] = "connect" => loop[s] = "none"

(* An expired timeout has been counted: a transfer left behind gets an id. *)
TimeoutCounted == \A t \in transfers : t.late => timeouts >= 1

WorkersInv ==
  WorkersTypeOK /\ CountOK /\ TransferInLoop /\ NewObjectIdle /\ TimeoutCounted

(* The initial states satisfy WorkersInv. *)
LEMMA WorkersInvInit == WorkersInit => WorkersInv
BY ScannerAssumption, WorkersAssumption
   DEF WorkersInit, ScannerInit, Connecting, WorkersInv, WorkersTypeOK,
       StoreTypeOK, ObjectTypeOK, LoopTypeOK, TransferTypeOK, BoundTypeOK,
       ScannerTypeOK, CountOK, TransferInLoop, NewObjectIdle, TimeoutCounted,
       Absent, Version, SupState, LoopState, Owing, ScannerState, Cap

-----------------------------------------------------------------------------
(* The scanner's actions preserve it. *)
LEMMA WorkersInvScanner ==
  ASSUME WorkersInv, ScannerTypeOK' /\ CountOK',
         UNCHANGED <<storeVars, objVars, loopVars, transfers, boundVars>>
  PROVE  WorkersInv'
BY DEF WorkersInv, WorkersTypeOK, StoreTypeOK, ObjectTypeOK, LoopTypeOK,
       TransferTypeOK, BoundTypeOK, TransferInLoop, NewObjectIdle,
       TimeoutCounted, storeVars, objVars, loopVars, boundVars

LEMMA ScannerTypes ==
  ASSUME ScannerTypeOK, CountOK, ScannerStep, UNCHANGED source
  PROVE  ScannerTypeOK' /\ CountOK'
<1> USE ScannerAssumption DEF Cap, ScannerState, ScannerTypeOK, CountOK
<1>1. CASE ScannerConnect
  BY <1>1 DEF ScannerConnect
<1>2. CASE BeginScan
  BY <1>2 DEF BeginScan, Listing
<1>3. CASE \E p \in todo : Dispatch(p)
  BY <1>3 DEF Dispatch, Send
<1>4. CASE ChannelFull
  BY <1>4 DEF ChannelFull
<1>5. CASE AwaitToken
  BY <1>5 DEF AwaitToken, TakeToken
<1>6. CASE \E p \in todo : BlockedSend(p)
  BY <1>6 DEF BlockedSend, Send
<1>7. CASE EndWalk
  BY <1>7 DEF EndWalk, Returned
<1>8. CASE Drain
  BY <1>8 DEF Drain, TakeToken, Returned
<1>9. CASE WalkError
  BY <1>9 DEF WalkError
<1>10. CASE RecreateScanner
  BY <1>10 DEF RecreateScanner
<1>11. CASE ExitProcess
  BY <1>11 DEF ExitProcess
<1> QED
  BY <1>1, <1>2, <1>3, <1>4, <1>5, <1>6, <1>7, <1>8, <1>9, <1>10, <1>11
     DEF ScannerStep

-----------------------------------------------------------------------------
(* The managers' and the loops' actions preserve it. *)

LEMMA WorkersInvManager ==
  ASSUME NEW s \in Slot, NEW first \in {"receive", "top"},
         WorkersInv, ManagerStep(s, first)
  PROVE  WorkersInv'
<1> USE DEF WorkersInv, WorkersTypeOK, StoreTypeOK, ObjectTypeOK, LoopTypeOK,
            TransferTypeOK, BoundTypeOK, ScannerTypeOK, CountOK,
            TransferInLoop, NewObjectIdle, TimeoutCounted, SupState, LoopState,
            Owing, scannerVars, storeVars, loopVars, boundVars
<1>1. CASE Start(s, first)
  <2>1. LoopTypeOK' /\ ObjectTypeOK' /\ NewObjectIdle'
    BY <1>1 DEF Start
  <2>2. TransferInLoop'
    BY <1>1 DEF Start, Transfer
  <2> QED
    BY <1>1, <2>1, <2>2 DEF Start
<1>2. CASE Leave(s)
  <2>1. CASE OneTime
    BY <1>2, <2>1 DEF Leave
  <2>2. CASE ~OneTime
    <3>1. PICK n \in Slot :
            /\ loop[n] = "none"
            /\ sup' = [sup EXCEPT ![s] = "none", ![n] = "connect"]
            /\ to_exit' = [to_exit EXCEPT ![n] = FALSE]
      BY <1>2, <2>2 DEF Leave, Idle
    <3> QED
      BY <1>2, <3>1 DEF Leave
  <2> QED
    BY <2>1, <2>2
<1> QED
  BY <1>1, <1>2 DEF ManagerStep

(* removeSrc's counter stays between 1 and 3. *)
LEMMA NextTryType ==
  ASSUME NEW s \in Slot, LoopTypeOK, loop[s] \in Owing, NextTry(s), fo' = fo
  PROVE  LoopTypeOK'
<1>1. tries[s] < 3 => tries[s] + 1 \in 1..3
  BY DEF LoopTypeOK
<1>2. tries' \in [Slot -> 1..3]
  BY <1>1 DEF NextTry, LoopTypeOK
<1> QED
  BY <1>2 DEF NextTry, LoopTypeOK, LoopState, Owing

(* A loop that is not in the select moves, and no other; transfers stay. *)
LEMMA LoopMoves ==
  ASSUME NEW s \in Slot, WorkersInv, loop[s] \notin {"none", "select"},
         UNCHANGED <<scanner, dispatched, transfers, objVars>>,
         ScannerTypeOK', StoreTypeOK', LoopTypeOK', BoundTypeOK',
         timeouts' >= timeouts,
         \A r \in Slot : r # s => loop'[r] = loop[r] /\ fo'[r] = fo[r]
  PROVE  WorkersInv'
<1>1. CountOK' /\ ObjectTypeOK' /\ TransferTypeOK'
  BY DEF WorkersInv, WorkersTypeOK, CountOK, ObjectTypeOK, TransferTypeOK,
         objVars
<1>2. NewObjectIdle'
  BY DEF WorkersInv, NewObjectIdle, objVars
<1>3. TransferInLoop'
  BY DEF WorkersInv, WorkersTypeOK, TransferTypeOK, Transfer, TransferInLoop
<1>4. TimeoutCounted'
  BY DEF WorkersInv, WorkersTypeOK, BoundTypeOK, TimeoutCounted
<1> QED
  BY <1>1, <1>2, <1>3, <1>4 DEF WorkersInv, WorkersTypeOK

LEMMA WorkersInvReceive ==
  ASSUME NEW s \in Slot, NEW begin \in TransferState, WorkersInv,
         Receive(s, begin)
  PROVE  WorkersInv'
<1> DEFINE new == [id |-> 0, owner |-> s, path |-> Head(c), pc |-> begin,
                   ver |-> Absent, late |-> FALSE]
<1> USE DEF Receive, ReceiveFile, WorkersInv, WorkersTypeOK
<1>1. c \in Seq(Path) /\ c # <<>> /\ Head(c) \in Path /\ Tail(c) \in Seq(Path)
  BY DEF ScannerTypeOK
<1>2. ScannerTypeOK' /\ CountOK'
  BY <1>1, ScannerAssumption DEF ScannerTypeOK, CountOK, Cap, storeVars
<1>3. StoreTypeOK' /\ ObjectTypeOK' /\ BoundTypeOK' /\ NewObjectIdle'
  BY DEF StoreTypeOK, ObjectTypeOK, BoundTypeOK, NewObjectIdle, storeVars,
         objVars, boundVars
<1>4. LoopTypeOK'
  BY <1>1 DEF LoopTypeOK, LoopState, Owing
<1>5. /\ new \in Transfer /\ new.id = 0 /\ new.owner = s /\ ~new.late
      /\ new.path = fo'[s] /\ loop'[s] = "select"
  BY <1>1, WorkersAssumption DEF Transfer, LoopTypeOK
<1>6. transfers' = transfers \cup {new}
  OBVIOUS
<1> HIDE DEF new
<1>7. TransferTypeOK' /\ TimeoutCounted'
  BY <1>5, <1>6 DEF TransferTypeOK, TimeoutCounted, boundVars
<1>8. \A t \in transfers : t.id = 0 => t.owner # s
  BY DEF TransferInLoop
<1>9. TransferInLoop'
  BY <1>5, <1>6, <1>8 DEF TransferInLoop, LoopTypeOK
<1> QED
  BY <1>2, <1>3, <1>4, <1>7, <1>9

(* The end of the select forgets the transfer, or leaves it behind. *)
LEMMA WorkersInvEndSelect ==
  ASSUME NEW t \in transfers, NEW place \in {"remove", "signal"}, NEW rest,
         WorkersInv, EndSelect(t, place, rest),
         \A u \in rest : u \in Transfer /\ u.id > 0 /\ (u.late => timeouts >= 1)
  PROVE  WorkersInv'
<1> USE DEF EndSelect, WorkersInv, WorkersTypeOK
<1>1. t \in Transfer /\ t.owner \in Slot /\ loop[t.owner] = "select"
  BY DEF TransferTypeOK, Transfer, TransferInLoop
<1>2. ScannerTypeOK' /\ CountOK' /\ StoreTypeOK' /\ ObjectTypeOK' /\ BoundTypeOK'
  BY DEF ScannerTypeOK, CountOK, StoreTypeOK, ObjectTypeOK, BoundTypeOK,
         scannerVars, storeVars, objVars, boundVars
<1>3. LoopTypeOK' /\ NewObjectIdle'
  BY <1>1 DEF LoopTypeOK, LoopState, Owing, NewObjectIdle, objVars
<1>4. TransferTypeOK' /\ TimeoutCounted'
  BY DEF TransferTypeOK, TimeoutCounted, boundVars
<1>5. ASSUME NEW u \in transfers', u.id = 0
      PROVE  u \in transfers /\ u # t /\ u.owner # t.owner
  BY <1>5 DEF TransferInLoop
<1>6. TransferInLoop'
  BY <1>5 DEF TransferInLoop, LoopTypeOK
<1> QED
  BY <1>2, <1>3, <1>4, <1>6

LEMMA LeftBehindType ==
  ASSUME NEW t \in transfers, WorkersInv, t.late, NEW u \in LeftBehind(t)
  PROVE  /\ u = [t EXCEPT !.id = timeouts]
         /\ u \in Transfer /\ u.id > 0 /\ timeouts >= 1
<1>1. t \in Transfer /\ timeouts \in 0..MaxTimeouts /\ timeouts >= 1
  BY DEF WorkersInv, WorkersTypeOK, TransferTypeOK, BoundTypeOK, TimeoutCounted
<1>2. u = [t EXCEPT !.id = timeouts]
  BY DEF LeftBehind
<1>3. u \in Transfer /\ u.id = timeouts
  BY <1>1, <1>2 DEF Transfer
<1> QED
  BY <1>1, <1>2, <1>3

LEMMA WorkersInvLoop ==
  ASSUME NEW s \in Slot, NEW first \in {"receive", "top"},
         NEW begin \in TransferState, NEW remote \in BOOLEAN, WorkersInv,
         LoopStep(s, first, begin, remote) \/ Top(s)
  PROVE  WorkersInv'
<1> USE WorkersAssumption DEF storeVars, objVars, boundVars, scannerVars
<1>0. /\ ScannerTypeOK /\ StoreTypeOK /\ ObjectTypeOK /\ LoopTypeOK /\ BoundTypeOK
  BY DEF WorkersInv, WorkersTypeOK
<1>1. CASE Receive(s, begin)
  BY <1>1, WorkersInvReceive
<1>2. ASSUME NEW t \in transfers, SelectResult(t) PROVE WorkersInv'
  <2>1. PICK place \in {"remove", "signal"} : EndSelect(t, place, {})
    BY <1>2 DEF SelectResult
  <2> QED
    BY <2>1, WorkersInvEndSelect
<1>3. ASSUME NEW t \in transfers, SelectTimeout(t) PROVE WorkersInv'
  BY <1>3, WorkersInvEndSelect, LeftBehindType DEF SelectTimeout
<1>4. CASE RemoveOk(s, remote)
  <2>1. fo[s] \in Path /\ StoreTypeOK' /\ ScannerTypeOK' /\ LoopTypeOK'
    BY <1>0, <1>4
       DEF RemoveOk, StoreTypeOK, ScannerTypeOK, LoopTypeOK, LoopState, Owing,
           Absent
  <2> QED
    BY <1>0, <1>4, <2>1, LoopMoves DEF RemoveOk, LoopTypeOK, BoundTypeOK
<1>5. CASE RemoveErr(s, remote)
  <2>1. LoopTypeOK' /\ BoundTypeOK'
    BY <1>0, <1>5, NextTryType DEF RemoveErr, Fails, BoundTypeOK, Owing
  <2>2. ScannerTypeOK' /\ StoreTypeOK' /\ timeouts' >= timeouts
    BY <1>0, <1>5
       DEF RemoveErr, Fails, ScannerTypeOK, StoreTypeOK, BoundTypeOK
  <2> QED
    BY <1>0, <1>5, <2>1, <2>2, LoopMoves DEF RemoveErr, NextTry, LoopTypeOK
<1>6. CASE VerifyGone(s, remote)
  <2>1. LoopTypeOK' /\ BoundTypeOK'
    BY <1>0, <1>6
       DEF VerifyGone, Fails, BoundTypeOK, LoopTypeOK, LoopState, Owing
  <2>2. ScannerTypeOK' /\ StoreTypeOK' /\ timeouts' >= timeouts
    BY <1>0, <1>6
       DEF VerifyGone, Fails, ScannerTypeOK, StoreTypeOK, BoundTypeOK
  <2> QED
    BY <1>0, <1>6, <2>1, <2>2, LoopMoves DEF VerifyGone, LoopTypeOK
<1>7. CASE VerifyPresent(s, remote)
  <2>1. LoopTypeOK'
    BY <1>0, <1>7, NextTryType DEF VerifyPresent, Owing
  <2> QED
    BY <1>0, <1>7, <2>1, LoopMoves
       DEF VerifyPresent, NextTry, LoopTypeOK, BoundTypeOK, StoreTypeOK,
           ScannerTypeOK
<1>8. CASE Signal(s)
  <2>1. LoopTypeOK' /\ ScannerTypeOK'
    BY <1>0, <1>8, ScannerAssumption
       DEF Signal, SendToken, LoopTypeOK, LoopState, Owing, ScannerTypeOK, Cap
  <2> QED
    BY <1>0, <1>8, <2>1, LoopMoves
       DEF Signal, LoopTypeOK, BoundTypeOK, StoreTypeOK
<1>9. CASE Check(s, first) \/ Top(s)
  <2>1. LoopTypeOK'
    BY <1>0, <1>9 DEF Check, Top, LoopTypeOK, LoopState, Owing
  <2>2. ScannerTypeOK' /\ StoreTypeOK' /\ BoundTypeOK' /\ timeouts' >= timeouts
    BY <1>0, <1>9
       DEF Check, Top, ScannerTypeOK, StoreTypeOK, BoundTypeOK
  <2> QED
    BY <1>0, <1>9, <2>1, <2>2, LoopMoves DEF Check, Top, LoopTypeOK
<1> QED
  BY <1>1, <1>2, <1>3, <1>4, <1>5, <1>6, <1>7, <1>8, <1>9 DEF LoopStep

-----------------------------------------------------------------------------
(* What a transfer may do without disturbing it: change itself or end, and *)
(* change others but for who they are.                                     *)
LEMMA WorkersInvTransfer ==
  ASSUME WorkersInv, UNCHANGED <<scannerVars, sup, loopVars, timeouts, restarts>>,
         StoreTypeOK', ObjectTypeOK', faults' \in 0..MaxFaults,
         NEW new \in [transfers -> Transfer], NEW gone,
         transfers' = {new[t] : t \in transfers \ gone},
         \A t \in transfers :
           /\ new[t].id = t.id /\ new[t].owner = t.owner
           /\ new[t].path = t.path /\ new[t].late = t.late
  PROVE  WorkersInv'
<1> USE DEF WorkersInv, WorkersTypeOK, scannerVars, loopVars
<1>1. ScannerTypeOK' /\ CountOK' /\ LoopTypeOK' /\ BoundTypeOK'
  BY DEF ScannerTypeOK, CountOK, LoopTypeOK, BoundTypeOK, StoreTypeOK, Version,
         Absent
<1>2. TransferTypeOK' /\ TimeoutCounted'
  BY DEF TransferTypeOK, TimeoutCounted
<1>3. TransferInLoop'
  BY DEF TransferInLoop
<1>4. NewObjectIdle'
  BY DEF NewObjectIdle
<1> QED
  BY <1>1, <1>2, <1>3, <1>4

(* The plain case: one transfer goes on as next, or ends. *)
LEMMA WorkersInvBecomes ==
  ASSUME WorkersInv, UNCHANGED <<scannerVars, sup, loopVars, timeouts, restarts>>,
         StoreTypeOK', ObjectTypeOK', faults' \in 0..MaxFaults,
         NEW t \in transfers, NEW next \in Transfer,
         next.id = t.id, next.owner = t.owner, next.path = t.path,
         next.late = t.late, Becomes(t, next) \/ transfers' = transfers \ {t}
  PROVE  WorkersInv'
<1> DEFINE new == [u \in transfers |-> IF u = t THEN next ELSE u]
<1>1. new \in [transfers -> Transfer]
  BY DEF WorkersInv, WorkersTypeOK, TransferTypeOK
<1>2. \A u \in transfers : /\ new[u].id = u.id /\ new[u].owner = u.owner
                           /\ new[u].path = u.path /\ new[u].late = u.late
  OBVIOUS
<1>3. PICK gone : transfers' = {new[u] : u \in transfers \ gone}
  <2>1. CASE Becomes(t, next)
    <3>1. transfers' = {new[u] : u \in transfers \ {}}
      BY <2>1 DEF Becomes
    <3> QED
      BY <3>1
  <2>2. CASE transfers' = transfers \ {t}
    <3>1. transfers' = {new[u] : u \in transfers \ {t}}
      BY <2>2
    <3> QED
      BY <3>1
  <2> QED
    BY <2>1, <2>2
<1> HIDE DEF new
<1> QED
  BY <1>1, <1>2, <1>3, WorkersInvTransfer

LEMMA ReportBecomes ==
  ASSUME NEW t \in Transfer, NEW result \in TransferState, Report(t, result)
  PROVE  \E next \in Transfer :
           /\ next.id = t.id /\ next.owner = t.owner /\ next.path = t.path
           /\ next.late = t.late /\ next.ver = t.ver /\ next.pc = result
           /\ Becomes(t, next) \/ transfers' = transfers \ {t}
<1> DEFINE next == [t EXCEPT !.pc = result]
<1>1. next \in Transfer
  BY DEF Transfer
<1>2. /\ next.id = t.id /\ next.owner = t.owner /\ next.path = t.path
      /\ next.late = t.late /\ next.ver = t.ver /\ next.pc = result
  BY DEF Transfer
<1>3. Becomes(t, next) \/ transfers' = transfers \ {t}
  BY DEF Report, Becomes
<1> QED
  BY <1>1, <1>2, <1>3

LEMMA WorkersInvReport ==
  ASSUME WorkersInv, UNCHANGED <<scannerVars, sup, loopVars, timeouts, restarts>>,
         StoreTypeOK', ObjectTypeOK', faults' \in 0..MaxFaults,
         NEW t \in transfers, NEW result \in TransferState, Report(t, result)
  PROVE  WorkersInv'
<1>1. t \in Transfer
  BY DEF WorkersInv, WorkersTypeOK, TransferTypeOK
<1> QED
  BY <1>1, ReportBecomes, WorkersInvBecomes

LEMMA FaultsCounted ==
  ASSUME WorkersInv, NEW condition \in BOOLEAN, Fails(condition)
  PROVE  faults' \in 0..MaxFaults /\ UNCHANGED <<timeouts, restarts>>
BY WorkersAssumption DEF WorkersInv, WorkersTypeOK, BoundTypeOK, Fails

LEMMA WorkersInvCondemn ==
  ASSUME WorkersInv, NEW t \in transfers, NEW condition \in BOOLEAN,
         Fails(condition), Condemn(t)
  PROVE  WorkersInv'
<1>1. StoreTypeOK' /\ ObjectTypeOK'
  BY DEF WorkersInv, WorkersTypeOK, StoreTypeOK, ObjectTypeOK, Condemn,
         storeVars
<1>2. "ko" \in TransferState
  BY DEF TransferState
<1> QED
  BY <1>1, <1>2, FaultsCounted, WorkersInvReport DEF Condemn

LEMMA WorkersInvExpire ==
  ASSUME WorkersInv, NEW t \in transfers, Expire(t)
  PROVE  WorkersInv'
<1> DEFINE u == [t EXCEPT !.late = TRUE]
<1> USE DEF Expire, WorkersInv, WorkersTypeOK, scannerVars, storeVars, objVars,
            loopVars
<1>1. t \in Transfer
  BY DEF TransferTypeOK
<1>2. /\ u \in Transfer /\ u.id = 0 /\ u.owner = t.owner /\ u.path = t.path
      /\ transfers' = (transfers \ {t}) \cup {u}
  BY <1>1 DEF Transfer, Becomes
<1> HIDE DEF u
<1>3. timeouts' >= 1 /\ timeouts' \in 0..MaxTimeouts
  BY WorkersAssumption DEF BoundTypeOK
<1>4. /\ ScannerTypeOK' /\ CountOK' /\ LoopTypeOK' /\ BoundTypeOK'
      /\ StoreTypeOK' /\ ObjectTypeOK' /\ NewObjectIdle'
  BY <1>3
     DEF ScannerTypeOK, CountOK, LoopTypeOK, BoundTypeOK, StoreTypeOK,
         ObjectTypeOK, NewObjectIdle
<1>5. TransferTypeOK' /\ TimeoutCounted' /\ TransferInLoop'
  BY <1>2, <1>3 DEF TransferTypeOK, TimeoutCounted, TransferInLoop
<1> QED
  BY <1>4, <1>5

LEMMA WorkersInvProduce ==
  ASSUME WorkersInv, NEW p \in Path, Produce(p)
  PROVE  WorkersInv'
<1> USE DEF Produce, WorkersInv, WorkersTypeOK, scannerVars, objVars, loopVars,
            boundVars
<1>1. latest[p] \in 0..MaxVersion /\ latest[p] + 1 \in Version
  BY WorkersAssumption DEF StoreTypeOK, Version, Absent
<1>2. StoreTypeOK'
  BY <1>1 DEF StoreTypeOK
<1>3. ScannerTypeOK'
  BY <1>2 DEF ScannerTypeOK, StoreTypeOK, Version, Absent
<1> QED
  BY <1>2, <1>3
     DEF CountOK, LoopTypeOK, BoundTypeOK, ObjectTypeOK, NewObjectIdle,
         TransferTypeOK, TimeoutCounted, TransferInLoop

LEMMA WorkersInvRestart == WorkersInv /\ Restart => WorkersInv'
BY ScannerAssumption, WorkersAssumption
   DEF Restart, Connecting, WorkersInv, WorkersTypeOK, StoreTypeOK,
       ObjectTypeOK, LoopTypeOK, TransferTypeOK, BoundTypeOK, ScannerTypeOK,
       CountOK, TransferInLoop, NewObjectIdle, TimeoutCounted, SupState,
       LoopState, Owing, ScannerState, Cap, storeVars

LEMMA WorkersInvUnchanged == WorkersInv /\ UNCHANGED workersVars => WorkersInv'
BY DEF workersVars, scannerVars, storeVars, objVars, loopVars, boundVars,
       WorkersInv, WorkersTypeOK, StoreTypeOK, ObjectTypeOK, LoopTypeOK,
       TransferTypeOK, BoundTypeOK, ScannerTypeOK, CountOK, TransferInLoop,
       NewObjectIdle, TimeoutCounted

-----------------------------------------------------------------------------
(* The tokens.  Pending = dispatched + stale is inductive once the types   *)
(* are known: each action either leaves its five terms alone or moves one  *)
(* file from one term to another.                                          *)

TokenInv == Pending = dispatched + stale

LEMMA HoldingFinite ==
  /\ IsFiniteSet(Holding) /\ Cardinality(Holding) \in Nat
<1>1. Holding \in SUBSET Slot
  BY DEF Holding
<1> QED
  BY <1>1, WorkersAssumption, FS_Subset, FS_CardinalityType

LEMMA TokenInit == WorkersInit => TokenInv
<1> SUFFICES ASSUME WorkersInit PROVE TokenInv
  OBVIOUS
<1>1. Holding = {}
  BY DEF WorkersInit, Holding, Owing
<1>2. Len(c) = 0 /\ done = 0 /\ dispatched = 0 /\ stale = 0
  BY DEF WorkersInit, ScannerInit
<1> QED
  BY <1>1, <1>2, FS_EmptySet DEF TokenInv, Pending

(* A step that leaves the channels, the counts and the holders alone. *)
LEMMA TokenQuiet ==
  ASSUME TokenInv, UNCHANGED <<c, done, dispatched, stale>>, Holding' = Holding
  PROVE  TokenInv'
BY DEF TokenInv, Pending

(* The scanner moves files from its count to c and tokens from done to its *)
(* count; on a walk error the count becomes stale.                         *)
LEMMA TokenScanner ==
  ASSUME ScannerTypeOK, TokenInv, ScannerStep, UNCHANGED loopVars
  PROVE  TokenInv'
<1>1. Holding' = Holding
  BY DEF loopVars, Holding
<1>2. /\ c \in Seq(Path) /\ Len(c) \in Nat /\ done \in Nat
      /\ dispatched \in Int /\ stale \in Nat /\ todo \subseteq Path
  BY ScannerAssumption DEF ScannerTypeOK, Cap
<1>3. /\ Cardinality(Holding) \in Nat
      /\ Len(c) + Cardinality(Holding) + done = dispatched + stale
  BY HoldingFinite DEF TokenInv, Pending
<1>4. Len(c') + Cardinality(Holding) + done' = dispatched' + stale'
  <2>1. CASE ScannerConnect
    BY <1>2, <1>3, <2>1 DEF ScannerConnect
  <2>2. CASE BeginScan
    BY <1>2, <1>3, <2>2 DEF BeginScan
  <2>3. CASE \E p \in todo : Dispatch(p)
    BY <1>2, <1>3, <2>3 DEF Dispatch, Send
  <2>4. CASE ChannelFull
    BY <1>2, <1>3, <2>4 DEF ChannelFull
  <2>5. CASE AwaitToken
    BY <1>2, <1>3, <2>5 DEF AwaitToken, TakeToken
  <2>6. CASE \E p \in todo : BlockedSend(p)
    BY <1>2, <1>3, <2>6 DEF BlockedSend, Send
  <2>7. CASE EndWalk
    BY <1>2, <1>3, <2>7 DEF EndWalk
  <2>8. CASE Drain
    BY <1>2, <1>3, <2>8 DEF Drain, TakeToken
  <2>9. CASE WalkError
    BY <1>2, <1>3, <2>9 DEF WalkError
  <2>10. CASE RecreateScanner
    BY <1>2, <1>3, <2>10 DEF RecreateScanner
  <2>11. CASE ExitProcess
    BY <1>2, <1>3, <2>11 DEF ExitProcess
  <2> QED
    BY <2>1, <2>2, <2>3, <2>4, <2>5, <2>6, <2>7, <2>8, <2>9, <2>10, <2>11
       DEF ScannerStep
<1> QED
  BY <1>1, <1>4 DEF TokenInv, Pending

LEMMA TokenManager ==
  ASSUME NEW s \in Slot, NEW first \in {"receive", "top"}, WorkersInv, TokenInv,
         ManagerStep(s, first)
  PROVE  TokenInv'
<1>0. loop \in [Slot -> LoopState]
  BY DEF WorkersInv, WorkersTypeOK, LoopTypeOK
<1>1. CASE Start(s, first)
  <2>1. loop[s] = "none"
    BY <1>1 DEF Start, WorkersInv, NewObjectIdle
  <2>2. Holding' = Holding
    BY <1>0, <1>1, <2>1 DEF Start, Holding, Owing
  <2> QED
    BY <1>1, <2>2, TokenQuiet DEF Start, scannerVars
<1>2. CASE Leave(s)
  BY <1>2, TokenQuiet DEF Leave, Holding, scannerVars, loopVars
<1> QED
  BY <1>1, <1>2 DEF ManagerStep

(* Receive makes a holder of a file of c; Signal turns a holder into a     *)
(* token; no other action of a loop makes or frees a holder.               *)
LEMMA TokenLoop ==
  ASSUME NEW s \in Slot, NEW first \in {"receive", "top"},
         NEW begin \in TransferState, NEW remote \in BOOLEAN,
         WorkersInv, TokenInv, LoopStep(s, first, begin, remote) \/ Top(s)
  PROVE  TokenInv'
<1> USE DEF scannerVars
<1>0. /\ loop \in [Slot -> LoopState]
      /\ c \in Seq(Path) /\ Len(c) \in Nat /\ done \in Nat
      /\ dispatched \in Int /\ stale \in Nat
  BY ScannerAssumption
     DEF WorkersInv, WorkersTypeOK, ScannerTypeOK, LoopTypeOK, Cap
<1>1. CASE Receive(s, begin)
  <2>1. s \notin Holding /\ Holding' = Holding \cup {s}
    BY <1>0, <1>1 DEF Receive, Holding, Owing
  <2>2. Cardinality(Holding') = Cardinality(Holding) + 1
    BY <2>1, HoldingFinite, FS_AddElement
  <2>3. Len(c') = Len(c) - 1
    BY <1>0, <1>1 DEF Receive, ReceiveFile
  <2>4. UNCHANGED <<done, dispatched, stale>>
    BY <1>1 DEF Receive
  <2> QED
    BY <1>0, <2>2, <2>3, <2>4, HoldingFinite DEF TokenInv, Pending
<1>2. CASE Signal(s)
  <2>1. s \in Holding /\ Holding' = Holding \ {s}
    BY <1>0, <1>2 DEF Signal, Holding, Owing
  <2>2. Cardinality(Holding') = Cardinality(Holding) - 1
    BY <2>1, HoldingFinite, FS_RemoveElement
  <2>3. done' = done + 1 /\ UNCHANGED <<c, dispatched, stale>>
    BY <1>2 DEF Signal, SendToken
  <2> QED
    BY <1>0, <2>2, <2>3, HoldingFinite DEF TokenInv, Pending
<1>3. ASSUME NEW t \in transfers, SelectResult(t) \/ SelectTimeout(t)
      PROVE  TokenInv'
  <2>1. loop[t.owner] = "select"
    BY <1>3
       DEF SelectResult, SelectTimeout, EndSelect, WorkersInv, TransferInLoop
  <2>2. PICK place \in {"remove", "signal"} :
          \E rest : EndSelect(t, place, rest)
    BY <1>3 DEF SelectResult, SelectTimeout
  <2>3. Holding' = Holding
    BY <1>0, <2>1, <2>2 DEF EndSelect, Holding, Owing
  <2> QED
    BY <2>2, <2>3, TokenQuiet DEF EndSelect
<1>4. CASE \/ RemoveOk(s, remote) \/ RemoveErr(s, remote)
           \/ VerifyGone(s, remote) \/ VerifyPresent(s, remote)
  <2>1. Holding' = Holding
    BY <1>0, <1>4
       DEF RemoveOk, RemoveErr, VerifyGone, VerifyPresent, NextTry, Holding,
           Owing
  <2> QED
    BY <1>4, <2>1, TokenQuiet DEF RemoveOk, RemoveErr, VerifyGone, VerifyPresent
<1>5. CASE Check(s, first) \/ Top(s)
  <2>1. Holding' = Holding
    BY <1>0, <1>5 DEF Check, Top, Holding, Owing
  <2> QED
    BY <1>5, <2>1, TokenQuiet DEF Check, Top
<1> QED
  BY <1>1, <1>2, <1>3, <1>4, <1>5 DEF LoopStep

(* Transfers and producers have no part in it. *)
LEMMA TokenOther ==
  ASSUME TokenInv, UNCHANGED <<scannerVars, loopVars>>
  PROVE  TokenInv'
BY TokenQuiet DEF Holding, scannerVars, loopVars

(* A restart empties everything. *)
LEMMA TokenRestart == Restart => TokenInv'
<1> SUFFICES ASSUME Restart PROVE TokenInv'
  OBVIOUS
<1>1. Holding' = {}
  BY DEF Restart, Holding, Owing
<1>2. Len(c') = 0 /\ done' = 0 /\ dispatched' = 0 /\ stale' = 0
  BY DEF Restart
<1> QED
  BY <1>1, <1>2, FS_EmptySet DEF TokenInv, Pending

-----------------------------------------------------------------------------
(* What the two invariants say together. *)

LEMMA ConservedTokens == WorkersInv /\ TokenInv => TokenConservation
<1> SUFFICES ASSUME WorkersInv, TokenInv PROVE TokenConservation
  OBVIOUS
<1>1. dispatched >= IF scanner = "send" THEN -1 ELSE 0
  BY DEF WorkersInv, WorkersTypeOK, ScannerTypeOK, ScannerState, CountOK
<1> QED
  BY <1>1 DEF TokenConservation, TokenInv

LEMMA SeparateScans == WorkersInv /\ TokenInv => ScanBarrier
<1> SUFFICES ASSUME WorkersInv, TokenInv,
                    scanner \in {"connect", "ready", "stopped", "exited"}
             PROVE  /\ dispatched = 0
                    /\ stale = 0 => c = <<>> /\ done = 0 /\ Holding = {}
  BY DEF ScanBarrier
<1>1. dispatched = 0
  BY DEF WorkersInv, CountOK
<1>2. ASSUME stale = 0 PROVE c = <<>> /\ done = 0 /\ Holding = {}
  <2>1. c \in Seq(Path) /\ Len(c) \in Nat /\ done \in Nat
    BY ScannerAssumption DEF WorkersInv, WorkersTypeOK, ScannerTypeOK, Cap
  <2>2. Len(c) = 0 /\ Cardinality(Holding) = 0 /\ done = 0
    BY <1>1, <1>2, <2>1, HoldingFinite DEF TokenInv, Pending
  <2>3. c = <<>>
    BY <2>1, <2>2
  <2> QED
    BY <2>2, <2>3, HoldingFinite, FS_EmptySet
<1> QED
  BY <1>1, <1>2
=============================================================================
