--------------------------- MODULE UploaderProofs ---------------------------
(***************************************************************************)
(* Theorems about Uploader, for every set of files and objects, every      *)
(* number of workers and every bound on faults, timeouts and restarts, in  *)
(* service mode and in one-time mode.                                      *)
(***************************************************************************)
EXTENDS Uploader, HolderProofs, DeadlockProofs

-----------------------------------------------------------------------------
(* No scan is ever abandoned here. *)
TypeInv == WorkersInv /\ TypeOK /\ stale = 0

LEMMA TypeInit == Init => TypeInv
<1>1. Init => WorkersInv
  BY WorkersInvInit DEF Init
<1> QED
  BY <1>1 DEF Init, TypeInv, TypeOK, WorkersInv, WorkersInit, ScannerInit

(* FolderScanner's steps are SftpScanner's, but for two. *)
LEMMA FolderSteps ==
  ASSUME FolderScannerStep
  PROVE  \/ ScannerStep /\ stale' = stale
         \/ ReadError
         \/ \E p \in todo : SkipFile(p)
BY
   DEF FolderScannerStep, ScannerStep, ScannerConnect, BeginScan, Dispatch, Send,
       ChannelFull, AwaitToken, BlockedSend, TakeToken, EndWalk, Drain,
       RecreateScanner, ExitProcess

LEMMA TypeScanner ==
  ASSUME TypeInv, ScannerAct
  PROVE  TypeInv'
<1>1. ScannerTypeOK /\ CountOK /\ UNCHANGED source
  BY DEF TypeInv, WorkersInv, WorkersTypeOK, ScannerAct, storeVars
<1>2. ScannerTypeOK' /\ CountOK' /\ stale' = stale
  <2>1. CASE ScannerStep /\ stale' = stale
    BY <1>1, <2>1, ScannerTypes
  <2>2. CASE ReadError \/ \E p \in todo : SkipFile(p)
    BY <1>1, <2>2, ScannerAssumption
       DEF ReadError, SkipFile, ScannerTypeOK, CountOK, Cap, ScannerState
  <2> QED
    BY <2>1, <2>2, FolderSteps DEF ScannerAct, ReadError, SkipFile
<1>3. WorkersInv'
  BY <1>2, WorkersInvScanner DEF TypeInv, ScannerAct
<1> QED
  BY <1>2, <1>3 DEF TypeInv, TypeOK, WorkersInv, ScannerAct, ownVars

(* The actions of a transfer. *)
LEMMA TypeTransfer ==
  ASSUME TypeInv, NEW t \in transfers, TransferStep(t)
  PROVE  TypeInv'
<1> USE DEF TypeInv, TypeOK, ownVars
<1>0. /\ WorkersInv /\ StoreTypeOK /\ ObjectTypeOK /\ faults \in 0..MaxFaults
      /\ t \in Transfer /\ t.owner \in Slot /\ t.path \in Path
      /\ \A u \in transfers : u \in Transfer
  BY DEF WorkersInv, WorkersTypeOK, TransferTypeOK, Transfer, BoundTypeOK
<1>1. CASE MkdirOk(t)
  <2> DEFINE next == [t EXCEPT !.pc = "open"]
  <2>1. /\ next \in Transfer /\ next.pc = "open" /\ next.late = t.late
        /\ next.id = t.id /\ next.owner = t.owner /\ next.path = t.path
    BY <1>0 DEF Transfer, TransferState
  <2>2. Becomes(t, next)
    BY <1>1 DEF MkdirOk
  <2> HIDE DEF next
  <2>3. WorkersInv'
    BY <1>0, <1>1, <2>1, <2>2, WorkersInvBecomes
       DEF MkdirOk, StoreTypeOK, ObjectTypeOK, storeVars, objVars, boundVars
  <2> QED
    BY <1>1, <2>1, <2>2, <2>3 DEF MkdirOk, Becomes, scannerVars, WorkersInv
<1>2. CASE OpenOk(t)
  <2> DEFINE next == [id |-> t.id, owner |-> t.owner, path |-> t.path,
                      pc |-> "create", ver |-> source[t.path], late |-> t.late]
  <2>1. source[t.path] \in {Absent} \cup Version
    BY <1>0 DEF StoreTypeOK
  <2>2. /\ next \in Transfer /\ next.pc = "create" /\ next.late = t.late
        /\ next.id = t.id /\ next.owner = t.owner /\ next.path = t.path
    BY <1>0, <2>1 DEF Transfer, TransferState
  <2>3. Becomes(t, next)
    BY <1>2 DEF OpenOk
  <2> HIDE DEF next
  <2>4. WorkersInv'
    BY <1>0, <1>2, <2>2, <2>3, WorkersInvBecomes
       DEF OpenOk, StoreTypeOK, ObjectTypeOK, storeVars, objVars, boundVars
  <2> QED
    BY <1>2, <2>2, <2>3, <2>4 DEF OpenOk, Becomes, scannerVars, WorkersInv
<1>3. CASE MkdirErr(t) \/ OpenErr(t) \/ CopyErr(t)
  <2>1. WorkersInv'
    BY <1>0, <1>3, WorkersInvCondemn
       DEF MkdirErr, OpenErr, CopyErr, Closed
  <2>2. PICK next : /\ next.pc = "ko"
                    /\ Becomes(t, next) \/ transfers' = transfers \ {t}
    BY <1>0, <1>3, ReportBecomes
       DEF MkdirErr, OpenErr, CopyErr, Condemn, TransferState
  <2> QED
    BY <1>3, <2>1, <2>2
       DEF MkdirErr, OpenErr, CopyErr, Condemn, Becomes, scannerVars, WorkersInv
<1>4. CASE CreateOk(t)
  <2> DEFINE created == [t EXCEPT !.pc = IF t.late THEN "abort" ELSE "copy"]
             new == [u \in transfers |->
                       IF u = t THEN created ELSE Truncated(u, t.path)]
  <2>1. /\ created \in Transfer /\ created.pc # "rename" /\ created.late = t.late
        /\ created.id = t.id /\ created.owner = t.owner /\ created.path = t.path
    BY <1>0 DEF Transfer, TransferState
  <2>2. ASSUME NEW u \in transfers
        PROVE  /\ Truncated(u, t.path) \in Transfer
               /\ Truncated(u, t.path).pc = u.pc
               /\ Truncated(u, t.path).late = u.late
               /\ Truncated(u, t.path).id = u.id
               /\ Truncated(u, t.path).owner = u.owner
               /\ Truncated(u, t.path).path = u.path
    BY <1>0 DEF Truncated, Transfer
  <2> HIDE DEF created
  <2>3. /\ new \in [transfers -> Transfer]
        /\ \A u \in transfers :
             /\ new[u].id = u.id /\ new[u].owner = u.owner
             /\ new[u].path = u.path /\ new[u].late = u.late
             /\ new[u].pc # "rename"
    BY <2>1, <2>2
  <2>4. transfers' = {new[u] : u \in transfers \ {}}
    <3>1. transfers' = {Truncated(u, t.path) : u \in transfers \ {t}}
                         \cup {created}
      BY <1>4 DEF CreateOk, created
    <3>2. {new[u] : u \in transfers \ {}} =
            {Truncated(u, t.path) : u \in transfers \ {t}} \cup {created}
      OBVIOUS
    <3> QED
      BY <3>1, <3>2
  <2>5. StoreTypeOK' /\ ObjectTypeOK' /\ torn' \subseteq Path
    BY <1>0, <1>4 DEF CreateOk, StoreTypeOK, ObjectTypeOK, objVars
  <2> HIDE DEF new
  <2>6. UNCHANGED <<scannerVars, objVars, loopVars, boundVars>>
    BY <1>4 DEF CreateOk
  <2>7. WorkersInv'
    BY <1>0, <2>3, <2>4, <2>5, <2>6, WorkersInvTransfer DEF objVars, boundVars
  <2> QED
    <3>1. panicked' = panicked
      BY <1>4 DEF CreateOk
    <3>2. \A u \in transfers' : u.pc # "rename"
      BY <2>3, <2>4
    <3> QED
      BY <2>5, <2>6, <2>7, <3>1, <3>2 DEF scannerVars, WorkersInv
<1>5. CASE CreateErr(t)
  <2>1. Becomes(t, t)
    BY <1>5 DEF CreateErr, Becomes
  <2>2. WorkersInv'
    BY <1>0, <1>5, <2>1, FaultsCounted, WorkersInvBecomes
       DEF CreateErr, Closed, StoreTypeOK, ObjectTypeOK, storeVars, objVars
  <2> QED
    BY <1>5, <2>2 DEF CreateErr, scannerVars, WorkersInv
<1>6. CASE CopyOk(t)
  <2>1. StoreTypeOK' /\ ObjectTypeOK'
    BY <1>0, <1>6 DEF CopyOk, StoreTypeOK, ObjectTypeOK, objVars, Transfer
  <2>2. WorkersInv'
    BY <1>0, <1>6, <2>1, WorkersInvReport
       DEF CopyOk, TransferState, objVars, boundVars
  <2>3. PICK next : /\ next.pc = "ok"
                    /\ Becomes(t, next) \/ transfers' = transfers \ {t}
    BY <1>0, <1>6, ReportBecomes DEF CopyOk, TransferState
  <2> QED
    BY <1>6, <2>2, <2>3 DEF CopyOk, Becomes, scannerVars, WorkersInv
<1> QED
  BY <1>1, <1>2, <1>3, <1>4, <1>5, <1>6 DEF TransferStep

(* The other actions. *)
LEMMA TypeOther ==
  ASSUME TypeInv,
         \/ \E s \in Slot : ManagerAct(s) \/ LoopAct(s)
         \/ (\E t \in transfers : Expire(t)) /\ UNCHANGED ownVars
         \/ (\E p \in Path : Produce(p)) /\ UNCHANGED ownVars
         \/ Restart /\ panicked' = FALSE /\ UNCHANGED torn
         \/ UNCHANGED vars
  PROVE  TypeInv'
<1> USE DEF TypeInv, TypeOK, WorkersInv, ownVars, scannerVars
<1>0. \A t \in transfers : t \in Transfer
  BY DEF WorkersTypeOK, TransferTypeOK
<1>1. ASSUME NEW s \in Slot, ManagerAct(s) PROVE TypeInv'
  BY <1>1, WorkersInvManager DEF ManagerAct, ManagerStep, Start, Leave
<1>2. ASSUME NEW s \in Slot, LoopAct(s) PROVE TypeInv'
  <2>0. Top(s) \/ LoopStep(s, "top", "mkdir", FALSE)
    BY <1>2 DEF LoopAct
  <2>1. WorkersInv'
    BY <2>0, WorkersInvLoop DEF TransferState
  <2>2. UNCHANGED <<stale, panicked, torn>>
    BY <1>2
       DEF LoopAct, LoopStep, Receive, SelectResult, SelectTimeout, EndSelect,
           RemoveOk, RemoveErr, VerifyGone, VerifyPresent, Signal, Check, Top
  <2>3. \A t \in transfers' : t.pc # "rename"
    <3>1. CASE Receive(s, "mkdir")
      BY <3>1 DEF Receive
    <3>2. ASSUME NEW t \in transfers, SelectResult(t)
          PROVE  transfers' \subseteq transfers
      BY <3>2 DEF SelectResult, EndSelect
    <3>3. ASSUME NEW t \in transfers, SelectTimeout(t), NEW u \in transfers'
          PROVE  u \in transfers \/ u.pc = t.pc
      <4>1. u \in transfers \/ u = [t EXCEPT !.id = timeouts]
        BY <3>3 DEF SelectTimeout, EndSelect, LeftBehind
      <4> QED
        BY <1>0, <4>1 DEF Transfer
    <3>4. CASE \/ RemoveOk(s, FALSE) \/ RemoveErr(s, FALSE)
               \/ VerifyGone(s, FALSE) \/ VerifyPresent(s, FALSE)
               \/ Signal(s) \/ Check(s, "top") \/ Top(s)
      BY <3>4
         DEF RemoveOk, RemoveErr, VerifyGone, VerifyPresent, Signal, Check, Top
    <3> QED
      BY <2>0, <3>1, <3>2, <3>3, <3>4 DEF LoopStep
  <2> QED
    BY <2>1, <2>2, <2>3
<1>3. ASSUME NEW t \in transfers, Expire(t), UNCHANGED ownVars PROVE TypeInv'
  <2> DEFINE u == [t EXCEPT !.late = TRUE]
  <2>1. u.pc = t.pc /\ transfers' = (transfers \ {t}) \cup {u}
    BY <1>0, <1>3 DEF Expire, Becomes, Transfer
  <2>2. WorkersInv'
    BY <1>3, WorkersInvExpire
  <2> HIDE DEF u
  <2> QED
    BY <1>3, <2>1, <2>2 DEF Expire
<1>4. ASSUME NEW p \in Path, Produce(p), UNCHANGED ownVars PROVE TypeInv'
  BY <1>4, WorkersInvProduce DEF Produce
<1>5. CASE Restart /\ panicked' = FALSE /\ UNCHANGED torn
  BY <1>5, WorkersInvRestart DEF Restart
<1>6. CASE UNCHANGED vars
  BY <1>6, WorkersInvUnchanged DEF vars, workersVars
<1> QED
  BY <1>1, <1>2, <1>3, <1>4, <1>5, <1>6

LEMMA TypeStep == TypeInv /\ [Next]_vars => TypeInv'
BY TypeScanner, TypeTransfer, TypeOther DEF Next, TransferAct

(* Every variable keeps its type: channels and counters stay within their  *)
(* capacities and bounds, and a loop that owes a token has a file in hand. *)
THEOREM TypeCorrect == Spec => []TypeOK
<1>1. TypeInv => TypeOK
  BY DEF TypeInv
<1> QED
  BY <1>1, TypeInit, TypeStep, PTL DEF Spec

-----------------------------------------------------------------------------
(* Tokens and holders. *)

HeldInv == TokenInv /\ HolderInv

LEMMA HeldScanner ==
  ASSUME TypeInv, HeldInv, ScannerAct
  PROVE  HeldInv'
<1>0. WorkersInv /\ ScannerTypeOK /\ UNCHANGED loopVars
  BY DEF TypeInv, WorkersInv, WorkersTypeOK, ScannerAct
<1>1. CASE ScannerStep
  BY <1>0, <1>1, TokenScanner, HolderScanner DEF HeldInv
<1>2. CASE ReadError \/ \E p \in todo : SkipFile(p)
  <2>1. /\ UNCHANGED <<c, done, dispatched, stale, loop, fo>>
        /\ todo' \subseteq todo
    BY <1>0, <1>2 DEF ReadError, SkipFile, loopVars
  <2> QED
    BY <2>1, TokenQuiet, HolderQuiet DEF HeldInv, Holding
<1> QED
  BY <1>1, <1>2, FolderSteps DEF ScannerAct

LEMMA HeldStep == TypeInv /\ HeldInv /\ [Next]_vars => HeldInv'
<1> SUFFICES ASSUME TypeInv, HeldInv, [Next]_vars PROVE HeldInv'
  OBVIOUS
<1>0. WorkersInv /\ TokenInv /\ HolderInv
  BY DEF TypeInv, HeldInv
<1>1. CASE ScannerAct
  BY <1>1, HeldScanner
<1>2. ASSUME NEW s \in Slot, ManagerAct(s) \/ LoopAct(s) PROVE HeldInv'
  BY <1>0, <1>2, TokenManager, TokenLoop, HolderManager, HolderLoop
     DEF ManagerAct, LoopAct, TransferState, HeldInv
<1>3. ASSUME NEW t \in transfers, TransferAct(t) \/ Expire(t) PROVE HeldInv'
  <2>1. UNCHANGED <<scannerVars, loopVars>>
    BY <1>3
       DEF TransferAct, TransferStep, MkdirOk, MkdirErr, OpenOk, OpenErr,
           CreateOk, CreateErr, CopyOk, CopyErr, Condemn, Expire
  <2> QED
    BY <1>0, <2>1, TokenOther, HolderOther DEF HeldInv
<1>4. CASE (\E p \in Path : Produce(p)) \/ UNCHANGED vars
  BY <1>0, <1>4, TokenOther, HolderOther
     DEF Produce, vars, workersVars, HeldInv
<1>5. CASE Restart
  BY <1>5, TokenRestart, HolderRestart DEF HeldInv
<1> QED
  BY <1>1, <1>2, <1>3, <1>4, <1>5 DEF Next

LEMMA HeldInit == Init => HeldInv
BY TokenInit, HolderInit DEF Init, HeldInv

(* No token is lost or sent twice, and each scan waits for its files: no   *)
(* read error disturbs the count.                                          *)
THEOREM FilesCounted == Spec => []Counted
<1>1. TypeInv /\ HeldInv => Counted
  <2> SUFFICES ASSUME TypeInv, TokenInv PROVE Counted
    BY DEF HeldInv
  <2>1. stale = 0 /\ dispatched \in Int /\ Pending = dispatched + stale
    BY DEF TypeInv, WorkersInv, WorkersTypeOK, ScannerTypeOK, TokenInv
  <2> QED
    BY <2>1 DEF TypeInv, WorkersInv, CountOK, Counted
<1> QED
  BY <1>1, TypeInit, TypeStep, HeldInit, HeldStep, PTL DEF Spec

(* No two loops ever wait for uploads of the same file. *)
THEOREM UploadsSeparate == Spec => []OneUpload
<1>1. TypeInv /\ HeldInv => OneUpload
  <2> SUFFICES ASSUME TypeInv, HeldInv, NEW t \in transfers, NEW u \in transfers,
                      t.id = 0, u.id = 0, t.path = u.path
               PROVE  t = u
    BY DEF OneUpload
  <2>1. TransferInLoop /\ UniquelyHeld /\ t.owner \in Slot /\ u.owner \in Slot
    BY
       DEF TypeInv, WorkersInv, WorkersTypeOK, TransferTypeOK, Transfer, HeldInv,
           HolderInv
  <2>2. t.owner \in Holding /\ u.owner \in Holding /\ fo[t.owner] = fo[u.owner]
    BY <2>1 DEF TransferInLoop, Holding, Owing
  <2> QED
    BY <2>1, <2>2 DEF UniquelyHeld, TransferInLoop
<1> QED
  BY <1>1, TypeInit, TypeStep, HeldInit, HeldStep, PTL DEF Spec

-----------------------------------------------------------------------------
(* When all wait for each other. *)

LEMMA CrewStep == TypeInv /\ HeldInv /\ CrewInv /\ [Next]_vars => CrewInv'
<1> SUFFICES ASSUME TypeInv, HeldInv, CrewInv, [Next]_vars PROVE CrewInv'
  OBVIOUS
<1>0. WorkersInv /\ TokenInv /\ ObjectTypeOK
  BY DEF TypeInv, WorkersInv, WorkersTypeOK, HeldInv
<1>1. CASE ScannerAct
  <2>1. CASE ScannerStep
    BY <1>0, <1>1, <2>1, CrewScannerStep DEF ScannerAct
  <2>2. CASE ReadError \/ \E p \in todo : SkipFile(p)
    BY <1>0, <1>1, <2>2, CrewScanner DEF ScannerAct, ReadError, SkipFile
  <2> QED
    BY <1>1, <2>1, <2>2, FolderSteps DEF ScannerAct
<1>2. ASSUME NEW s \in Slot, ManagerAct(s) \/ LoopAct(s) PROVE CrewInv'
  BY <1>0, <1>2, CrewManager, CrewLoop DEF ManagerAct, LoopAct, TransferState
<1>3. ASSUME NEW t \in transfers, TransferAct(t) PROVE CrewInv'
  <2>1. /\ UNCHANGED <<scannerVars, sup, loopVars>>
        /\ \A s \in Slot : to_exit[s] => to_exit'[s]
    BY <1>0, <1>3
       DEF TransferAct, TransferStep, MkdirOk, MkdirErr, OpenOk, OpenErr, CreateOk,
           CreateErr, CopyOk, CopyErr, Condemn, objVars, ObjectTypeOK
  <2>2. /\ {"ok", "ko"} \subseteq TransferState
        /\ \A u \in transfers : u \in Transfer
    BY DEF TypeInv, WorkersInv, WorkersTypeOK, TransferTypeOK, TransferState
  <2>3. CASE CreateOk(t)
    <3> DEFINE created == [t EXCEPT !.pc = IF t.late THEN "abort" ELSE "copy"]
    <3>1. created.id = t.id /\ created.owner = t.owner
      BY <2>2 DEF Transfer
    <3>2. \A u \in transfers :
            /\ Truncated(u, t.path).id = u.id
            /\ Truncated(u, t.path).owner = u.owner
      BY <2>2 DEF Truncated, Transfer
    <3>3. transfers' = {Truncated(u, t.path) : u \in transfers \ {t}}
                         \cup {created}
      BY <2>3 DEF CreateOk
    <3> HIDE DEF created
    <3>4. ASSUME NEW v \in transfers, v.id = 0
          PROVE  \E u \in transfers' : u.id = 0 /\ u.owner = v.owner
      <4>1. CASE v = t
        BY <1>3, <3>1, <3>3, <3>4, <4>1
      <4>2. CASE v # t
        <5>1. Truncated(v, t.path) \in transfers'
          BY <3>3, <3>4, <4>2
        <5> QED
          BY <3>2, <3>4, <5>1
      <4> QED
        BY <4>1, <4>2
    <3> QED
      BY <1>0, <2>1, <3>4, CrewOther
  <2>4. CASE ~CreateOk(t)
    <3>1. \/ \E next : next.id = t.id /\ next.owner = t.owner /\ Becomes(t, next)
          \/ \E result \in TransferState : Report(t, result)
      <4>1. CASE MkdirOk(t)
        <5>1. /\ [t EXCEPT !.pc = "open"].id = t.id
              /\ [t EXCEPT !.pc = "open"].owner = t.owner
          BY <2>2 DEF Transfer
        <5> QED
          BY <4>1, <5>1 DEF MkdirOk
      <4>2. CASE OpenOk(t)
        BY <4>2 DEF OpenOk
      <4>3. CASE MkdirErr(t) \/ OpenErr(t) \/ CopyOk(t) \/ CopyErr(t)
        BY <2>2, <4>3 DEF MkdirErr, OpenErr, CopyOk, CopyErr, Condemn
      <4>4. CASE CreateErr(t)
        BY <4>4 DEF CreateErr, Becomes
      <4> QED
        BY <1>3, <2>4, <4>1, <4>2, <4>3, <4>4 DEF TransferAct, TransferStep
    <3> QED
      BY <1>0, <2>1, <3>1, StillWaitedFor, CrewOther
  <2> QED
    BY <2>3, <2>4
<1>4. ASSUME NEW t \in transfers, Expire(t) PROVE CrewInv'
  BY <1>0, <1>4, CrewExpire
<1>5. CASE (\E p \in Path : Produce(p)) \/ UNCHANGED vars
  BY <1>0, <1>5, CrewOther DEF Produce, vars, workersVars, objVars
<1>6. CASE Restart
  BY <1>6, CrewRestart
<1> QED
  BY <1>1, <1>2, <1>3, <1>4, <1>5, <1>6 DEF Next

LEMMA WalkBoundStep ==
  ASSUME IsFiniteSet(Path), TypeInv, WalkBound, [Next]_vars
  PROVE  WalkBound'
<1>0. ScannerTypeOK /\ CountOK
  BY DEF TypeInv, WorkersInv, WorkersTypeOK
<1>1. CASE ScannerAct
  <2>1. CASE ScannerStep
    BY <1>0, <2>1, WalkBoundScanner
  <2>2. CASE ReadError
    BY <2>2 DEF ReadError, WalkBound
  <2>3. ASSUME NEW p \in todo, SkipFile(p) PROVE WalkBound'
    <3>1. Cardinality(todo') = Cardinality(todo) - 1
      BY <1>0, <2>3, TodoFinite DEF SkipFile
    <3>2. /\ scanner = "walk" /\ UNCHANGED <<scanner, dispatched>>
          /\ Cardinality(todo) \in Nat /\ Cardinality(Path) \in Nat
          /\ dispatched \in Int
      BY <1>0, <2>3, TodoFinite DEF SkipFile, ScannerTypeOK
    <3> QED
      BY <3>1, <3>2 DEF WalkBound
  <2> QED
    BY <1>1, <2>1, <2>2, <2>3, FolderSteps DEF ScannerAct
<1>2. CASE Restart
  BY <1>2 DEF Restart, WalkBound
<1>3. CASE ~ScannerAct /\ ~Restart
  <2>1. UNCHANGED <<scanner, todo, dispatched>>
    BY <1>3
       DEF Next, ManagerAct, LoopAct, TransferAct, ManagerStep, LoopStep, Start,
           Leave, Top, Receive, SelectResult, SelectTimeout, EndSelect, RemoveOk,
           RemoveErr, VerifyGone, VerifyPresent, Signal, Check, TransferStep,
           MkdirOk, MkdirErr, OpenOk, OpenErr, CreateOk, CreateErr, CopyOk,
           CopyErr, Condemn, Expire, Produce, vars, workersVars, scannerVars
  <2> QED
    BY <2>1, WalkBoundOther
<1> QED
  BY <1>1, <1>2, <1>3

LEMMA CrewInvInit == Init => CrewInv /\ WalkBound
BY CrewInit DEF Init, WorkersInit, ScannerInit, WalkBound

(* A one-time run with its workers is never stuck, whatever the number of  *)
(* files.                                                                  *)
THEOREM OneTimeStuckOnlyWhenLost == Spec => []StuckOnlyWhenLost
<1>1. TypeInv /\ HeldInv /\ CrewInv => StuckOnlyWhenLost
  BY NotStuckWithWorkers DEF TypeInv, HeldInv
<1> QED
  BY <1>1, TypeInit, TypeStep, HeldInit, HeldStep, CrewInvInit, CrewStep, PTL
     DEF Spec

(* A service whose folder has fewer than 5 * Worker + 2 files is never     *)
(* stuck: the folder's scanner abandons none (stale stays 0).              *)
THEOREM ServiceStuckOnlyWhenLong ==
  ASSUME IsFiniteSet(Path)
  PROVE  Spec => []StuckOnlyWhenLong
<1>1. TypeInv /\ HeldInv /\ CrewInv /\ WalkBound => StuckOnlyWhenLong
  BY NotStuckWhenShort DEF TypeInv, HeldInv
<1>2. TypeInv /\ WalkBound /\ [Next]_vars => WalkBound'
  BY WalkBoundStep
<1> QED
  BY <1>1, <1>2, TypeInit, TypeStep, HeldInit, HeldStep, CrewInvInit, CrewStep,
     PTL DEF Spec

-----------------------------------------------------------------------------
(* That an upload is lost only when a transfer left behind has truncated   *)
(* its file.  The source is removed after a report of success, and what    *)
(* was reported stays whole because no second loop can be uploading the    *)
(* same file: HolderInv is what the argument rests on.                     *)

(* The source holds the last version produced or nothing. *)
SourceIsLatest == \A p \in Path : source[p] \in {Absent, latest[p]}

(* What a transfer has opened, and what is left of it once it copies.  Only*)
(* a transfer left behind can truncate the file of one that is waited for. *)
OpenedWhole ==
  \A t \in transfers :
    /\ t.pc \in {"create", "copy"} => t.ver # Absent
    /\ t.pc = "create" => t.ver # Partial
    /\ t.pc = "copy" /\ t.ver = Partial => t.id > 0 \/ t.path \in torn

(* A transfer that is waited for works on a file that is still there. *)
SourceKept ==
  \A t \in transfers :
    t.id = 0 /\ t.pc \in {"create", "copy", "ok"} => source[t.path] # Absent

(* A report of success, and a removal that follows it, are for a file that *)
(* is whole at the target.                                                 *)
WholeBeforeRemoval ==
  /\ \A t \in transfers :
       t.pc = "ok" => t.id = 0 /\ (t.path \in torn \/ target[t.path] \in Version)
  /\ \A s \in Slot :
       loop[s] \in {"remove", "verify"} =>
         fo[s] \in torn \/ target[fo[s]] \in Version

DeliveryInv ==
  /\ SourceIsLatest
  /\ OpenedWhole
  /\ SourceKept
  /\ WholeBeforeRemoval
  /\ LostOnlyWhenTorn

Known == TypeInv /\ HeldInv

LEMMA DeliveryInit == Init => DeliveryInv
BY DEF Init, WorkersInit, DeliveryInv, SourceIsLatest, OpenedWhole, SourceKept,
       WholeBeforeRemoval, LostOnlyWhenTorn, Delivered, Absent

(* A file that a transfer is waited for with is held by its loop alone. *)
LEMMA Alone ==
  ASSUME Known, NEW t \in transfers, t.id = 0
  PROVE  /\ t.owner \in Slot /\ loop[t.owner] = "select" /\ fo[t.owner] = t.path
         /\ \A s \in Holding : fo[s] = t.path => s = t.owner
         /\ \A u \in transfers : u.id = 0 /\ u.path = t.path => u = t
<1>1. /\ TransferInLoop /\ UniquelyHeld
      /\ \A u \in transfers : u.owner \in Slot
  BY DEF Known, TypeInv, WorkersInv, WorkersTypeOK, TransferTypeOK, Transfer,
         HeldInv, HolderInv
<1>2. \A u \in transfers :
        u.id = 0 => u.owner \in Holding /\ fo[u.owner] = u.path
  BY <1>1 DEF TransferInLoop, Holding, Owing
<1> QED
  BY <1>1, <1>2 DEF UniquelyHeld, TransferInLoop

(* The steps that change neither the folders nor removeSrc's place, and    *)
(* take no transfer to "create", "copy" or "ok".                           *)
LEMMA DeliveryQuiet ==
  ASSUME DeliveryInv, UNCHANGED <<storeVars, torn, fo>>,
         \A u \in transfers' :
           \/ u.pc \notin {"create", "copy", "ok"}
           \/ \E t \in transfers :
                /\ t.pc = u.pc /\ t.ver = u.ver /\ t.path = u.path
                /\ u.id = t.id \/ (u.id \in 1..MaxTimeouts /\ u.pc # "ok"),
         \A s \in Slot : loop'[s] \in {"remove", "verify"} =>
           loop[s] \in {"remove", "verify"}
  PROVE  DeliveryInv'
BY DEF DeliveryInv, SourceIsLatest, OpenedWhole, SourceKept,
       WholeBeforeRemoval, LostOnlyWhenTorn, Delivered, storeVars

LEMMA DeliveryLoop ==
  ASSUME MaxVersion = 1, NEW s \in Slot, Known, DeliveryInv,
         ManagerAct(s) \/ LoopAct(s)
  PROVE  DeliveryInv'
<1> USE DEF storeVars, loopVars, ownVars
<1>0. /\ LoopTypeOK /\ StoreTypeOK /\ TransferInLoop /\ UNCHANGED ownVars
      /\ \A t \in transfers : t \in Transfer
  BY DEF Known, TypeInv, WorkersInv, WorkersTypeOK, TransferTypeOK, ManagerAct,
         LoopAct
<1>1. CASE Start(s, "top") \/ Leave(s) \/ Check(s, "top") \/ Top(s)
  BY <1>0, <1>1, DeliveryQuiet DEF Start, Leave, Check, Top, LoopTypeOK
<1>2. CASE Receive(s, "mkdir")
  BY <1>0, <1>2
     DEF Receive, DeliveryInv, SourceIsLatest, OpenedWhole, SourceKept,
         WholeBeforeRemoval, LostOnlyWhenTorn, Delivered, LoopTypeOK
<1>3. ASSUME NEW t \in transfers, SelectResult(t) PROVE DeliveryInv'
  <2>1. /\ transfers' \subseteq transfers /\ t.id = 0 /\ t.owner \in Slot
        /\ t.path = fo[t.owner] /\ UNCHANGED <<storeVars, fo>>
    BY <1>0, <1>3 DEF SelectResult, EndSelect, TransferInLoop, Transfer
  <2>2. CASE t.pc = "ok"
    <3>1. loop' = [loop EXCEPT ![t.owner] = "remove"]
      BY <1>3, <2>2 DEF SelectResult, EndSelect
    <3> QED
      BY <1>0, <2>1, <2>2, <3>1
         DEF DeliveryInv, SourceIsLatest, OpenedWhole, SourceKept,
             WholeBeforeRemoval, LostOnlyWhenTorn, Delivered, LoopTypeOK
  <2>3. CASE t.pc # "ok"
    <3>1. loop' = [loop EXCEPT ![t.owner] = "signal"]
      BY <1>3, <2>3 DEF SelectResult, EndSelect
    <3> QED
      BY <1>0, <2>1, <3>1, DeliveryQuiet DEF LoopTypeOK
  <2> QED
    BY <2>2, <2>3
<1>4. ASSUME NEW t \in transfers, SelectTimeout(t) PROVE DeliveryInv'
  <2>1. /\ loop' = [loop EXCEPT ![t.owner] = "signal"]
        /\ UNCHANGED <<storeVars, fo>>
    BY <1>4 DEF SelectTimeout, EndSelect
  <2>2. ASSUME NEW u \in transfers'
        PROVE  u \in transfers \/ (t.pc # "ok" /\ u = [t EXCEPT !.id = timeouts])
    BY <1>4, <2>2 DEF SelectTimeout, EndSelect, LeftBehind
  <2>3. timeouts \in 1..MaxTimeouts
    BY <1>4
       DEF SelectTimeout, Known, TypeInv, WorkersInv, WorkersTypeOK,
           BoundTypeOK, TimeoutCounted
  <2>4. ASSUME NEW u, u = [t EXCEPT !.id = timeouts]
        PROVE  u.pc = t.pc /\ u.ver = t.ver /\ u.path = t.path /\ u.id = timeouts
    BY <1>0, <2>4 DEF Transfer
  <2> QED
    BY <1>0, <2>1, <2>2, <2>3, <2>4, DeliveryQuiet DEF LoopTypeOK
<1>5. CASE RemoveOk(s, FALSE)
  <2>1. /\ fo[s] \in Path
        /\ fo[s] \in torn \/ target[fo[s]] \in Version
        /\ s \in Holding /\ loop[s] # "select"
        /\ UNCHANGED <<target, latest, transfers, torn, fo>>
    BY <1>0, <1>5
       DEF RemoveOk, LoopTypeOK, Owing, Holding, DeliveryInv, WholeBeforeRemoval
  <2>2. \A p \in Path : source'[p] = IF p = fo[s] THEN Absent ELSE source[p]
    BY <1>0, <1>5, <2>1 DEF RemoveOk, StoreTypeOK
  <2>3. \A t \in transfers : t.id = 0 => t.path # fo[s]
    BY <2>1, Alone
  <2>4. SourceIsLatest' /\ OpenedWhole'
    BY <1>0, <2>1, <2>2 DEF DeliveryInv, SourceIsLatest, OpenedWhole
  <2>5. SourceKept'
    BY <1>0, <2>1, <2>2, <2>3 DEF DeliveryInv, SourceKept, Transfer
  <2>6. WholeBeforeRemoval'
    BY <1>0, <1>5, <2>1
       DEF RemoveOk, DeliveryInv, WholeBeforeRemoval, LoopTypeOK
  <2>7. LostOnlyWhenTorn'
    BY <1>0, <2>1, <2>2
       DEF DeliveryInv, LostOnlyWhenTorn, Delivered, StoreTypeOK, Version,
           Absent
  <2> QED
    BY <2>4, <2>5, <2>6, <2>7 DEF DeliveryInv
<1>6. CASE RemoveErr(s, FALSE) \/ VerifyGone(s, FALSE) \/ VerifyPresent(s, FALSE)
  BY <1>0, <1>6, DeliveryQuiet
     DEF RemoveErr, VerifyGone, VerifyPresent, NextTry, LoopTypeOK
<1>7. CASE Signal(s)
  BY <1>0, <1>7
     DEF Signal, DeliveryInv, SourceIsLatest, OpenedWhole, SourceKept,
         WholeBeforeRemoval, LostOnlyWhenTorn, Delivered, LoopTypeOK
<1> QED
  BY <1>1, <1>2, <1>3, <1>4, <1>5, <1>6, <1>7
     DEF ManagerAct, LoopAct, ManagerStep, LoopStep

LEMMA DeliveryTransfer ==
  ASSUME MaxVersion = 1, Known, DeliveryInv, NEW t \in transfers, TransferStep(t)
  PROVE  DeliveryInv'
<1> USE DEF storeVars, loopVars, ownVars
<1>0. /\ LoopTypeOK /\ StoreTypeOK /\ t \in Transfer /\ t.path \in Path
      /\ t.id \in Nat /\ Version = {1}
      /\ \A u \in transfers : u \in Transfer
      /\ \A s \in Slot : loop[s] \in {"remove", "verify"} => s \in Holding
  BY DEF Known, TypeInv, WorkersInv, WorkersTypeOK, TransferTypeOK, Transfer,
         Version, Holding, Owing
<1>1. CASE MkdirOk(t)
  <2> DEFINE next == [t EXCEPT !.pc = "open"]
  <2>1. next.pc = "open"
    BY <1>0 DEF Transfer
  <2>2. transfers' = (transfers \ {t}) \cup {next}
    BY <1>1 DEF MkdirOk, Becomes
  <2> HIDE DEF next
  <2> QED
    BY <1>1, <2>1, <2>2, DeliveryQuiet DEF MkdirOk
<1>2. CASE OpenOk(t)
  <2> DEFINE next == [id |-> t.id, owner |-> t.owner, path |-> t.path,
                      pc |-> "create", ver |-> source[t.path], late |-> t.late]
  <2>1. /\ next.id = t.id /\ next.path = t.path /\ next.pc = "create"
        /\ next.ver = source[t.path]
    OBVIOUS
  <2>2. source[t.path] # Absent /\ source[t.path] # Partial
    BY <1>0, <1>2 DEF OpenOk, StoreTypeOK, Partial, Absent
  <2>3. /\ transfers' = (transfers \ {t}) \cup {next}
        /\ UNCHANGED <<storeVars, torn, loop, fo>>
    BY <1>2 DEF OpenOk, Becomes
  <2> HIDE DEF next
  <2> QED
    BY <2>1, <2>2, <2>3
       DEF DeliveryInv, SourceIsLatest, OpenedWhole, SourceKept,
           WholeBeforeRemoval, LostOnlyWhenTorn, Delivered
<1>3. CASE MkdirErr(t) \/ OpenErr(t) \/ CopyErr(t)
  <2>1. PICK next : /\ next.pc = "ko"
                    /\ Becomes(t, next) \/ transfers' = transfers \ {t}
    BY <1>0, <1>3, ReportBecomes
       DEF MkdirErr, OpenErr, CopyErr, Condemn, TransferState
  <2> QED
    BY <1>3, <2>1, DeliveryQuiet
       DEF MkdirErr, OpenErr, CopyErr, Condemn, Becomes
<1>4. CASE CreateErr(t)
  BY <1>4, DeliveryQuiet DEF CreateErr
<1>5. CASE CreateOk(t)
  <2>1. /\ t.pc = "create" /\ t.ver # Absent /\ t.ver # Partial
        /\ UNCHANGED <<source, latest, loop, fo>> /\ torn \subseteq torn'
        /\ t.id = 0 \/ t.path \in torn'
    BY <1>0, <1>5 DEF CreateOk, DeliveryInv, OpenedWhole
  <2>2. \A p \in Path : target'[p] = IF p = t.path THEN Partial ELSE target[p]
    BY <1>0, <1>5 DEF CreateOk, StoreTypeOK
  (* If t is waited for, nobody else's report or removal is for its file. *)
  <2>3. ASSUME t.id = 0
        PROVE  /\ \A u \in transfers : u.id = 0 /\ u.path = t.path => u = t
               /\ \A s \in Slot : loop[s] \in {"remove", "verify"} => fo[s] # t.path
               /\ source[t.path] # Absent
    <3>1. SourceKept
      BY DEF DeliveryInv
    <3> QED
      BY <1>0, <2>1, <2>3, <3>1, Alone DEF SourceKept
  <2>4. ASSUME NEW u \in transfers'
        PROVE  \/ /\ u.pc = "copy" /\ u.ver = t.ver /\ u.path = t.path
                  /\ u.id = t.id
               \/ u.pc = "abort"
               \/ \E v \in transfers \ {t} :
                    /\ u.pc = v.pc /\ u.path = v.path /\ u.id = v.id
                    /\ \/ u.ver = v.ver
                       \/ u.ver = Partial /\ v.pc = "copy" /\ v.path = t.path
    <3> DEFINE created == [t EXCEPT !.pc = IF t.late THEN "abort" ELSE "copy"]
    <3>1. CASE u = created
      BY <1>0, <3>1 DEF Transfer
    <3>2. CASE u # created
      <4>1. PICK v \in transfers \ {t} : u = Truncated(v, t.path)
        BY <1>5, <3>2 DEF CreateOk
      <4> QED
        BY <1>0, <4>1 DEF Truncated, Transfer
    <3> QED
      BY <3>1, <3>2
  <2>5. SourceIsLatest' /\ SourceKept'
    BY <2>1, <2>3, <2>4 DEF DeliveryInv, SourceIsLatest, SourceKept
  <2>6. OpenedWhole'
    <3> SUFFICES ASSUME NEW u \in transfers'
                 PROVE  /\ u.pc \in {"create", "copy"} => u.ver # Absent
                        /\ u.pc = "create" => u.ver # Partial
                        /\ u.pc = "copy" /\ u.ver = Partial =>
                             u.id > 0 \/ u.path \in torn'
      BY DEF OpenedWhole
    <3>1. CASE u.pc = "copy" /\ u.ver = t.ver /\ u.path = t.path /\ u.id = t.id
      BY <2>1, <3>1
    <3>2. ASSUME NEW v \in transfers \ {t},
                 u.pc = v.pc, u.path = v.path, u.id = v.id,
                 \/ u.ver = v.ver
                 \/ u.ver = Partial /\ v.pc = "copy" /\ v.path = t.path
          PROVE  /\ u.pc \in {"create", "copy"} => u.ver # Absent
                 /\ u.pc = "create" => u.ver # Partial
                 /\ u.pc = "copy" /\ u.ver = Partial =>
                      u.id > 0 \/ u.path \in torn'
      <4>1. v.id \in Nat /\ Partial # Absent
        BY <1>0 DEF Transfer, Partial, Absent
      <4>2. v.id = 0 /\ v.path = t.path => t.path \in torn'
        BY <2>1, <2>3
      <4>3. OpenedWhole
        BY DEF DeliveryInv
      <4> QED
        BY <2>1, <3>2, <4>1, <4>2, <4>3 DEF OpenedWhole
    <3> QED
      BY <2>4, <3>1, <3>2
  <2>7. WholeBeforeRemoval'
    <3>0. WholeBeforeRemoval
      BY DEF DeliveryInv
    <3>1. ASSUME NEW u \in transfers', u.pc = "ok"
          PROVE  u.id = 0 /\ (u.path \in torn' \/ target'[u.path] \in Version)
      <4>1. PICK v \in transfers \ {t} :
              u.pc = v.pc /\ u.path = v.path /\ u.id = v.id
        BY <2>4, <3>1
      <4>2. /\ v.id = 0 /\ v.path \in Path
            /\ v.path \in torn \/ target[v.path] \in Version
        BY <1>0, <3>0, <3>1, <4>1 DEF WholeBeforeRemoval, Transfer
      <4>3. v.path = t.path => t.path \in torn'
        BY <2>1, <2>3, <4>1, <4>2
      <4> QED
        BY <2>1, <2>2, <4>1, <4>2, <4>3
    <3>2. ASSUME NEW s \in Slot, loop[s] \in {"remove", "verify"}
          PROVE  fo[s] \in torn' \/ target'[fo[s]] \in Version
      <4>1. /\ fo[s] \in Path
            /\ fo[s] \in torn \/ target[fo[s]] \in Version
        BY <1>0, <3>0, <3>2 DEF WholeBeforeRemoval, LoopTypeOK, Owing
      <4> QED
        BY <2>1, <2>2, <2>3, <3>2, <4>1
    <3> QED
      BY <2>1, <3>1, <3>2 DEF WholeBeforeRemoval
  <2>8. LostOnlyWhenTorn'
    BY <1>0, <2>1, <2>2, <2>3
       DEF DeliveryInv, LostOnlyWhenTorn, Delivered, SourceIsLatest
  <2> QED
    BY <2>5, <2>6, <2>7, <2>8 DEF DeliveryInv
<1>6. CASE CopyOk(t)
  <2>0. /\ SourceIsLatest /\ OpenedWhole /\ SourceKept /\ WholeBeforeRemoval
        /\ LostOnlyWhenTorn
    BY DEF DeliveryInv
  <2>1. /\ t.pc = "copy" /\ UNCHANGED <<source, latest, loop, fo, torn>>
        /\ t.ver \in Version \/ (t.ver = Partial /\ (t.id > 0 \/ t.path \in torn))
    BY <1>0, <1>6, <2>0 DEF CopyOk, OpenedWhole, Transfer
  <2>2. \A p \in Path : target'[p] = IF p = t.path /\ t.ver # Partial
                                     THEN t.ver ELSE target[p]
    BY <1>0, <1>6 DEF CopyOk, StoreTypeOK
  <2>3. \A p \in Path : target[p] \in Version => target'[p] \in Version
    BY <1>0, <2>1, <2>2
  <2>4. ASSUME NEW u \in transfers'
        PROVE  \/ u \in transfers
               \/ u.pc = "ok" /\ u.path = t.path /\ u.id = t.id /\ t.id = 0
    <3>1. CASE t.id = 0
      BY <1>0, <1>6, <3>1 DEF CopyOk, Report, Transfer
    <3>2. CASE t.id # 0
      BY <1>6, <3>2 DEF CopyOk, Report
    <3> QED
      BY <3>1, <3>2
  <2>5. SourceIsLatest' /\ SourceKept' /\ OpenedWhole'
    BY <2>0, <2>1, <2>4 DEF SourceIsLatest, SourceKept, OpenedWhole
  <2>6. t.id = 0 => t.path \in torn \/ target'[t.path] \in Version
    BY <1>0, <2>1, <2>2 DEF Partial
  <2>7. WholeBeforeRemoval'
    <3>1. ASSUME NEW u \in transfers', u.pc = "ok"
          PROVE  u.id = 0 /\ (u.path \in torn' \/ target'[u.path] \in Version)
      BY <1>0, <2>0, <2>1, <2>3, <2>4, <2>6, <3>1
         DEF WholeBeforeRemoval, Transfer
    <3>2. ASSUME NEW s \in Slot, loop[s] \in {"remove", "verify"}
          PROVE  fo[s] \in torn' \/ target'[fo[s]] \in Version
      BY <1>0, <2>0, <2>1, <2>3, <3>2 DEF WholeBeforeRemoval, LoopTypeOK, Owing
    <3> QED
      BY <2>1, <3>1, <3>2 DEF WholeBeforeRemoval
  <2>8. LostOnlyWhenTorn'
    <3>1. \A p \in Path : latest[p] > 0 => latest[p] = 1
      BY <1>0 DEF StoreTypeOK, Absent
    <3> QED
      BY <1>0, <2>0, <2>1, <2>3, <3>1 DEF LostOnlyWhenTorn, Delivered
  <2> QED
    BY <2>5, <2>7, <2>8 DEF DeliveryInv
<1> QED
  BY <1>1, <1>2, <1>3, <1>4, <1>5, <1>6 DEF TransferStep

LEMMA DeliveryEnvironment ==
  ASSUME Known, DeliveryInv,
         \/ ScannerAct
         \/ (\E t \in transfers : Expire(t)) /\ UNCHANGED ownVars
         \/ (\E p \in Path : Produce(p)) /\ UNCHANGED ownVars
         \/ Restart /\ UNCHANGED torn
         \/ UNCHANGED vars
  PROVE  DeliveryInv'
<1> USE DEF storeVars, loopVars, ownVars
<1>0. StoreTypeOK /\ \A u \in transfers : u \in Transfer
  BY DEF Known, TypeInv, WorkersInv, WorkersTypeOK, TransferTypeOK
<1>1. CASE ScannerAct \/ UNCHANGED vars
  BY <1>1, DeliveryQuiet DEF ScannerAct, vars, workersVars
<1>2. ASSUME NEW t \in transfers, Expire(t), UNCHANGED ownVars
      PROVE DeliveryInv'
  <2> DEFINE next == [t EXCEPT !.late = TRUE]
  <2>1. /\ next.pc = t.pc /\ next.ver = t.ver /\ next.path = t.path
        /\ next.id = t.id
    BY <1>0 DEF Transfer
  <2>2. transfers' = (transfers \ {t}) \cup {next}
    BY <1>2 DEF Expire, Becomes
  <2> HIDE DEF next
  <2> QED
    BY <1>2, <2>1, <2>2, DeliveryQuiet DEF Expire
<1>3. ASSUME NEW p \in Path, Produce(p), UNCHANGED ownVars PROVE DeliveryInv'
  <2>1. /\ latest[p] + 1 # Absent /\ UNCHANGED <<target, loop, fo, transfers, torn>>
        /\ latest' = [latest EXCEPT ![p] = latest[p] + 1]
        /\ source' = [source EXCEPT ![p] = latest[p] + 1]
    BY <1>0, <1>3 DEF Produce, StoreTypeOK, Absent, Version
  <2>2. \A q : source[q] # Absent => source'[q] # Absent
    BY <1>0, <2>1 DEF StoreTypeOK
  <2> QED
    BY <1>0, <2>1, <2>2
       DEF DeliveryInv, SourceIsLatest, OpenedWhole, SourceKept,
           WholeBeforeRemoval, LostOnlyWhenTorn, Delivered, StoreTypeOK
<1>4. CASE Restart /\ UNCHANGED torn
  BY <1>4
     DEF Restart, DeliveryInv, SourceIsLatest, OpenedWhole, SourceKept,
         WholeBeforeRemoval, LostOnlyWhenTorn, Delivered
<1> QED
  BY <1>1, <1>2, <1>3, <1>4

LEMMA DeliveryStep ==
  ASSUME MaxVersion = 1, Known, DeliveryInv, [Next]_vars
  PROVE  DeliveryInv'
BY DeliveryLoop, DeliveryTransfer, DeliveryEnvironment DEF Next, TransferAct

(* While no name is used twice at the source, a file put there is there or *)
(* whole at the server, whatever fails, is condemned or restarted, unless  *)
(* a transfer left behind has truncated it there.                          *)
THEOREM LossNeedsALateUpload ==
  ASSUME MaxVersion = 1
  PROVE  Spec => []LostOnlyWhenTorn
<1>1. TypeInv /\ HeldInv /\ DeliveryInv /\ [Next]_vars => DeliveryInv'
  BY DeliveryStep DEF Known
<1>2. DeliveryInv => LostOnlyWhenTorn
  BY DEF DeliveryInv
<1> QED
  BY <1>1, <1>2, TypeInit, TypeStep, HeldInit, HeldStep, DeliveryInit, PTL
     DEF Spec
=============================================================================
