-------------------------- MODULE DownloaderProofs --------------------------
(***************************************************************************)
(* Theorems about Downloader, for every set of files and objects, every    *)
(* number of workers and every bound on faults, versions and restarts, in  *)
(* service mode and in one-time mode.                                      *)
(***************************************************************************)
EXTENDS Downloader, HolderProofs, DeadlockProofs

-----------------------------------------------------------------------------
TypeInv == WorkersInv /\ TypeOK

LEMMA TypeInit == Init => TypeInv
<1>1. Init => WorkersTypeOK
  BY WorkersInvInit DEF Init, WorkersInv
<1>2. Init => TypeOK
  BY <1>1 DEF Init, TypeOK, WorkersInit, Absent, Partial
<1> QED
  BY <1>2, WorkersInvInit DEF TypeInv, Init

(* The actions of a transfer preserve it. *)
LEMMA TypeTransfer ==
  ASSUME TypeInv, NEW t \in transfers, TransferStep(t)
  PROVE  TypeInv'
<1> USE DEF TypeInv, TypeOK
<1>0. /\ WorkersInv /\ StoreTypeOK /\ ObjectTypeOK /\ faults \in 0..MaxFaults
      /\ t \in Transfer /\ t.owner \in Slot /\ t.path \in Path
      /\ \A u \in transfers : u \in Transfer
  BY DEF WorkersInv, WorkersTypeOK, TransferTypeOK, Transfer, BoundTypeOK
<1>1. CASE OpenOk(t)
  <2> DEFINE next == [id |-> t.id, owner |-> t.owner, path |-> t.path,
                      pc |-> "copy", ver |-> source[t.path], late |-> t.late]
  <2>1. source[t.path] \in {Absent} \cup Version
    BY <1>0 DEF StoreTypeOK
  <2>2. /\ next \in Transfer /\ next.ver # Partial /\ next.pc = "copy"
        /\ next.id = t.id /\ next.owner = t.owner /\ next.path = t.path
        /\ next.late = t.late
    BY <1>0, <2>1 DEF Transfer, TransferState, Partial, Absent, Version
  <2>3. Becomes(t, next)
    BY <1>1 DEF OpenOk
  <2> HIDE DEF next
  <2>4. WorkersInv'
    BY <1>0, <1>1, <2>2, <2>3, WorkersInvBecomes
       DEF OpenOk, StoreTypeOK, ObjectTypeOK, storeVars, objVars, boundVars
  <2> QED
    BY <1>1, <2>2, <2>3, <2>4
       DEF OpenOk, Becomes, storeVars, loopVars, WorkersInv
<1>2. CASE OpenErr(t) \/ CopyErr(t)
  <2>1. WorkersInv'
    BY <1>0, <1>2, WorkersInvCondemn DEF OpenErr, CopyErr
  <2>2. PICK next : /\ next.ver = t.ver /\ next.pc = "ko"
                    /\ Becomes(t, next) \/ transfers' = transfers \ {t}
    BY <1>0, <1>2, ReportBecomes DEF OpenErr, CopyErr, Condemn, TransferState
  <2> QED
    BY <1>2, <2>1, <2>2
       DEF OpenErr, CopyErr, Condemn, Becomes, storeVars, loopVars, WorkersInv
<1>3. CASE CopyOk(t)
  <2> DEFINE next == [t EXCEPT !.pc = "rename"]
  <2>1. /\ next \in Transfer /\ next.ver = t.ver /\ next.pc = "rename"
        /\ next.id = t.id /\ next.owner = t.owner /\ next.path = t.path
        /\ next.late = t.late
    BY <1>0 DEF Transfer, TransferState
  <2>2. Becomes(t, next)
    BY <1>3 DEF CopyOk
  <2> HIDE DEF next
  <2>3. WorkersInv'
    BY <1>0, <1>3, <2>1, <2>2, WorkersInvBecomes
       DEF CopyOk, StoreTypeOK, ObjectTypeOK, storeVars, objVars, boundVars
  <2> QED
    BY <1>3, <2>1, <2>2, <2>3
       DEF CopyOk, Becomes, storeVars, loopVars, WorkersInv
<1>4. CASE CopyCancelled(t)
  <2>1. WorkersInv'
    BY <1>0, <1>4, WorkersInvBecomes
       DEF CopyCancelled, StoreTypeOK, ObjectTypeOK, storeVars, objVars,
           boundVars
  <2> QED
    BY <1>4, <2>1 DEF CopyCancelled, storeVars, loopVars, WorkersInv
<1>5. CASE RenameOk(t)
  <2>1. t.ver \in {Absent} \cup Version
    BY <1>0 DEF Transfer
  <2>2. StoreTypeOK' /\ ObjectTypeOK' /\ \A p \in Path : target'[p] # Partial
    BY <1>0, <1>5, <2>1 DEF RenameOk, StoreTypeOK, ObjectTypeOK, objVars
  <2>3. WorkersInv'
    BY <1>0, <1>5, <2>2, WorkersInvReport
       DEF RenameOk, TransferState, objVars, boundVars
  <2>4. PICK next : /\ next.ver = t.ver /\ next.pc = "ok"
                    /\ Becomes(t, next) \/ transfers' = transfers \ {t}
    BY <1>0, <1>5, ReportBecomes DEF RenameOk, TransferState
  <2> QED
    BY <1>5, <2>2, <2>3, <2>4 DEF RenameOk, Becomes, loopVars, WorkersInv
<1>6. CASE RenameErr(t)
  <2>1. StoreTypeOK' /\ ObjectTypeOK' /\ faults' \in 0..MaxFaults
    BY <1>0, <1>6, FaultsCounted
       DEF RenameErr, StoreTypeOK, ObjectTypeOK, storeVars, objVars
  <2>2. WorkersInv'
    BY <1>0, <1>6, <2>1, FaultsCounted, WorkersInvReport
       DEF RenameErr, TransferState, objVars
  <2>3. PICK next : /\ next.ver = t.ver /\ next.pc = "ko"
                    /\ Becomes(t, next) \/ transfers' = transfers \ {t}
    BY <1>0, <1>6, ReportBecomes DEF RenameErr, TransferState
  <2> QED
    BY <1>6, <2>2, <2>3
       DEF RenameErr, Becomes, storeVars, loopVars, WorkersInv
<1> QED
  BY <1>1, <1>2, <1>3, <1>4, <1>5, <1>6 DEF TransferStep

(* So do the other actions, which change the versions at the target in no  *)
(* way and move no loop to "top".                                          *)
LEMMA TypeOther ==
  ASSUME TypeInv,
         \/ ScannerAct
         \/ \E s \in Slot : WorkerStep(s)
         \/ \E t \in transfers : Expire(t)
         \/ \E p \in Path : Produce(p)
         \/ Restart
         \/ UNCHANGED vars
  PROVE  TypeInv'
<1> USE DEF TypeInv, TypeOK, WorkersInv, vars, storeVars
<1>0. /\ \A t \in transfers : t \in Transfer
      /\ loop \in [Slot -> LoopState]
  BY DEF WorkersTypeOK, TransferTypeOK, LoopTypeOK
<1>1. CASE ScannerAct
  <2>1. ScannerTypeOK' /\ CountOK'
    BY <1>1, ScannerTypes DEF ScannerAct, WorkersTypeOK
  <2>2. WorkersInv'
    BY <1>1, <2>1, WorkersInvScanner DEF ScannerAct
  <2> QED
    BY <1>1, <2>2 DEF ScannerAct, loopVars
<1>2. ASSUME NEW s \in Slot, ManagerStep(s, "receive") PROVE TypeInv'
  <2>1. WorkersInv'
    BY <1>2, WorkersInvManager
  <2> QED
    BY <1>0, <1>2, <2>1 DEF ManagerStep, Start, Leave, loopVars
<1>3. ASSUME NEW s \in Slot, LoopStep(s, "receive", "open", TRUE) PROVE TypeInv'
  <2>1. WorkersInv'
    BY <1>3, WorkersInvLoop DEF TransferState
  <2>2. target' = target
    BY <1>3
       DEF LoopStep, Receive, SelectResult, SelectTimeout, EndSelect, RemoveOk,
           RemoveErr, VerifyGone, VerifyPresent, Signal, Check
  <2>3. \A r \in Slot : loop'[r] # "top"
    BY <1>0, <1>3
       DEF LoopStep, Receive, SelectResult, SelectTimeout, EndSelect, RemoveOk,
           RemoveErr, VerifyGone, VerifyPresent, NextTry, Signal, Check
  <2>4. \A t \in transfers' : t.pc \notin {"mkdir", "create", "abort"} /\ t.ver # Partial
    <3>1. CASE Receive(s, "open")
      BY <3>1 DEF Receive, Absent, Partial
    <3>2. ASSUME NEW t \in transfers, SelectResult(t)
          PROVE transfers' \subseteq transfers
      BY <3>2 DEF SelectResult, EndSelect
    <3>3. ASSUME NEW t \in transfers, SelectTimeout(t), NEW u \in transfers'
          PROVE  u \in transfers \/ (u.pc = t.pc /\ u.ver = t.ver)
      <4>1. u \in transfers \/ u = [t EXCEPT !.id = timeouts]
        BY <3>3 DEF SelectTimeout, EndSelect, LeftBehind
      <4> QED
        BY <1>0, <4>1 DEF Transfer
    <3>4. CASE \/ RemoveOk(s, TRUE) \/ RemoveErr(s, TRUE)
               \/ VerifyGone(s, TRUE) \/ VerifyPresent(s, TRUE)
               \/ Signal(s) \/ Check(s, "receive")
      BY <3>4 DEF RemoveOk, RemoveErr, VerifyGone, VerifyPresent, Signal, Check
    <3> QED
      BY <1>3, <3>1, <3>2, <3>3, <3>4 DEF LoopStep
  <2> QED
    BY <2>1, <2>2, <2>3, <2>4
<1>4. ASSUME NEW t \in transfers, Expire(t) PROVE TypeInv'
  <2> DEFINE u == [t EXCEPT !.late = TRUE]
  <2>1. u.pc = t.pc /\ u.ver = t.ver /\ transfers' = (transfers \ {t}) \cup {u}
    BY <1>0, <1>4 DEF Expire, Becomes, Transfer
  <2>2. WorkersInv'
    BY <1>4, WorkersInvExpire
  <2> HIDE DEF u
  <2> QED
    BY <1>4, <2>1, <2>2 DEF Expire, loopVars
<1>5. ASSUME NEW p \in Path, Produce(p) PROVE TypeInv'
  BY <1>5, WorkersInvProduce DEF Produce, loopVars
<1>6. CASE Restart
  BY <1>6, WorkersInvRestart DEF Restart
<1>7. CASE UNCHANGED vars
  BY <1>7, WorkersInvUnchanged DEF workersVars, loopVars
<1> QED
  BY <1>1, <1>2, <1>3, <1>4, <1>5, <1>6, <1>7 DEF WorkerStep

LEMMA TypeStep == TypeInv /\ [Next]_vars => TypeInv'
BY TypeTransfer, TypeOther DEF Next

(* Every variable keeps its type: channels and counters stay within their  *)
(* capacities and bounds, a loop that owes a token has a file in hand, and *)
(* no target is ever seen half written.                                    *)
THEOREM TypeCorrect == Spec => []TypeOK
<1>1. TypeInv => TypeOK
  BY DEF TypeInv
<1> QED
  BY <1>1, TypeInit, TypeStep, PTL DEF Spec

-----------------------------------------------------------------------------
LEMMA TokenStep == TypeInv /\ TokenInv /\ [Next]_vars => TokenInv'
<1> SUFFICES ASSUME TypeInv, TokenInv, [Next]_vars PROVE TokenInv'
  OBVIOUS
<1>0. WorkersInv /\ ScannerTypeOK
  BY DEF TypeInv, WorkersInv, WorkersTypeOK
<1>1. CASE ScannerAct
  BY <1>0, <1>1, TokenScanner DEF ScannerAct
<1>2. ASSUME NEW s \in Slot, WorkerStep(s) PROVE TokenInv'
  BY <1>0, <1>2, TokenManager, TokenLoop DEF WorkerStep, TransferState
<1>3. ASSUME NEW t \in transfers, TransferStep(t) \/ Expire(t) PROVE TokenInv'
  BY <1>3, TokenOther
     DEF TransferStep, OpenOk, OpenErr, CopyOk, CopyErr, CopyCancelled,
         RenameOk, RenameErr, Condemn, Expire
<1>4. CASE (\E p \in Path : Produce(p)) \/ UNCHANGED vars
  BY <1>4, TokenOther DEF Produce, vars, workersVars
<1>5. CASE Restart
  BY <1>5, TokenRestart
<1> QED
  BY <1>1, <1>2, <1>3, <1>4, <1>5 DEF Next

(* No token is lost or sent twice, and scan_once's count is never negative *)
(* but for the moment between taking a token and sending a file.           *)
THEOREM TokensConserved == Spec => []TokenConservation
<1>1. Init => TokenInv
  BY TokenInit DEF Init
<1>2. TypeInv /\ TokenInv => TokenConservation
  BY ConservedTokens DEF TypeInv
<1> QED
  BY <1>1, <1>2, TypeInit, TypeStep, TokenStep, PTL DEF Spec

(* A scan starts, and a one-time run exits, only when every file of the    *)
(* scan before it has been finished with, unless a walk error abandoned it.*)
THEOREM ScansDoNotOverlap == Spec => []ScanBarrier
<1>1. Init => TokenInv
  BY TokenInit DEF Init
<1>2. TypeInv /\ TokenInv => ScanBarrier
  BY SeparateScans DEF TypeInv
<1> QED
  BY <1>1, <1>2, TypeInit, TypeStep, TokenStep, PTL DEF Spec

LEMMA HolderStep == TypeInv /\ TokenInv /\ HolderInv /\ [Next]_vars => HolderInv'
<1> SUFFICES ASSUME TypeInv, TokenInv, HolderInv, [Next]_vars PROVE HolderInv'
  OBVIOUS
<1>0. WorkersInv
  BY DEF TypeInv
<1>1. CASE ScannerAct
  BY <1>0, <1>1, HolderScanner DEF ScannerAct
<1>2. ASSUME NEW s \in Slot, WorkerStep(s) PROVE HolderInv'
  BY <1>0, <1>2, HolderManager, HolderLoop DEF WorkerStep, TransferState
<1>3. ASSUME NEW t \in transfers, TransferStep(t) \/ Expire(t) PROVE HolderInv'
  BY <1>3, HolderOther
     DEF TransferStep, OpenOk, OpenErr, CopyOk, CopyErr, CopyCancelled,
         RenameOk, RenameErr, Condemn, Expire
<1>4. CASE (\E p \in Path : Produce(p)) \/ UNCHANGED vars
  BY <1>4, HolderOther DEF Produce, vars, workersVars
<1>5. CASE Restart
  BY <1>5, HolderRestart
<1> QED
  BY <1>1, <1>2, <1>3, <1>4, <1>5 DEF Next

(* While no scan was abandoned, no two loops, and no loop and the queue,   *)
(* ever have the same file.                                                *)
THEOREM FilesHeldOnce == Spec => []OneHolder
<1>1. Init => TokenInv /\ HolderInv
  BY TokenInit, HolderInit DEF Init
<1>2. TypeInv /\ HolderInv => OneHolder
  BY HeldOnce DEF TypeInv
<1> QED
  BY <1>1, <1>2, TypeInit, TypeStep, TokenStep, HolderStep, PTL DEF Spec

-----------------------------------------------------------------------------
(* When all wait for each other. *)

LEMMA CrewStep == TypeInv /\ TokenInv /\ CrewInv /\ [Next]_vars => CrewInv'
<1> SUFFICES ASSUME TypeInv, TokenInv, CrewInv, [Next]_vars PROVE CrewInv'
  OBVIOUS
<1>0. WorkersInv /\ ObjectTypeOK
  BY DEF TypeInv, WorkersInv, WorkersTypeOK
<1>1. CASE ScannerAct
  BY <1>0, <1>1, CrewScannerStep DEF ScannerAct
<1>2. ASSUME NEW s \in Slot, WorkerStep(s) PROVE CrewInv'
  BY <1>0, <1>2, CrewManager, CrewLoop DEF WorkerStep, TransferState
<1>3. ASSUME NEW t \in transfers, TransferStep(t) PROVE CrewInv'
  <2>1. /\ UNCHANGED <<scannerVars, sup, loopVars>>
        /\ \A s \in Slot : to_exit[s] => to_exit'[s]
    BY <1>0, <1>3
       DEF TransferStep, OpenOk, OpenErr, CopyOk, CopyErr, CopyCancelled,
           RenameOk, RenameErr, Condemn, objVars, ObjectTypeOK
  <2>2. t \in Transfer /\ {"ok", "ko"} \subseteq TransferState
    BY DEF TypeInv, WorkersInv, WorkersTypeOK, TransferTypeOK, TransferState
  <2>3. \/ \E next : next.id = t.id /\ next.owner = t.owner /\ Becomes(t, next)
        \/ \E result \in TransferState : Report(t, result)
        \/ t.id > 0 /\ transfers' = transfers \ {t}
    <3>1. CASE OpenOk(t)
      BY <3>1 DEF OpenOk
    <3>2. CASE CopyOk(t)
      <4>1. /\ [t EXCEPT !.pc = "rename"].id = t.id
            /\ [t EXCEPT !.pc = "rename"].owner = t.owner
        BY <2>2 DEF Transfer
      <4> QED
        BY <3>2, <4>1 DEF CopyOk
    <3>3. CASE OpenErr(t) \/ CopyErr(t) \/ RenameOk(t) \/ RenameErr(t)
      BY <2>2, <3>3 DEF OpenErr, CopyErr, RenameOk, RenameErr, Condemn
    <3>4. CASE CopyCancelled(t)
      BY <3>4 DEF CopyCancelled
    <3> QED
      BY <1>3, <3>1, <3>2, <3>3, <3>4 DEF TransferStep
  <2> QED
    BY <1>0, <2>1, <2>3, StillWaitedFor, CrewOther
<1>4. ASSUME NEW t \in transfers, Expire(t) PROVE CrewInv'
  BY <1>0, <1>4, CrewExpire
<1>5. CASE (\E p \in Path : Produce(p)) \/ UNCHANGED vars
  BY <1>0, <1>5, CrewOther DEF Produce, vars, workersVars, objVars
<1>6. CASE Restart
  BY <1>6, CrewRestart
<1> QED
  BY <1>1, <1>2, <1>3, <1>4, <1>5, <1>6 DEF Next

LEMMA WalkBoundStep ==
  ASSUME IsFiniteSet(Path), TypeInv, WalkBound, [Next]_vars
  PROVE  WalkBound'
<1>1. CASE ScannerAct
  BY <1>1, WalkBoundScanner DEF ScannerAct, TypeInv, WorkersInv, WorkersTypeOK
<1>2. CASE Restart
  BY <1>2 DEF Restart, WalkBound
<1>3. CASE ~ScannerAct /\ ~Restart
  <2>1. UNCHANGED <<scanner, todo, dispatched>>
    BY <1>3
       DEF Next, WorkerStep, ManagerStep, LoopStep, Start, Leave, Receive,
           SelectResult, SelectTimeout, EndSelect, RemoveOk, RemoveErr,
           VerifyGone, VerifyPresent, Signal, Check, TransferStep, OpenOk,
           OpenErr, CopyOk, CopyErr, CopyCancelled, RenameOk, RenameErr,
           Condemn, Expire, Produce, vars, workersVars, scannerVars
  <2> QED
    BY <2>1, WalkBoundOther
<1> QED
  BY <1>1, <1>2, <1>3

LEMMA CrewInvInit == Init => TokenInv /\ CrewInv /\ WalkBound
BY TokenInit, CrewInit DEF Init, WorkersInit, ScannerInit, WalkBound

(* A one-time run with its workers is never stuck, whatever the number of  *)
(* files.                                                                  *)
THEOREM OneTimeStuckOnlyWhenLost == Spec => []StuckOnlyWhenLost
<1>1. TypeInv /\ TokenInv /\ CrewInv => StuckOnlyWhenLost
  BY NotStuckWithWorkers DEF TypeInv
<1> QED
  BY <1>1, TypeInit, TypeStep, CrewInvInit, TokenStep, CrewStep, PTL DEF Spec

(* A service whose folder has fewer than 5 * Worker + 2 files, with those  *)
(* that walk errors have abandoned, is never stuck.                        *)
THEOREM ServiceStuckOnlyWhenLong ==
  ASSUME IsFiniteSet(Path)
  PROVE  Spec => []StuckOnlyWhenLong
<1>1. TypeInv /\ TokenInv /\ CrewInv /\ WalkBound => StuckOnlyWhenLong
  BY NotStuckWhenShort DEF TypeInv
<1>2. TypeInv /\ WalkBound /\ [Next]_vars => WalkBound'
  BY WalkBoundStep
<1> QED
  BY <1>1, <1>2, TypeInit, TypeStep, CrewInvInit, TokenStep, CrewStep, PTL
     DEF Spec

-----------------------------------------------------------------------------
(* That no file vanishes, and that the pipeline implements FileMove when   *)
(* no name is used twice at the source.  Both rest on one invariant: what  *)
(* is about to be removed from the source has something at the target.     *)

(* The source holds the last version produced or nothing. *)
SourceIsLatest == \A p \in Path : source[p] \in {Absent, latest[p]}

(* A version that a transfer has opened was produced. *)
OpenedWasProduced ==
  \A t \in transfers : t.pc \in {"copy", "rename"} =>
    t.ver # Absent /\ latest[t.path] # Absent

(* A transfer has reported success, or removeSrc has begun, only for a path*)
(* that the target holds.                                                  *)
CopiedBeforeRemoval ==
  /\ \A t \in transfers : t.pc = "ok" => target[t.path] # Absent
  /\ \A s \in Slot : loop[s] \in {"remove", "verify"} => target[fo[s]] # Absent

MoveInv ==
  /\ SourceIsLatest
  /\ OpenedWasProduced
  /\ CopiedBeforeRemoval
  /\ NoVanish

LEMMA MoveInvInit == Init => MoveInv
BY DEF Init, WorkersInit, MoveInv, SourceIsLatest, OpenedWasProduced,
       CopiedBeforeRemoval, NoVanish, Absent

(* The steps that change neither the folders nor removeSrc's place, and    *)
(* take no transfer to "copy", "rename" or "ok".                           *)
LEMMA MoveInvQuiet ==
  ASSUME MoveInv, UNCHANGED <<storeVars, fo>>,
         \A u \in transfers' : \/ u.pc \notin {"copy", "rename", "ok"}
                               \/ \E t \in transfers : /\ t.pc = u.pc
                                                       /\ t.ver = u.ver
                                                       /\ t.path = u.path,
         \A s \in Slot : loop'[s] \in {"remove", "verify"} =>
           loop[s] \in {"remove", "verify"}
  PROVE  MoveInv'
BY DEF MoveInv, SourceIsLatest, OpenedWasProduced, CopiedBeforeRemoval,
       NoVanish, storeVars

LEMMA MoveInvLoop ==
  ASSUME NEW s \in Slot, TypeInv, MoveInv, WorkerStep(s)
  PROVE  MoveInv'
<1> USE DEF storeVars, loopVars
<1>0. /\ LoopTypeOK /\ StoreTypeOK /\ TransferInLoop
      /\ \A t \in transfers : t \in Transfer
  BY DEF TypeInv, WorkersInv, WorkersTypeOK, TransferTypeOK
<1>1. CASE Start(s, "receive") \/ Leave(s) \/ Check(s, "receive")
  BY <1>0, <1>1, MoveInvQuiet DEF Start, Leave, Check, LoopTypeOK
<1>2. CASE Receive(s, "open")
  BY <1>0, <1>2
     DEF Receive, MoveInv, SourceIsLatest, OpenedWasProduced,
         CopiedBeforeRemoval, NoVanish, LoopTypeOK
<1>3. ASSUME NEW t \in transfers, SelectResult(t) PROVE MoveInv'
  <2>1. /\ transfers' \subseteq transfers /\ t.id = 0 /\ t.owner \in Slot
        /\ t.path = fo[t.owner] /\ UNCHANGED <<storeVars, fo>>
    BY <1>0, <1>3 DEF SelectResult, EndSelect, TransferInLoop, Transfer
  <2>2. CASE t.pc = "ok"
    <3>1. loop' = [loop EXCEPT ![t.owner] = "remove"]
      BY <1>3, <2>2 DEF SelectResult, EndSelect
    <3> QED
      BY <1>0, <2>1, <2>2, <3>1
         DEF MoveInv, SourceIsLatest, OpenedWasProduced, CopiedBeforeRemoval,
             NoVanish, LoopTypeOK
  <2>3. CASE t.pc # "ok"
    <3>1. loop' = [loop EXCEPT ![t.owner] = "signal"]
      BY <1>3, <2>3 DEF SelectResult, EndSelect
    <3> QED
      BY <1>0, <2>1, <3>1, MoveInvQuiet DEF LoopTypeOK
  <2> QED
    BY <2>2, <2>3
<1>4. ASSUME NEW t \in transfers, SelectTimeout(t) PROVE MoveInv'
  <2>1. /\ loop' = [loop EXCEPT ![t.owner] = "signal"]
        /\ UNCHANGED <<storeVars, fo>>
    BY <1>4 DEF SelectTimeout, EndSelect
  <2>2. ASSUME NEW u \in transfers'
        PROVE  u \in transfers \/ u = [t EXCEPT !.id = timeouts]
    BY <1>4, <2>2 DEF SelectTimeout, EndSelect, LeftBehind
  <2>3. ASSUME NEW u, u = [t EXCEPT !.id = timeouts]
        PROVE  u.pc = t.pc /\ u.ver = t.ver /\ u.path = t.path
    BY <1>0, <2>3 DEF Transfer
  <2> QED
    BY <1>0, <2>1, <2>2, <2>3, MoveInvQuiet DEF LoopTypeOK
<1>5. CASE RemoveOk(s, TRUE)
  <2>1. fo[s] \in Path /\ target[fo[s]] # Absent
    BY <1>0, <1>5 DEF RemoveOk, LoopTypeOK, Owing, MoveInv, CopiedBeforeRemoval
  <2>2. SourceIsLatest' /\ NoVanish'
    BY <1>0, <1>5, <2>1
       DEF RemoveOk, MoveInv, SourceIsLatest, NoVanish, StoreTypeOK
  <2>3. OpenedWasProduced' /\ CopiedBeforeRemoval'
    BY <1>0, <1>5, <2>1
       DEF RemoveOk, MoveInv, OpenedWasProduced, CopiedBeforeRemoval, LoopTypeOK
  <2> QED
    BY <2>2, <2>3 DEF MoveInv
<1>6. CASE RemoveErr(s, TRUE) \/ VerifyGone(s, TRUE) \/ VerifyPresent(s, TRUE)
  BY <1>0, <1>6, MoveInvQuiet
     DEF RemoveErr, VerifyGone, VerifyPresent, NextTry, LoopTypeOK
<1>7. CASE Signal(s)
  BY <1>0, <1>7
     DEF Signal, MoveInv, SourceIsLatest, OpenedWasProduced,
         CopiedBeforeRemoval, NoVanish, LoopTypeOK
<1> QED
  BY <1>1, <1>2, <1>3, <1>4, <1>5, <1>6, <1>7
     DEF WorkerStep, ManagerStep, LoopStep

LEMMA MoveInvTransfer ==
  ASSUME TypeInv, MoveInv, NEW t \in transfers, TransferStep(t) \/ Expire(t)
  PROVE  MoveInv'
<1> USE DEF storeVars, loopVars
<1>0. StoreTypeOK /\ t \in Transfer /\ t.path \in Path
  BY DEF TypeInv, WorkersInv, WorkersTypeOK, TransferTypeOK, Transfer
<1>1. CASE OpenOk(t)
  <2> DEFINE next == [id |-> t.id, owner |-> t.owner, path |-> t.path,
                      pc |-> "copy", ver |-> source[t.path], late |-> t.late]
  <2>1. next.path = t.path /\ next.ver = source[t.path] /\ next.pc = "copy"
    OBVIOUS
  <2>2. source[t.path] # Absent /\ latest[t.path] # Absent
    BY <1>0, <1>1 DEF OpenOk, MoveInv, SourceIsLatest
  <2>3. transfers' = (transfers \ {t}) \cup {next}
    BY <1>1 DEF OpenOk, Becomes
  <2> HIDE DEF next
  <2> QED
    BY <1>1, <2>1, <2>2, <2>3
       DEF OpenOk, MoveInv, SourceIsLatest, OpenedWasProduced,
           CopiedBeforeRemoval, NoVanish
<1>2. CASE OpenErr(t) \/ CopyErr(t) \/ RenameErr(t)
  <2>1. PICK next : /\ next.pc = "ko"
                    /\ Becomes(t, next) \/ transfers' = transfers \ {t}
    BY <1>0, <1>2, ReportBecomes
       DEF OpenErr, CopyErr, RenameErr, Condemn, TransferState
  <2> QED
    BY <1>2, <2>1, MoveInvQuiet
       DEF OpenErr, CopyErr, RenameErr, Condemn, Becomes
<1>3. CASE CopyOk(t)
  <2> DEFINE next == [t EXCEPT !.pc = "rename"]
  <2>1. next.path = t.path /\ next.ver = t.ver /\ next.pc = "rename"
    BY <1>0 DEF Transfer
  <2>2. t.pc = "copy" /\ transfers' = (transfers \ {t}) \cup {next}
    BY <1>3 DEF CopyOk, Becomes
  <2> HIDE DEF next
  <2> QED
    BY <1>3, <2>1, <2>2
       DEF CopyOk, MoveInv, SourceIsLatest, OpenedWasProduced,
           CopiedBeforeRemoval, NoVanish
<1>4. CASE CopyCancelled(t)
  BY <1>4, MoveInvQuiet DEF CopyCancelled
<1>5. CASE RenameOk(t)
  <2>1. t.ver # Absent
    BY <1>5 DEF RenameOk, MoveInv, OpenedWasProduced
  <2>2. PICK next : /\ next.pc = "ok" /\ next.path = t.path
                    /\ Becomes(t, next) \/ transfers' = transfers \ {t}
    BY <1>0, <1>5, ReportBecomes DEF RenameOk, TransferState
  <2>3. \A p \in Path : target'[p] = IF p = t.path THEN t.ver ELSE target[p]
    BY <1>0, <1>5 DEF RenameOk, StoreTypeOK
  <2>4. SourceIsLatest' /\ NoVanish' /\ OpenedWasProduced'
    BY <1>5, <2>1, <2>2, <2>3
       DEF RenameOk, MoveInv, SourceIsLatest, NoVanish, OpenedWasProduced,
           Becomes
  <2>5. \A p : target[p] # Absent => target'[p] # Absent
    BY <1>0, <1>5, <2>1 DEF RenameOk, StoreTypeOK
  <2>6. CopiedBeforeRemoval'
    BY <1>0, <1>5, <2>1, <2>2, <2>3, <2>5
       DEF RenameOk, MoveInv, CopiedBeforeRemoval, Becomes
  <2> QED
    BY <2>4, <2>6 DEF MoveInv
<1>6. CASE Expire(t)
  <2>1. /\ [t EXCEPT !.late = TRUE].pc = t.pc
        /\ [t EXCEPT !.late = TRUE].ver = t.ver
        /\ [t EXCEPT !.late = TRUE].path = t.path
    BY <1>0 DEF Transfer
  <2> QED
    BY <1>6, <2>1, MoveInvQuiet DEF Expire, Becomes
<1> QED
  BY <1>1, <1>2, <1>3, <1>4, <1>5, <1>6 DEF TransferStep

LEMMA MoveInvEnvironment ==
  ASSUME TypeInv, MoveInv, (\E p \in Path : Produce(p)) \/ Restart
  PROVE  MoveInv'
<1>1. CASE Restart
  BY <1>1
     DEF Restart, storeVars, MoveInv, SourceIsLatest, OpenedWasProduced,
         CopiedBeforeRemoval, NoVanish
<1>2. ASSUME NEW p \in Path, Produce(p) PROVE MoveInv'
  <2>1. StoreTypeOK /\ latest[p] \in Nat
    BY DEF TypeInv, WorkersInv, WorkersTypeOK, StoreTypeOK, Absent, Version
  <2>2. latest[p] + 1 # Absent
    BY <2>1 DEF Absent
  <2>3. UNCHANGED <<target, loopVars, transfers>>
    BY <1>2 DEF Produce
  <2>4. /\ latest' = [latest EXCEPT ![p] = latest[p] + 1]
        /\ source' = [source EXCEPT ![p] = latest[p] + 1]
    BY <1>2 DEF Produce
  <2>5. \A q : latest[q] # Absent => latest'[q] # Absent
    BY <2>1, <2>2, <2>4 DEF StoreTypeOK
  <2> QED
    BY <2>1, <2>2, <2>3, <2>4, <2>5
       DEF loopVars, MoveInv, SourceIsLatest, OpenedWasProduced,
           CopiedBeforeRemoval, NoVanish, StoreTypeOK
<1> QED
  BY <1>1, <1>2

LEMMA MoveInvStep == TypeInv /\ MoveInv /\ [Next]_vars => MoveInv'
<1> SUFFICES ASSUME TypeInv, MoveInv, [Next]_vars PROVE MoveInv'
  OBVIOUS
<1>1. CASE ScannerAct \/ UNCHANGED vars
  BY <1>1, MoveInvQuiet DEF ScannerAct, vars, workersVars, storeVars, loopVars
<1> QED
  BY <1>1, MoveInvLoop, MoveInvTransfer, MoveInvEnvironment DEF Next

(* Whatever fails, times out, is replaced or restarted, and however often  *)
(* a name is used again, a path that once held a file is never empty on    *)
(* both sides.                                                             *)
THEOREM NothingVanishes == Spec => []NoVanish
<1>1. MoveInv => NoVanish
  BY DEF MoveInv
<1> QED
  BY <1>1, TypeInit, TypeStep, MoveInvInit, MoveInvStep, PTL DEF Spec

-----------------------------------------------------------------------------
(* The refinement.  With one version per path the folders change only as   *)
(* FileMove says; with two, removeSrc's second try may remove a file that  *)
(* has just been put under the same name, so the bound is necessary.       *)

LEMMA RenameIsCopy ==
  ASSUME MaxVersion = 1, TypeInv, MoveInv, NEW p \in Path, NEW v,
         v \in {Absent} \cup Version, v # Absent, latest[p] # Absent,
         target' = [target EXCEPT ![p] = v], UNCHANGED <<source, latest>>
  PROVE  FM!Copy(p) \/ UNCHANGED storeVars
<1>1. StoreTypeOK /\ v = 1 /\ target[p] # Partial
  BY DEF TypeInv, TypeOK, WorkersInv, WorkersTypeOK, Version, Absent
<1>2. target[p] \in {0, 1} /\ source[p] \in {0, 1} /\ latest[p] > 0
  BY <1>1 DEF StoreTypeOK, Version, Absent
<1>3. CASE target[p] = 1
  <2>1. target' = target
    BY <1>1, <1>3 DEF StoreTypeOK
  <2> QED
    BY <2>1 DEF storeVars
<1>4. CASE target[p] = 0
  <2>1. source[p] # 0
    BY <1>2, <1>4 DEF MoveInv, NoVanish, Absent
  <2> QED
    BY <1>1, <1>2, <2>1 DEF FM!Copy
<1> QED
  BY <1>2, <1>3, <1>4

LEMMA MoveStep ==
  ASSUME MaxVersion = 1, TypeInv, MoveInv, [Next]_vars
  PROVE  [FM!MoveNext]_(FM!moveVars)
<1> SUFFICES FM!MoveNext \/ UNCHANGED storeVars
  BY DEF FM!moveVars, storeVars
<1>0. StoreTypeOK /\ LoopTypeOK /\ \A t \in transfers : t \in Transfer
  BY DEF TypeInv, WorkersInv, WorkersTypeOK, TransferTypeOK
<1>1. CASE ScannerAct \/ Restart \/ UNCHANGED vars
  BY <1>1 DEF ScannerAct, Restart, vars, workersVars
<1>2. ASSUME NEW p \in Path, Produce(p) PROVE FM!MoveNext
  <2>1. latest' = [latest EXCEPT ![p] = @ + 1] /\ latest'[p] = latest[p] + 1
    BY <1>0, <1>2 DEF Produce, StoreTypeOK
  <2>2. FM!Produce(p)
    BY <1>2, <2>1 DEF Produce, FM!Produce, Absent
  <2> QED
    BY <2>2 DEF FM!MoveNext
<1>3. ASSUME NEW s \in Slot, WorkerStep(s)
      PROVE FM!MoveNext \/ UNCHANGED storeVars
  <2>1. CASE RemoveOk(s, TRUE)
    <3>1. fo[s] \in Path /\ target[fo[s]] # Absent /\ source[fo[s]] # Absent
      BY <1>0, <2>1
         DEF RemoveOk, Gone, LoopTypeOK, Owing, MoveInv, CopiedBeforeRemoval
    <3>2. target[fo[s]] = source[fo[s]]
      BY <1>0, <3>1 DEF TypeInv, TypeOK, StoreTypeOK, Version, Absent
    <3>3. FM!Remove(fo[s])
      BY <2>1, <3>1, <3>2 DEF RemoveOk, FM!Remove, Absent
    <3> QED
      BY <3>1, <3>3 DEF FM!MoveNext
  <2>2. CASE ~RemoveOk(s, TRUE)
    BY <1>3, <2>2
       DEF WorkerStep, ManagerStep, LoopStep, Start, Leave, Receive,
           SelectResult, SelectTimeout, EndSelect, RemoveErr, VerifyGone,
           VerifyPresent, Signal, Check
  <2> QED
    BY <2>1, <2>2
<1>4. ASSUME NEW t \in transfers, TransferStep(t) \/ Expire(t)
      PROVE  FM!MoveNext \/ UNCHANGED storeVars
  <2>1. CASE RenameOk(t)
    <3>1. /\ t.path \in Path /\ t.ver \in {Absent} \cup Version
          /\ t.ver # Absent /\ latest[t.path] # Absent
      BY <1>0, <2>1
         DEF RenameOk, Transfer, TypeInv, TypeOK, MoveInv, OpenedWasProduced
    <3>2. FM!Copy(t.path) \/ UNCHANGED storeVars
      BY <2>1, <3>1, RenameIsCopy DEF RenameOk
    <3> QED
      BY <3>1, <3>2 DEF FM!MoveNext
  <2>2. CASE ~RenameOk(t)
    BY <1>4, <2>2
       DEF TransferStep, OpenOk, OpenErr, CopyOk, CopyErr, CopyCancelled,
           RenameErr, Condemn, Expire
  <2> QED
    BY <2>1, <2>2
<1> QED
  BY <1>1, <1>2, <1>3, <1>4 DEF Next

(* While no name is used twice, the pipeline with its scanner, channels,   *)
(* objects, timeouts and restarts implements FileMove: a file is removed   *)
(* only when the target holds it.                                          *)
THEOREM ImplementsFileMove ==
  ASSUME MaxVersion = 1
  PROVE  Spec => Moves
<1>1. Init => FM!MoveInit
  BY DEF Init, WorkersInit, FM!MoveInit, Absent
<1>2. TypeInv /\ MoveInv /\ [Next]_vars => [FM!MoveNext]_(FM!moveVars)
  BY MoveStep
<1> QED
  BY <1>1, <1>2, TypeInit, TypeStep, MoveInvInit, MoveInvStep, PTL
     DEF Spec, Moves, FM!MoveSafety
=============================================================================
