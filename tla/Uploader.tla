------------------------------ MODULE Uploader ------------------------------
(***************************************************************************)
(* The upload pipeline: a FolderScanner, the managers and loops of Workers,*)
(* and the transfers that upload starts (uploader/uploader.go).            *)
(*                                                                         *)
(* A transfer makes the remote folder, opens the source, creates the       *)
(* remote file and copies.  The remote file is written in place: Create    *)
(* truncates it, and until the copy ends it is Partial.  Unlike download,  *)
(* upload never sets cancelled: a transfer left behind does all that it    *)
(* would have done, and fails at its next read only because the context is *)
(* done.                                                                   *)
(***************************************************************************)
EXTENDS FolderScanner, Workers

VARIABLES
  panicked,   \* a goroutine has panicked: the process is dead
  torn        \* history: paths truncated by a transfer left behind

ownVars == <<panicked, torn>>
vars == <<workersVars, ownVars>>

(* upload never renames, and writes the target in place. *)
TypeOK ==
  /\ WorkersTypeOK
  /\ \A t \in transfers : t.pc # "rename"
  /\ panicked \in BOOLEAN
  /\ torn \subseteq Path

-----------------------------------------------------------------------------
(* The transfer goroutine.  Every error of it condemns the object. *)

MkdirOk(t) ==
  /\ t.pc = "mkdir"
  /\ ~Closed(t.owner)
  /\ Becomes(t, [t EXCEPT !.pc = "open"])
  /\ UNCHANGED <<scannerVars, storeVars, objVars, loopVars, boundVars, ownVars>>

MkdirErr(t) ==
  /\ t.pc = "mkdir"
  /\ Fails(Closed(t.owner))
  /\ Condemn(t)
  /\ UNCHANGED ownVars

OpenOk(t) ==
  /\ t.pc = "open"
  /\ source[t.path] # Absent
  /\ Becomes(t, [id |-> t.id, owner |-> t.owner, path |-> t.path,
                 pc |-> "create", ver |-> source[t.path], late |-> t.late])
  /\ UNCHANGED <<scannerVars, storeVars, objVars, loopVars, boundVars, ownVars>>

OpenErr(t) ==
  /\ t.pc = "open"
  /\ Fails(source[t.path] = Absent)
  /\ Condemn(t)
  /\ UNCHANGED ownVars

(* What Create does to another transfer u of the same file: what u has     *)
(* written is gone, and the file will not be whole when u ends.            *)
Truncated(u, p) ==
  IF u.path = p /\ u.pc = "copy" THEN [u EXCEPT !.ver = Partial] ELSE u

(* CopyWithCancel's first read fails if ctxTimeout is done by now. *)
CreateOk(t) ==
  /\ t.pc = "create"
  /\ ~Closed(t.owner)
  /\ target' = [target EXCEPT ![t.path] = Partial]
  /\ torn' = IF t.id > 0 THEN torn \cup {t.path} ELSE torn
  /\ transfers' = {Truncated(u, t.path) : u \in transfers \ {t}}
                    \cup {[t EXCEPT !.pc = IF t.late THEN "abort" ELSE "copy"]}
  /\ UNCHANGED <<scannerVars, source, latest, objVars, loopVars, boundVars,
                 panicked>>

(* The message for openerr calls err.Error(), and err is nil: a panic. *)
CreateErr(t) ==
  /\ t.pc = "create"
  /\ Fails(Closed(t.owner))
  /\ panicked' = TRUE
  /\ UNCHANGED <<scannerVars, storeVars, objVars, loopVars, transfers, torn>>

(* The last read came before the timeout, the last write when it may.  The *)
(* target is whole now, unless another transfer has truncated it.          *)
CopyOk(t) ==
  /\ t.pc = "copy"
  /\ target' = [target EXCEPT ![t.path] = IF t.ver = Partial THEN @ ELSE t.ver]
  /\ Report(t, "ok")
  /\ UNCHANGED <<scannerVars, source, latest, objVars, loopVars, boundVars,
                 ownVars>>

(* Mutant: a copy that ended early counts as done. *)
CopyErrDropped(t) ==
  /\ t.pc \in {"copy", "abort"}
  /\ Fails(Closed(t.owner) \/ t.late)
  /\ Report(t, "ok")
  /\ UNCHANGED <<scannerVars, storeVars, objVars, loopVars, ownVars>>

(* A read or write failed, or a read found ctxTimeout done. *)
CopyErr(t) ==
  /\ t.pc \in {"copy", "abort"}
  /\ Fails(Closed(t.owner) \/ t.late)
  /\ Condemn(t)
  /\ UNCHANGED ownVars

TransferStep(t) ==
  \/ MkdirOk(t) \/ MkdirErr(t)
  \/ OpenOk(t) \/ OpenErr(t)
  \/ CreateOk(t) \/ CreateErr(t)
  \/ CopyOk(t) \/ CopyErr(t)

-----------------------------------------------------------------------------
Init == WorkersInit /\ panicked = FALSE /\ torn = {}

Alive == Running /\ ~panicked

ScannerAct ==
  /\ ~panicked
  /\ FolderScannerStep
  /\ UNCHANGED <<storeVars, objVars, loopVars, transfers, boundVars, ownVars>>

ManagerAct(s) == Alive /\ ManagerStep(s, "top") /\ UNCHANGED ownVars

LoopAct(s) ==
  /\ Alive
  /\ Top(s) \/ LoopStep(s, "top", "mkdir", FALSE)
  /\ UNCHANGED ownVars

TransferAct(t) == Alive /\ TransferStep(t)

(* A panic, like os.Exit, ends every goroutine. *)
Next ==
  \/ ScannerAct
  \/ \E s \in Slot : ManagerAct(s) \/ LoopAct(s)
  \/ \E t \in transfers : TransferAct(t)
  \/ Alive /\ (\E t \in transfers : Expire(t)) /\ UNCHANGED ownVars
  \/ (\E p \in Path : Produce(p)) /\ UNCHANGED ownVars
  \/ Restart /\ panicked' = FALSE /\ UNCHANGED torn

Spec == Init /\ [][Next]_vars

(* Every goroutine that can run does run in the end. *)
Fairness ==
  /\ WF_vars(ScannerAct)
  /\ \A s \in Slot :
       /\ WF_vars(ManagerAct(s))
       /\ WF_vars(LoopAct(s))
       /\ WF_vars(\E t \in transfers :
                    t.owner = s /\ t.id = 0 /\ TransferAct(t))
  /\ WF_vars(\E t \in transfers : t.id > 0 /\ TransferAct(t))

FairSpec == Spec /\ Fairness

-----------------------------------------------------------------------------
(* Every file between the scanner's two ends is counted, and a scan starts *)
(* only with none there.  No exception for abandoned scans is needed, as   *)
(* in the downloader: the folder is listed before the first file is sent   *)
(* (folder-scanner.go 59-149, uploader.go 225-237).                        *)
Counted ==
  /\ Pending = dispatched
  /\ scanner \in {"connect", "ready", "stopped", "exited"} => dispatched = 0

(* A file is waited for by one upload at a time (folder-scanner.go 139-149)*)
OneUpload ==
  \A t, u \in transfers :
    t.id = 0 /\ u.id = 0 /\ t.path = u.path => t = u

Delivered(p) == latest[p] > 0 => source[p] = latest[p] \/ target[p] = latest[p]

(* A file put in the source folder is there or is whole at the server      *)
(* (readme.md 14).                                                         *)
NothingLost == \A p \in Path : Delivered(p)

(* It is, unless a transfer left behind has truncated the remote file after*)
(* its timeout: no failed call, condemned object or restart loses a file   *)
(* (uploader.go 71-157, 229-233).                                          *)
LostOnlyWhenTorn == \A p \in Path \ torn : Delivered(p)

(* In service mode every file leaves the source folder, and scanning goes  *)
(* on, although calls fail and transfers time out, unless the process      *)
(* panics; in folders too small for a service to get stuck.                *)
UploadsAll ==
  \A p \in Path : []<>(panicked \/ (scanner = "ready" /\ source[p] = Absent))

(* A one-time run ends as long as no upload has condemned its object       *)
(* (readme.md 36, uploader.go 309-339).                                    *)
FinishesOrLosesWorker == <>(scanner = "exited" \/ panicked \/ WorkerLost)
=============================================================================
