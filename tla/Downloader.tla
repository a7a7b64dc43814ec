----------------------------- MODULE Downloader -----------------------------
(***************************************************************************)
(* The download pipeline: an SftpScanner, the managers and loops of        *)
(* Workers, and the transfers that download starts                         *)
(* (downloader/downloader.go).  A transfer opens the source, copies it to  *)
(* a temporary file, and renames that to the target.  A transfer that its  *)
(* download has left behind with a timeout finds cancelled set.            *)
(***************************************************************************)
EXTENDS Workers

vars == workersVars

(* The target is renamed into place: it is never seen half written. *)
TypeOK ==
  /\ WorkersTypeOK
  /\ \A p \in Path : target[p] # Partial
  /\ \A s \in Slot : loop[s] # "top"
  /\ \A t \in transfers :
       t.pc \notin {"mkdir", "create", "abort"} /\ t.ver # Partial

-----------------------------------------------------------------------------
(* The transfer goroutine. *)

OpenOk(t) ==
  /\ t.pc = "open"
  /\ ~Closed(t.owner)
  /\ source[t.path] # Absent
  /\ Becomes(t, [id |-> t.id, owner |-> t.owner, path |-> t.path,
                 pc |-> "copy", ver |-> source[t.path], late |-> t.late])
  /\ UNCHANGED <<scannerVars, storeVars, objVars, loopVars, boundVars>>

(* This error path does not look at cancelled: a transfer left behind      *)
(* condemns the object, which may be busy with another file by now.        *)
OpenErr(t) ==
  /\ t.pc = "open"
  /\ Fails(Closed(t.owner) \/ source[t.path] = Absent)
  /\ Condemn(t)

(* The last read came before the timeout, and cancelled is not set.  (The  *)
(* timeout may strike between the two: that is Expire after this step.)    *)
CopyOk(t) ==
  /\ t.pc = "copy"
  /\ t.id = 0
  /\ ~t.late
  /\ Becomes(t, [t EXCEPT !.pc = "rename"])
  /\ UNCHANGED <<scannerVars, storeVars, objVars, loopVars, boundVars>>

(* A read failed, or found ctxTimeout done before download had noticed. *)
CopyErr(t) ==
  /\ t.pc = "copy"
  /\ t.id = 0
  /\ Fails(Closed(t.owner) \/ t.late)
  /\ Condemn(t)

(* Copied or not, cancelled is set: the temporary file is removed. *)
CopyCancelled(t) ==
  /\ t.pc = "copy"
  /\ t.id > 0
  /\ transfers' = transfers \ {t}
  /\ UNCHANGED <<scannerVars, storeVars, objVars, loopVars, boundVars>>

(* A transfer that had passed the test of cancelled before its timeout     *)
(* still renames.                                                          *)
RenameOk(t) ==
  /\ t.pc = "rename"
  /\ target' = [target EXCEPT ![t.path] = t.ver]
  /\ Report(t, "ok")
  /\ UNCHANGED <<scannerVars, source, latest, objVars, loopVars, boundVars>>

(* Mutant: the error of the rename is dropped. *)
RenameErrDropped(t) ==
  /\ t.pc = "rename"
  /\ Fails(FALSE)
  /\ Report(t, "ok")
  /\ UNCHANGED <<scannerVars, storeVars, objVars, loopVars>>

(* RenameTempfile's three attempts, all failed. *)
RenameErr(t) ==
  /\ t.pc = "rename"
  /\ Fails(FALSE)
  /\ Report(t, "ko")
  /\ UNCHANGED <<scannerVars, storeVars, objVars, loopVars>>

TransferStep(t) ==
  \/ OpenOk(t) \/ OpenErr(t)
  \/ CopyOk(t) \/ CopyErr(t) \/ CopyCancelled(t)
  \/ RenameOk(t) \/ RenameErr(t)

-----------------------------------------------------------------------------
Init == WorkersInit

ScannerAct ==
  /\ ScannerStep
  /\ UNCHANGED <<storeVars, objVars, loopVars, transfers, boundVars>>

WorkerStep(s) ==
  ManagerStep(s, "receive") \/ LoopStep(s, "receive", "open", TRUE)

(* os.Exit ends every goroutine; producers and a new start go on. *)
Next ==
  \/ ScannerAct
  \/ Running /\ \E s \in Slot : WorkerStep(s)
  \/ Running /\ \E t \in transfers : TransferStep(t) \/ Expire(t)
  \/ \E p \in Path : Produce(p)
  \/ Restart

Spec == Init /\ [][Next]_vars

(* Every goroutine that can run does run in the end; a full channel is the *)
(* only thing that holds one up.  The environment promises nothing.        *)
Fairness ==
  /\ WF_vars(ScannerAct)
  /\ \A s \in Slot :
       /\ WF_vars(Running /\ ManagerStep(s, "receive"))
       /\ WF_vars(Running /\ LoopStep(s, "receive", "open", TRUE))
       /\ WF_vars(Running /\ \E t \in transfers :
                               t.owner = s /\ t.id = 0 /\ TransferStep(t))
  /\ WF_vars(Running /\ \E t \in transfers : t.id > 0 /\ TransferStep(t))

FairSpec == Spec /\ Fairness

-----------------------------------------------------------------------------
(* A path under which a file was once put is never empty on both sides:    *)
(* the removal comes after the rename, for every order of timeouts,        *)
(* failures, replaced objects and restarts (downloader.go 210-215).        *)
NoVanish ==
  \A p \in Path : latest[p] > 0 => source[p] # Absent \/ target[p] # Absent

(* A version leaves the source only when the target holds that version:    *)
(* readme.md 13, files are removed after download.                         *)
RemovedOnlyAfterDownload ==
  [][\A p \in Path : source[p] # Absent /\ source'[p] = Absent
       => target[p] = source[p]]_vars

(* The pipeline moves files as the abstract specification says. *)
FM == INSTANCE FileMove
        WITH source <- source, target <- target, latest <- latest
Moves == FM!MoveSafety

(* The same with its fairness: in service mode every file is moved although*)
(* calls fail, transfers time out and a walk ends with an error, in folders*)
(* too small for a service to get stuck (StuckOnlyWhenLong).               *)
MovesFairly == FM!MoveSpec

(* In service mode scanning of such folders never ceases: the scanner never*)
(* waits for a token that will not come, whatever became of the objects and*)
(* of the scanner before it, whose files may still be out.                 *)
ScansForever == []<>(scanner = "ready")

(* A one-time run ends (readme.md 36). *)
Finishes == <>(scanner = "exited")

(* It does as long as no download has condemned its object. *)
FinishesOrLosesWorker == <>(scanner = "exited" \/ WorkerLost)
=============================================================================
