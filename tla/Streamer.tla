------------------------------ MODULE Streamer ------------------------------
(***************************************************************************)
(* The streaming pipeline, from one server to another: an SftpScanner on   *)
(* the source, the managers and loops of Workers, and stream               *)
(* (streamer/streamer.go).                                                 *)
(*                                                                         *)
(* stream runs in the loop's own goroutine and has no timeout: it is the   *)
(* transfer with id 0 that the loop waits for, which is never late.  It    *)
(* writes the target in place, as upload does.  An object has two          *)
(* connections; Stop closes both.  init calls Stop after each attempt that *)
(* fails, and Stop sets the exit flag, which init does not clear again: an *)
(* object that has connected at a second attempt is condemned when it      *)
(* starts, and its connections are closed a second later under whatever    *)
(* its loop is doing by then.                                              *)
(***************************************************************************)
EXTENDS Workers

VARIABLES
  panicked,   \* a goroutine has panicked: the process is dead
  shared      \* history: paths that two loops have held at the same time

ownVars == <<panicked, shared>>
vars == <<workersVars, ownVars>>

(* A stream is never left behind. *)
TypeOK ==
  /\ WorkersTypeOK
  /\ \A t \in transfers :
       t.id = 0 /\ ~t.late /\ t.pc \notin {"abort", "rename"}
  /\ panicked \in BOOLEAN
  /\ shared \subseteq Path

-----------------------------------------------------------------------------
(* stream.  When it fails the loop sets streamer_to_exit (Condemn). *)

MkdirOk(t) ==
  /\ t.pc = "mkdir"
  /\ ~Closed(t.owner)
  /\ Becomes(t, [t EXCEPT !.pc = "open"])
  /\ UNCHANGED <<scannerVars, storeVars, objVars, loopVars, boundVars, ownVars>>

MkdirErr(t) ==
  /\ t.pc = "mkdir"
  /\ Fails(Closed(t.owner))
  /\ Condemn(t)
  /\ UNCHANGED ownVars

OpenOk(t) ==
  /\ t.pc = "open"
  /\ ~Closed(t.owner)
  /\ source[t.path] # Absent
  /\ Becomes(t, [t EXCEPT !.pc = "create", !.ver = source[t.path]])
  /\ UNCHANGED <<scannerVars, storeVars, objVars, loopVars, boundVars, ownVars>>

OpenErr(t) ==
  /\ t.pc = "open"
  /\ Fails(Closed(t.owner) \/ source[t.path] = Absent)
  /\ Condemn(t)
  /\ UNCHANGED ownVars

(* What Create does to another stream u of the same file. *)
Truncated(u, p) ==
  IF u.path = p /\ u.pc = "copy" THEN [u EXCEPT !.ver = Partial] ELSE u

CreateOk(t) ==
  /\ t.pc = "create"
  /\ ~Closed(t.owner)
  /\ target' = [target EXCEPT ![t.path] = Partial]
  /\ transfers' = {Truncated(u, t.path) : u \in transfers \ {t}}
                    \cup {[t EXCEPT !.pc = "copy"]}
  /\ UNCHANGED <<scannerVars, source, latest, objVars, loopVars, boundVars,
                 ownVars>>

(* The message for openerr calls err.Error(), and err is nil: a panic. *)
CreateErr(t) ==
  /\ t.pc = "create"
  /\ Fails(Closed(t.owner))
  /\ panicked' = TRUE
  /\ UNCHANGED <<scannerVars, storeVars, objVars, loopVars, transfers, shared>>

(* Reads and writes both go through the connections. *)
CopyOk(t) ==
  /\ t.pc = "copy"
  /\ ~Closed(t.owner)
  /\ target' = [target EXCEPT ![t.path] = IF t.ver = Partial THEN @ ELSE t.ver]
  /\ Report(t, "ok")
  /\ UNCHANGED <<scannerVars, source, latest, objVars, loopVars, boundVars,
                 ownVars>>

(* Mutant: a copy that ended early counts as done. *)
CopyErrDropped(t) ==
  /\ t.pc = "copy"
  /\ Fails(Closed(t.owner))
  /\ Report(t, "ok")
  /\ UNCHANGED <<scannerVars, storeVars, objVars, loopVars, ownVars>>

(* Mutant: the loop never gets the error back. *)
CopyErrUnreported(t) ==
  /\ t.pc = "copy"
  /\ Fails(Closed(t.owner))
  /\ transfers' = transfers \ {t}
  /\ to_exit' = [to_exit EXCEPT ![t.owner] = TRUE]
  /\ UNCHANGED <<scannerVars, storeVars, sup, loopVars, ownVars>>

CopyErr(t) ==
  /\ t.pc = "copy"
  /\ Fails(Closed(t.owner))
  /\ Condemn(t)
  /\ UNCHANGED ownVars

StreamStep(t) ==
  \/ MkdirOk(t) \/ MkdirErr(t)
  \/ OpenOk(t) \/ OpenErr(t)
  \/ CreateOk(t) \/ CreateErr(t)
  \/ CopyOk(t) \/ CopyErr(t)

-----------------------------------------------------------------------------
(* One of the two connections fails: Stop, a pause, and another attempt. *)
ConnectErr(s) ==
  /\ sup[s] = "connect"
  /\ faults < MaxFaults
  /\ faults' = faults + 1
  /\ to_exit' = [to_exit EXCEPT ![s] = TRUE]
  /\ UNCHANGED <<scannerVars, storeVars, sup, loopVars, transfers, timeouts,
                 restarts, ownVars>>

(* Another loop has the file that s receives. *)
Shares(s) == \E r \in Holding : r # s /\ fo[r] = Head(c)

StreamLoop(s) ==
  /\ Top(s) \/ LoopStep(s, "top", "mkdir", TRUE)
  /\ shared' = IF loop[s] = "receive" /\ Shares(s)
               THEN shared \cup {Head(c)} ELSE shared
  /\ UNCHANGED panicked

-----------------------------------------------------------------------------
Init == WorkersInit /\ panicked = FALSE /\ shared = {}

Alive == Running /\ ~panicked

ScannerAct ==
  /\ ~panicked
  /\ ScannerStep
  /\ UNCHANGED <<storeVars, objVars, loopVars, transfers, boundVars, ownVars>>

ManagerAct(s) == Alive /\ ManagerStep(s, "top") /\ UNCHANGED ownVars

ConnectAct(s) == Alive /\ ConnectErr(s)

LoopAct(s) == Alive /\ StreamLoop(s)

StreamAct(t) == Alive /\ StreamStep(t)

(* A panic, like os.Exit, ends every goroutine. *)
Next ==
  \/ ScannerAct
  \/ \E s \in Slot : ManagerAct(s) \/ ConnectAct(s) \/ LoopAct(s)
  \/ \E t \in transfers : StreamAct(t)
  \/ (\E p \in Path : Produce(p)) /\ UNCHANGED ownVars
  \/ Restart /\ panicked' = FALSE /\ UNCHANGED shared

Spec == Init /\ [][Next]_vars

(* Every goroutine that can run does run in the end, and, as nothing else  *)
(* ends a stream, its calls return.                                        *)
Fairness ==
  /\ WF_vars(ScannerAct)
  /\ \A s \in Slot :
       /\ WF_vars(ManagerAct(s))
       /\ WF_vars(LoopAct(s))
       /\ WF_vars(\E t \in transfers : t.owner = s /\ StreamAct(t))

FairSpec == Spec /\ Fairness

-----------------------------------------------------------------------------
(* Two streamers have one file only after a walk error has made the new    *)
(* scanner send again what the old one had sent: no streamer condemned by  *)
(* its own init, replaced or restarted makes it so (sftp-scanner.go 55-59, *)
(* streamer.go 196-213).                                                   *)
SharedNeedsWalkError == walkErrors = 0 => shared = {}

Delivered(p) == latest[p] > 0 => source[p] = latest[p] \/ target[p] = latest[p]

(* A file put in the source folder is there or is whole at the target,     *)
(* whatever fails, unless two streamers had it at the same time: one may   *)
(* then truncate what the other has completed, and fail, after the other   *)
(* has removed the source (streamer.go 92-99, 203-207).                    *)
LostOnlyWhenShared == \A p \in Path \ shared : Delivered(p)

(* In service mode every file leaves the source folder, and scanning goes  *)
(* on, although calls fail, objects start condemned and connections are    *)
(* closed under a stream, unless the process panics; in folders too small  *)
(* for a service to get stuck (readme.md 34, streamer.go 163-167, 217-222).*)
StreamsAll ==
  \A p \in Path : []<>(panicked \/ (scanner = "ready" /\ source[p] = Absent))
=============================================================================
