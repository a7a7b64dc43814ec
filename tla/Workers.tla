------------------------------ MODULE Workers ------------------------------
(***************************************************************************)
(* The workers' half of a pipeline that moves files, as the downloader,    *)
(* the uploader and the streamer share it: Worker managers that each keep  *)
(* one worker object alive, the objects' receive loops, and what is common *)
(* to the transfers that the loops start.                                  *)
(*                                                                         *)
(* A slot is the identity of a worker object.  Up to three goroutines use  *)
(* one object:                                                             *)
(*   - the manager, in Start's health check: sup[s];                       *)
(*   - the loop that receives files: loop[s];                              *)
(*   - the transfer of one file, which the loop waits for in a select.     *)
(* They share the object's fields, above all to_exit, with no lock.  The   *)
(* manager may Stop the object, and close its connection, while the loop   *)
(* is anywhere: the loop then lives on beside its successor.  A transfer   *)
(* that the loop waits for has id 0.  When its timeout strikes it is left  *)
(* behind, with an id of its own, and lives on.                            *)
(*                                                                         *)
(* The parameters of the actions are where the pipelines differ: first is  *)
(* the place where the loop begins a round, begin where a transfer begins, *)
(* and remote says that the source is reached through the connection.  The *)
(* steps of the transfers are theirs.  The code is written twice, with the *)
(* same statements: downloader.go 54-76, 130-138, 168-321, and uploader.go *)
(* 55-77, 143-150, 181-339.                                                *)
(***************************************************************************)
EXTENDS SftpScanner, FiniteSets

CONSTANTS
  Slot,          \* identities of worker objects
  NoPath,        \* no file in hand
  MaxVersion,    \* bound: how many contents are ever put under one path
  MaxFaults,     \* bound: calls that fail for no reason of the model's
  MaxTimeouts,   \* bound: transfers whose timeout strikes
  MaxRestarts    \* bound: crashes of the process, each followed by a restart

ASSUME WorkersAssumption ==
  /\ IsFiniteSet(Slot)
  /\ Cardinality(Slot) >= Worker
  /\ NoPath \notin Path
  /\ MaxVersion \in Nat \ {0}
  /\ MaxFaults \in Nat
  /\ MaxTimeouts \in Nat
  /\ MaxRestarts \in Nat

VARIABLES
  target,      \* version of each path in the target folder
  latest,      \* history: the last version put under each path
  sup,         \* the manager of an object: connecting or watching it
  to_exit,     \* the object's exit flag
  loop,        \* where the object's receive loop stands
  fo,          \* the file the loop has received
  tries,       \* removeSrc's counter
  transfers,   \* the transfer goroutines
  faults,      \* bound: such failures so far
  timeouts,    \* bound: timeouts so far
  restarts     \* bound: restarts so far

storeVars   == <<source, target, latest>>
objVars     == <<sup, to_exit>>
loopVars    == <<loop, fo, tries>>
boundVars   == <<faults, timeouts, restarts>>
workersVars ==
  <<scannerVars, storeVars, objVars, loopVars, transfers, boundVars>>

Partial       == -1    \* a target file that is being written, or was given up
Version       == 1..MaxVersion
SupState      == {"none", "connect", "watch"}
LoopState     == {"none", "top", "receive", "select", "remove", "verify",
                  "signal", "check"}
TransferState == {"mkdir", "open", "create", "copy", "abort", "rename", "ok",
                  "ko"}
Transfer      == [id : 0..MaxTimeouts, owner : Slot, path : Path,
                  pc : TransferState,
                  ver : {Absent, Partial} \cup Version,   \* what it has opened
                  late : BOOLEAN]                         \* ctxTimeout is done

(* A loop in one of these states has received a file and owes a token. *)
Owing == {"select", "remove", "verify", "signal"}

StoreTypeOK ==
  /\ source \in [Path -> {Absent} \cup Version]
  /\ target \in [Path -> {Absent, Partial} \cup Version]
  /\ latest \in [Path -> {Absent} \cup Version]

ObjectTypeOK ==
  /\ sup \in [Slot -> SupState]
  /\ to_exit \in [Slot -> BOOLEAN]

LoopTypeOK ==
  /\ loop \in [Slot -> LoopState]
  /\ fo \in [Slot -> Path \cup {NoPath}]
  /\ tries \in [Slot -> 1..3]
  /\ \A s \in Slot : loop[s] \in Owing => fo[s] \in Path

TransferTypeOK == transfers \subseteq Transfer

BoundTypeOK ==
  /\ faults \in 0..MaxFaults
  /\ timeouts \in 0..MaxTimeouts
  /\ restarts \in 0..MaxRestarts

WorkersTypeOK ==
  /\ ScannerTypeOK
  /\ StoreTypeOK
  /\ ObjectTypeOK
  /\ LoopTypeOK
  /\ TransferTypeOK
  /\ BoundTypeOK

-----------------------------------------------------------------------------
(* The managers.  Worker of them are started, each with an object of its   *)
(* own whose init connects, with a pause between two attempts.             *)

Connecting(objects) ==
  [s \in Slot |-> IF s \in objects THEN "connect" ELSE "none"]

WorkersInit ==
  /\ ScannerInit
  /\ latest \in [Path -> {0, 1}]
  /\ source = latest
  /\ target = [p \in Path |-> Absent]
  /\ \E objects \in SUBSET Slot :
       Cardinality(objects) = Worker /\ sup = Connecting(objects)
  /\ to_exit = [s \in Slot |-> FALSE]
  /\ loop = [s \in Slot |-> "none"]
  /\ fo = [s \in Slot |-> NoPath]
  /\ tries = [s \in Slot |-> 1]
  /\ transfers = {}
  /\ faults = 0 /\ timeouts = 0 /\ restarts = 0

(* Stop has cleared started and closed the object's connection: every      *)
(* later call on it fails.                                                 *)
Closed(s) == sup[s] = "none"

(* No goroutine but perhaps its manager refers to the object. *)
Idle(s) == loop[s] = "none" /\ \A t \in transfers : t.owner # s

(* init has connected: Start spawns the loop and begins the health check. *)
Start(s, first) ==
  /\ sup[s] = "connect"
  /\ sup' = [sup EXCEPT ![s] = "watch"]
  /\ loop' = [loop EXCEPT ![s] = first]
  /\ UNCHANGED <<scannerVars, storeVars, to_exit, fo, tries, transfers,
                 boundVars>>

(* The health check sees the flag and Start returns; the manager Stops the *)
(* object.  In service mode it makes another one, which connects again.    *)
Leave(s) ==
  /\ sup[s] = "watch"
  /\ to_exit[s]
  /\ IF OneTime
     THEN /\ sup' = [sup EXCEPT ![s] = "none"]
          /\ UNCHANGED to_exit
     ELSE \E n \in Slot :
            /\ Idle(n)
            /\ n = s \/ sup[n] = "none"
            /\ sup' = [sup EXCEPT ![s] = "none", ![n] = "connect"]
            /\ to_exit' = [to_exit EXCEPT ![n] = FALSE]
  /\ UNCHANGED <<scannerVars, storeVars, loopVars, transfers, boundVars>>

-----------------------------------------------------------------------------
(* The receive loop. *)

(* Some loops go on only while the object is started. *)
Top(s) ==
  /\ loop[s] = "top"
  /\ loop' = [loop EXCEPT ![s] = IF Closed(s) THEN "none" ELSE "receive"]
  /\ UNCHANGED <<scannerVars, storeVars, objVars, fo, tries, transfers,
                 boundVars>>

Receive(s, begin) ==
  /\ loop[s] = "receive"
  /\ ReceiveFile
  /\ fo' = [fo EXCEPT ![s] = Head(c)]
  /\ loop' = [loop EXCEPT ![s] = "select"]
  /\ transfers' = transfers \cup
       {[id |-> 0, owner |-> s, path |-> Head(c), pc |-> begin,
         ver |-> Absent, late |-> FALSE]}
  /\ UNCHANGED <<done, scanner, todo, dispatched, stale, walkErrors, storeVars,
                 objVars, tries, boundVars>>

(* The loop goes on at place; what its transfer leaves is rest. *)
EndSelect(t, place, rest) ==
  /\ t.id = 0
  /\ loop' = [loop EXCEPT ![t.owner] = place]
  /\ tries' = [tries EXCEPT ![t.owner] = 1]
  /\ transfers' = (transfers \ {t}) \cup rest
  /\ UNCHANGED <<scannerVars, storeVars, objVars, fo, boundVars>>

(* Mutant: the result of the transfer is not looked at. *)
SelectAnyResult(t) == t.pc \in {"ok", "ko"} /\ EndSelect(t, "remove", {})

(* Mutant: a failed transfer goes on to the next file with no token sent. *)
SelectFailureUnsignalled(t) ==
  /\ t.pc \in {"ok", "ko"}
  /\ EndSelect(t, IF t.pc = "ok" THEN "remove" ELSE "check", {})

(* The transfer's report is what download or upload returns. *)
SelectResult(t) ==
  /\ t.pc \in {"ok", "ko"}
  /\ EndSelect(t, IF t.pc = "ok" THEN "remove" ELSE "signal", {})

(* A transfer that has not reported yet lives on. *)
LeftBehind(t) ==
  IF t.pc \in {"ok", "ko"} THEN {} ELSE {[t EXCEPT !.id = timeouts]}

(* Mutant: a timeout goes on to the next file with no token sent. *)
SelectTimeoutUnsignalled(t) == t.late /\ EndSelect(t, "check", LeftBehind(t))

(* ctxTimeout is done: the select may take this case even if the transfer  *)
(* has just reported.                                                      *)
SelectTimeout(t) == t.late /\ EndSelect(t, "signal", LeftBehind(t))

(* A call fails because its condition holds, or by a fault. *)
Fails(condition) ==
  /\ UNCHANGED <<timeouts, restarts>>
  /\ \/ condition /\ UNCHANGED faults
     \/ ~condition /\ faults < MaxFaults /\ faults' = faults + 1

(* Mutant: one try too many. *)
NextTryOffByOne(s) ==
  /\ loop' = [loop EXCEPT ![s] = IF tries[s] <= 3 THEN "remove" ELSE "signal"]
  /\ tries' = [tries EXCEPT ![s] = IF @ <= 3 THEN @ + 1 ELSE @]

(* Mutant: giving up on the removal goes on with no token sent. *)
NextTryUnsignalled(s) ==
  /\ loop' = [loop EXCEPT ![s] = IF tries[s] < 3 THEN "remove" ELSE "check"]
  /\ tries' = [tries EXCEPT ![s] = IF @ < 3 THEN @ + 1 ELSE @]

NextTry(s) ==
  /\ loop' = [loop EXCEPT ![s] = IF tries[s] < 3 THEN "remove" ELSE "signal"]
  /\ tries' = [tries EXCEPT ![s] = IF @ < 3 THEN @ + 1 ELSE @]

(* removeSrc: up to three times, Remove and then Stat to see it is gone.   *)
(* Neither can find the file.                                              *)
Gone(s, remote) == source[fo[s]] = Absent \/ (remote /\ Closed(s))

RemoveOk(s, remote) ==
  /\ loop[s] = "remove"
  /\ ~Gone(s, remote)
  /\ source' = [source EXCEPT ![fo[s]] = Absent]
  /\ loop' = [loop EXCEPT ![s] = "verify"]
  /\ UNCHANGED <<scannerVars, target, latest, objVars, fo, tries, transfers,
                 boundVars>>

RemoveErr(s, remote) ==
  /\ loop[s] = "remove"
  /\ Fails(Gone(s, remote))
  /\ NextTry(s)
  /\ UNCHANGED <<scannerVars, storeVars, objVars, fo, transfers>>

VerifyGone(s, remote) ==
  /\ loop[s] = "verify"
  /\ Fails(Gone(s, remote))
  /\ loop' = [loop EXCEPT ![s] = "signal"]
  /\ UNCHANGED <<scannerVars, storeVars, objVars, fo, tries, transfers>>

VerifyPresent(s, remote) ==
  /\ loop[s] = "verify"
  /\ ~Gone(s, remote)
  /\ NextTry(s)
  /\ UNCHANGED <<scannerVars, storeVars, objVars, fo, transfers, boundVars>>

(* done <- 1, whether the file was moved or not. *)
Signal(s) ==
  /\ loop[s] = "signal"
  /\ SendToken
  /\ loop' = [loop EXCEPT ![s] = "check"]
  /\ fo' = [fo EXCEPT ![s] = NoPath]
  /\ UNCHANGED <<c, scanner, todo, dispatched, stale, walkErrors, storeVars,
                 objVars, tries, transfers, boundVars>>

Check(s, first) ==
  /\ loop[s] = "check"
  /\ loop' = [loop EXCEPT ![s] = IF to_exit[s] THEN "none" ELSE first]
  /\ UNCHANGED <<scannerVars, storeVars, objVars, fo, tries, transfers,
                 boundVars>>

ManagerStep(s, first) == Start(s, first) \/ Leave(s)

LoopStep(s, first, begin, remote) ==
  \/ Receive(s, begin)
  \/ \E t \in transfers : t.owner = s /\ (SelectResult(t) \/ SelectTimeout(t))
  \/ RemoveOk(s, remote) \/ RemoveErr(s, remote)
  \/ VerifyGone(s, remote) \/ VerifyPresent(s, remote)
  \/ Signal(s) \/ Check(s, first)

-----------------------------------------------------------------------------
(* What the steps of the transfers are made of. *)

Becomes(t, next) == transfers' = (transfers \ {t}) \cup {next}

(* done has room for the report; of a transfer left behind nobody reads it.*)
Report(t, result) ==
  transfers' = (transfers \ {t}) \cup
    IF t.id = 0 THEN {[t EXCEPT !.pc = result]} ELSE {}

(* An error that condemns the object, whatever the object does by now.     *)
(* (The report comes 1.1 s later.)                                         *)
Condemn(t) ==
  /\ Report(t, "ko")
  /\ to_exit' = [to_exit EXCEPT ![t.owner] = TRUE]
  /\ UNCHANGED <<scannerVars, storeVars, sup, loopVars>>

-----------------------------------------------------------------------------
(* The environment. *)

(* A producer puts a new file under a name that is free at the source. *)
Produce(p) ==
  /\ source[p] = Absent
  /\ latest[p] < MaxVersion
  /\ latest' = [latest EXCEPT ![p] = @ + 1]
  /\ source' = [source EXCEPT ![p] = latest[p] + 1]
  /\ UNCHANGED <<scannerVars, target, objVars, loopVars, transfers, boundVars>>

Expire(t) ==
  /\ t.id = 0
  /\ ~t.late
  /\ timeouts < MaxTimeouts
  /\ timeouts' = timeouts + 1
  /\ Becomes(t, [t EXCEPT !.late = TRUE])
  /\ UNCHANGED <<scannerVars, storeVars, objVars, loopVars, faults, restarts>>

(* The process dies and is started again: only the two folders survive. *)
Restart ==
  /\ restarts < MaxRestarts
  /\ restarts' = restarts + 1
  /\ c' = <<>> /\ done' = 0
  /\ scanner' = "connect" /\ todo' = {}
  /\ dispatched' = 0 /\ stale' = 0
  /\ \E objects \in SUBSET Slot :
       Cardinality(objects) = Worker /\ sup' = Connecting(objects)
  /\ to_exit' = [s \in Slot |-> FALSE]
  /\ loop' = [s \in Slot |-> "none"]
  /\ fo' = [s \in Slot |-> NoPath]
  /\ tries' = [s \in Slot |-> 1]
  /\ transfers' = {}
  /\ UNCHANGED <<walkErrors, storeVars, faults, timeouts>>

-----------------------------------------------------------------------------
(* What every such pipeline should keep. *)

Holding == {s \in Slot : loop[s] \in Owing}

(* Files and tokens that are somewhere between the scanner's two ends. *)
Pending == Len(c) + Cardinality(Holding) + done

(* The number of files queued, held by a loop, or handed back as a token   *)
(* is what the scanner counts, plus the files that earlier scans abandoned *)
(* after a walk error.  No loop, restarted, condemned or timed out, loses  *)
(* a token or sends two (downloader.go 207-219, uploader.go 225-237,       *)
(* sftp-scanner.go 67-96, folder-scanner.go 109-149).                      *)
TokenConservation ==
  /\ Pending = dispatched + stale
  /\ dispatched >= IF scanner = "send" THEN -1 ELSE 0

(* A scan starts, and a one-time run exits, only when nothing of an earlier*)
(* scan is queued, held or unaccounted for, unless a walk error has made   *)
(* the count useless for good (sftp-scanner.go 86-96).                     *)
ScanBarrier ==
  scanner \in {"connect", "ready", "stopped", "exited"} =>
    /\ dispatched = 0
    /\ stale = 0 => c = <<>> /\ done = 0 /\ Holding = {}

(* While no scan was abandoned, a file is in one place only: still to be   *)
(* sent, queued once, or in the hands of one loop.  It is what keeps two   *)
(* workers from moving one file (sftp-scanner.go 44-99).                   *)
OneHolder ==
  stale = 0 =>
    \A p \in Path :
      LET queued == {i \in DOMAIN c : c[i] = p}
          held   == {s \in Holding : fo[s] = p}
          unsent == {q \in todo : q = p}
      IN  Cardinality(queued) + Cardinality(held) + Cardinality(unsent) <= 1

(* In one-time mode nobody replaces a condemned object. *)
WorkerLost ==
  Cardinality({s \in Slot : sup[s] = "connect" \/ loop[s] # "none"}) < Worker
-----------------------------------------------------------------------------
(* When all wait for each other. *)

(* The scanner can go on only after another goroutine has. *)
ScannerWaits ==
  \/ scanner \in {"full", "drain"} /\ done = 0
  \/ scanner = "send" /\ Len(c) = Cap

(* So can an object's loop, if it has one, which in the select has a       *)
(* transfer to wait for as long as that has not been left behind.          *)
LoopWaits(s) ==
  \/ loop[s] = "none"
  \/ loop[s] = "receive" /\ c = <<>>
  \/ loop[s] = "select" /\ \A t \in transfers : t.id = 0 => t.owner # s
  \/ loop[s] = "signal" /\ done = Cap

(* The health check sleeps as long as the flag is not set. *)
ManagerWaits(s) == sup[s] = "none" \/ (sup[s] = "watch" /\ ~to_exit[s])

Stuck ==
  /\ ScannerWaits
  /\ \A s \in Slot : LoopWaits(s) /\ ManagerWaits(s)

(* In service mode ugoku keeps scanning (readme.md 34). *)
KeepsScanning == ~OneTime => ~Stuck

(* It does while folders are small.  For a service to get stuck, one scan, *)
(* with what is left of abandoned ones, must fill c, done and the hands of *)
(* all Worker objects, and the scanner must hold one file more in a send   *)
(* it has taken a token for.  That token came from a condemned object's    *)
(* loop, which is gone, and there was a file for its successor as well     *)
(* (sftp-scanner.go 73-80, downloader.go 216-219).                         *)
StuckOnlyWhenLong ==
  ~OneTime /\ Stuck => Cardinality(Path) + stale >= 5 * Worker + 2

(* A one-time run is stuck only after it has lost a worker, however many   *)
(* files there are (downloader.go 216-219, 301-320).                       *)
StuckOnlyWhenLost == OneTime /\ Stuck => WorkerLost
=============================================================================
