------------------------------- MODULE Syncer -------------------------------
(***************************************************************************)
(* A syncer: one of the scanners of SyncScanners and Worker goroutines     *)
(* that each keep one syncer object (syncer/syncer.go, server-syncer.go,   *)
(* local-syncer.go).  The two kinds of object have one loop.  A file is    *)
(* copied when its copy is missing or its size or time are not those of    *)
(* the Stat in hand, and then the copy is given the time of that Stat,     *)
(* whether the copying has succeeded or not.                               *)
(*                                                                         *)
(* The goroutine that makes the objects runs their loop: unlike a worker   *)
(* of Workers, an object is stopped only after its loop has returned.  A   *)
(* server syncer's download has a timeout, and may be left behind as the   *)
(* downloader's is; a local syncer's upload is a plain call.               *)
(*                                                                         *)
(* Times: a version is its own time.  An edit thus replaces a file as a    *)
(* whole, and gives it a time, in whole seconds, that no other version of  *)
(* it has had.  A file that is being written has the time NoStat, which no *)
(* version has.  Sizes: all versions have the same size, which is the hard *)
(* case, and a file that is not whole has another.                         *)
(***************************************************************************)
EXTENDS SyncScanners, FiniteSets

CONSTANTS
  Agent,         \* the worker goroutines
  Nobody,        \* owner of the downloads of objects that are stopped
  MaxFaults,     \* bound: timeouts that strike, and calls that fail for no
                 \* reason of the model's, together
  MaxRestarts    \* bound: crashes of the process, each followed by a restart

ASSUME AgentAssumption ==
  /\ IsFiniteSet(Agent)
  /\ Cardinality(Agent) = Worker
  /\ Nobody \notin Agent
  /\ MaxFaults \in Nat
  /\ MaxRestarts \in Nat

VARIABLES
  latest,      \* history: the last version put under each path
  target,      \* what the copy has of each path: a version, its time, and, as
               \* history, the last whole version that it has had
  loop,        \* where each goroutine stands
  fo,          \* the file it has received
  to_exit,     \* its object's exit flag
  transfers,   \* downloads and uploads under way
  panicked,    \* a goroutine has panicked: the process is dead
  suspect,     \* history: paths whose copy may carry a time not its own
  faults, restarts    \* bounds

storeVars == <<mode, source, latest>>
loopVars  == <<loop, fo, to_exit>>
boundVars == <<faults, restarts>>
vars == <<syncScannerVars, storeVars, target, loopVars, transfers, panicked,
          suspect, boundVars>>

Partial == -1
Version == 1..MaxVersion
NoFile  == [path |-> "none", stat |-> NoStat]

LoopState == {"connect", "receive", "look", "call", "touch", "signal", "check",
              "gone"}
TransferState == {"mkdir", "open", "create", "copy", "rename"}
Transfer == [id : 0..MaxFaults, owner : Agent \cup {Nobody}, path : Path,
             pc : TransferState, ver : {Absent} \cup Version]

(* A goroutine in one of these states has received a file. *)
Holding == {w \in Agent : loop[w] \in {"look", "call", "touch", "signal"}}

Remote == mode = "server"

(* A goroutine waits for a transfer exactly when it is in the call, and a  *)
(* local syncer has no others.                                             *)
TypeOK ==
  /\ SyncScannerTypeOK
  /\ source \in [Path -> {Absent} \cup Version]
  /\ latest \in [Path -> {Absent} \cup Version]
  /\ target \in [Path -> [ver : {Absent, Partial} \cup Version,
                          time : {NoStat} \cup Version,
                          last : {Absent} \cup Version]]
  /\ loop \in [Agent -> LoopState]
  /\ fo \in [Agent -> FileObj \cup {NoFile}]
  /\ \A w \in Agent : fo[w] \in IF w \in Holding THEN FileObj ELSE {NoFile}
  /\ to_exit \in [Agent -> BOOLEAN]
  /\ transfers \subseteq Transfer
  /\ \A w \in Agent :
       loop[w] = "call" <=> \E t \in transfers : t.id = 0 /\ t.owner = w
  /\ ~Remote => \A t \in transfers : t.id = 0
  /\ panicked \in BOOLEAN
  /\ suspect \subseteq Path
  /\ faults \in 0..MaxFaults
  /\ restarts \in 0..MaxRestarts

-----------------------------------------------------------------------------
Goto(w, place) == loop' = [loop EXCEPT ![w] = place]

Fault == faults < MaxFaults /\ faults' = faults + 1

(* A call fails because its condition holds, or by a fault. *)
Fails(condition) ==
  \/ condition /\ UNCHANGED faults
  \/ ~condition /\ Fault

(* init connects, with a pause between two attempts. *)
Connect(w) ==
  /\ loop[w] = "connect"
  /\ Goto(w, "receive")
  /\ to_exit' = [to_exit EXCEPT ![w] = FALSE]
  /\ UNCHANGED <<syncScannerVars, storeVars, target, fo, transfers, panicked,
                 suspect, boundVars>>

(* From now on two goroutines may have the same file. *)
Receive(w) ==
  /\ loop[w] = "receive"
  /\ Scan!ReceiveFile
  /\ fo' = [fo EXCEPT ![w] = Head(c)]
  /\ Goto(w, "look")
  /\ suspect' = suspect \cup ({fo[r].path : r \in Holding} \cap {Head(c).path})
  /\ UNCHANGED <<LocalFolderMap, done, scanner, todo, dispatched, stale,
                 walkErrors, storeVars, target, to_exit, transfers, panicked,
                 boundVars>>

(* downloadable, uploadable: the copy's Stat is the Stat in hand. *)
Same(f) == target[f.path].ver \in Version /\ target[f.path].time = f.stat

(* Mutant: only the sizes are compared. *)
LookSameSize(w) ==
  /\ loop[w] = "look"
  /\ target[fo[w].path].ver \in Version
  /\ Goto(w, "signal")
  /\ UNCHANGED <<syncScannerVars, storeVars, target, fo, to_exit, transfers,
                 panicked, suspect, boundVars>>

(* Mutant: a file that needs no copying is passed over with no token sent. *)
LookSameUnsignalled(w) ==
  /\ loop[w] = "look"
  /\ Same(fo[w])
  /\ Goto(w, "receive")
  /\ fo' = [fo EXCEPT ![w] = NoFile]
  /\ UNCHANGED <<syncScannerVars, storeVars, target, to_exit, transfers,
                 panicked, suspect, boundVars>>

LookSame(w) ==
  /\ loop[w] = "look"
  /\ Same(fo[w])
  /\ Goto(w, "signal")
  /\ UNCHANGED <<syncScannerVars, storeVars, target, fo, to_exit, transfers,
                 panicked, suspect, boundVars>>

(* It differs, or the Stat of the copy fails. *)
LookDiffers(w) ==
  /\ loop[w] = "look"
  /\ Fails(~Same(fo[w]))
  /\ Goto(w, "call")
  /\ transfers' = transfers \cup
       {[id |-> 0, owner |-> w, path |-> fo[w].path,
         pc |-> IF Remote THEN "open" ELSE "mkdir", ver |-> Absent]}
  /\ UNCHANGED <<syncScannerVars, storeVars, target, fo, to_exit, panicked,
                 suspect, restarts>>

(* Mutant: the copy gets the time that the source has by now. *)
TouchNow(w) ==
  /\ loop[w] = "touch"
  /\ target[fo[w].path].ver # Absent
  /\ target' = [target EXCEPT ![fo[w].path].time = source[fo[w].path]]
  /\ Goto(w, "signal")
  /\ UNCHANGED <<syncScannerVars, storeVars, fo, to_exit, transfers, panicked,
                 suspect, boundVars>>

(* updateModTime. *)
TouchOk(w) ==
  /\ loop[w] = "touch"
  /\ target[fo[w].path].ver # Absent
  /\ target' = [target EXCEPT ![fo[w].path].time = fo[w].stat]
  /\ Goto(w, "signal")
  /\ UNCHANGED <<syncScannerVars, storeVars, fo, to_exit, transfers, panicked,
                 suspect, boundVars>>

TouchErr(w) ==
  /\ loop[w] = "touch"
  /\ Fails(target[fo[w].path].ver = Absent)
  /\ Goto(w, "signal")
  /\ UNCHANGED <<syncScannerVars, storeVars, target, fo, to_exit, transfers,
                 panicked, suspect, restarts>>

Signal(w) ==
  /\ loop[w] = "signal"
  /\ Scan!SendToken
  /\ Goto(w, "check")
  /\ fo' = [fo EXCEPT ![w] = NoFile]
  /\ UNCHANGED <<LocalFolderMap, c, scanner, todo, dispatched, stale,
                 walkErrors, storeVars, target, to_exit, transfers, panicked,
                 suspect, boundVars>>

(* Start returns, and Stop closes the connection; downloads left behind by *)
(* the object have nobody's flag to set any more.                          *)
Check(w) ==
  /\ loop[w] = "check"
  /\ Goto(w, IF ~to_exit[w] THEN "receive"
             ELSE IF OneTime THEN "gone" ELSE "connect")
  /\ transfers' = {IF to_exit[w] /\ t.owner = w
                   THEN [t EXCEPT !.owner = Nobody] ELSE t : t \in transfers}
  /\ UNCHANGED <<syncScannerVars, storeVars, target, fo, to_exit, panicked,
                 suspect, boundVars>>

LoopStep(w) ==
  \/ Connect(w)
  \/ Receive(w)
  \/ LookSame(w) \/ LookDiffers(w)
  \/ TouchOk(w) \/ TouchErr(w)
  \/ Signal(w)
  \/ Check(w)

-----------------------------------------------------------------------------
(* What the steps of downloads and uploads are made of. *)

Becomes(t, next) ==
  /\ transfers' = (transfers \ {t}) \cup {next}
  /\ UNCHANGED loopVars

(* The transfer ends.  Its result is not looked at: the loop goes on with  *)
(* updateModTime.                                                          *)
End(t) ==
  /\ transfers' = transfers \ {t}
  /\ loop' = IF t.id = 0 THEN [loop EXCEPT ![t.owner] = "touch"] ELSE loop
  /\ UNCHANGED fo

(* The copy becomes another; Partial when the writing of it begins. *)
Write(t, ver) ==
  target' = [target EXCEPT ![t.path] =
               [ver |-> ver, time |-> NoStat,
                last |-> IF ver \in Version THEN ver ELSE @.last]]

Condemned(t) == [w \in Agent |-> to_exit[w] \/ w = t.owner]

(* The time that the copy gets may be wrong if a transfer fails: what is   *)
(* there was there before, or is not whole.  And the watcher takes the     *)
(* file for synced.  No matter if the source has been deleted meanwhile:   *)
(* its next version will have another time.                                *)
Distrusted(t) ==
  IF t.id = 0 /\ source[t.path] # Absent
     /\ (~Remote \/ target[t.path].ver # Absent)
  THEN suspect \cup {t.path} ELSE suspect

Fail(t) ==
  /\ End(t)
  /\ suspect' = Distrusted(t)
  /\ UNCHANGED <<syncScannerVars, storeVars, target, panicked>>

(* Steps that touch neither the copy nor what is remembered. *)
Quiet == UNCHANGED <<syncScannerVars, storeVars, target, panicked, suspect>>

-----------------------------------------------------------------------------
(* download.  Of one left behind only its error at the open, which sets    *)
(* the object's flag, and its rename are seen: if it was copying, or still *)
(* opens the source, cancelled makes it remove its temporary file.         *)

OpenRemote(t) ==
  /\ t.pc = "open"
  /\ t.owner # Nobody
  /\ source[t.path] # Absent
  /\ IF t.id = 0
     THEN Becomes(t, [t EXCEPT !.pc = "copy", !.ver = source[t.path]])
     ELSE transfers' = transfers \ {t} /\ UNCHANGED loopVars
  /\ Quiet
  /\ UNCHANGED boundVars

OpenRemoteErr(t) ==
  /\ t.pc = "open"
  /\ Fails(t.owner = Nobody \/ source[t.path] = Absent)
  /\ Fail(t)
  /\ to_exit' = Condemned(t)
  /\ UNCHANGED restarts

Copied(t) ==
  /\ t.pc = "copy"
  /\ Becomes(t, [t EXCEPT !.pc = "rename"])
  /\ Quiet
  /\ UNCHANGED boundVars

(* A read failed, or found ctxTimeout done before download had noticed. *)
CopyRemoteErr(t) ==
  /\ t.pc = "copy"
  /\ Fault
  /\ Fail(t)
  /\ to_exit' = Condemned(t)
  /\ UNCHANGED restarts

(* Renamed by a download left behind, the file comes at a time when the    *)
(* loop may be about to give the copy another one's time.                  *)
RenameOk(t) ==
  /\ t.pc = "rename"
  /\ Write(t, t.ver)
  /\ End(t)
  /\ suspect' = IF t.id > 0 THEN suspect \cup {t.path} ELSE suspect
  /\ UNCHANGED <<syncScannerVars, storeVars, to_exit, panicked, boundVars>>

RenameErr(t) ==
  /\ t.pc = "rename"
  /\ Fault
  /\ Fail(t)
  /\ UNCHANGED <<to_exit, restarts>>

DownloadStep(t) ==
  \/ OpenRemote(t) \/ OpenRemoteErr(t)
  \/ Copied(t) \/ CopyRemoteErr(t)
  \/ RenameOk(t) \/ RenameErr(t)

(* Mutant: the download is left with its identity. *)
TimeoutForgotten(t) ==
  /\ t.id = 0
  /\ Fault
  /\ transfers' = IF t.pc = "copy" THEN transfers \ {t} ELSE transfers
  /\ Goto(t.owner, "touch")
  /\ suspect' = Distrusted(t)
  /\ UNCHANGED <<syncScannerVars, storeVars, target, fo, to_exit, panicked,
                 restarts>>

(* download's select takes the timeout, and cancelled is set. *)
Timeout(t) ==
  /\ t.id = 0
  /\ Fault
  /\ transfers' = (transfers \ {t}) \cup
       IF t.pc = "copy" THEN {} ELSE {[t EXCEPT !.id = faults + 1]}
  /\ Goto(t.owner, "touch")
  /\ suspect' = Distrusted(t)
  /\ UNCHANGED <<syncScannerVars, storeVars, target, fo, to_exit, panicked,
                 restarts>>

-----------------------------------------------------------------------------
(* upload.  It has no timeout, and writes the copy in place. *)

MkdirOk(t) ==
  /\ t.pc = "mkdir"
  /\ Becomes(t, [t EXCEPT !.pc = "open"])
  /\ Quiet
  /\ UNCHANGED boundVars

(* A failed MkdirAll or copy condemns the object. *)
UploadErr(t) ==
  /\ t.pc \in {"mkdir", "copy"}
  /\ Fault
  /\ Fail(t)
  /\ to_exit' = Condemned(t)
  /\ UNCHANGED restarts

OpenLocal(t) ==
  /\ t.pc = "open"
  /\ source[t.path] # Absent
  /\ Becomes(t, [t EXCEPT !.pc = "create", !.ver = source[t.path]])
  /\ Quiet
  /\ UNCHANGED boundVars

OpenLocalErr(t) ==
  /\ t.pc = "open"
  /\ Fails(source[t.path] = Absent)
  /\ Fail(t)
  /\ UNCHANGED <<to_exit, restarts>>

CreateOk(t) ==
  /\ t.pc = "create"
  /\ Write(t, Partial)
  /\ Becomes(t, [t EXCEPT !.pc = "copy"])
  /\ UNCHANGED <<syncScannerVars, storeVars, panicked, suspect, boundVars>>

(* The message for openerr calls err.Error(), and err is nil: a panic. *)
CreateErr(t) ==
  /\ t.pc = "create"
  /\ Fault
  /\ panicked' = TRUE
  /\ UNCHANGED <<syncScannerVars, storeVars, target, loopVars, transfers,
                 suspect, restarts>>

CopyOk(t) ==
  /\ t.pc = "copy"
  /\ Write(t, t.ver)
  /\ End(t)
  /\ UNCHANGED <<syncScannerVars, storeVars, to_exit, panicked, suspect,
                 boundVars>>

UploadStep(t) ==
  \/ MkdirOk(t) \/ UploadErr(t)
  \/ OpenLocal(t) \/ OpenLocalErr(t)
  \/ CreateOk(t) \/ CreateErr(t)
  \/ CopyOk(t)

TransferStep(t) == IF Remote THEN DownloadStep(t) ELSE UploadStep(t)

-----------------------------------------------------------------------------
(* The environment: whoever works in the source folder. *)

Edit(p) ==
  /\ latest[p] < MaxVersion
  /\ latest' = [latest EXCEPT ![p] = @ + 1]
  /\ source' = [source EXCEPT ![p] = latest[p] + 1]
  /\ UNCHANGED <<syncScannerVars, mode, target, loopVars, transfers, panicked,
                 suspect, boundVars>>

Delete(p) ==
  /\ source[p] # Absent
  /\ source' = [source EXCEPT ![p] = Absent]
  /\ UNCHANGED <<syncScannerVars, mode, latest, target, loopVars, transfers,
                 panicked, suspect, boundVars>>

(* The process dies, or has panicked, and is started again. *)
Restart ==
  /\ restarts < MaxRestarts
  /\ restarts' = restarts + 1
  /\ c' = <<>> /\ done' = 0
  /\ scanner' = "connect" /\ todo' = {}
  /\ dispatched' = 0 /\ stale' = 0
  /\ LocalFolderMap' = NothingKnown
  /\ loop' = [w \in Agent |-> "connect"]
  /\ fo' = [w \in Agent |-> NoFile]
  /\ to_exit' = [w \in Agent |-> FALSE]
  /\ transfers' = {}
  /\ panicked' = FALSE
  /\ UNCHANGED <<walkErrors, storeVars, target, suspect, faults>>

-----------------------------------------------------------------------------
(* The files that are there when the syncer is installed may be of any     *)
(* age; the copy is empty.                                                 *)
Init ==
  /\ mode \in {"server", "local"}
  /\ latest \in [Path -> {Absent, 1}]
  /\ source = latest
  /\ target = [p \in Path |-> [ver |-> Absent, time |-> NoStat, last |-> Absent]]
  /\ SyncScannerInit
  /\ loop = [w \in Agent |-> "connect"]
  /\ fo = [w \in Agent |-> NoFile]
  /\ to_exit = [w \in Agent |-> FALSE]
  /\ transfers = {}
  /\ panicked = FALSE
  /\ suspect = {}
  /\ faults = 0
  /\ restarts = 0

Alive == Scan!Running /\ ~panicked

ScannerAct ==
  /\ ~panicked
  /\ SyncScannerStep
  /\ UNCHANGED <<storeVars, target, loopVars, transfers, panicked, suspect,
                 boundVars>>

LoopAct(w) == Alive /\ LoopStep(w)

TransferAct(t) == Alive /\ TransferStep(t)

(* Mutant: uploads time out as downloads do, and go on as those cannot. *)
TimeoutUploads(t) == Alive /\ Timeout(t)

TimeoutAct(t) == Alive /\ Remote /\ Timeout(t)

Next ==
  \/ ScannerAct
  \/ \E w \in Agent : LoopAct(w)
  \/ \E t \in transfers : TransferAct(t) \/ TimeoutAct(t)
  \/ \E p \in Path : Edit(p) \/ Delete(p)
  \/ Restart

Spec == Init /\ [][Next]_vars

(* Every goroutine that can run does run in the end, a loop's or that of   *)
(* the download it waits for, and calls return: an upload has nothing else *)
(* that would end it.  Nothing is needed of a download left behind.        *)
Fairness ==
  /\ WF_vars(ScannerAct)
  /\ \A w \in Agent :
       WF_vars(LoopAct(w)
                 \/ \E t \in transfers : t.id = 0 /\ t.owner = w /\ TransferAct(t))

FairSpec == Spec /\ Fairness

-----------------------------------------------------------------------------
(* A copy that has the size and time of its source, and is therefore never *)
(* copied again, has the source's contents too, unless a transfer has      *)
(* failed over an older copy or two transfers have met                     *)
(* (server-syncer.go 194-197, local-syncer.go 170-173).                    *)
LabelsTrue ==
  \A p \in Path \ suspect :
    source[p] # Absent /\ Same([path |-> p, stat |-> source[p]])
      => target[p].ver = source[p]

(* Every file sent is queued, in hand or answered, also by an object that  *)
(* is then replaced, so that a scan neither overtakes the one before it    *)
(* nor waits for an answer that will not come (server-syncer.go 189-201).  *)
TokenConservation ==
  Len(c) + Cardinality(Holding) + done = dispatched + stale

(* When all wait for each other, as in Workers: the scanner for a token or *)
(* for room in c, and each goroutine that is not gone for a file, or for   *)
(* room in done.                                                           *)
ScannerWaits ==
  \/ scanner \in {"full", "drain"} /\ done = 0
  \/ scanner = "send" /\ Len(c) = Scan!Cap

LoopWaits(w) ==
  \/ loop[w] = "gone"
  \/ loop[w] = "receive" /\ c = <<>>
  \/ loop[w] = "signal" /\ done = Scan!Cap

Stuck == ScannerWaits /\ \A w \in Agent : LoopWaits(w)

(* They do only in a one-time run that has lost a goroutine.  A service    *)
(* keeps scanning however many files there are and are left over of        *)
(* abandoned scans: here a condemned object, once it has sent its token, is*)
(* replaced by the same goroutine (syncer.go 35-110, sftp-scanner.go       *)
(* 67-96, folder-scanner.go 109-149).                                      *)
StuckOnlyWhenLost == Stuck => OneTime /\ \E w \in Agent : loop[w] = "gone"

M == INSTANCE Mirror WITH
       copy <- [p \in Path |-> target[p].ver],
       last <- [p \in Path |-> target[p].last],
       inplace <- ~Remote,
       excluded <- IF panicked THEN Path ELSE suspect

(* Through every interleaving, failure, replacement and restart, the copy  *)
(* changes only to what the source has held, and never to an older version *)
(* than one that it has had, also when it is written in place and shows    *)
(* neither meanwhile                                                       *)
(* (syncer.go 35-110, server-syncer.go 33-117, local-syncer.go 32-91).     *)
StaysMirrored == M!MirrorSafety

(* When a source file rests, so does its copy, with the same contents      *)
(* (readme.md, features: sync).                                            *)
Settles == M!Settles
=============================================================================
