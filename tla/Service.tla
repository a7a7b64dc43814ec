------------------------------ MODULE Service -------------------------------
(***************************************************************************)
(* The process: what main starts for a command and a configuration, who    *)
(* ends it, and what a signal does (cmd/service/ugoku.go,                  *)
(* internal/config/config.go, internal/sigintHandler/siginthandler.go, and *)
(* the New... functions of the four packages).                             *)
(*                                                                         *)
(* A pipeline is seen here through its scanner's pointer and its signal    *)
(* handler only; what scanner and workers do is in the other modules.  In  *)
(* service mode a goroutine replaces the scanner that has returned.  In    *)
(* one-time mode the function that makes the scanner runs it, and then     *)
(* ends the process: main itself for uploads, syncs and streams, and a     *)
(* goroutine each for downloads.                                           *)
(***************************************************************************)
EXTENDS Integers, Sequences

CONSTANTS
  Configured,     \* number of pipelines in the configuration file
  Mode,           \* the modes of a sync, known and not
  RawPipeline,    \* what the file may say of one
  MaxScanErrors   \* bound: scans in service mode that end with an error

Kind == {"download", "upload", "sync", "stream"}

ASSUME ServiceAssumption ==
  /\ Configured \in Nat
  /\ MaxScanErrors \in Nat
  /\ {"server", "local", "twoway"} \subseteq Mode
  /\ RawPipeline \subseteq
       [kind : Kind, enabled : BOOLEAN, mode : Mode, worker : Int]

VARIABLES
  cmd,         \* the command
  read,        \* how ReadConfig has ended
  config,      \* master_config: the pipelines, in the file's order
  next,        \* for each kind, the next pipeline that its start loop looks at
  scan,        \* where the goroutine that runs a pipeline's scanner stands
  handler,     \* where its signal handler stands
  term_signal, \* for each kind: one variable in each package
  process,     \* the process
  signalled,   \* a signal has been sent
  halted,      \* history: scanners that a handler has stopped in their scan
  scanErrors   \* bound: scans that have ended with an error

settings == <<cmd, read, config>>
vars == <<settings, next, scan, handler, term_signal, process, signalled,
          halted, scanErrors>>

Pipeline == 1..Configured

(* Places of a scanner's runner: not started, before the first scanner, in *)
(* Start's init, in scan, back from Start, after new_scanner = nil, gone.  *)
ScanState == {"off", "new", "init", "scan", "returned", "nil", "gone"}

(* Places of a handler: not registered, waiting, then as in the callback.  *)
HandlerState == {"off", "wait", "got", "test", "stop", "sleep"}

Serving == cmd = "serve"

TypeOK ==
  /\ cmd \in Kind \cup {"serve", "other"}
  /\ read \in {"ok", "missing", "broken"}
  /\ config \in Seq([kind : Kind, enabled : BOOLEAN, mode : Mode, worker : Int])
  /\ Len(config) = IF read = "missing" THEN 0 ELSE Configured
  /\ next \in [Kind -> 1..(Configured + 1)]
  /\ scan \in [Pipeline -> ScanState]
  /\ handler \in [Pipeline -> HandlerState]
  /\ \A p \in Pipeline : scan[p] = "off" <=> handler[p] = "off"
  /\ term_signal \in [Kind -> BOOLEAN]
  /\ process \in {"up", "exited", "panicked", "killed", "aborted"}
  /\ signalled \in BOOLEAN
  /\ halted \subseteq Pipeline
  /\ scanErrors \in 0..MaxScanErrors

-----------------------------------------------------------------------------
(* ReadConfig. *)

Lower(mode) == IF mode = "TwoWay" THEN "twoway" ELSE mode

(* Mutant: a mode that is not known is kept. *)
ModeKept(mode) == Lower(mode)

ModeRead(mode) ==
  IF Lower(mode) \in {"server", "local", "twoway"} THEN Lower(mode) ELSE "server"

PipelineRead(raw) ==
  [raw EXCEPT !.worker = IF @ < 1 THEN 1 ELSE @,
              !.mode = IF raw.kind = "sync" THEN ModeRead(@) ELSE @]

(* A file that is missing gives an empty configuration, and one that does  *)
(* not decode gives what has been decoded of it, as it stands.  init logs  *)
(* the error and main goes on.                                             *)
ReadConfig(file, outcome) ==
  CASE outcome = "missing" -> <<>>
    [] outcome = "broken" -> file
    [] outcome = "ok" -> [p \in DOMAIN file |-> PipelineRead(file[p])]

-----------------------------------------------------------------------------
(* main and the start loops. *)

Starters == IF Serving THEN Kind ELSE Kind \cap {cmd}

Enabled(k) == {p \in DOMAIN config : config[p].kind = k /\ config[p].enabled}

Left(k) == {p \in Enabled(k) : p >= next[k]}

Started == {p \in Pipeline : scan[p] # "off"}

(* NewSyncer and NewOneTimeSyncer do nothing for another mode. *)
Known(p) == config[p].kind = "sync" => config[p].mode \in {"server", "local"}

(* Mutant: New... starts the goroutines and registers no handler. *)
BeginUnhandled(k, p) ==
  /\ k \in Starters
  /\ p \in Left(k)
  /\ \A q \in Left(k) : p <= q
  /\ next' = [next EXCEPT ![k] = p + 1]
  /\ scan' = [scan EXCEPT ![p] = IF Known(p) THEN "new" ELSE @]
  /\ UNCHANGED <<settings, handler, term_signal, process, signalled, halted,
                 scanErrors>>

(* The loop of kind k reaches the enabled pipeline p.  New... registers    *)
(* the signal handler first.                                               *)
Begin(k, p) ==
  /\ k \in Starters
  /\ p \in Left(k)
  /\ \A q \in Left(k) : p <= q
  /\ next' = [next EXCEPT ![k] = p + 1]
  /\ scan' = [scan EXCEPT ![p] = IF Known(p) THEN "new" ELSE @]
  /\ handler' = [handler EXCEPT ![p] = IF Known(p) THEN "wait" ELSE @]
  /\ UNCHANGED <<settings, term_signal, process, signalled, halted, scanErrors>>

(* Only downloads and services leave the loop free while a pipeline runs:  *)
(* the other one-time functions run the scanner themselves.                *)
StartPipeline(k, p) ==
  /\ Serving \/ k = "download" \/ \A q \in Started : scan[q] = "gone"
  /\ Begin(k, p)

(* No command, another one, or nothing enabled: os.Exit(0). *)
NothingToDo ==
  /\ ~Serving
  /\ \A k \in Starters : Enabled(k) = {}
  /\ process' = "exited"
  /\ UNCHANGED <<settings, next, scan, handler, term_signal, signalled, halted,
                 scanErrors>>

(* main waits on a channel that nobody has, and no other goroutine will    *)
(* ever run.  The Go runtime may notice, which depends on the build.       *)
Deadlocked ==
  /\ Serving \/ \E k \in Starters : Enabled(k) # {}
  /\ \A k \in Starters : Left(k) = {}
  /\ Started = {}
  /\ process' = "aborted"
  /\ UNCHANGED <<settings, next, scan, handler, term_signal, signalled, halted,
                 scanErrors>>

-----------------------------------------------------------------------------
(* The goroutine that runs a pipeline's scanner, and sets new_scanner. *)

Advance(p, place) ==
  /\ scan' = [scan EXCEPT ![p] = place]
  /\ UNCHANGED <<settings, next, handler, term_signal, signalled, halted>>

NewScanner(p) ==
  /\ scan[p] = "new"
  /\ Advance(p, "init")
  /\ UNCHANGED <<process, scanErrors>>

(* Start sets started, whatever Stop has done to it before. *)
InitDone(p) ==
  /\ scan[p] = "init"
  /\ Advance(p, "scan")
  /\ UNCHANGED <<process, scanErrors>>

(* A scan ends when it is complete in one-time mode, after a Stop, or by   *)
(* an error.  Without workers it waits at its first file.                  *)
ScanEnds(p) ==
  /\ scan[p] = "scan"
  /\ config[p].worker > 0
  /\ \/ ~Serving \/ p \in halted
     \/ Serving /\ p \notin halted /\ scanErrors < MaxScanErrors
  /\ scanErrors' = IF Serving /\ p \notin halted THEN scanErrors + 1 ELSE scanErrors
  /\ Advance(p, "returned")
  /\ UNCHANGED process

Discard(p) ==
  /\ scan[p] = "returned"
  /\ Advance(p, "nil")
  /\ UNCHANGED <<process, scanErrors>>

(* Mutant: as in one-time mode, there is no loop. *)
ReplaceNever(p) ==
  /\ Serving
  /\ scan[p] = "nil"
  /\ Advance(p, "gone")
  /\ UNCHANGED <<process, scanErrors>>

(* The loop of service mode: term_signal ends it. *)
Replace(p) ==
  /\ Serving
  /\ scan[p] = "nil"
  /\ Advance(p, IF term_signal[config[p].kind] THEN "gone" ELSE "init")
  /\ UNCHANGED <<process, scanErrors>>

(* One-time mode: os.Exit(0), whatever the others do. *)
Finish(p) ==
  /\ ~Serving
  /\ scan[p] = "nil"
  /\ process' = "exited"
  /\ Advance(p, "gone")
  /\ UNCHANGED scanErrors

RunnerStep(p) ==
  NewScanner(p) \/ InitDone(p) \/ ScanEnds(p) \/ Discard(p) \/ Replace(p) \/ Finish(p)

-----------------------------------------------------------------------------
(* Signals. *)

(* The first Handle takes the signals from the runtime, whose default is   *)
(* to end the process.                                                     *)
Signal ==
  /\ ~signalled
  /\ signalled' = TRUE
  /\ process' = IF Started = {} THEN "killed" ELSE process
  /\ handler' = [p \in Pipeline |-> IF handler[p] = "wait" THEN "got" ELSE handler[p]]
  /\ UNCHANGED <<settings, next, scan, term_signal, halted, scanErrors>>

Handling(p, place) ==
  /\ handler' = [handler EXCEPT ![p] = place]
  /\ UNCHANGED <<settings, next, scan, signalled, scanErrors>>

(* Mutant: the handler relies on Stop, and sets no flag. *)
SetTermNever(p) ==
  /\ handler[p] = "got"
  /\ Handling(p, "test")
  /\ UNCHANGED <<term_signal, process, halted>>

SetTerm(p) ==
  /\ handler[p] = "got"
  /\ term_signal' = [term_signal EXCEPT ![config[p].kind] = TRUE]
  /\ Handling(p, "test")
  /\ UNCHANGED <<process, halted>>

NoScanner(p) == scan[p] \in {"new", "nil", "gone"}

(* For downloads and streams the test is of a pointer to new_scanner, and  *)
(* always passes.                                                          *)
TestPointer(p) ==
  /\ handler[p] = "test"
  /\ Handling(p, IF NoScanner(p) /\ config[p].kind \in {"upload", "sync"}
                 THEN "sleep" ELSE "stop")
  /\ UNCHANGED <<term_signal, process, halted>>

(* new_scanner is read again, and Stop is called on what it is by now; on  *)
(* nil it panics.  Then the workers are stopped.                           *)
StopScanner(p) ==
  /\ handler[p] = "stop"
  /\ process' = IF NoScanner(p) THEN "panicked" ELSE process
  /\ halted' = IF scan[p] = "scan" THEN halted \cup {p} ELSE halted
  /\ Handling(p, "sleep")
  /\ UNCHANGED term_signal

(* Mutant: the handler returns. *)
ReturnAfterStop(p) ==
  /\ handler[p] = "sleep"
  /\ Handling(p, "wait")
  /\ UNCHANGED <<term_signal, process, halted>>

(* After a second: os.Exit(0), wherever the others are. *)
ExitAfterStop(p) ==
  /\ handler[p] = "sleep"
  /\ process' = "exited"
  /\ Handling(p, "sleep")
  /\ UNCHANGED <<term_signal, halted>>

HandlerStep(p) == SetTerm(p) \/ TestPointer(p) \/ StopScanner(p) \/ ExitAfterStop(p)

-----------------------------------------------------------------------------
Init ==
  /\ cmd \in Kind \cup {"serve", "other"}
  /\ read \in {"ok", "missing", "broken"}
  /\ \E file \in [Pipeline -> RawPipeline] : config = ReadConfig(file, read)
  /\ next = [k \in Kind |-> 1]
  /\ scan = [p \in Pipeline |-> "off"]
  /\ handler = [p \in Pipeline |-> "off"]
  /\ term_signal = [k \in Kind |-> FALSE]
  /\ process = "up"
  /\ signalled = FALSE
  /\ halted = {}
  /\ scanErrors = 0

Up == process = "up"

StartAct(k) == Up /\ \E p \in Pipeline : StartPipeline(k, p)

RunnerAct(p) == Up /\ RunnerStep(p)

HandlerAct(p) == Up /\ HandlerStep(p)

Next ==
  \/ \E k \in Kind : StartAct(k)
  \/ Up /\ (NothingToDo \/ Deadlocked)
  \/ \E p \in Pipeline : RunnerAct(p) \/ HandlerAct(p)
  \/ Up /\ Signal

Spec == Init /\ [][Next]_vars

(* Every goroutine that can run does run in the end.  Nothing is assumed   *)
(* of scans, which in one-time mode need not end, of errors, of signals    *)
(* and of the runtime's notice of a deadlock.                              *)
Fairness ==
  /\ WF_vars(Up /\ NothingToDo)
  /\ \A k \in Kind : WF_vars(StartAct(k))
  /\ \A p \in Pipeline :
       /\ WF_vars(RunnerAct(p) /\ scan[p] # "scan")
       /\ WF_vars(HandlerAct(p))

FairSpec == Spec /\ Fairness

-----------------------------------------------------------------------------
(* A command line run that ends by itself has finished the operation that  *)
(* it was asked for: readme.md 36 says that it will run once, finish, and  *)
(* then exit.                                                              *)
FinishesWhatWasAsked ==
  process = "exited" /\ ~Serving /\ ~signalled =>
    \A k \in Starters : \A p \in Enabled(k) : Known(p) => scan[p] = "gone"

(* It does not: of uploads, syncs or streams one run starts the first in   *)
(* the file only.  That one ends the process when it is done, and those    *)
(* after it are never looked at (ugoku.go 43-95).                          *)
OneRunOnePipeline ==
  ~Serving /\ cmd # "download" =>
    \A p, q \in Started : p = q

(* The enabled syncs are all of a mode that is not implemented: twoway,    *)
(* which ReadConfig keeps, or, in a file that did not decode, any other    *)
(* (config.go 168, syncer.go 195-217).                                     *)
NotImplemented ==
  /\ cmd = "sync"
  /\ Enabled("sync") # {}
  /\ \A p \in Enabled("sync") :
       config[p].mode = "twoway" \/ (read = "broken" /\ ~Known(p))

(* A command line run ends, whatever is configured and however that was    *)
(* read, unless a scan that it has started never ends (the other modules   *)
(* say when that is) or it is for a sync that does not exist: main then    *)
(* waits for nothing (readme.md 36, ugoku.go 43-97).                       *)
CommandEnds ==
  ~Serving /\ ~NotImplemented
    => <>~Up \/ \E p \in Pipeline : <>[](scan[p] = "scan")

(* A service whose configuration could be read runs every pipeline that is *)
(* enabled and known, with workers, and comes back to it after each error, *)
(* until the process ends (ugoku.go 99-157, config.go 116-196, readme.md   *)
(* 34).                                                                    *)
ServesAll ==
  \A p \in Pipeline :
    Serving /\ read = "ok" /\ config[p].enabled /\ Known(p)
      => []<>((scan[p] = "scan" /\ config[p].worker > 0) \/ ~Up)

(* The handler's order makes its Stop final: a scanner that it has stopped *)
(* is not replaced, although the goroutine that would do it, and handlers  *)
(* of other pipelines, run at the same time (syncer.go 40-50, 92-108).     *)
StopIsFinal == \A p \in halted : scan[p] # "init"

(* A signal ends the process, whatever is starting or being replaced: by   *)
(* default, by a handler, or by the handler's panic                        *)
(* (siginthandler.go 13-24).                                               *)
SignalEnds == signalled ~> ~Up
=============================================================================
