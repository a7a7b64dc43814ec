--------------------------- MODULE ServiceProofs ---------------------------
(***************************************************************************)
(* What is proved of the process, for any configuration file and command.  *)
(*                                                                         *)
(* A command line run: a runner that is gone has ended the process, so a   *)
(* loop that waits for all runners to be gone is never free a second time. *)
(* A signal: the handler sets the flag of its package before it calls Stop,*)
(* and nothing clears it; so the runner of a scanner that was stopped      *)
(* finds it set when it is back at its loop.                               *)
(***************************************************************************)
EXTENDS Service, TLAPS

(* A pipeline that has been started is in the configuration, and the loop  *)
(* of its kind has passed it: it is not started twice.                     *)
Passed ==
  \A p \in Started : p \in DOMAIN config /\ p < next[config[p].kind]

(* In a run that goes on, a one-time runner has not finished.              *)
NoneFinished == ~Serving /\ Up => \A p \in Pipeline : scan[p] # "gone"

(* A handler that has gone past its first statement has set the flag.      *)
FlagSet ==
  \A p \in Pipeline :
    handler[p] \in {"test", "stop", "sleep"} => term_signal[config[p].kind]

(* A scanner that has been stopped is on its way out, or has returned.     *)
HaltedEnds ==
  \A p \in halted :
    term_signal[config[p].kind] /\ scan[p] \in {"scan", "returned", "nil", "gone"}

ServiceInv ==
  TypeOK /\ Passed /\ NoneFinished /\ FlagSet /\ HaltedEnds /\ OneRunOnePipeline
Raw == [kind : Kind, enabled : BOOLEAN, mode : Mode, worker : Int]

-----------------------------------------------------------------------------
(* ReadConfig gives pipelines of the same type, as many as the file has    *)
(* unless it is missing (config.go 95-197).                                *)
LEMMA ReadType ==
  ASSUME NEW raw \in Raw
  PROVE  PipelineRead(raw) \in Raw
<1>1. ModeRead(raw.mode) \in Mode
  <2>1. raw.mode \in Mode
    BY DEF Raw
  <2>2. "twoway" \in Mode /\ "server" \in Mode
    BY ServiceAssumption
  <2>3. Lower(raw.mode) \in Mode
    BY <2>1, <2>2, Zenon DEF Lower
  <2> QED
    BY <2>2, <2>3, Zenon DEF ModeRead
<1>2. (IF raw.worker < 1 THEN 1 ELSE raw.worker) \in Int
  BY DEF Raw
<1> QED
  BY <1>1, <1>2 DEF Raw, PipelineRead

LEMMA ReadConfigType ==
  ASSUME NEW file \in [Pipeline -> RawPipeline],
         NEW outcome \in {"ok", "missing", "broken"}
  PROVE  /\ ReadConfig(file, outcome) \in Seq(Raw)
         /\ Len(ReadConfig(file, outcome)) =
              IF outcome = "missing" THEN 0 ELSE Configured
<1> USE ServiceAssumption
<1>1. /\ file \in [1..Configured -> Raw]
      /\ file \in Seq(Raw)
      /\ Len(file) = Configured
      /\ DOMAIN file = 1..Configured
  <2>1. file \in [1..Configured -> Raw]
    BY DEF Pipeline, Raw
  <2>2. file \in Seq(Raw)
    BY <2>1, SMT
  <2> QED
    BY <2>1, <2>2
<1>2. CASE outcome = "ok"
  <2>1. [p \in DOMAIN file |-> PipelineRead(file[p])] \in [1..Configured -> Raw]
    BY <1>1, ReadType
  <2>2. [p \in DOMAIN file |-> PipelineRead(file[p])] \in Seq(Raw)
    BY <2>1, SMT
  <2>3. ReadConfig(file, outcome) = [p \in DOMAIN file |-> PipelineRead(file[p])]
    BY <1>2 DEF ReadConfig
  <2>4. Len([p \in DOMAIN file |-> PipelineRead(file[p])]) = Configured
    BY <2>1, <2>2
  <2> QED
    BY <1>2, <2>2, <2>3, <2>4
<1>3. CASE outcome = "broken"
  BY <1>1, <1>3 DEF ReadConfig
<1>4. CASE outcome = "missing"
  BY <1>4 DEF ReadConfig
<1> QED
  BY <1>2, <1>3, <1>4

LEMMA ServiceInit == Init => ServiceInv
<1> SUFFICES ASSUME Init
             PROVE  ServiceInv
  OBVIOUS
<1> USE ServiceAssumption
<1>1. config \in Seq(Raw) /\ Len(config) = IF read = "missing" THEN 0 ELSE Configured
  BY ReadConfigType DEF Init
<1>2. TypeOK
  <2>1. next \in [Kind -> 1..(Configured + 1)]
    BY DEF Init
  <2>2. /\ scan \in [Pipeline -> ScanState]
        /\ handler \in [Pipeline -> HandlerState]
        /\ \A p \in Pipeline : scan[p] = "off" /\ handler[p] = "off"
    BY DEF Init, ScanState, HandlerState
  <2>3. term_signal \in [Kind -> BOOLEAN] /\ signalled \in BOOLEAN
    BY DEF Init
  <2>4. halted \subseteq Pipeline /\ scanErrors \in 0..MaxScanErrors
    BY DEF Init
  <2>5. /\ process \in {"up", "exited", "panicked", "killed", "aborted"}
        /\ cmd \in Kind \cup {"serve", "other"}
        /\ read \in {"ok", "missing", "broken"}
    BY DEF Init
  <2> QED
    BY <1>1, <2>1, <2>2, <2>3, <2>4, <2>5 DEF TypeOK, Raw
<1>3. Started = {}
  BY DEF Init, Started
<1> QED
  BY <1>2, <1>3 DEF Init, ServiceInv, Passed, NoneFinished, FlagSet, HaltedEnds,
                    OneRunOnePipeline, Pipeline

-----------------------------------------------------------------------------
(* The steps, one action at a time.                                        *)

(* New...: the pipeline has not been started before, and in a command line *)
(* run that is not a download nothing else has.                            *)
LEMMA ServiceStart ==
  ASSUME ServiceInv, Up, NEW k \in Kind, NEW p \in Pipeline, StartPipeline(k, p)
  PROVE  ServiceInv'
<1> USE ServiceAssumption
<1>1. /\ p \in DOMAIN config /\ config[p].kind = k /\ p >= next[k]
      /\ k \in Starters
      /\ next' = [next EXCEPT ![k] = p + 1]
      /\ scan' = [scan EXCEPT ![p] = IF Known(p) THEN "new" ELSE @]
      /\ handler' = [handler EXCEPT ![p] = IF Known(p) THEN "wait" ELSE @]
      /\ UNCHANGED <<cmd, read, config, term_signal, process, signalled, halted,
                     scanErrors>>
  BY DEF StartPipeline, Begin, Left, Enabled, settings
<1>2. p \in Nat /\ p <= Configured
  BY DEF Pipeline
<1>3. TypeOK'
  <2>1. next' \in [Kind -> 1..(Configured + 1)]
    BY <1>1, <1>2 DEF ServiceInv, TypeOK
  <2>2. /\ scan' \in [Pipeline -> ScanState]
        /\ handler' \in [Pipeline -> HandlerState]
        /\ \A q \in Pipeline : scan'[q] = "off" <=> handler'[q] = "off"
    BY <1>1 DEF ServiceInv, TypeOK, ScanState, HandlerState
  <2> QED
    BY <1>1, <2>1, <2>2 DEF ServiceInv, TypeOK
<1>4. p \notin Started
  BY <1>1, <1>2 DEF ServiceInv, Passed, TypeOK
<1>5. Started' \subseteq Started \cup {p}
  BY <1>1 DEF Started, ServiceInv, TypeOK
<1>6. Passed'
  <2> SUFFICES ASSUME NEW q \in Started'
               PROVE  q \in DOMAIN config /\ q < next'[config[q].kind]
    BY <1>1 DEF Passed
  <2>1. CASE q = p
    BY <1>1, <1>2, <2>1 DEF ServiceInv, TypeOK
  <2>2. CASE q # p
    <3>1. q \in Started
      BY <1>5, <2>2
    <3>2. q \in DOMAIN config /\ q < next[config[q].kind] /\ q \in Nat
      BY <3>1 DEF ServiceInv, Passed, Started, Pipeline
    <3>3. CASE config[q].kind = k
      BY <1>1, <1>2, <3>2, <3>3 DEF ServiceInv, TypeOK
    <3>4. CASE config[q].kind # k
      BY <1>1, <3>2, <3>4 DEF ServiceInv, TypeOK
    <3> QED
      BY <3>3, <3>4
  <2> QED
    BY <2>1, <2>2
<1>7. NoneFinished'
  BY <1>1, <1>4 DEF ServiceInv, NoneFinished, TypeOK, Serving, Up, Started
<1>8. FlagSet'
  BY <1>1 DEF ServiceInv, FlagSet, TypeOK
<1>9. HaltedEnds'
  <2>1. p \notin halted
    BY <1>4 DEF ServiceInv, HaltedEnds, Started
  <2> QED
    BY <1>1, <2>1 DEF ServiceInv, HaltedEnds, TypeOK
<1>10. OneRunOnePipeline'
  <2> SUFFICES ASSUME ~Serving, cmd # "download"
               PROVE  \A q, r \in Started' : q = r
    BY <1>1 DEF OneRunOnePipeline, Serving
  <2>1. k # "download"
    BY <1>1 DEF Starters
  <2>2. \A q \in Started : scan[q] = "gone"
    BY <2>1 DEF StartPipeline
  <2>3. Started = {}
    BY <2>2 DEF ServiceInv, NoneFinished, Started
  <2> QED
    BY <1>5, <2>3
<1> QED
  BY <1>3, <1>6, <1>7, <1>8, <1>9, <1>10 DEF ServiceInv

(* Where main ends the process, nothing else changes.                      *)
LEMMA ServiceMain ==
  ASSUME ServiceInv, Up, NothingToDo \/ Deadlocked
  PROVE  ServiceInv'
<1>1. /\ UNCHANGED <<cmd, read, config, next, scan, handler, term_signal,
                     signalled, halted, scanErrors>>
      /\ process' \in {"exited", "aborted"}
  BY DEF NothingToDo, Deadlocked, settings
<1>2. TypeOK'
  BY <1>1 DEF ServiceInv, TypeOK
<1> QED
  BY <1>1, <1>2 DEF ServiceInv, Passed, NoneFinished, FlagSet, HaltedEnds,
                    OneRunOnePipeline, Started, Serving, Up

(* The runner: it leaves its loop in service mode when the flag is set,    *)
(* and in one-time mode it ends the process.                               *)
LEMMA ServiceRunner ==
  ASSUME ServiceInv, Up, NEW p \in Pipeline, RunnerStep(p)
  PROVE  ServiceInv'
<1> USE ServiceAssumption
<1>1. PICK place \in {"init", "scan", "returned", "nil", "gone"} : Advance(p, place)
  BY DEF RunnerStep, NewScanner, InitDone, ScanEnds, Discard, Replace, Finish
<1>2. /\ scan' = [scan EXCEPT ![p] = place]
      /\ UNCHANGED <<cmd, read, config, next, handler, term_signal, signalled, halted>>
  BY <1>1 DEF Advance, settings
<1>3. /\ scan[p] # "off"
      /\ process' \in {"up", "exited"}
      /\ scanErrors' \in 0..MaxScanErrors
  BY DEF RunnerStep, NewScanner, InitDone, ScanEnds, Discard, Replace, Finish,
         ServiceInv, TypeOK, Up
<1>4. TypeOK'
  BY <1>2, <1>3 DEF ServiceInv, TypeOK, ScanState
<1>5. Started' = Started
  BY <1>2, <1>3 DEF Started, ServiceInv, TypeOK
<1>6. Passed' /\ FlagSet' /\ OneRunOnePipeline'
  BY <1>2, <1>5 DEF ServiceInv, Passed, FlagSet, OneRunOnePipeline, Serving
<1>7. NoneFinished'
  <2> SUFFICES ASSUME ~Serving, Up'
               PROVE  \A q \in Pipeline : scan'[q] # "gone"
    BY <1>2 DEF NoneFinished, Serving
  <2>1. ~Finish(p) /\ ~Replace(p)
    BY DEF Finish, Replace, Up
  <2>2. scan'[p] # "gone"
    BY <1>2, <2>1 DEF RunnerStep, NewScanner, InitDone, ScanEnds, Discard, Advance,
                      ServiceInv, TypeOK
  <2> QED
    BY <1>2, <2>2 DEF ServiceInv, NoneFinished, TypeOK
<1>8. HaltedEnds'
  <2>1. CASE p \notin halted
    BY <1>2, <2>1 DEF ServiceInv, HaltedEnds, TypeOK
  <2>2. CASE p \in halted
    <3>1. term_signal[config[p].kind] /\ scan[p] \in {"scan", "returned", "nil", "gone"}
      BY <2>2 DEF ServiceInv, HaltedEnds
    <3>2. scan'[p] \in {"returned", "nil", "gone"}
      BY <3>1 DEF RunnerStep, NewScanner, InitDone, ScanEnds, Discard, Replace,
                  Finish, Advance, ServiceInv, TypeOK
    <3> QED
      BY <1>2, <3>1, <3>2 DEF ServiceInv, HaltedEnds, TypeOK
  <2> QED
    BY <2>1, <2>2
<1> QED
  BY <1>4, <1>6, <1>7, <1>8 DEF ServiceInv

LEMMA KindOfStarted ==
  ASSUME ServiceInv
  PROVE  \A p \in Started : config[p].kind \in Kind
<1> SUFFICES ASSUME NEW p \in Started
             PROVE  config[p].kind \in Kind
  OBVIOUS
<1>1. config \in Seq(Raw) /\ p \in DOMAIN config
  BY DEF ServiceInv, Passed, TypeOK, Raw
<1>2. config[p] \in Raw
  BY <1>1, SMT
<1> QED
  BY <1>2 DEF Raw

(* A handler: the flag comes first, then Stop.                             *)
LEMMA ServiceHandler ==
  ASSUME ServiceInv, Up, NEW p \in Pipeline, HandlerStep(p)
  PROVE  ServiceInv'
<1>1. PICK place \in {"test", "stop", "sleep"} : Handling(p, place)
  BY DEF HandlerStep, SetTerm, TestPointer, StopScanner, ExitAfterStop
<1>2. /\ handler' = [handler EXCEPT ![p] = place]
      /\ UNCHANGED <<cmd, read, config, next, scan, signalled, scanErrors>>
  BY <1>1 DEF Handling, settings
<1>3. /\ handler[p] \in {"got", "test", "stop", "sleep"}
      /\ process' \in {"up", "exited", "panicked"}
      /\ halted \subseteq halted' /\ halted' \subseteq halted \cup {p}
      /\ term_signal' \in [Kind -> BOOLEAN]
  BY DEF HandlerStep, SetTerm, TestPointer, StopScanner, ExitAfterStop,
         ServiceInv, TypeOK, Up
<1>4. TypeOK'
  BY <1>2, <1>3 DEF ServiceInv, TypeOK, HandlerState
<1>5. Started' = Started /\ p \in Started
  BY <1>2, <1>3 DEF Started, ServiceInv, TypeOK
<1>6. Passed' /\ OneRunOnePipeline'
  BY <1>2, <1>5 DEF ServiceInv, Passed, OneRunOnePipeline, Serving
<1>7. NoneFinished'
  BY <1>2 DEF ServiceInv, NoneFinished, Serving, Up
<1>8. p \in DOMAIN config /\ config[p].kind \in Kind
  BY <1>5, KindOfStarted DEF ServiceInv, Passed
<1>9. \A k \in Kind : term_signal[k] => term_signal'[k]
  BY DEF HandlerStep, SetTerm, TestPointer, StopScanner, ExitAfterStop,
         ServiceInv, TypeOK
<1>10. term_signal'[config[p].kind]
  BY <1>8 DEF HandlerStep, SetTerm, TestPointer, StopScanner, ExitAfterStop,
              ServiceInv, TypeOK, FlagSet
<1>11. \A q \in Started : config[q].kind \in Kind
  BY KindOfStarted
<1>12. FlagSet'
  <2> SUFFICES ASSUME NEW q \in Pipeline, handler'[q] \in {"test", "stop", "sleep"},
                      q # p
               PROVE  term_signal'[config[q].kind]
    BY <1>2, <1>10 DEF FlagSet
  <2>1. handler[q] \in {"test", "stop", "sleep"}
    BY <1>2 DEF ServiceInv, TypeOK
  <2>2. q \in Started
    BY <2>1 DEF Started, ServiceInv, TypeOK
  <2> QED
    BY <1>9, <1>11, <2>1, <2>2 DEF ServiceInv, FlagSet
<1>13. HaltedEnds'
  <2> SUFFICES ASSUME NEW q \in halted'
               PROVE  /\ term_signal'[config[q].kind]
                      /\ scan[q] \in {"scan", "returned", "nil", "gone"}
    BY <1>2 DEF HaltedEnds
  <2>1. CASE q \in halted
    <3>1. q \in Started
      BY <2>1 DEF ServiceInv, HaltedEnds, Started, TypeOK
    <3> QED
      BY <1>9, <1>11, <2>1, <3>1 DEF ServiceInv, HaltedEnds
  <2>2. CASE q \notin halted
    <3>1. q = p /\ scan[p] = "scan"
      BY <1>3, <2>2 DEF HandlerStep, SetTerm, TestPointer, StopScanner, ExitAfterStop
    <3> QED
      BY <1>10, <3>1
  <2> QED
    BY <2>1, <2>2
<1> QED
  BY <1>4, <1>6, <1>7, <1>12, <1>13 DEF ServiceInv

LEMMA ServiceSignal ==
  ASSUME ServiceInv, Up, Signal
  PROVE  ServiceInv'
<1>1. /\ UNCHANGED <<cmd, read, config, next, scan, term_signal, halted, scanErrors>>
      /\ process' \in {"up", "killed"}
      /\ signalled' = TRUE
      /\ handler' = [p \in Pipeline |-> IF handler[p] = "wait" THEN "got" ELSE handler[p]]
  BY DEF Signal, settings, Up
<1>2. TypeOK'
  BY <1>1 DEF ServiceInv, TypeOK, HandlerState
<1>3. FlagSet'
  BY <1>1 DEF ServiceInv, FlagSet, TypeOK
<1> QED
  BY <1>1, <1>2, <1>3 DEF ServiceInv, Passed, NoneFinished, HaltedEnds,
                          OneRunOnePipeline, Started, Serving, Up

-----------------------------------------------------------------------------
LEMMA ServiceStep == ServiceInv /\ [Next]_vars => ServiceInv'
<1> SUFFICES ASSUME ServiceInv, [Next]_vars
             PROVE  ServiceInv'
  OBVIOUS
<1>1. ASSUME NEW k \in Kind, StartAct(k)
      PROVE  ServiceInv'
  BY <1>1, ServiceStart DEF StartAct
<1>2. ASSUME Up, NothingToDo \/ Deadlocked
      PROVE  ServiceInv'
  BY <1>2, ServiceMain
<1>3. ASSUME NEW p \in Pipeline, RunnerAct(p)
      PROVE  ServiceInv'
  BY <1>3, ServiceRunner DEF RunnerAct
<1>4. ASSUME NEW p \in Pipeline, HandlerAct(p)
      PROVE  ServiceInv'
  BY <1>4, ServiceHandler DEF HandlerAct
<1>5. ASSUME Up, Signal
      PROVE  ServiceInv'
  BY <1>5, ServiceSignal
<1>6. CASE UNCHANGED vars
  BY <1>6 DEF vars, settings, ServiceInv, TypeOK, Passed, NoneFinished, FlagSet,
              HaltedEnds, OneRunOnePipeline, Started, Serving, Up
<1> QED
  BY <1>1, <1>2, <1>3, <1>4, <1>5, <1>6 DEF Next

(* The inductive invariant holds of every run of the process.              *)
THEOREM ServiceInvariant == Spec => []ServiceInv
BY ServiceInit, ServiceStep, PTL DEF Spec

(* The configuration, the flags, and the places of the runners and         *)
(* handlers keep their types; a runner and its handler start together, and *)
(* the scans that end by an error are within their bound.                  *)
THEOREM ServiceTypes == Spec => []TypeOK
<1>1. ServiceInv => TypeOK
  BY DEF ServiceInv
<1> QED
  BY <1>1, ServiceInvariant, PTL

(* One command line run starts one of its pipelines at most, unless it is  *)
(* a download, whatever the configuration has (ugoku.go 43-95).            *)
THEOREM OneRunStartsOne == Spec => []OneRunOnePipeline
<1>1. ServiceInv => OneRunOnePipeline
  BY DEF ServiceInv
<1> QED
  BY <1>1, ServiceInvariant, PTL

(* A scanner that a signal handler has stopped is not replaced by a new    *)
(* one (syncer.go 40-50, 92-108).                                          *)
THEOREM StoppedScannerStays == Spec => []StopIsFinal
<1>1. ServiceInv => StopIsFinal
  BY DEF ServiceInv, HaltedEnds, StopIsFinal
<1> QED
  BY <1>1, ServiceInvariant, PTL
=============================================================================
