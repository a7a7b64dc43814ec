---------------------------- MODULE HolderProofs ----------------------------
(***************************************************************************)
(* Lemmas: the actions of Workers and SftpScanner keep every file in one   *)
(* place, as long as no scan was abandoned.  It rests on the tokens: a     *)
(* scan may list again what an earlier one has sent, but it begins only    *)
(* when nothing of that is left anywhere.                                  *)
(***************************************************************************)
EXTENDS WorkersProofs

UniquelyHeld ==
  /\ \A i, j \in 1..Len(c) : c[i] = c[j] => i = j
  /\ \A i \in 1..Len(c) : c[i] \notin todo
  /\ \A s \in Holding : fo[s] \notin todo
  /\ \A s \in Holding : \A i \in 1..Len(c) : c[i] # fo[s]
  /\ \A s, r \in Holding : fo[s] = fo[r] => s = r

HolderInv == stale = 0 => UniquelyHeld

LEMMA HolderInit == WorkersInit => HolderInv
BY DEF WorkersInit, ScannerInit, HolderInv, UniquelyHeld, Holding, Owing

(* A step that sends nothing and takes nothing from c. *)
LEMMA HolderQuiet ==
  ASSUME HolderInv, UNCHANGED <<c, stale>>, todo' \subseteq todo,
         Holding' \subseteq Holding, \A s \in Holding' : fo'[s] = fo[s]
  PROVE  HolderInv'
BY DEF HolderInv, UniquelyHeld

(* A file that is sent leaves todo. *)
LEMMA HolderSend ==
  ASSUME ScannerTypeOK, HolderInv, NEW p \in todo, Send(p), UNCHANGED loopVars
  PROVE  HolderInv'
<1>1. c \in Seq(Path) /\ c' = Append(c, p) /\ Len(c) \in Nat /\ p \in Path
  BY DEF Send, ScannerTypeOK
<1>2. /\ Len(c') = Len(c) + 1 /\ c'[Len(c) + 1] = p
      /\ \A i \in 1..Len(c) : c'[i] = c[i]
  BY <1>1
<1>3. /\ todo' = todo \ {p} /\ Holding' = Holding /\ fo' = fo /\ stale' = stale
  BY DEF Send, Holding, loopVars
<1> QED
  BY <1>1, <1>2, <1>3 DEF HolderInv, UniquelyHeld

LEMMA HolderScanner ==
  ASSUME WorkersInv, TokenInv, HolderInv, ScannerStep, UNCHANGED loopVars
  PROVE  HolderInv'
<1>0. ScannerTypeOK /\ Holding' = Holding /\ fo' = fo
  BY DEF WorkersInv, WorkersTypeOK, loopVars, Holding
<1>1. CASE BeginScan
  <2>1. stale = 0 => c = <<>> /\ Holding = {}
    BY <1>1, SeparateScans DEF BeginScan, ScanBarrier
  <2> QED
    BY <1>0, <1>1, <2>1 DEF BeginScan, HolderInv, UniquelyHeld
<1>2. ASSUME NEW p \in todo, Dispatch(p) \/ BlockedSend(p) PROVE HolderInv'
  BY <1>0, <1>2, HolderSend DEF Dispatch, BlockedSend
<1>3. CASE WalkError
  <2>1. stale \in Nat /\ dispatched \in Nat /\ stale' = stale + dispatched
    BY <1>3 DEF WalkError, WorkersInv, WorkersTypeOK, ScannerTypeOK, CountOK
  <2>2. stale' = 0 => stale = 0
    BY <2>1
  <2> QED
    BY <1>0, <1>3, <2>2 DEF WalkError, HolderInv, UniquelyHeld
<1>4. CASE \/ ScannerConnect \/ ChannelFull \/ AwaitToken \/ EndWalk \/ Drain
           \/ RecreateScanner \/ ExitProcess
  BY <1>0, <1>4, HolderQuiet
     DEF ScannerConnect, ChannelFull, AwaitToken, TakeToken, EndWalk, Drain,
         RecreateScanner, ExitProcess
<1> QED
  BY <1>1, <1>2, <1>3, <1>4 DEF ScannerStep

LEMMA HolderManager ==
  ASSUME NEW s \in Slot, NEW first \in {"receive", "top"}, WorkersInv,
         HolderInv, ManagerStep(s, first)
  PROVE  HolderInv'
<1>0. loop \in [Slot -> LoopState]
  BY DEF WorkersInv, WorkersTypeOK, LoopTypeOK
<1>1. Holding' \subseteq Holding
  BY <1>0 DEF ManagerStep, Start, Leave, Holding, Owing, loopVars
<1> QED
  BY <1>1, HolderQuiet DEF ManagerStep, Start, Leave, scannerVars, loopVars

(* The file that a loop receives leaves c. *)
LEMMA HolderReceive ==
  ASSUME NEW s \in Slot, NEW begin \in TransferState, WorkersInv, HolderInv,
         Receive(s, begin)
  PROVE  HolderInv'
<1>0. /\ loop \in [Slot -> LoopState] /\ fo \in [Slot -> Path \cup {NoPath}]
      /\ c \in Seq(Path) /\ c # <<>> /\ c' = Tail(c)
  BY DEF Receive, ReceiveFile, WorkersInv, WorkersTypeOK, ScannerTypeOK,
         LoopTypeOK
<1>1. /\ Len(c) \in Nat /\ Len(c) >= 1 /\ Len(c') = Len(c) - 1 /\ Head(c) = c[1]
      /\ \A i \in 1..Len(c') : i + 1 \in 2..Len(c) /\ c'[i] = c[i + 1]
  BY <1>0
<1>2. s \notin Holding /\ Holding' = Holding \cup {s}
  BY <1>0 DEF Receive, Holding, Owing
<1>3. fo'[s] = c[1] /\ \A r \in Holding : fo'[r] = fo[r]
  BY <1>0, <1>1, <1>2 DEF Receive, Holding
<1>4. UNCHANGED <<todo, stale>>
  BY DEF Receive
<1> QED
  BY <1>1, <1>2, <1>3, <1>4 DEF HolderInv, UniquelyHeld

LEMMA HolderLoop ==
  ASSUME NEW s \in Slot, NEW first \in {"receive", "top"},
         NEW begin \in TransferState, NEW remote \in BOOLEAN,
         WorkersInv, HolderInv, LoopStep(s, first, begin, remote) \/ Top(s)
  PROVE  HolderInv'
<1> USE DEF scannerVars
<1>0. loop \in [Slot -> LoopState] /\ fo \in [Slot -> Path \cup {NoPath}]
  BY DEF WorkersInv, WorkersTypeOK, LoopTypeOK
<1>1. CASE Receive(s, begin)
  BY <1>1, HolderReceive
<1>2. CASE Signal(s)
  <2>1. Holding' \subseteq Holding /\ s \notin Holding'
    BY <1>0, <1>2 DEF Signal, Holding, Owing
  <2>2. \A r \in Holding' : fo'[r] = fo[r]
    BY <1>0, <1>2, <2>1 DEF Signal, Holding
  <2> QED
    BY <1>2, <2>1, <2>2, HolderQuiet DEF Signal
<1>3. ASSUME NEW t \in transfers, SelectResult(t) \/ SelectTimeout(t)
      PROVE  HolderInv'
  <2>1. loop[t.owner] = "select"
    BY <1>3
       DEF SelectResult, SelectTimeout, EndSelect, WorkersInv, TransferInLoop
  <2>2. PICK place \in {"remove", "signal"} :
          \E rest : EndSelect(t, place, rest)
    BY <1>3 DEF SelectResult, SelectTimeout
  <2>3. Holding' = Holding
    BY <1>0, <2>1, <2>2 DEF EndSelect, Holding, Owing
  <2> QED
    BY <2>2, <2>3, HolderQuiet DEF EndSelect
<1>4. CASE \/ RemoveOk(s, remote) \/ RemoveErr(s, remote)
           \/ VerifyGone(s, remote) \/ VerifyPresent(s, remote)
  <2>1. Holding' = Holding
    BY <1>0, <1>4
       DEF RemoveOk, RemoveErr, VerifyGone, VerifyPresent, NextTry, Holding,
           Owing
  <2> QED
    BY <1>4, <2>1, HolderQuiet
       DEF RemoveOk, RemoveErr, VerifyGone, VerifyPresent
<1>5. CASE Check(s, first) \/ Top(s)
  <2>1. Holding' = Holding
    BY <1>0, <1>5 DEF Check, Top, Holding, Owing
  <2> QED
    BY <1>5, <2>1, HolderQuiet DEF Check, Top
<1> QED
  BY <1>1, <1>2, <1>3, <1>4, <1>5 DEF LoopStep

(* Transfers and producers have no part in it. *)
LEMMA HolderOther ==
  ASSUME HolderInv, UNCHANGED <<scannerVars, loopVars>>
  PROVE  HolderInv'
BY HolderQuiet DEF Holding, scannerVars, loopVars

(* A restart empties everything. *)
LEMMA HolderRestart == Restart => HolderInv'
BY DEF Restart, HolderInv, UniquelyHeld, Holding, Owing

-----------------------------------------------------------------------------
(* What it says in terms of OneHolder. *)

LEMMA AtMostOne ==
  ASSUME NEW S, \A x, y \in S : x = y
  PROVE  /\ Cardinality(S) \in {0, 1}
         /\ Cardinality(S) = 1 => S # {}
<1>1. CASE S = {}
  BY <1>1, FS_EmptySet
<1>2. ASSUME NEW x \in S PROVE Cardinality(S) = 1
  <2>1. S = {x}
    OBVIOUS
  <2> QED
    BY <2>1, FS_Singleton
<1> QED
  BY <1>1, <1>2

LEMMA HeldOnce == WorkersInv /\ HolderInv => OneHolder
<1> SUFFICES ASSUME WorkersInv, HolderInv, stale = 0, NEW p \in Path
             PROVE  Cardinality({i \in DOMAIN c : c[i] = p})
                      + Cardinality({s \in Holding : fo[s] = p})
                      + Cardinality({q \in todo : q = p}) <= 1
  BY DEF OneHolder
<1> DEFINE queued == {i \in DOMAIN c : c[i] = p}
           held   == {s \in Holding : fo[s] = p}
           unsent == {q \in todo : q = p}
<1>1. UniquelyHeld /\ DOMAIN c = 1..Len(c)
  BY DEF HolderInv, WorkersInv, WorkersTypeOK, ScannerTypeOK
<1>2. /\ \A x, y \in queued : x = y
      /\ \A x, y \in held : x = y
      /\ \A x, y \in unsent : x = y
      /\ queued = {} \/ held = {}
      /\ queued = {} \/ unsent = {}
      /\ held = {} \/ unsent = {}
  BY <1>1 DEF UniquelyHeld
<1> HIDE DEF queued, held, unsent
<1>3. /\ Cardinality(queued) \in {0, 1} /\ (Cardinality(queued) = 1 => queued # {})
      /\ Cardinality(held) \in {0, 1} /\ (Cardinality(held) = 1 => held # {})
      /\ Cardinality(unsent) \in {0, 1} /\ (Cardinality(unsent) = 1 => unsent # {})
  BY <1>2, AtMostOne
<1>4. Cardinality(queued) + Cardinality(held) + Cardinality(unsent) <= 1
  BY <1>2, <1>3
<1> QED
  BY <1>4 DEF queued, held, unsent
=============================================================================
