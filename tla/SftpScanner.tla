---------------------------- MODULE SftpScanner ----------------------------
(***************************************************************************)
(* The scanning half of a transfer pipeline: the SftpScanner of            *)
(* downloader/sftp-scanner.go and the two buffered channels it shares with *)
(* the workers.  c carries the files to work on; done carries one token    *)
(* for every file a worker has finished with, successfully or not.         *)
(*                                                                         *)
(* scan_once walks the source folder.  It sends each file to c while there *)
(* is room; when c is full it first takes one token from done.  At the end *)
(* of the walk it waits until as many tokens have come back as it has sent *)
(* files, so that one scan does not start before the previous one's files  *)
(* are finished.  A walk error ends the scanner without that wait; the     *)
(* manager then makes a new scanner on the SAME channels, whose count      *)
(* starts at zero again.                                                   *)
(*                                                                         *)
(* This module is the scanner alone: its actions leave the workers' state  *)
(* to the modules that compose both.  A FileObj is its path: its Stat is   *)
(* read only for the size that sets the transfer timeout, and a timeout    *)
(* may strike at any time here.  A walk lists the folder once, when it     *)
(* begins, and sends the entries in any order, so the file that a blocked  *)
(* scanner holds is any one still to be sent.                              *)
(***************************************************************************)
EXTENDS Integers, Sequences

CONSTANTS
  Path,           \* files that can exist below SourcePath
  Worker,         \* configured number of workers of the pipeline
  OneTime,        \* scan_one_time_only: command line mode, not service mode
  MaxWalkErrors   \* bound: how many walks end with an error

ASSUME ScannerAssumption ==
  /\ Worker \in Nat \ {0}      \* ReadConfig raises a smaller value to 1
  /\ OneTime \in BOOLEAN
  /\ MaxWalkErrors \in Nat

VARIABLES
  source,       \* version of each path in the source folder, Absent if none
  c,            \* chan FileObj, buffered: paths
  done,         \* chan int, buffered: the number of tokens in it
  scanner,      \* where the scanner goroutine stands
  todo,         \* walk entries of this scan not sent yet
  dispatched,   \* scan_once's local count
  stale,        \* history: files sent by scans that did not wait for them
  walkErrors    \* bound: walk errors so far

scannerVars == <<c, done, scanner, todo, dispatched, stale, walkErrors>>

Absent == 0

ScannerState ==
  {"connect", "ready", "walk", "full", "send", "drain", "stopped", "exited"}

-----------------------------------------------------------------------------
(* Both channels are made with the same capacity. *)
Cap == 2 * Worker

(* What a walk of the source folder yields. *)
Listing == {p \in Path : source[p] # Absent}

(* The part of the type invariant that is the scanner's and the channels'. *)
ScannerTypeOK ==
  /\ source \in [Path -> Nat]
  /\ c \in Seq(Path)
  /\ Len(c) <= Cap
  /\ done \in 0..Cap
  /\ scanner \in ScannerState
  /\ todo \subseteq Path
  /\ dispatched \in Int
  /\ stale \in Nat
  /\ walkErrors \in 0..MaxWalkErrors

-----------------------------------------------------------------------------
ScannerInit ==
  /\ c = <<>>
  /\ done = 0
  /\ scanner = "connect"
  /\ todo = {}
  /\ dispatched = 0
  /\ stale = 0
  /\ walkErrors = 0

(* init() retries until connected; Start then sets started and scans. *)
ScannerConnect ==
  /\ scanner = "connect"
  /\ scanner' = "ready"
  /\ UNCHANGED <<c, done, todo, dispatched, stale, walkErrors>>

(* The top of scan's loop, after the pause between two scans. *)
BeginScan ==
  /\ scanner = "ready"
  /\ scanner' = "walk"
  /\ todo' = Listing
  /\ UNCHANGED <<c, done, dispatched, stale, walkErrors>>

Send(p) ==
  /\ p \in todo
  /\ Len(c) < Cap
  /\ c' = Append(c, p)
  /\ todo' = todo \ {p}
  /\ dispatched' = dispatched + 1
  /\ scanner' = "walk"
  /\ UNCHANGED <<done, stale, walkErrors>>

(* The select's send case: there is room in c. *)
Dispatch(p) == scanner = "walk" /\ Send(p)

(* The select's default case: c is full. *)
ChannelFull ==
  /\ scanner = "walk"
  /\ todo # {}
  /\ Len(c) = Cap
  /\ scanner' = "full"
  /\ UNCHANGED <<c, done, todo, dispatched, stale, walkErrors>>

TakeToken ==
  /\ done > 0
  /\ done' = done - 1
  /\ dispatched' = dispatched - 1
  /\ UNCHANGED <<c, todo, stale, walkErrors>>

(* Mutant: the token taken to make room is not deducted from the count. *)
AwaitTokenUncounted ==
  /\ scanner = "full"
  /\ done > 0
  /\ done' = done - 1
  /\ scanner' = "send"
  /\ UNCHANGED <<c, todo, dispatched, stale, walkErrors>>

AwaitToken ==
  /\ scanner = "full"
  /\ TakeToken
  /\ scanner' = "send"

(* The blocking send that follows: it waits until a worker makes room. *)
BlockedSend(p) == scanner = "send" /\ Send(p)

(* scan_once returns: back to the pause, or out of scan in one-time mode. *)
Returned == IF OneTime THEN "stopped" ELSE "ready"

(* Mutant: the final wait is skipped, as if each scan only fed the queue. *)
EndWalkNoDrain ==
  /\ scanner = "walk"
  /\ todo = {}
  /\ scanner' = Returned
  /\ dispatched' = 0
  /\ UNCHANGED <<c, done, todo, stale, walkErrors>>

EndWalk ==
  /\ scanner = "walk"
  /\ todo = {}
  /\ scanner' = IF dispatched > 0 THEN "drain" ELSE Returned
  /\ UNCHANGED <<c, done, todo, dispatched, stale, walkErrors>>

(* Mutant: the final wait stops one token early. *)
DrainShort ==
  /\ scanner = "drain"
  /\ TakeToken
  /\ scanner' = IF dispatched' < 2 THEN Returned ELSE "drain"

Drain ==
  /\ scanner = "drain"
  /\ TakeToken
  /\ scanner' = IF dispatched' < 1 THEN Returned ELSE "drain"

(* w.Err() # nil: started is cleared and both scan_once and scan return.   *)
(* The files already sent stay with the workers and in the channels.       *)
WalkError ==
  /\ scanner = "walk"
  /\ walkErrors < MaxWalkErrors
  /\ walkErrors' = walkErrors + 1
  /\ scanner' = "stopped"
  /\ todo' = {}
  /\ dispatched' = 0
  /\ stale' = stale + dispatched
  /\ UNCHANGED <<c, done>>

(* NewDownloader's loop: Stop, then a new SftpScanner on the same channels. *)
RecreateScanner ==
  /\ ~OneTime
  /\ scanner = "stopped"
  /\ scanner' = "connect"
  /\ UNCHANGED <<c, done, todo, dispatched, stale, walkErrors>>

(* NewOneTimeDownloader: Stop, then os.Exit(0), whatever the workers do. *)
ExitProcess ==
  /\ OneTime
  /\ scanner = "stopped"
  /\ scanner' = "exited"
  /\ UNCHANGED <<c, done, todo, dispatched, stale, walkErrors>>

ScannerStep ==
  \/ ScannerConnect
  \/ BeginScan
  \/ \E p \in todo : Dispatch(p)
  \/ ChannelFull
  \/ AwaitToken
  \/ \E p \in todo : BlockedSend(p)
  \/ EndWalk
  \/ Drain
  \/ WalkError
  \/ RecreateScanner
  \/ ExitProcess

-----------------------------------------------------------------------------
(* The workers' ends of the channels. *)

Running == scanner # "exited"

ReceiveFile ==
  /\ c # <<>>
  /\ c' = Tail(c)

SendToken ==
  /\ done < Cap
  /\ done' = done + 1
=============================================================================
