--------------------------- MODULE FolderScanner ---------------------------
(***************************************************************************)
(* The scanner of a local folder, uploader/folder-scanner.go, in the mode  *)
(* the uploader uses (watch_for_changes is false: every file found is      *)
(* dispatched, and LocalFolderMap stays empty).                            *)
(*                                                                         *)
(* Its exchange with the workers is, statement for statement, that of      *)
(* scan_once in downloader/sftp-scanner.go, so the actions of SftpScanner  *)
(* serve here too.  What differs is the folder: ReadFilelist has listed it *)
(* completely, or failed, before the first file is sent, so no scan is     *)
(* abandoned with files out.  stale stays 0.                               *)
(***************************************************************************)
EXTENDS SftpScanner

(* ReadFilelist fails: started is cleared and scan returns. *)
ReadError ==
  /\ scanner = "ready"
  /\ walkErrors < MaxWalkErrors
  /\ walkErrors' = walkErrors + 1
  /\ scanner' = "stopped"
  /\ UNCHANGED <<c, done, todo, dispatched, stale>>

(* os.Stat of a listed file fails: it is gone, or an error. *)
SkipFile(p) ==
  /\ scanner = "walk"
  /\ source[p] = Absent \/ walkErrors < MaxWalkErrors
  /\ walkErrors' = IF source[p] = Absent THEN walkErrors ELSE walkErrors + 1
  /\ todo' = todo \ {p}
  /\ UNCHANGED <<c, done, scanner, dispatched, stale>>

(* init makes no connection. *)
FolderScannerStep ==
  \/ ScannerConnect
  \/ BeginScan
  \/ ReadError
  \/ \E p \in todo : SkipFile(p)
  \/ \E p \in todo \cap Listing : Dispatch(p)
  \/ todo \cap Listing # {} /\ ChannelFull
  \/ AwaitToken
  \/ \E p \in todo : BlockedSend(p)
  \/ EndWalk
  \/ Drain
  \/ RecreateScanner
  \/ ExitProcess
=============================================================================
