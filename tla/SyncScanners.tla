---------------------------- MODULE SyncScanners ----------------------------
(***************************************************************************)
(* The scanners of the two kinds of syncer.  A FileObj here is a path with *)
(* the Stat its scanner has read, which the worker compares later with the *)
(* copy's.  Of a Stat only the time matters, and a version is its own time *)
(* (see Syncer).                                                           *)
(*                                                                         *)
(* A server syncer has an SftpScanner: a walk yields each file with its    *)
(* Stat.  A local syncer has a FolderScanner with a watcher: it lists the  *)
(* names, reads the Stat of one at a time, and dispatches the file only if *)
(* LocalFolderMap does not have it with that time already.  Both exchange  *)
(* files and tokens with the workers as SftpScanner does.                  *)
(***************************************************************************)
EXTENDS Integers, Sequences

CONSTANTS
  Path,           \* files that can exist below the source folder
  Worker,         \* configured number of workers
  OneTime,        \* command line mode, not service mode
  MaxWalkErrors,  \* bound: how many walks end with an error
  MaxVersion      \* bound: how many contents are ever put under one path

ASSUME SyncAssumption ==
  /\ Worker \in Nat \ {0}      \* ReadConfig raises a smaller value to 1
  /\ OneTime \in BOOLEAN
  /\ MaxWalkErrors \in Nat
  /\ MaxVersion \in Nat \ {0}

VARIABLES
  mode,             \* the syncer's direction: from the server or from here
  source,           \* version of each path in the source folder
  LocalFolderMap,   \* the time the watcher remembers of each path, or 0
  c, done, scanner, todo, dispatched, stale, walkErrors   \* as in SftpScanner

Absent == 0
NoStat == 0    \* the scanner has the name only

(* An implementation of SftpScanner's and FolderScanner's file: a name with*)
(* the Stat it has while it is at the source.                              *)
FileObj == [path : Path, stat : {NoStat} \cup 1..MaxVersion]

Scan == INSTANCE FolderScanner
          WITH Path <- FileObj,
               source <- [f \in FileObj |->
                            IF f.stat = source[f.path] THEN f.stat ELSE Absent]

exchangeVars == <<c, done, scanner, todo, dispatched, stale, walkErrors>>
syncScannerVars == <<exchangeVars, LocalFolderMap>>

NothingKnown == [p \in Path |-> NoStat]

SyncScannerTypeOK ==
  /\ mode \in {"server", "local"}
  /\ Scan!ScannerTypeOK
  /\ LocalFolderMap \in [Path -> {NoStat} \cup 1..MaxVersion]

SyncScannerInit ==
  /\ Scan!ScannerInit
  /\ LocalFolderMap = NothingKnown

-----------------------------------------------------------------------------
(* The watcher. *)

(* init makes an empty map. *)
StartWithWatcher ==
  /\ Scan!ScannerConnect
  /\ LocalFolderMap' = NothingKnown

(* ReadFilelist.  Names that it does not find are deleted from the map at  *)
(* the end of the pass, before which nothing asks for them: now is as good.*)
ListFolder ==
  /\ scanner = "ready"
  /\ scanner' = "walk"
  /\ todo' = {[path |-> p, stat |-> NoStat] :
                p \in {q \in Path : source[q] # Absent}}
  /\ LocalFolderMap' =
       [p \in Path |-> IF source[p] = Absent THEN NoStat ELSE LocalFolderMap[p]]
  /\ UNCHANGED <<c, done, dispatched, stale, walkErrors>>

(* The file that the scanner has decided to send. *)
Decided == {f \in todo : f.stat # NoStat}

(* os.Stat fails, as the file is gone or by an error: the name is deleted  *)
(* from the map, as above.                                                 *)
StatFails(f) ==
  /\ \/ source[f.path] = Absent /\ UNCHANGED walkErrors
     \/ /\ source[f.path] # Absent
        /\ walkErrors < MaxWalkErrors
        /\ walkErrors' = walkErrors + 1
  /\ todo' = todo \ {f}
  /\ LocalFolderMap' = [LocalFolderMap EXCEPT ![f.path] = NoStat]

StatSame(f) ==
  /\ source[f.path] # Absent
  /\ LocalFolderMap[f.path] = source[f.path]
  /\ todo' = todo \ {f}
  /\ UNCHANGED <<LocalFolderMap, walkErrors>>

(* New or changed: the map has it from now on, whatever becomes of it. *)
StatChanged(f) ==
  /\ source[f.path] # Absent
  /\ LocalFolderMap[f.path] # source[f.path]
  /\ todo' = (todo \ {f}) \cup {[path |-> f.path, stat |-> source[f.path]]}
  /\ LocalFolderMap' = [LocalFolderMap EXCEPT ![f.path] = source[f.path]]
  /\ UNCHANGED walkErrors

StatFile ==
  /\ scanner = "walk"
  /\ Decided = {}
  /\ \E f \in todo : StatFails(f) \/ StatSame(f) \/ StatChanged(f)
  /\ UNCHANGED <<c, done, scanner, dispatched, stale>>

WatcherStep ==
  \/ StartWithWatcher
  \/ ListFolder
  \/ StatFile
  \/ /\ UNCHANGED LocalFolderMap
     /\ \/ Scan!ReadError
        \/ \E f \in Decided : Scan!Dispatch(f)
        \/ Decided # {} /\ Scan!ChannelFull
        \/ Scan!AwaitToken
        \/ \E f \in Decided : Scan!BlockedSend(f)
        \/ Scan!EndWalk
        \/ Scan!Drain
        \/ Scan!RecreateScanner
        \/ Scan!ExitProcess

-----------------------------------------------------------------------------
SyncScannerStep ==
  \/ mode = "server" /\ Scan!ScannerStep /\ UNCHANGED LocalFolderMap
  \/ mode = "local" /\ WatcherStep
=============================================================================
