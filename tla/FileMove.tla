------------------------------ MODULE FileMove ------------------------------
(***************************************************************************)
(* What a downloader or an uploader promises (readme.md, features): files  *)
(* put in the source folder are copied to the target folder and removed    *)
(* from the source after that.  Workers, channels, connections, timeouts   *)
(* and restarts are not visible at this level.                             *)
(***************************************************************************)
EXTENDS Naturals

CONSTANTS
  Path,         \* files that can exist below the source folder
  MaxVersion    \* bound: how many contents are ever put under one path

VARIABLES
  source,   \* version of each path at the source, 0 if absent
  target,   \* version of each path at the target, 0 if absent
  latest    \* the last version a producer has put under each path

moveVars == <<source, target, latest>>

MoveInit ==
  /\ latest \in [Path -> {0, 1}]
  /\ source = latest
  /\ target = [p \in Path |-> 0]

(* A producer puts a new file under a name that is free. *)
Produce(p) ==
  /\ source[p] = 0
  /\ latest[p] < MaxVersion
  /\ latest' = [latest EXCEPT ![p] = @ + 1]
  /\ source' = [source EXCEPT ![p] = latest'[p]]
  /\ UNCHANGED target

Copy(p) ==
  /\ source[p] # 0
  /\ target' = [target EXCEPT ![p] = source[p]]
  /\ UNCHANGED <<source, latest>>

Remove(p) ==
  /\ source[p] # 0
  /\ target[p] = source[p]
  /\ source' = [source EXCEPT ![p] = 0]
  /\ UNCHANGED <<target, latest>>

MoveNext == \E p \in Path : Produce(p) \/ Copy(p) \/ Remove(p)

MoveSafety == MoveInit /\ [][MoveNext]_moveVars

MoveSpec ==
  /\ MoveSafety
  /\ \A p \in Path : WF_moveVars(Copy(p)) /\ WF_moveVars(Remove(p))
=============================================================================
