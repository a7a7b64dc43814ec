------------------------------- MODULE Mirror -------------------------------
(***************************************************************************)
(* What a syncer promises (readme.md, features): the copy follows the      *)
(* source.  It holds only what the source has held, never a version older  *)
(* than one it has had, and agrees with the source when that rests.  Scans,      *)
(* workers, file times and connections are not visible at this level.      *)
(*                                                                         *)
(* A syncer that writes its copy in place shows a Partial file meanwhile,  *)
(* and does not go back after it either.                                   *)
(* Nothing is promised of a file while it is excluded.                     *)
(***************************************************************************)
EXTENDS Integers

CONSTANTS
  Path,         \* files that can exist below the source folder
  MaxVersion    \* bound: how many contents are ever put under one path

VARIABLES
  source,     \* version of each path at the source, 0 if absent
  latest,     \* the last version put under each path
  copy,       \* version of each path in the copy, 0 if absent
  last,       \* the last whole version that each copy has had, 0 if none
  inplace,    \* the copy is written in place
  excluded    \* files of which nothing is promised

mirrorVars == <<source, latest, copy, last, inplace, excluded>>

Partial == -1

MirrorInit ==
  /\ source = latest
  /\ copy = [p \in Path |-> 0]
  /\ last = copy
  /\ excluded = {}

Edit(p) ==
  /\ latest[p] < MaxVersion
  /\ latest' = [latest EXCEPT ![p] = @ + 1]
  /\ source' = [source EXCEPT ![p] = latest'[p]]
  /\ UNCHANGED <<copy, last, inplace, excluded>>

Delete(p) ==
  /\ source[p] # 0
  /\ source' = [source EXCEPT ![p] = 0]
  /\ UNCHANGED <<latest, copy, last, inplace, excluded>>

BeginUpdate(p) ==
  /\ inplace
  /\ copy' = [copy EXCEPT ![p] = Partial]
  /\ UNCHANGED <<source, latest, last, inplace, excluded>>

Update(p) ==
  /\ \E v \in last[p]..latest[p] :
       /\ v > 0
       /\ copy' = [copy EXCEPT ![p] = v]
       /\ last' = [last EXCEPT ![p] = v]
  /\ UNCHANGED <<source, latest, inplace, excluded>>

(* Nothing is promised of them: their copy may become anything. *)
Exclude ==
  /\ \A p \in Path \ excluded' : copy'[p] = copy[p] /\ last'[p] = last[p]
  /\ UNCHANGED <<source, latest, inplace>>

MirrorNext ==
  \/ \E p \in Path : Edit(p) \/ Delete(p) \/ BeginUpdate(p) \/ Update(p)
  \/ Exclude

MirrorSafety == MirrorInit /\ [][MirrorNext]_mirrorVars

Settles ==
  \A p \in Path : \A v \in 1..MaxVersion :
    <>[](source[p] = v) => <>[](copy[p] = v \/ p \in excluded)
=============================================================================
