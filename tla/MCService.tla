----------------------------- MODULE MCService -----------------------------
(* An instance of Service for TLC. *)
EXTENDS Service

MCMode == {"", "server", "local", "twoway", "TwoWay", "both"}

(* One pipeline of each kind, syncs in three modes, one disabled, and some *)
(* whose worker number is missing.                                         *)
MCRawPipeline ==
  [kind : {"download", "upload", "stream"}, enabled : {TRUE}, mode : {""},
   worker : {1}]
  \cup [kind : {"sync"}, enabled : {TRUE}, mode : {"local", "TwoWay", "both"},
        worker : {0, 1}]
  \cup [kind : {"upload"}, enabled : {FALSE}, mode : {""}, worker : {0}]
=============================================================================
