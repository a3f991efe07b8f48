----------------------- MODULE MCCompactionReplacement -----------------------
(* Small instances of CompactionReplacement for TLC: a service and a        *)
(* command-line compaction as model values.                                 *)
EXTENDS CompactionReplacement

CONSTANTS service, compactor
=============================================================================
