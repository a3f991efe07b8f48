---------------------------- MODULE MCLiveUpdates ----------------------------
(* Small instances of LiveUpdates for TLC: two sessions and a trace, seen by  *)
(* a session list and a trace catalog.                                        *)
EXTENDS LiveUpdates

CONSTANTS s1, s2, t1, list, catalog

MCKindOf == (s1 :> "sessions") @@ (s2 :> "sessions") @@ (t1 :> "traces")
MCReads == (list :> {"sessions"}) @@ (catalog :> {"traces"})
MCChanges == {{s1, s2}, {t1}}
=============================================================================
