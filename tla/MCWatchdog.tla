----------------------------- MODULE MCWatchdog -----------------------------
(***************************************************************************)
(* Small instances of Watchdog: which checks change.                       *)
(***************************************************************************)
EXTENDS Watchdog

\* Two checks that may both be bad, one of which keeps a value in the file; and
\* each other check alone.
Sets ==
  {{"apply_lag", "archiver"}, {"archiver", "reverse"}}
  \cup {{c} : c \in {"slot", "orphan_sync_slots", "follower", "free_space", "replica_identity"}}
=============================================================================
