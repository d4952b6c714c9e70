-------------------------- MODULE MCTaskLifecycle --------------------------
(* Small instances of TaskLifecycle for TLC.                               *)
EXTENDS TaskLifecycle
=============================================================================
