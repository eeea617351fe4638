----------------------------- MODULE MCShutdown -----------------------------
(* Shutdown with three signals: one to drain, one to force, one too late. *)
EXTENDS Shutdown
=============================================================================
