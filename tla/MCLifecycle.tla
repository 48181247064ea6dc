----------------------------- MODULE MCLifecycle -----------------------------
(* Values for Lifecycle. *)
EXTENDS Lifecycle

MCHomes == {"storage", "yaml", "own", "taken"}
=============================================================================
