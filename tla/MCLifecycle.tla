----------------------------- MODULE MCLifecycle -----------------------------
(* Lifecycle, with its constants from the configuration. *)
EXTENDS Lifecycle
=============================================================================
