---------------------------- MODULE MCLifecycle ----------------------------
(* Lifecycle as it is: its constants are numbers given by the cfg.          *)
EXTENDS Lifecycle
=============================================================================
