---------------------------- MODULE MCLifecycle ----------------------------
(* Three runs of the program, two failing calls between them.             *)
EXTENDS Lifecycle
============================================================================
