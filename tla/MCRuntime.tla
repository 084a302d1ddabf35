----------------------------- MODULE MCRuntime ------------------------------
(* The daemon, its core and its processes on small bounds.                  *)
EXTENDS Runtime

=============================================================================
