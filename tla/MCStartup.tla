------------------------------- MODULE MCStartup -------------------------------
(* Instances of Startup: two processes, two tables. *)
EXTENDS Startup, TLC
=============================================================================
