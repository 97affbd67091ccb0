------------------------------ MODULE MCHosts ------------------------------
(* Instance of Hosts for model checking. *)
EXTENDS Hosts
============================================================================
