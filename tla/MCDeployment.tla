---------------------------- MODULE MCDeployment ----------------------------
(* Instance of Deployment for TLC.  There is no symmetry set: the run checks *)
(* a liveness property.                                                      *)
EXTENDS Deployment, TLC
==============================================================================
