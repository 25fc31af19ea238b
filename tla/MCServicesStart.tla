-------------------------- MODULE MCServicesStart --------------------------
(***************************************************************************)
(* ServicesStart for TLC.                                                  *)
(***************************************************************************)
EXTENDS ServicesStart, TLC

Pids == Permutations(Procs)
=============================================================================
