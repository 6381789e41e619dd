---------------------------- MODULE MCObjectCrds ----------------------------
(* ObjectCrds on a small instance: two runs of the command, the two CRDs of *)
(* the source. The constants are given in the .cfg.                        *)
EXTENDS ObjectCrds
=============================================================================
