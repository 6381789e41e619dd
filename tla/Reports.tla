------------------------------- MODULE Reports -------------------------------
(***************************************************************************)
(* The three commands that only look, each alone on a cluster that changes *)
(* under its hands. One command is chosen at the beginning: they share     *)
(* nothing.                                                                *)
(***************************************************************************)
EXTENDS NooBaaHealth, DrPrereq, BenchmarkResources

Init == HealthInit \/ DrInit \/ ResourcesInit

Next == HealthNext \/ DrNext \/ ResourcesNext

Spec == Init /\ [][Next]_vars

\* Types.
TypeOK ==
  /\ command = "health"    => HealthTypeOK
  /\ command = "dr-prereq" => DrTypeOK
  /\ command = "resources" => ResourcesTypeOK
  /\ steady \subseteq DOMAIN world
=============================================================================
