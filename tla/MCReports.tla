------------------------------ MODULE MCReports ------------------------------
(* Reports on a small instance.                                            *)
EXTENDS Reports

\* A name of each beginning, and names of the greatest length, alone and with a
\* parent that does and does not make them too long.
Names ==
  {[prefix |-> p, length |-> 6, parent |-> 0] : p \in {"lo", "br-", "ovs-", "ovn-", "genev_sys"}}
  \union {[prefix |-> "other", length |-> n, parent |-> 0] : n \in {4, 14, 15}}
  \union {[prefix |-> "other", length |-> 4, parent |-> n] : n \in {4, 10, 11}}
=============================================================================
