------------------------------ MODULE DrPrereq ------------------------------
(***************************************************************************)
(* `odf get dr-prereq <peer>' (pkg/odf/dr/dr.go): whether Submariner is    *)
(* installed, and whether its Globalnet is required, as the networks of    *)
(* the two clusters overlap, and enabled.                                  *)
(*                                                                         *)
(* An operator called Slip... is a plausible mistake in the operator that  *)
(* follows it; no specification uses it.                                   *)
(***************************************************************************)
EXTENDS Inspection

CONSTANTS ClusterIds,   \* the clusters that may have joined
          NoId,         \* the empty ClusterID
          Addresses     \* a network is a set of addresses

ASSUME NoIdAssumption == NoId \notin ClusterIds /\ "submariner" \notin ClusterIds

\* The Submariner CR. One that is not installed is the empty CR.
NotInstalled == [installed |-> FALSE, id |-> NoId, available |-> FALSE]
Submariners ==
  {NotInstalled} \union [installed : {TRUE}, id : ClusterIds \union {NoId}, available : BOOLEAN]

\* A Cluster CR: the addresses of its service and pod networks, and whether a CIDR
\* among them is malformed.
NoCluster == [exists |-> FALSE, covers |-> {}, malformed |-> FALSE]
Clusters ==
  {NoCluster} \union [exists : {TRUE}, covers : SUBSET Addresses, malformed : {FALSE}]
              \union {[exists |-> TRUE, covers |-> {}, malformed |-> TRUE]}

DrWorld(s, clusters) ==
  [part \in {"submariner"} \union ClusterIds |-> IF part = "submariner" THEN s ELSE clusters[part]]

DrWorlds == {DrWorld(s, clusters) : s \in Submariners, clusters \in [ClusterIds -> Clusters]}

\* The argument, and what was read.
Memory(peer) == [peer |-> peer, submariner |-> NotInstalled, local |-> NoCluster]

DrInit ==
  Begin("dr-prereq", DrWorlds, "submariner", {Memory(peer) : peer \in ClusterIds}, {})

\* isSubmarinerEnabled, and the first line of isGlobalnetRequired.
GetSubmariner ==
  \/ /\ Answered("dr-prereq", "submariner")
     /\ known' = [known EXCEPT !.submariner = world.submariner]
     /\ report' = {IF world.submariner.installed THEN "installed" ELSE "not installed"}
     /\ pc' = IF world.submariner.id = known.peer THEN "fatal" ELSE "local"
  \/ Failed("dr-prereq", "submariner") /\ Fatal

SlipMissingIsEmpty(cluster) == TRUE

\* An error of the request, NotFound as any other, is an error.
Found(cluster) == cluster.exists

\* The local cluster, by the ID that Submariner has given it; an empty one is
\* looked up as well, and not found.
GetLocal ==
  \/ /\ Answered("dr-prereq", "local")
     /\ LET id == known.submariner.id IN
          IF id \in ClusterIds /\ Found(world[id])
            THEN pc' = "peer" /\ known' = [known EXCEPT !.local = world[id]] /\ UNCHANGED report
            ELSE Fatal
  \/ Failed("dr-prereq", "local") /\ Fatal

\* cidr.OverlappingSubnets (a library, external) looks at each network of the
\* peer: an overlap is an error, and so is a CIDR that cannot be parsed.
OverlappingSubnets(local, peer) ==
  \/ local.covers \intersect peer.covers # {}
  \/ peer.malformed
  \/ local.malformed /\ peer.covers # {}

SlipNoErrors(local, peer) == local.covers \intersect peer.covers # {}

\* Every error counts.
Required(local, peer) == OverlappingSubnets(local, peer)

\* NumberAvailable of the DaemonSet.
isGlobalnetEnabled(submariner) == submariner.available

Conclusions(required, enabled) ==
  { IF required THEN "required" ELSE "not required",
    IF enabled THEN "enabled" ELSE IF required THEN "not enabled, but required" ELSE "not enabled" }

GetPeer ==
  \/ /\ Answered("dr-prereq", "peer")
     /\ LET peer == world[known.peer] IN
          IF Found(peer)
            THEN /\ pc' = "done"
                 /\ report' = report \union Conclusions(Required(known.local, peer),
                                                        isGlobalnetEnabled(known.submariner))
                 /\ UNCHANGED known
            ELSE Fatal
  \/ Failed("dr-prereq", "peer") /\ Fatal

DrNext ==
  \/ GetSubmariner \/ GetLocal \/ GetPeer
  \/ Change("dr-prereq", "submariner", Submariners)
  \/ \E c \in ClusterIds : Change("dr-prereq", c, Clusters)

-----------------------------------------------------------------------------
(* Properties.                                                             *)

DrTypeOK ==
  /\ world \in DrWorlds
  /\ pc \in {"submariner", "local", "peer"} \union Ended
  /\ known.peer \in ClusterIds /\ known.submariner \in Submariners /\ known.local \in Clusters
  /\ pc \in {"peer", "done"} => known.local.exists

\* A verdict compares two clusters that have joined, never one with itself or
\* with one that is not there; without Submariner there is none, although the
\* code goes on after it has said that it is not installed.
ComparesTwoClusters ==
  command = "dr-prereq" /\ pc = "done" =>
    /\ "installed" \in report
    /\ known.submariner.id \in ClusterIds \ {known.peer}
    /\ known.peer \in steady => world[known.peer].exists

\* If the two clusters stay as they are, and whatever happens to Submariner
\* meanwhile, an overlap of their networks never goes unnoticed, nor does a network
\* that cannot be compared, and Globalnet is not called required without either;
\* and the warning is given if and only if it is required and does not run.
DrVerdict ==
  command = "dr-prereq" /\ pc = "done" =>
    LET local == world[known.submariner.id]
        peer  == world[known.peer]
    IN  /\ {known.submariner.id, known.peer} \subseteq steady =>
             /\ "not required" \in report =>
                  /\ \A x \in local.covers, y \in peer.covers : x # y
                  /\ ~peer.malformed /\ (local.malformed => peer.covers = {})
             /\ "required" \in report =>
                  local.malformed \/ peer.malformed \/ \E x \in local.covers : x \in peer.covers
        /\ "submariner" \in steady =>
             /\ "enabled" \in report <=> world.submariner.available
             /\ "not enabled, but required" \in report <=>
                  "required" \in report /\ ~world.submariner.available
=============================================================================
