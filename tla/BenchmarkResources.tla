------------------------- MODULE BenchmarkResources -------------------------
(***************************************************************************)
(* `odf benchmark resources' (pkg/benchmark/resources.go): three programs  *)
(* on each node, and a file with the disks that are free and the network   *)
(* interfaces that are physical.                                           *)
(*                                                                         *)
(* An operator called Slip... is a plausible mistake in the operator that  *)
(* follows it; no specification uses it.                                   *)
(***************************************************************************)
EXTENDS Inspection, Naturals

CONSTANTS Nodes,    \* the nodes a cluster may have
          Disks,    \* the names of disks
          Nics      \* the network interfaces of a node

ASSUME NodesAssumption == "nodes" \notin Nodes

\* The name of an interface: what it begins with, how long it is, and how
\* long its parent's is, which `ip' appends to it after an @ (0: none). The kernel
\* allows 15 characters.
Nic == [prefix : {"lo", "br-", "ovs-", "ovn-", "genev_sys", "other"},
        length : 1..15, parent : 0..15]

ASSUME NicsAssumption == Nics \subseteq Nic

\* How a disk is used: "mounted" itself, or through a partition.
Uses == {"absent", "free", "mounted", "partition mounted"}

\* The nodes, and the disks of each.
World(nodes, disks) ==
  [part \in {"nodes"} \union Nodes |-> IF part = "nodes" THEN nodes ELSE disks[part]]

ResourcesWorlds ==
  {World(nodes, disks) : nodes \in SUBSET Nodes, disks \in [Nodes -> [Disks -> Uses]]}

NoNode == "nodes"

\* The file, and the entries that go into it.
Untouched == [file |-> "untouched", nodes |-> {}]

ResourcesInit ==
  Begin("resources", ResourcesWorlds, "nodes",
        {[todo |-> {}, node |-> NoNode, disks |-> {}, nodes |-> {}]}, Untouched)

NextRequest(todo) == IF todo = {} THEN "write" ELSE "lsblk"

\* getClusterNodes.
ListNodes ==
  \/ /\ Answered("resources", "nodes")
     /\ known' = [known EXCEPT !.todo = world.nodes]
     /\ pc' = NextRequest(world.nodes)
     /\ UNCHANGED report
  \/ Failed("resources", "nodes") /\ Fatal

\* lsblk -d -n -o NAME: whole disks.
GetDisks ==
  \/ /\ Answered("resources", "lsblk")
     /\ \E n \in known.todo :
          known' = [known EXCEPT !.todo = @ \ {n}, !.node = n,
                                 !.disks = {d \in Disks : world[n][d] # "absent"}]
     /\ pc' = "mounts" /\ UNCHANGED report
  \/ Failed("resources", "lsblk") /\ Fatal

\* lsblk -o NAME,MOUNTPOINT: a row for every disk, and one for a partition, whose
\* name begins with the lines of a tree.
Rows(disks) ==
  {[name |-> <<d>>, mounted |-> disks[d] = "mounted"] : d \in {d \in Disks : disks[d] # "absent"}}
  \union {[name |-> <<"|-", d>>, mounted |-> TRUE] : d \in {d \in Disks : disks[d] = "partition mounted"}}

SlipAllRows(rows) == {r.name : r \in rows}

\* The names in the rows with a mount point.
parseMountedDisks(rows) == {r.name : r \in {r \in rows : r.mounted}}

filterUnmountedDisks(all, mounted) == {d \in all : <<d>> \notin mounted}

GetMountedDisks ==
  \/ /\ Answered("resources", "mounts")
     /\ known' = [known EXCEPT !.disks =
                    filterUnmountedDisks(@, parseMountedDisks(Rows(world[known.node])))]
     /\ pc' = "nics" /\ UNCHANGED report
  \/ Failed("resources", "mounts") /\ Fatal

Shown(nic) == nic.length + (IF nic.parent = 0 THEN 0 ELSE 1 + nic.parent)

SlipFifteen(nics) == {nic \in nics : nic.prefix = "other" /\ Shown(nic) < 15}

\* What begins with one of the five is not physical, nor what is long.
filterPhysicalInterfaces(nics) == {nic \in nics : nic.prefix = "other" /\ Shown(nic) <= 15}

Collected ==
  known.nodes \union {[node |-> known.node, disks |-> known.disks,
                       nics |-> filterPhysicalInterfaces(Nics)]}

SlipSkipNode == pc' = NextRequest(known.todo) /\ UNCHANGED report

\* An error on any node ends it all.
NodeFails == pc' = "fatal" /\ UNCHANGED report

GetNics ==
  \/ /\ Answered("resources", "nics")
     /\ known' = [known EXCEPT !.nodes = Collected, !.node = NoNode, !.disks = {}]
     /\ pc' = NextRequest(known.todo) /\ UNCHANGED report
  \/ Failed("resources", "nics") /\ NodeFails

\* os.WriteFile, which may fail on its way.
WriteFile ==
  \/ /\ Answered("resources", "write")
     /\ pc' = "done" /\ report' = [file |-> "whole", nodes |-> known.nodes]
     /\ UNCHANGED known
  \/ /\ Failed("resources", "write")
     /\ pc' = "fatal" /\ \E f \in {"untouched", "cut off"} : report' = [Untouched EXCEPT !.file = f]

\* A node that is gone makes the requests fail.
ResourcesNext ==
  \/ ListNodes \/ GetDisks \/ GetMountedDisks \/ GetNics \/ WriteFile
  \/ \E n \in Nodes : Change("resources", n, [Disks -> Uses])

-----------------------------------------------------------------------------
(* Properties.                                                             *)

Entry == [node : Nodes, disks : SUBSET Disks, nics : SUBSET Nics]

ResourcesTypeOK ==
  /\ world \in ResourcesWorlds
  /\ pc \in {"nodes", "lsblk", "mounts", "nics", "write"} \union Ended
  /\ known.todo \subseteq Nodes /\ known.node \in Nodes \union {NoNode}
  /\ known.disks \subseteq Disks
  /\ known.nodes \subseteq Entry /\ report.nodes \subseteq Entry
  /\ report.file \in {"untouched", "whole", "cut off"}

\* A file that was written has one entry for each node of the cluster: a node
\* that could not be read leaves no file, or the old one.
FileIsComplete ==
  command = "resources" /\ report.file = "whole" =>
    /\ {e.node : e \in report.nodes} = world.nodes
    /\ \A e, f \in report.nodes : e.node = f.node => e = f

\* On a node that does not change, the two lists of disks are as good as one: no
\* free disk is left out, and the only disk in use that passes for free is one
\* whose partition is mounted.
DisksAreExcused ==
  command = "resources" =>
    \A e \in report.nodes : e.node \in steady =>
      LET Used(u) == {d \in Disks : world[e.node][d] = u} IN
        /\ Used("free") \subseteq e.disks
        /\ e.disks \subseteq Used("free") \union Used("partition mounted")

\* An interface without a parent is left out only if its name has one of the five
\* beginnings: 15 characters are enough for every name the kernel allows, and
\* only those which `ip' shows with their parent are too long.
OnlyChildrenTooLong ==
  command = "resources" =>
    \A e \in report.nodes : \A nic \in Nics \ e.nics : nic.parent = 0 => nic.prefix # "other"
=============================================================================
