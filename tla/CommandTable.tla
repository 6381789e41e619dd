---------------------------- MODULE CommandTable ----------------------------
(***************************************************************************)
(* The commands of odf, as far as it matters for how one is dispatched:    *)
(* one definition for each file under cmd/odf. `odf dr', `odf noobaa' and  *)
(* `odf multus' are commands of other repositories, and not listed.        *)
(*                                                                         *)
(*   above, use       the names of the groups it stands in (below odf), and*)
(*                    its own Use                                          *)
(*   parses           it parses flags                                      *)
(*   args             the numbers of arguments it accepts, up to Many      *)
(*   checks           where its arguments are checked further, if at all:  *)
(*                    "args" (ValidArgs), "preRun" or "nowhere"            *)
(*   waits            where it waits for a rook-ceph-operator pod, if it   *)
(*                    does: "preRun", "run" or "nowhere"                   *)
(***************************************************************************)
EXTENDS Naturals, Sequences

Many == 7   \* bound: more arguments than any command line of the model has

Exactly(n) == {n}
AtLeast(n) == n..Many
AtMost(n)  == 0..n
Anything   == 0..Many

Command(above, use, parses, args, checks, waits) ==
  [above |-> above, use |-> use, parses |-> parses, args |-> args, checks |-> checks,
   waits |-> waits]

\* The command that this one was added to.
Parent(c) == IF c.above = <<>> THEN "odf" ELSE c.above[Len(c.above)]

\* The groups that do not parse flags ("ceph" is that of `odf set ceph').
DeafGroups == {"set", "ceph", "get", "restore", "maintenance"}

-----------------------------------------------------------------------------
ObjectCommands ==
  { Command(<<"object">>, u, TRUE, Exactly(1), "args", "nowhere")
      : u \in {"enable remote-obc", "disable remote-obc"} }

BenchmarkResources == Command(<<"benchmark">>, "resources", TRUE, Anything, "nowhere", "nowhere")
BenchmarkRunCmd    == Command(<<"benchmark">>, "run", TRUE, Anything, "nowhere", "nowhere")

\* PreRun of the group is that of no command: cobra runs a command's own.
MaintenancePreRun == "nowhere"
MaintenanceStart == Command(<<"maintenance">>, "start", TRUE, Exactly(1), "nowhere", MaintenancePreRun)
MaintenanceStop  == Command(<<"maintenance">>, "stop", TRUE, Exactly(1), "nowhere", MaintenancePreRun)

OperatorRookSet     == Command(<<"operator", "rook">>, "set", TRUE, Exactly(2), "nowhere", "nowhere")
OperatorRookRestart == Command(<<"operator", "rook">>, "restart", TRUE, Exactly(0), "nowhere", "preRun")

RestoreDeletedCmd == Command(<<"restore">>, "deleted", FALSE, 1..2, "nowhere", "preRun")
RestoreMonQuorum  == Command(<<"restore">>, "mon-quorum", FALSE, Exactly(1), "nowhere", "nowhere")

PurgeOsd == Command(<<>>, "purge-osd", TRUE, Exactly(1), "preRun", "nowhere")

SetFull            == Command(<<"set">>, "full", FALSE, Exactly(1), "nowhere", "nowhere")
SetBackfillFull    == Command(<<"set">>, "backfillfull", FALSE, Exactly(1), "nowhere", "nowhere")
SetNearFull        == Command(<<"set">>, "nearfull", FALSE, Exactly(1), "nowhere", "nowhere")
SetCephLogLevel    == Command(<<"set", "ceph">>, "log-level", FALSE, Exactly(3), "nowhere", "nowhere")
SetRecoveryProfile == Command(<<"set">>, "recovery-profile", FALSE, Exactly(1), "args", "nowhere")

GetRecoveryProfile == Command(<<"get">>, "recovery-profile", FALSE, Exactly(0), "nowhere", "nowhere")
GetHealth          == Command(<<"get">>, "health", TRUE, Exactly(0), "nowhere", "preRun")
GetDrHealth        == Command(<<"get">>, "dr-health", FALSE, AtMost(2), "nowhere", "nowhere")
GetDrPrereq        == Command(<<"get">>, "dr-prereq", FALSE, Exactly(1), "nowhere", "nowhere")
GetMonEndpoints    == Command(<<"get">>, "mon-endpoints", TRUE, Exactly(0), "nowhere", "nowhere")
GetRookStatus      == Command(<<"get", "rook">>, "status", TRUE, AtMost(1), "nowhere", "nowhere")

CephCommand    == Command(<<>>, "ceph", FALSE, AtLeast(1), "nowhere", "run")
RbdCommand     == Command(<<>>, "rbd", FALSE, AtLeast(1), "nowhere", "run")
RadosgwCommand == Command(<<>>, "radosgw-admin", FALSE, AtLeast(1), "nowhere", "run")
RadosCommand   == Command(<<>>, "rados", FALSE, AtLeast(1), "nowhere", "nowhere")

SubvolumeLs     == Command(<<"subvolume">>, "ls", TRUE, Anything, "nowhere", "nowhere")
SubvolumeDelete == Command(<<"subvolume">>, "delete", TRUE, 2..3, "nowhere", "nowhere")
SnapLs          == Command(<<"cephfs-snap">>, "ls", TRUE, Anything, "nowhere", "nowhere")
SnapDelete      == Command(<<"cephfs-snap">>, "delete", TRUE, Exactly(2), "nowhere", "nowhere")

\* addcommands, and the init functions below it.
Commands ==
  ObjectCommands \union
  { BenchmarkResources, BenchmarkRunCmd, MaintenanceStart, MaintenanceStop,
    OperatorRookSet, OperatorRookRestart, RestoreDeletedCmd, RestoreMonQuorum, PurgeOsd,
    SetFull, SetBackfillFull, SetNearFull, SetCephLogLevel, SetRecoveryProfile,
    GetRecoveryProfile, GetHealth, GetDrHealth, GetDrPrereq, GetMonEndpoints, GetRookStatus,
    CephCommand, RbdCommand, RadosgwCommand, RadosCommand,
    SubvolumeLs, SubvolumeDelete, SnapLs, SnapDelete }
=============================================================================
