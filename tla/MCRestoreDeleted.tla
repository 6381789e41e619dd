------------------------- MODULE MCRestoreDeleted -------------------------
(* RestoreDeleted on small instances.                                      *)
EXTENDS RestoreDeleted

StorageCluster  == [resource |-> "storageclusters",  group |-> "ocs.openshift.io"]
CephCluster     == [resource |-> "cephclusters",     group |-> "ceph.rook.io"]
StorageConsumer == [resource |-> "storageconsumers", group |-> "ocs.openshift.io"]

TroubledKinds == {StorageCluster, CephCluster}

\* storageconsumers has the version crds.go:109-110 gives it.
ServedKinds ==
  { [resource |-> "storageclusters",  group |-> "ocs.openshift.io", version |-> "v1"],
    [resource |-> "cephclusters",     group |-> "ceph.rook.io",     version |-> "v1"],
    [resource |-> "storageconsumers", group |-> "ocs.openshift.io", version |-> "v1alpha1"] }

Ask(resource, group, name) == [resource |-> resource, group |-> group, name |-> name]

\* The two CRs, one under a name that is not there, one in a group that is
\* not supported, and one that the API server does not list.
CommandLines ==
  { Ask("storageclusters", "ocs.openshift.io", NoName),
    Ask("cephclusters", "ceph.rook.io", CrName),
    Ask("cephclusters", "ceph.rook.io", "other"),
    Ask("cephclusters", "apps", NoName),
    Ask("storageconsumers", "ocs.openshift.io", NoName) }

\* The request of the run on the documentation.
HelpLine == {Ask("--help", "", NoName)}
=============================================================================
