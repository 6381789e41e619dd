--------------------------- MODULE RestoreDeleted ---------------------------
(***************************************************************************)
(* `odf restore deleted <CRD> [CRNAME]' (cmd/odf/restore/crds.go): repair a*)
(* custom resource (CR) that was deleted and cannot go away. The command   *)
(* keeps ocs-operator scaled to zero while it works, because that operator *)
(* creates a CR of its own wherever one is missing.                        *)
(*                                                                         *)
(* A session is one run of the command; each of its calls to the cluster   *)
(* is one step. RestoreCrd and SetDeploymentScale come from another        *)
(* repository: the steps from "list" to "innerUp" are what docs/restore.md *)
(* 184-217 shows of RestoreCrd. That text does not name "the operator"     *)
(* RestoreCrd scales, and the call (crds.go:116) passes "ocs-operator" to  *)
(* it for a purpose that cannot be seen here: Inner is either of the two   *)
(* deployments. The cluster has one CR that can be in trouble.             *)
(*                                                                         *)
(* An operator called Slip... is a plausible mistake in the operator that  *)
(* follows it; no specification uses it.                                   *)
(***************************************************************************)
EXTENDS Naturals

CONSTANTS Sessions,   \* runs of the command
          Requests,   \* command lines: [resource, group, name]
          Kinds,      \* types the CR may be of: [resource, group]
          Served,     \* what the API server can list: [resource, group, version]
          CrName,     \* the name of the CR
          NoName,     \* no second argument
          NoRequest,  \* not invoked yet
          NoCopy,     \* nothing read from the cluster
          Inner,      \* the deployment RestoreCrd scales
          MaxRev,     \* bound on the edits of the CR
          MaxLives    \* bound on how often the CR is created

Deployments == {"ocs-operator", "rook-ceph-operator"}

ASSUME InnerAssumption  == Inner \in Deployments
ASSUME BoundsAssumption == MaxRev \in Nat \ {0} /\ MaxLives \in Nat \ {0}

VARIABLES scale,      \* replicas wanted of each deployment
          kind,       \* the type of the CR
          cr,         \* the CR: its state, the revision of its spec, its incarnation
          owned,      \* the groups of the children that name this incarnation as owner
          collected,  \* some child was garbage collected
          pc,         \* the next step of each session
          request,    \* its command line
          copy,       \* the CR as it read it
          diedAt,     \* history: the step at which it ended in an error
          overlap,    \* history: a session began its work within another's
          written,    \* history: the last revision somebody wrote
          stale       \* history: the sessions with a copy older than that

cluster == <<scale, kind, cr, owned, collected>>
edits   == <<written, stale>>
vars    == <<scale, kind, cr, owned, collected, pc, request, copy, diedAt, overlap,
             written, stale>>

Cr == [state : {"live", "deleting", "gone"}, rev : 0..MaxRev, life : 1..MaxLives]

\* Where a session is between scaling ocs-operator down and up again.
Repair  == {"parse", "list", "prompt", "innerDown", "strip", "finalizers", "recreate", "innerUp"}
Section == Repair \union {"scaleUp"}
Running == {"wait", "scaleDown"} \union Section

\* The steps between the reading of the CR and its re-creation.
Holding == {"prompt", "innerDown", "strip", "finalizers", "recreate"}

-----------------------------------------------------------------------------
(* The tables of crds.go.                                                  *)

\* groupVersions.
GroupVersions ==
  [g \in {"ocs.openshift.io", "ceph.rook.io", "csi.ceph.io", "odf.openshift.io",
          "noobaa.io", "csiaddons.openshift.io"}
     |-> IF g \in {"ocs.openshift.io", "ceph.rook.io"} THEN "v1" ELSE "v1alpha1"]

\* parseFullyQualifiedCRD: a group was given, and it is a supported one.
Parses(r) == r.group \in DOMAIN GroupVersions

SlipNoTable(r) == {}

\* The groups of the customResources whose owner references RestoreCrd also
\* removes. slices.Contains looks at both arguments.
CustomGroups(r) ==
  IF "storageclusters" \in {r.resource, r.name}
    THEN {"ceph.rook.io", "noobaa.io", "ocs.openshift.io"} ELSE {}

\* What a CR of a kind has for children (external): a StorageCluster owns
\* other CRs, and each has secrets, claims and deployments of the core API.
Children(k) ==
  IF k.resource = "storageclusters"
    THEN {"core", "ceph.rook.io", "noobaa.io", "ocs.openshift.io"} ELSE {"core"}

Matches(r) ==
  r.resource = kind.resource /\ r.group = kind.group /\ r.name \in {NoName, CrName}

Init ==
  /\ scale     = [d \in Deployments |-> 1]
  /\ kind      \in Kinds
  /\ cr        = [state |-> "live", rev |-> 1, life |-> 1]
  /\ owned     = Children(kind)
  /\ collected = FALSE
  /\ pc        = [s \in Sessions |-> "idle"]
  /\ request   = [s \in Sessions |-> NoRequest]
  /\ copy      = [s \in Sessions |-> NoCopy]
  /\ diedAt    = [s \in Sessions |-> "none"]
  /\ overlap   = FALSE
  /\ written   = 1
  /\ stale     = {}

-----------------------------------------------------------------------------
(* Moving a session.                                                       *)

Goto(s, next) ==
  /\ pc' = [pc EXCEPT ![s] = next]
  /\ UNCHANGED <<request, diedAt>>

\* logging.Fatal, or an interrupt: nothing deferred runs, so whatever is
\* scaled down stays down.
Die(s) ==
  /\ pc' = [pc EXCEPT ![s] = "fatal"]
  /\ diedAt' = [diedAt EXCEPT ![s] = pc[s]]
  /\ UNCHANGED request

\* The call took effect; the program goes on, or takes a lost answer for a
\* failure.
Reply(s, next) == Goto(s, next) \/ Die(s)

SlipWrongOperator(d, n) == scale' = [scale EXCEPT !["rook-ceph-operator"] = n]

\* k8sutil.SetDeploymentScale (external).
SetDeploymentScale(d, n) == scale' = [scale EXCEPT ![d] = n]

-----------------------------------------------------------------------------
(* The command.                                                            *)

\* Flag parsing is disabled: whatever follows "deleted" is the request.
Invoke(s, r) ==
  /\ pc[s] = "idle"
  /\ pc' = [pc EXCEPT ![s] = "wait"]
  /\ request' = [request EXCEPT ![s] = r]
  /\ UNCHANGED <<cluster, copy, diedAt, overlap, edits>>

\* PreRun: wait for a rook-ceph-operator pod.
WaitForPodToRun(s) ==
  /\ pc[s] = "wait"
  /\ scale["rook-ceph-operator"] = 1
  /\ Goto(s, "scaleDown")
  /\ UNCHANGED <<cluster, copy, overlap, edits>>

ScaleDown(s) ==
  /\ pc[s] = "scaleDown"
  /\ SetDeploymentScale("ocs-operator", 0)
  /\ overlap' = (overlap \/ \E t \in Sessions : pc[t] \in Section)
  /\ Reply(s, "parse")
  /\ UNCHANGED <<kind, cr, owned, collected, copy, edits>>

\* The argument is looked at only now.
Parse(s) ==
  /\ pc[s] = "parse"
  /\ IF Parses(request[s]) THEN Goto(s, "list") ELSE Die(s)
  /\ UNCHANGED <<cluster, copy, overlap, edits>>

SlipReturnEarly(s) == Goto(s, "done")

\* RestoreCrd has nothing to restore and returns.
NothingToRestore(s) == Goto(s, "scaleUp")

ListKey(r) ==
  [resource |-> r.resource, group |-> r.group, version |-> GroupVersions[r.group]]

SlipNoCopy(s) == UNCHANGED copy

\* The resource found is kept for the re-creation.
TakeCopy(s) == copy' = [copy EXCEPT ![s] = cr]

List(s) ==
  /\ pc[s] = "list"
  /\ \/ /\ ListKey(request[s]) \notin Served
        /\ Die(s) /\ UNCHANGED copy
     \/ /\ ListKey(request[s]) \in Served
        /\ Matches(request[s]) /\ cr.state = "deleting"
        /\ TakeCopy(s)
        /\ Goto(s, "prompt")
     \/ /\ ListKey(request[s]) \in Served
        /\ ~(Matches(request[s]) /\ cr.state = "deleting")
        /\ NothingToRestore(s) /\ UNCHANGED copy
  /\ UNCHANGED <<cluster, overlap, edits>>

\* "Do you want to restore it? yes | no"
Answer(s) ==
  /\ pc[s] = "prompt"
  /\ Goto(s, "innerDown") \/ Die(s)
  /\ UNCHANGED <<cluster, copy, overlap, edits>>

InnerDown(s) ==
  /\ pc[s] = "innerDown"
  /\ SetDeploymentScale(Inner, 0)
  /\ Reply(s, "strip")
  /\ UNCHANGED <<kind, cr, owned, collected, copy, overlap, edits>>

\* Owner references are found by the uid of the copy.
Strip(s) ==
  /\ pc[s] = "strip"
  /\ owned' = IF copy[s].life = cr.life
                THEN owned \ ({"core"} \union CustomGroups(request[s])) ELSE owned
  /\ Reply(s, "finalizers")
  /\ UNCHANGED <<scale, kind, cr, collected, copy, overlap, edits>>

\* Without its finalizers a CR that is being deleted goes away, and with it
\* the children that still refer to it.
Finalizers(s) ==
  /\ pc[s] = "finalizers"
  /\ IF cr.state = "deleting"
       THEN /\ cr' = [cr EXCEPT !.state = "gone"]
            /\ collected' = (collected \/ owned # {})
            /\ owned' = {}
       ELSE UNCHANGED <<cr, collected, owned>>
  /\ Reply(s, "recreate")
  /\ UNCHANGED <<scale, kind, copy, overlap, edits>>

SlipDefaultSpec(s) == 0

\* The spec to create the CR with: the one read before the prompt.
SpecOf(s) == copy[s].rev

SlipExistsIsFine(s) == Goto(s, "innerUp")

\* Somebody else has created the CR: the creation fails, and the program ends.
OnAlreadyExists(s) == Die(s)

Recreate(s) ==
  /\ pc[s] = "recreate"
  /\ \/ /\ cr.state = "gone"
        /\ cr.life < MaxLives
        /\ cr' = [state |-> "live", rev |-> SpecOf(s), life |-> cr.life + 1]
        /\ Reply(s, "innerUp")
     \/ /\ cr.state # "gone"
        /\ OnAlreadyExists(s) /\ UNCHANGED cr
  /\ UNCHANGED <<scale, kind, owned, collected, copy, overlap, edits>>

InnerUp(s) ==
  /\ pc[s] = "innerUp"
  /\ SetDeploymentScale(Inner, 1)
  /\ Reply(s, "scaleUp")
  /\ UNCHANGED <<kind, cr, owned, collected, copy, overlap, edits>>

ScaleUp(s) ==
  /\ pc[s] = "scaleUp"
  /\ SetDeploymentScale("ocs-operator", 1)
  /\ Reply(s, "done")
  /\ UNCHANGED <<kind, cr, owned, collected, copy, overlap, edits>>

\* A call is refused, the wait for the pod times out, or the user interrupts
\* the program.
Abort(s) ==
  /\ pc[s] \in Running
  /\ Die(s)
  /\ UNCHANGED <<cluster, copy, overlap, edits>>

-----------------------------------------------------------------------------
(* The rest of the cluster (external).                                     *)

\* Somebody deletes the CR; the data it stands for keeps it from going away.
DeleteCr ==
  /\ cr.state = "live" /\ cr.life < MaxLives
  /\ cr' = [cr EXCEPT !.state = "deleting"]
  /\ UNCHANGED <<scale, kind, owned, collected, pc, request, copy, diedAt, overlap, edits>>

\* Somebody changes the spec; the API server also lets him while the CR is
\* being deleted.
EditCr ==
  /\ cr.state # "gone" /\ written < MaxRev
  /\ cr' = [cr EXCEPT !.rev = written + 1]
  /\ written' = written + 1
  /\ stale' = stale \union {s \in Sessions : pc[s] \in Holding}
  /\ UNCHANGED <<scale, kind, owned, collected, pc, request, copy, diedAt, overlap>>

\* ocs-operator creates the CR it misses, with its own idea of the spec
\* (revision 0).
OcsReconcile ==
  /\ scale["ocs-operator"] = 1
  /\ cr.state = "gone"
  /\ cr' = [state |-> "live", rev |-> 0, life |-> cr.life + 1]
  /\ UNCHANGED <<scale, kind, owned, collected, pc, request, copy, diedAt, overlap, edits>>

\* An operator makes the CR the owner of its children (again).
Adopt ==
  /\ cr.state = "live" /\ \E d \in Deployments : scale[d] = 1
  /\ owned' = Children(kind)
  /\ UNCHANGED <<scale, kind, cr, collected, pc, request, copy, diedAt, overlap, edits>>

-----------------------------------------------------------------------------
\* What a session does of itself, once it is invoked.
Proceed(s) ==
  \/ WaitForPodToRun(s) \/ ScaleDown(s) \/ Parse(s) \/ List(s)
  \/ InnerDown(s) \/ Strip(s) \/ Finalizers(s) \/ Recreate(s) \/ InnerUp(s) \/ ScaleUp(s)

Next ==
  \/ \E s \in Sessions :
       \/ \E r \in Requests : Invoke(s, r)
       \/ Proceed(s) \/ Answer(s) \/ Abort(s)
  \/ DeleteCr \/ EditCr \/ OcsReconcile \/ Adopt

Spec == Init /\ [][Next]_vars

\* A running program goes on, except that nobody has to answer its question.
FairSpec == Spec /\ \A s \in Sessions : WF_vars(Proceed(s))

-----------------------------------------------------------------------------
(* Properties.                                                             *)

\* Types; from the prompt on a session holds a copy of the CR, and its
\* request has passed the parser before it lists anything.
TypeOK ==
  /\ scale \in [Deployments -> {0, 1}]
  /\ kind \in Kinds
  /\ cr \in Cr /\ (cr.state # "live" => cr.life < MaxLives)
  /\ owned \subseteq Children(kind)
  /\ collected \in BOOLEAN
  /\ pc \in [Sessions -> {"idle", "done", "fatal"} \union Running]
  /\ request \in [Sessions -> Requests \union {NoRequest}]
  /\ copy \in [Sessions -> Cr \union {NoCopy}]
  /\ diedAt \in [Sessions -> {"none"} \union Running]
  /\ overlap \in BOOLEAN
  /\ written \in 1..MaxRev /\ stale \subseteq Sessions
  /\ \A s \in Sessions :
       /\ pc[s] \in Running => request[s] \in Requests
       /\ pc[s] \in Section \ {"parse"} => Parses(request[s])
       /\ pc[s] \in {"prompt", "innerDown", "strip", "finalizers", "recreate", "innerUp"}
            => copy[s] \in Cr

\* An operator at zero is the work of a session that is still at it, or of one
\* that died at it: no way through the command that reports success, and no
\* mix of sessions that all do, leaves the cluster without its operators.
OperatorDownIsOwned ==
  \A d \in Deployments :
    scale[d] = 0 => \E s \in Sessions :
      pc[s] \in Section \/ diedAt[s] \in {"scaleDown"} \union Section

\* From its scale-down until the CR is back, a session that is alone at work
\* keeps ocs-operator from reconciling.
OcsDownDuringRepair ==
  \A s \in Sessions : pc[s] \in Repair => scale["ocs-operator"] = 0 \/ overlap

\* The only children that are ever garbage collected are those of a CR whose
\* finalizers a session removes though it never read it: the one it read has
\* been replaced in the meantime. A repair never costs the CR that was deleted
\* a child, whatever other sessions and the operators do.
ChildrenSurvive ==
  [][collected' /\ ~collected =>
       \E s \in Sessions :
         pc[s] = "finalizers" /\ pc'[s] # pc[s] /\ copy[s].life # cr.life]_vars

\* A session died when the CR was gone, or may have been.
Lost == \E s \in Sessions : diedAt[s] \in {"finalizers", "recreate"}

\* ocs-operator replaced the CR because another session had scaled it up, and
\* a session has yet to find out that it cannot re-create the CR.
ReplacedEarly == overlap /\ \E s \in Sessions : pc[s] = "recreate"

\* The default of an operator never takes the place of the spec with every
\* session reporting success, how ever many of them there are: at least one
\* dies, or is about to, between the finalizers and the end of the re-creation.
SpecKept == cr.rev = 0 => Lost \/ ReplacedEarly

\* A session has re-created a copy that was older than an edit.
WroteStale ==
  \E s \in stale : \/ pc[s] \in {"innerUp", "scaleUp", "done"}
                   \/ diedAt[s] \in {"innerUp", "scaleUp"}

\* The CR has the last spec somebody wrote. The only sessions that undo an edit
\* and go on are those that read the CR before the edit and re-created it after:
\* no copy is older than the prompt, and no other way leads back.
EditsSurvive == cr.rev # written => WroteStale \/ Lost \/ ReplacedEarly

\* ocs-operator comes back, unless a session died in its work or is waiting
\* for an answer.
OcsComesBack ==
  scale["ocs-operator"] = 0
    ~> \/ scale["ocs-operator"] = 1
       \/ \E s \in Sessions : diedAt[s] # "none" \/ pc[s] = "prompt"

\* README.md:79-83, of the arguments that "apply to all commands": "`-h|--help`:
\* this will print brief command help text." This command parses no flags, and
\* takes --help for the CRD: ocs-operator is at zero before it is rejected.
HelpOnlyPrints ==
  \A s \in Sessions : pc[s] \in Section => request[s].resource # "--help"
=============================================================================
