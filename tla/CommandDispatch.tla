--------------------------- MODULE CommandDispatch ---------------------------
(***************************************************************************)
(* What happens between the shell and the work of a command: cobra (a      *)
(* library, external) traverses the commands and parses the flags and the  *)
(* arguments, then PersistentPreRun of cmd/odf/root/root.go settles the    *)
(* two namespaces, makes the clients and validates the namespaces, and     *)
(* the command waits for a rook-ceph-operator pod, if it does, and works.  *)
(*                                                                         *)
(* The model is of one run of odf, on a cluster where namespaces come and  *)
(* go, and operator pods start and stop, between any two requests.         *)
(*                                                                         *)
(* An operator called Slip... is a plausible mistake in the operator that  *)
(* follows it; no specification uses it.                                   *)
(***************************************************************************)
EXTENDS CommandTable

CONSTANTS Namespaces,   \* namespaces a flag may name
          Default,      \* "openshift-storage"
          NotGiven,     \* a flag that is not there
          ArgCounts     \* bound: how many arguments are given

ASSUME NamespacesAssumption == Default \in Namespaces /\ NotGiven \notin Namespaces
ASSUME ArgCountsAssumption  == ArgCounts \subseteq 0..(Many - 4)

\* A command line, such as `odf -n ns get rook status'. The flags are all in
\* one place: after as many of the commands.
Line == [command  : Commands,
         storage  : Namespaces \union {NotGiven},   \* -n
         operator : Namespaces \union {NotGiven},   \* --operator-namespace
         place    : 0..3,
         args     : ArgCounts,
         valid    : BOOLEAN]                        \* what ValidArgs or PreRunE looks at

VARIABLES line,                     \* the command line
          pc,                       \* the next step
          StorageClusterNamespace,
          OperatorNamespace,
          namespaces,               \* the namespaces on the cluster
          operators,                \* the namespaces with a running operator pod
          seen,                     \* history: the namespaces that were there when validated
          sawOperator               \* history: those an operator pod was seen running in

cluster == <<namespaces, operators>>
program == <<line, StorageClusterNamespace, OperatorNamespace>>
vars == <<line, pc, StorageClusterNamespace, OperatorNamespace, namespaces, operators,
          seen, sawOperator>>

Ended == {"usage", "fatal", "done"}

\* The flags stand behind the last command.
Last(l) == l.place = Len(l.command.above) + 1

\* The flags that arrive: a group that does not parse flags drops those that
\* follow it, and a command that does not takes them for arguments.
Arrives(l) ==
  \/ l.place = 0
  \/ l.place \in DOMAIN l.command.above /\ l.command.above[l.place] \notin DeafGroups
  \/ Last(l) /\ l.command.parses

StorageFlag  == IF Arrives(line) THEN line.storage ELSE NotGiven
OperatorFlag == IF Arrives(line) THEN line.operator ELSE NotGiven

GivenArgs(l) ==
  IF Last(l) /\ ~l.command.parses
    THEN l.args + (IF l.storage = NotGiven THEN 0 ELSE 2)
                + (IF l.operator = NotGiven THEN 0 ELSE 2)
    ELSE l.args

Init ==
  /\ line \in Line
  /\ line.command.checks = "nowhere" => line.valid
  /\ line.place \in 0..(Len(line.command.above) + 1)
  /\ line.storage = NotGiven /\ line.operator = NotGiven => line.place = 0
  /\ pc = "arguments"
  /\ StorageClusterNamespace = Default
  /\ OperatorNamespace = NotGiven
  /\ namespaces \in SUBSET Namespaces
  /\ operators \in SUBSET namespaces
  /\ seen = {} /\ sawOperator = {}

-----------------------------------------------------------------------------
(* cobra (external).                                                       *)

ArgsAccepted ==
  /\ GivenArgs(line) \in line.command.args
  /\ line.command.checks = "args" => line.valid

ValidateArgs ==
  /\ pc = "arguments"
  /\ pc' = IF ArgsAccepted THEN "resolve" ELSE "usage"
  /\ OperatorNamespace' = OperatorFlag
  /\ UNCHANGED <<line, StorageClusterNamespace, cluster, seen, sawOperator>>

-----------------------------------------------------------------------------
(* PersistentPreRun.                                                       *)

\* namespacedClientConfig.Namespace(): the namespace of the flag, and else what
\* StorageClusterNamespace already is. The one of the kubeconfig is ignored.
EffectiveNamespace == IF StorageFlag # NotGiven THEN StorageFlag ELSE StorageClusterNamespace

SlipNoDefault(ns) == OperatorNamespace

\* The operator is where the storage cluster is, unless a flag says otherwise.
OperatorOf(ns) == IF OperatorNamespace = NotGiven THEN ns ELSE OperatorNamespace

\* If the kubeconfig cannot be loaded, the default stays, and the program ends
\* when it makes its clients.
Resolve ==
  /\ pc = "resolve"
  /\ \/ /\ StorageClusterNamespace' = EffectiveNamespace
        /\ OperatorNamespace' = OperatorOf(EffectiveNamespace)
        /\ pc' = "clients"
     \/ /\ OperatorNamespace' = OperatorOf(StorageClusterNamespace)
        /\ pc' = "fatal"
        /\ UNCHANGED StorageClusterNamespace
  /\ UNCHANGED <<line, cluster, seen, sawOperator>>

\* The comparison is with the whole of Use.
skipPreValidation(c) ==
  \/ c.use \in {"enable", "disable"} /\ Parent(c) = "object"
  \/ c.use = "benchmark" \/ Parent(c) = "benchmark"

\* getClientsets: the clients are made of the kubeconfig alone.
MakeClients ==
  /\ pc = "clients"
  /\ \/ pc' = IF skipPreValidation(line.command) THEN "ctrlClient" ELSE "operatorNamespace"
     \/ pc' = "fatal"
  /\ UNCHANGED <<program, cluster, seen, sawOperator>>

\* preValidationCheck: one request for each namespace.
CheckNamespace(at, ns, next) ==
  /\ pc = at
  /\ \/ /\ ns \in namespaces
        /\ seen' = seen \union {ns}
        /\ pc' = next
     \/ /\ pc' = "fatal"   \* it is not there, or the request failed
        /\ UNCHANGED seen
  /\ UNCHANGED <<program, cluster, sawOperator>>

preValidationCheck ==
  \/ CheckNamespace("operatorNamespace", OperatorNamespace, "storageNamespace")
  \/ CheckNamespace("storageNamespace", StorageClusterNamespace, "ctrlClient")

\* getControllerRuntimeClient, which the benchmarks do not skip either.
MakeCtrlClient ==
  /\ pc = "ctrlClient"
  /\ pc' \in {"preRun", "fatal"}
  /\ UNCHANGED <<program, cluster, seen, sawOperator>>

-----------------------------------------------------------------------------
(* The command.                                                            *)

SlipStorageNamespace == StorageClusterNamespace

\* Where k8sutil.WaitForPodToRun looks for the operator pod.
OperatorPodNamespace == OperatorNamespace

WaitForPodToRun(next) ==
  \/ /\ OperatorPodNamespace \in operators
     /\ sawOperator' = sawOperator \union {OperatorPodNamespace}
     /\ pc' = next
  \/ /\ pc' = "fatal"      \* it gave up waiting
     /\ UNCHANGED sawOperator

PreRun ==
  /\ pc = "preRun"
  /\ \/ /\ line.command.waits = "preRun"
        /\ WaitForPodToRun("run")
     \/ /\ line.command.waits # "preRun"
        /\ pc' = IF line.command.checks = "preRun" /\ ~line.valid THEN "fatal" ELSE "run"
        /\ UNCHANGED sawOperator
  /\ UNCHANGED <<program, cluster, seen>>

\* Run or RunE, up to its work.
Run ==
  /\ pc = "run"
  /\ \/ /\ line.command.waits = "run"
        /\ WaitForPodToRun("work")
     \/ /\ line.command.waits # "run"
        /\ pc' = "work"
        /\ UNCHANGED sawOperator
  /\ UNCHANGED <<program, cluster, seen>>

Work ==
  /\ pc = "work"
  /\ pc' \in {"done", "fatal"}
  /\ UNCHANGED <<program, cluster, seen, sawOperator>>

-----------------------------------------------------------------------------
(* The cluster (external).                                                 *)

ChangeNamespace(ns) ==
  /\ namespaces' = IF ns \in namespaces THEN namespaces \ {ns} ELSE namespaces \union {ns}
  /\ operators' = operators \intersect namespaces'
  /\ UNCHANGED <<program, pc, seen, sawOperator>>

ChangeOperator(ns) ==
  /\ ns \in namespaces
  /\ operators' = IF ns \in operators THEN operators \ {ns} ELSE operators \union {ns}
  /\ UNCHANGED <<program, pc, namespaces, seen, sawOperator>>

Cluster ==
  /\ pc \notin Ended
  /\ \E ns \in Namespaces : ChangeNamespace(ns) \/ ChangeOperator(ns)

Next ==
  \/ ValidateArgs \/ Resolve \/ MakeClients \/ preValidationCheck \/ MakeCtrlClient
  \/ PreRun \/ Run \/ Work
  \/ Cluster

Spec == Init /\ [][Next]_vars

-----------------------------------------------------------------------------
(* Properties.                                                             *)

\* Types; a command that is past the resolution has both namespaces.
TypeOK ==
  /\ line \in Line
  /\ pc \in Ended \union {"arguments", "resolve", "clients", "operatorNamespace",
                          "storageNamespace", "ctrlClient", "preRun", "run", "work"}
  /\ StorageClusterNamespace \in Namespaces
  /\ OperatorNamespace \in Namespaces \union {NotGiven}
  /\ pc \notin {"arguments", "resolve", "usage"} => OperatorNamespace \in Namespaces
  /\ namespaces \subseteq Namespaces /\ operators \subseteq namespaces
  /\ seen \subseteq Namespaces /\ sawOperator \subseteq Namespaces

\* Whatever goes on in the cluster, the namespaces a command works in are those
\* it has seen, and the operator it has waited for runs in one of them; but
\* for the benchmarks, which work on the whole cluster.
WorksWhereChecked ==
  pc = "work" =>
    /\ {StorageClusterNamespace, OperatorNamespace} \subseteq seen
       \/ Parent(line.command) = "benchmark"
    /\ line.command.waits # "nowhere" => OperatorNamespace \in sawOperator

\* root.go:136: "Skip pre-validation for cluster-wide commands", and the code
\* below names enable and disable of object. Their Use is "enable remote-obc"
\* and "disable remote-obc": both are validated.
ClusterWideSkipsValidation ==
  line.command \in ObjectCommands => pc \notin {"operatorNamespace", "storageNamespace"}

\* README.md:81, of -n and --operator-namespace: "These are the arguments that
\* apply to all commands". Behind set, get, restore and maintenance they are
\* dropped without a word, behind ceph, rbd, rados and radosgw-admin they are
\* handed on: the command then works in openshift-storage.
RootArgsApply ==
  pc = "work" =>
    /\ line.storage # NotGiven => StorageClusterNamespace = line.storage
    /\ line.operator # NotGiven => OperatorNamespace = line.operator
=============================================================================
