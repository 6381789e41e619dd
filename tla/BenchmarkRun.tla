---------------------------- MODULE BenchmarkRun ----------------------------
(***************************************************************************)
(* All of `odf benchmark run' (RunBenchmarkWorkflow in pkg/benchmark/      *)
(* benchmark_run.go): after the ConfigMap (BenchmarkPipe) it applies a     *)
(* DaemonSet, polls its pods until they are complete, saves their logs and *)
(* deletes the DaemonSet. Every `oc' it runs is one step.                  *)
(*                                                                         *)
(* The DaemonSet and its pods are external: its controller creates pods    *)
(* after it was applied, one of a new name at a time, removes them after   *)
(* it was deleted, and restarts the container of a pod that completed (a   *)
(* DaemonSet has no other restart policy than Always). Other people may    *)
(* delete and apply the same DaemonSet.                                    *)
(***************************************************************************)
EXTENDS BenchmarkPipe

CONSTANT Pods

VARIABLES wf,         \* where the workflow is after the ConfigMap
          ds,         \* the DaemonSet exists
          pod,        \* the STATUS column of each pod
          seen,       \* the pods of the last poll
          todo,       \* the pods whose logs are still to be saved
          saved,      \* what is in the log file of each pod
          meddled,    \* history: somebody else deleted the DaemonSet
          restarted   \* history: the pods restarted since the last poll

podVars == <<wf, ds, pod, seen, todo, saved, meddled, restarted>>
runVars == <<vars, podVars>>

Gone   == {"unborn", "removed"}
Listed == {p \in Pods : pod[p] \notin Gone}

\* A run that was given up may have left the DaemonSet and its pods.
RunInit ==
  /\ Init
  /\ wf = "configMap"
  /\ ds \in BOOLEAN
  /\ pod \in [Pods -> IF ds THEN {"unborn", "Running", "Completed"} ELSE {"unborn"}]
  /\ seen = {} /\ todo = {} /\ restarted = {}
  /\ saved = [p \in Pods |-> "nothing"]
  /\ meddled = FALSE

-----------------------------------------------------------------------------
(* The workflow. An error makes it return at once, without a clean-up.     *)

ApplyDaemonSet ==
  /\ wf = "configMap" /\ main = "applied"
  /\ \/ ds' = TRUE /\ wf' \in {"poll", "error"}
     \/ UNCHANGED ds /\ wf' = "error"
  /\ UNCHANGED <<vars, pod, seen, todo, saved, meddled, restarted>>

SlipSucceededOnly == {"Succeeded"}

\* The two states that count as complete.
Finished == {"Completed", "Succeeded"}

SlipSomePod == \E p \in Listed : pod[p] \in Finished

\* No listed pod is in another state; an empty list is one empty line, which
\* has no third field, and is complete.
Complete == \A p \in Listed : pod[p] \in Finished

\* `oc get pods --no-headers'. The ten seconds between two polls are no step.
Poll ==
  /\ wf = "poll"
  /\ \/ /\ seen' = Listed
        /\ restarted' = {}
        /\ wf' = IF Complete THEN "list" ELSE "poll"
     \/ /\ wf' = "error"
        /\ UNCHANGED <<seen, restarted>>
  /\ UNCHANGED <<vars, ds, pod, todo, saved, meddled>>

SlipRunningOnly == {p \in Listed : pod[p] = "Running"}

\* `oc get pods -o name'.
Names == Listed

\* The names, then the directory. strings.Split gives one name, "", for an
\* empty list, and taking what follows its slash panics.
List ==
  /\ wf = "list"
  /\ \/ /\ todo' = Names
        /\ wf' = IF Names = {} THEN "panic" ELSE "collect"
     \/ /\ wf' = "error"
        /\ UNCHANGED todo
  /\ UNCHANGED <<vars, ds, pod, seen, saved, meddled, restarted>>

SlipStay(rest) == "collect"

\* The loop over the pods is over with the last of them.
AfterPod(rest) == IF rest = {} THEN "cleanUp" ELSE "collect"

\* `oc logs' prints what the present container of the pod has written so far.
\* A log that cannot be read or written is reported and skipped.
Collect(p) ==
  /\ wf = "collect" /\ p \in todo
  /\ \/ /\ pod[p] \notin Gone
        /\ saved' = [saved EXCEPT ![p] = IF pod[p] \in Finished THEN "whole" ELSE "partial"]
     \/ UNCHANGED saved
  /\ todo' = todo \ {p}
  /\ wf' = AfterPod(todo \ {p})
  /\ UNCHANGED <<vars, ds, pod, seen, meddled, restarted>>

\* The workflow succeeds even if the DaemonSet could not be deleted.
CleanUp ==
  /\ wf = "cleanUp"
  /\ ds' = FALSE \/ UNCHANGED ds
  /\ wf' = "done"
  /\ UNCHANGED <<vars, pod, seen, todo, saved, meddled, restarted>>

Workflow ==
  \/ ApplyDaemonSet \/ Poll \/ List \/ CleanUp
  \/ \E p \in Pods : Collect(p)

-----------------------------------------------------------------------------
(* The cluster (external). What it does before the workflow looks at it is *)
(* in the choice of the initial state.                                     *)

Awake == wf # "configMap" /\ UNCHANGED <<vars, wf, seen, todo, saved>>

CreatePod(p) ==
  /\ Awake
  /\ ds /\ pod[p] = "unborn"
  /\ pod' = [pod EXCEPT ![p] = "Running"]
  /\ UNCHANGED <<ds, meddled, restarted>>

FinishPod(p) ==
  /\ Awake
  /\ pod[p] = "Running"
  /\ pod' = [pod EXCEPT ![p] = "Completed"]
  /\ UNCHANGED <<ds, meddled, restarted>>

RestartPod(p) ==
  /\ Awake
  /\ ds /\ pod[p] = "Completed"
  /\ pod' = [pod EXCEPT ![p] = "Running"]
  /\ restarted' = restarted \union {p}
  /\ UNCHANGED <<ds, meddled>>

RemovePod(p) ==
  /\ Awake
  /\ ~ds /\ p \in Listed
  /\ pod' = [pod EXCEPT ![p] = "removed"]
  /\ UNCHANGED <<ds, meddled, restarted>>

OtherDeletes ==
  /\ Awake
  /\ ds /\ ds' = FALSE
  /\ meddled' = TRUE
  /\ UNCHANGED <<pod, restarted>>

OtherApplies ==
  /\ Awake
  /\ ~ds /\ ds' = TRUE
  /\ UNCHANGED <<pod, meddled, restarted>>

Cluster ==
  \/ \E p \in Pods : CreatePod(p) \/ FinishPod(p) \/ RestartPod(p) \/ RemovePod(p)
  \/ OtherDeletes \/ OtherApplies

RunNext ==
  \/ Next /\ UNCHANGED podVars
  \/ Workflow
  \/ Cluster

\* odf and the programs it started go on; nothing has to fail, and the cluster
\* owes nothing.
RunSpec ==
  /\ RunInit /\ [][RunNext]_runVars
  /\ WF_vars(Main) /\ WF_vars(Copies)
  /\ WF_vars(CreateWrites) /\ WF_vars(CreateSucceeds)
  /\ WF_vars(ApplyReads) /\ WF_vars(ApplySucceeds)
  /\ WF_runVars(Workflow /\ wf' # "error")

-----------------------------------------------------------------------------
(* Properties.                                                             *)

\* Types, those of the pipe included; the loop over the pods has a pod left, the
\* DaemonSet comes after the ConfigMap, and a log is saved of a pod that was listed.
PodsTypeOK ==
  /\ wf \in {"configMap", "poll", "list", "collect", "cleanUp", "done", "error", "panic"}
  /\ wf # "configMap" => main = "applied"
  /\ ds \in BOOLEAN /\ meddled \in BOOLEAN
  /\ pod \in [Pods -> Gone \union {"Running", "Completed"}]
  /\ seen \subseteq Pods /\ restarted \subseteq Pods
  /\ todo \subseteq Pods /\ (wf = "collect" <=> todo # {})
  /\ saved \in [Pods -> {"nothing", "partial", "whole"}]
  /\ \A p \in Pods : pod[p] = "unborn" => saved[p] = "nothing"

RunTypeOK == TypeOK /\ PodsTypeOK

\* The log of a pod is saved before the pod has completed only if the pod was
\* not there when the workflow looked last, or was restarted after that.
PartialLogsAreExcused ==
  \A p \in Pods : saved[p] = "partial" => p \notin seen \/ p \in restarted

\* The workflow panics only if it found no pod when it looked for completed
\* ones, unless somebody else deleted the DaemonSet in the meantime.
PanicNeedsNoPods == wf = "panic" => seen = {} \/ meddled

\* The workflow ends, unless the pipe is jammed or again and again some pod is
\* at work.
RunEnds ==
  \/ <>(wf \in {"done", "error", "panic"} \/ main = "error" \/ Jammed)
  \/ []<>(\E p \in Pods : pod[p] = "Running")

\* benchmark_run.go:65 says "All benchmark pods completed.", then their logs are
\* saved. A poll that comes before the first pod is created says it as well, and
\* what is saved, before the DaemonSet is deleted, is the log of pods at work.
LogsAreOfCompletedPods ==
  meddled \/ \A p \in Pods : saved[p] = "partial" => p \in restarted
=============================================================================
