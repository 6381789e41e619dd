------------------------- MODULE BenchmarkRunProofs -------------------------
(* What holds of the whole of BenchmarkRun, for any pods.                  *)
EXTENDS BenchmarkRun, BenchmarkPipeProofs

\* Nothing is saved before the pods were listed; and those that the last poll
\* saw complete are still so, unless they were restarted.
Polled ==
  /\ wf \in {"configMap", "poll", "list"} => \A p \in Pods : saved[p] = "nothing"
  /\ wf \in {"list", "collect"} =>
       \A p \in seen : pod[p] \in {"Completed", "removed"} \/ p \in restarted

\* The DaemonSet that was applied keeps its pods, unless somebody deletes it.
Kept ==
  /\ wf \in {"poll", "list"} => ds \/ meddled
  /\ wf = "list" => seen \subseteq Listed \/ meddled

RunIInv == IInv /\ PodsTypeOK /\ Polled /\ Kept /\ PartialLogsAreExcused /\ PanicNeedsNoPods

-----------------------------------------------------------------------------
(* The inductive invariant.                                                *)

LEMMA RunIInit == RunInit => RunIInv
<1> SUFFICES ASSUME RunInit PROVE RunIInv
  OBVIOUS
<1>1. IInv
  BY IInit DEF RunInit
<1>2. PodsTypeOK
  BY DEF RunInit, PodsTypeOK, Gone
<1>3. Polled /\ Kept /\ PartialLogsAreExcused /\ PanicNeedsNoPods
  BY DEF RunInit, Polled, Kept, PartialLogsAreExcused, PanicNeedsNoPods
<1>4. QED
  BY <1>1, <1>2, <1>3 DEF RunIInv

\* The first step of the workflow is done when it is done: nothing takes it back.
LEMMA PipeStep == RunIInv /\ Next /\ UNCHANGED podVars => RunIInv'
<1> SUFFICES ASSUME RunIInv, Next, UNCHANGED podVars PROVE RunIInv'
  OBVIOUS
<1>1. IInv'
  BY IStep DEF RunIInv
<1>2. main = "applied" => main' = "applied"
  BY DEF Next, Main, StartCreate, StartApply, WaitCreate, CloseWriter, WaitApply, Copies,
         CreateWrites, CreateSucceeds, CreateFails, ApplyReads, ApplySucceeds, ApplyFails
<1>3. PodsTypeOK'
  BY <1>2 DEF RunIInv, PodsTypeOK, podVars
<1>4. Polled' /\ Kept' /\ PartialLogsAreExcused' /\ PanicNeedsNoPods'
  BY DEF RunIInv, podVars, Polled, Kept, Listed, PartialLogsAreExcused, PanicNeedsNoPods
<1>5. QED
  BY <1>1, <1>3, <1>4 DEF RunIInv

LEMMA PipeKept == RunIInv /\ UNCHANGED vars => IInv'
  BY Stutter DEF RunIInv

LEMMA ApplyDaemonSetStep == RunIInv /\ ApplyDaemonSet => RunIInv'
<1> SUFFICES ASSUME RunIInv, ApplyDaemonSet PROVE RunIInv'
  OBVIOUS
<1> USE DEF ApplyDaemonSet
<1>1. IInv' /\ main' = main
  BY PipeKept DEF vars
<1>2. PodsTypeOK'
  BY <1>1 DEF RunIInv, PodsTypeOK
<1>3. Polled' /\ Kept' /\ PartialLogsAreExcused' /\ PanicNeedsNoPods'
  BY DEF RunIInv, Polled, Kept, PartialLogsAreExcused, PanicNeedsNoPods
<1>4. QED
  BY <1>1, <1>2, <1>3 DEF RunIInv

LEMMA PollStep == RunIInv /\ Poll => RunIInv'
<1> SUFFICES ASSUME RunIInv, Poll PROVE RunIInv'
  OBVIOUS
<1> USE DEF Poll
<1>1. IInv' /\ main' = main
  BY PipeKept DEF vars
<1>2. PodsTypeOK'
  BY <1>1 DEF RunIInv, PodsTypeOK, Listed
<1>3. Polled'
  <2>1. wf' = "list" => \A p \in seen' : pod[p] = "Completed"
    BY DEF RunIInv, PodsTypeOK, Complete, Finished, Listed, Gone
  <2>2. QED
    BY <2>1 DEF RunIInv, Polled
<1>4. Kept'
  BY DEF RunIInv, Kept, Listed
<1>5. PartialLogsAreExcused' /\ PanicNeedsNoPods'
  BY DEF RunIInv, Polled, PartialLogsAreExcused, PanicNeedsNoPods
<1>6. QED
  BY <1>1, <1>2, <1>3, <1>4, <1>5 DEF RunIInv

LEMMA ListStep == RunIInv /\ List => RunIInv'
<1> SUFFICES ASSUME RunIInv, List PROVE RunIInv'
  OBVIOUS
<1> USE DEF List, Names
<1>1. IInv' /\ main' = main
  BY PipeKept DEF vars
<1>2. PodsTypeOK'
  BY <1>1 DEF RunIInv, PodsTypeOK, Listed
<1>3. Polled' /\ Kept' /\ PartialLogsAreExcused'
  BY DEF RunIInv, Polled, Kept, PartialLogsAreExcused
<1>4. PanicNeedsNoPods'
  BY DEF RunIInv, Kept, PanicNeedsNoPods
<1>5. QED
  BY <1>1, <1>2, <1>3, <1>4 DEF RunIInv

LEMMA CollectStep == ASSUME RunIInv, NEW p \in Pods, Collect(p) PROVE RunIInv'
<1> USE DEF Collect, AfterPod
<1>1. IInv' /\ main' = main
  BY PipeKept DEF vars
<1>2. PodsTypeOK'
  BY <1>1 DEF RunIInv, PodsTypeOK, Gone
<1>3. Polled' /\ Kept' /\ PanicNeedsNoPods'
  BY DEF RunIInv, Polled, Kept, PanicNeedsNoPods
<1>4. PartialLogsAreExcused'
  <2>1. saved'[p] = "partial" => saved[p] = "partial" \/ p \notin seen \/ p \in restarted
    BY DEF RunIInv, PodsTypeOK, Polled, Gone, Finished
  <2>2. \A q \in Pods \ {p} : saved'[q] = saved[q]
    BY DEF RunIInv, PodsTypeOK
  <2>3. QED
    BY <2>1, <2>2 DEF RunIInv, PartialLogsAreExcused
<1>5. QED
  BY <1>1, <1>2, <1>3, <1>4 DEF RunIInv

LEMMA CleanUpStep == RunIInv /\ CleanUp => RunIInv'
<1> SUFFICES ASSUME RunIInv, CleanUp PROVE RunIInv'
  OBVIOUS
<1> USE DEF CleanUp
<1>1. IInv' /\ main' = main
  BY PipeKept DEF vars
<1>2. PodsTypeOK'
  BY <1>1 DEF RunIInv, PodsTypeOK
<1>3. Polled' /\ Kept' /\ PartialLogsAreExcused' /\ PanicNeedsNoPods'
  BY DEF RunIInv, Polled, Kept, PartialLogsAreExcused, PanicNeedsNoPods
<1>4. QED
  BY <1>1, <1>2, <1>3 DEF RunIInv

LEMMA ClusterStep == RunIInv /\ Cluster => RunIInv'
<1> SUFFICES ASSUME RunIInv, Cluster PROVE RunIInv'
  OBVIOUS
<1>t. /\ UNCHANGED <<vars, wf, seen, todo, saved>> /\ IInv' /\ main' = main
      /\ pod \in [Pods -> Gone \union {"Running", "Completed"}] /\ seen \subseteq Pods
  BY PipeKept DEF Cluster, CreatePod, FinishPod, RestartPod, RemovePod, OtherDeletes, OtherApplies,
                  Awake, vars, RunIInv, PodsTypeOK
<1>1. ASSUME NEW p \in Pods, CreatePod(p) \/ FinishPod(p) \/ RestartPod(p) \/ RemovePod(p)
      PROVE  RunIInv'
  <2> USE <1>1 DEF CreatePod, FinishPod, RestartPod, RemovePod, Gone, Listed
  <2>1. PodsTypeOK'
    BY <1>t DEF RunIInv, PodsTypeOK
  <2>2. Polled'
    BY <1>t DEF RunIInv, Polled
  <2>3. Kept'
    BY <1>t DEF RunIInv, Kept
  <2>4. PartialLogsAreExcused' /\ PanicNeedsNoPods'
    BY <1>t DEF RunIInv, PartialLogsAreExcused, PanicNeedsNoPods
  <2>5. QED
    BY <1>t, <2>1, <2>2, <2>3, <2>4 DEF RunIInv
<1>2. CASE OtherDeletes \/ OtherApplies
  BY <1>2, <1>t DEF OtherDeletes, OtherApplies, RunIInv, PodsTypeOK, Polled, Kept, Listed,
                    PartialLogsAreExcused, PanicNeedsNoPods
<1>3. QED
  BY <1>1, <1>2 DEF Cluster

LEMMA RunIStep == RunIInv /\ [RunNext]_runVars => RunIInv'
<1> SUFFICES ASSUME RunIInv, [RunNext]_runVars PROVE RunIInv'
  OBVIOUS
<1>1. CASE UNCHANGED runVars
  <2>1. IInv'
    BY <1>1, PipeKept DEF runVars
  <2>2. QED
    BY <1>1, <2>1 DEF runVars, vars, podVars, RunIInv, PodsTypeOK, Polled, Kept, Listed,
                      PartialLogsAreExcused, PanicNeedsNoPods
<1>2. QED
  BY <1>1, PipeStep, ApplyDaemonSetStep, PollStep, ListStep, CollectStep, CleanUpStep, ClusterStep
    DEF RunNext, Workflow

-----------------------------------------------------------------------------
(* The theorems.                                                           *)

\* The inductive invariant of BenchmarkRun.
THEOREM RunInvariance == RunSpec => []RunIInv
<1>1. QED
  BY RunIInit, RunIStep, PTL DEF RunSpec

\* The workflow takes its first step as BenchmarkPipe says, whatever the pods do.
THEOREM PipeRefined == RunSpec => Spec
<1>1. RunInit => Init
  BY DEF RunInit
<1>2. [RunNext]_runVars => [Next]_vars
  <2> SUFFICES ASSUME [RunNext]_runVars PROVE [Next]_vars
    OBVIOUS
  <2>1. CASE UNCHANGED runVars
    BY <2>1 DEF runVars
  <2>2. CASE Workflow \/ Cluster
    BY <2>2 DEF Workflow, ApplyDaemonSet, Poll, List, Collect, CleanUp, Cluster, CreatePod,
                FinishPod, RestartPod, RemovePod, OtherDeletes, OtherApplies, Awake
  <2>3. QED
    BY <2>1, <2>2 DEF RunNext
<1>3. QED
  BY <1>1, <1>2, PTL DEF RunSpec, Spec

\* What holds of the pipe holds of it in the workflow.
THEOREM PipeOfRun == RunSpec => [](AppliedIsComplete /\ PartialOnlyAfterError /\ JamNeedsEarlyExit)
<1>1. QED
  BY PipeRefined, AppliedAlwaysComplete, PartialAlwaysAfterError, JamAlwaysNeedsEarlyExit, PTL

\* The variables of BenchmarkRun keep their types, and the loop over the pods runs
\* as long as there is one.
THEOREM RunTypeCorrect == RunSpec => []RunTypeOK
<1>1. RunIInv => RunTypeOK
  BY DEF RunIInv, IInv, RunTypeOK
<1>2. QED
  BY <1>1, RunInvariance, PTL

\* Whatever becomes of the pods, a log of a pod at work has one of two reasons.
THEOREM PartialLogsAlwaysExcused == RunSpec => []PartialLogsAreExcused
<1>1. RunIInv => PartialLogsAreExcused
  BY DEF RunIInv
<1>2. QED
  BY <1>1, RunInvariance, PTL

\* The panic needs a cluster without a pod, or somebody who deletes the DaemonSet.
THEOREM PanicAlwaysNeedsNoPods == RunSpec => []PanicNeedsNoPods
<1>1. RunIInv => PanicNeedsNoPods
  BY DEF RunIInv
<1>2. QED
  BY <1>1, RunInvariance, PTL
=============================================================================
