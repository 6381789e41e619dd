---------------------------- MODULE BenchmarkPipe ----------------------------
(***************************************************************************)
(* The first step of `odf benchmark run' (pkg/benchmark/benchmark_run.go   *)
(* 15-41): `oc create --dry-run' is piped into `oc apply -f -', through    *)
(*                                                                         *)
(*   create -> OS pipe -> goroutine 1 -> io.Pipe -> goroutine 2 -> OS pipe *)
(*          -> apply                                                       *)
(*                                                                         *)
(* The goroutines are the ones os/exec starts for a Stdout and a Stdin     *)
(* that are no files; io.Pipe has no buffer, so that a write waits for the *)
(* read. The text is a number of chunks, each at one of the stations. The  *)
(* two programs, os/exec and io.Pipe are external.                         *)
(*                                                                         *)
(* An operator called Slip... is a plausible mistake in the operator that  *)
(* follows it; no specification uses it.                                   *)
(***************************************************************************)
EXTENDS Naturals

CONSTANTS Chunks,    \* what create has to write
          Capacity   \* what an OS pipe holds

ASSUME ChunksAssumption   == Chunks \in Nat \ {0}
ASSUME CapacityAssumption == Capacity \in Nat \ {0}

Stations == {"create", "pipe1", "copy1", "copy2", "pipe2", "apply", "lost"}

VARIABLES main,           \* RunBenchmarkWorkflow
          create, apply,  \* the two programs
          copy1, copy2,   \* the two goroutines
          at,             \* how many chunks are at each station
          closed          \* pipeWriter.Close() was called

vars == <<main, create, apply, copy1, copy2, at, closed>>

Exited == {"ok", "failed"}
Over   == {"applied", "error"}

Init ==
  /\ main = "startCreate"
  /\ create = "unborn" /\ apply = "unborn"
  /\ copy1 = "unborn" /\ copy2 = "unborn"
  /\ at = [p \in Stations |-> IF p = "create" THEN Chunks ELSE 0]
  /\ closed = FALSE

-----------------------------------------------------------------------------
(* RunBenchmarkWorkflow. An error makes it return, and the process end.    *)

StartCreate ==
  /\ main = "startCreate"
  /\ \/ main' = "startApply" /\ create' = "running" /\ copy1' = "running"
     \/ main' = "error" /\ UNCHANGED <<create, copy1>>
  /\ UNCHANGED <<apply, copy2, at, closed>>

StartApply ==
  /\ main = "startApply"
  /\ \/ main' = "waitCreate" /\ apply' = "running" /\ copy2' = "running"
     \/ main' = "error" /\ UNCHANGED <<apply, copy2>>
  /\ UNCHANGED <<create, copy1, at, closed>>

SlipProcessOnly == create \in Exited

\* createCmd.Wait() is for the process and for the goroutine that copies what
\* it wrote.
CreateIsOver == create \in Exited /\ copy1 = "done"

WaitCreate ==
  /\ main = "waitCreate"
  /\ CreateIsOver
  /\ main' = IF create = "ok" THEN "close" ELSE "error"
  /\ UNCHANGED <<create, apply, copy1, copy2, at, closed>>

SlipNoClose == UNCHANGED closed

\* pipeWriter.Close().
Close == closed' = TRUE

CloseWriter ==
  /\ main = "close"
  /\ Close
  /\ main' = "waitApply"
  /\ UNCHANGED <<create, apply, copy1, copy2, at>>

SlipIgnoreExit == "applied"

\* applyCmd.Wait() returns an error for a program that failed.
ApplyVerdict == IF apply = "ok" THEN "applied" ELSE "error"

WaitApply ==
  /\ main = "waitApply"
  /\ apply \in Exited /\ copy2 = "done"
  /\ main' = ApplyVerdict
  /\ UNCHANGED <<create, apply, copy1, copy2, at, closed>>

Main == StartCreate \/ StartApply \/ WaitCreate \/ CloseWriter \/ WaitApply

-----------------------------------------------------------------------------
(* The goroutines. They end with the process.                              *)

SlipKeep(from, to) == at' = [at EXCEPT ![to] = @ + 1]

\* A chunk goes from one station to the next.
Move(from, to) == at' = [at EXCEPT ![from] = @ - 1, ![to] = @ + 1]

Copy1Reads ==
  /\ copy1 = "running" /\ at["copy1"] = 0 /\ at["pipe1"] > 0
  /\ Move("pipe1", "copy1")
  /\ UNCHANGED <<copy1, copy2>>

Copy1Ends ==
  /\ copy1 = "running" /\ at["copy1"] = 0 /\ at["pipe1"] = 0 /\ create \in Exited
  /\ copy1' = "done"
  /\ UNCHANGED <<copy2, at>>

\* A write to io.Pipe meets a read.
HandOver ==
  /\ copy2 = "running" /\ at["copy1"] = 1 /\ at["copy2"] = 0 /\ ~closed
  /\ Move("copy1", "copy2")
  /\ UNCHANGED <<copy1, copy2>>

Copy2Writes ==
  /\ at["copy2"] = 1 /\ apply = "running" /\ at["pipe2"] < Capacity
  /\ Move("copy2", "pipe2")
  /\ UNCHANGED <<copy1, copy2>>

\* EPIPE: the reader is gone. os/exec forgives the error, and copies no more.
Copy2Fails ==
  /\ at["copy2"] = 1 /\ apply \in Exited
  /\ Move("copy2", "lost")
  /\ copy2' = "done"
  /\ UNCHANGED copy1

Copy2Ends ==
  /\ copy2 = "running" /\ at["copy2"] = 0 /\ closed
  /\ copy2' = "done"
  /\ UNCHANGED <<copy1, at>>

Copies ==
  /\ main \notin Over
  /\ Copy1Reads \/ Copy1Ends \/ HandOver \/ Copy2Writes \/ Copy2Fails \/ Copy2Ends
  /\ UNCHANGED <<main, create, apply, closed>>

-----------------------------------------------------------------------------
(* The programs.                                                           *)

CreateWrites ==
  /\ create = "running" /\ at["create"] > 0 /\ at["pipe1"] < Capacity
  /\ Move("create", "pipe1")
  /\ UNCHANGED <<main, create, apply, copy1, copy2, closed>>

CreateSucceeds ==
  /\ create = "running" /\ at["create"] = 0
  /\ create' = "ok"
  /\ UNCHANGED <<main, apply, copy1, copy2, at, closed>>

CreateFails ==
  /\ create = "running"
  /\ create' = "failed"
  /\ UNCHANGED <<main, apply, copy1, copy2, at, closed>>

ApplyReads ==
  /\ apply = "running" /\ at["pipe2"] > 0
  /\ Move("pipe2", "apply")
  /\ UNCHANGED <<main, create, apply, copy1, copy2, closed>>

\* The end of its input: goroutine 2 has closed it, or died with the process.
\* oc refuses an empty input, not one that is cut off between two chunks.
ApplySucceeds ==
  /\ apply = "running" /\ at["pipe2"] = 0 /\ at["apply"] > 0
  /\ copy2 = "done" \/ main = "error"
  /\ apply' = "ok"
  /\ UNCHANGED <<main, create, copy1, copy2, at, closed>>

\* It may give up before it has read its input (no permission, no server).
ApplyFails ==
  /\ apply = "running"
  /\ apply' = "failed"
  /\ UNCHANGED <<main, create, copy1, copy2, at, closed>>

Next ==
  \/ Main \/ Copies
  \/ CreateWrites \/ CreateSucceeds \/ CreateFails
  \/ ApplyReads \/ ApplySucceeds \/ ApplyFails

Spec == Init /\ [][Next]_vars

\* Processes and goroutines that can run do; nothing makes a program fail.
FairSpec ==
  /\ Spec
  /\ WF_vars(Main) /\ WF_vars(Copies)
  /\ WF_vars(CreateWrites) /\ WF_vars(CreateSucceeds)
  /\ WF_vars(ApplyReads) /\ WF_vars(ApplySucceeds)

-----------------------------------------------------------------------------
(* Properties.                                                             *)

\* Types; a goroutine has one chunk at most, a pipe what it can hold, and no
\* station more than there are.
TypeOK ==
  /\ main \in {"startCreate", "startApply", "waitCreate", "close", "waitApply"} \union Over
  /\ create \in {"unborn", "running"} \union Exited
  /\ apply  \in {"unborn", "running"} \union Exited
  /\ copy1 \in {"unborn", "running", "done"}
  /\ copy2 \in {"unborn", "running", "done"}
  /\ closed \in BOOLEAN
  /\ at \in [Stations -> 0..Chunks]
  /\ \A p \in {"pipe1", "pipe2"} : at[p] <= Capacity
  /\ \A p \in {"copy1", "copy2", "lost"} : at[p] <= 1

\* The workflow goes on to the DaemonSet only when the whole of what create
\* wrote has come through to apply, and both programs succeeded.
AppliedIsComplete ==
  main = "applied" => create = "ok" /\ apply = "ok" /\ at["apply"] = Chunks

\* If apply succeeds with a ConfigMap that is cut off, create failed, and odf
\* has returned an error before.
PartialOnlyAfterError ==
  apply = "ok" /\ at["apply"] < Chunks => main = "error" /\ create = "failed"

\* Goroutine 1 has a chunk and nobody will ever take it: createCmd.Wait() will
\* not return, and odf hangs.
Jammed == main \notin Over /\ at["copy1"] = 1 /\ copy2 = "done"

\* This happens only if apply gave up, and left two chunks or more.
JamNeedsEarlyExit ==
  Jammed => apply = "failed" /\ at["apply"] + 2 <= Chunks

\* Whatever the programs do, as long as they run, the workflow gets through
\* or returns an error, or it is jammed.
EndsOrJams == <>(main \in Over \/ Jammed)
=============================================================================
