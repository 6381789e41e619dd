------------------------- MODULE BenchmarkPipeProofs -------------------------
(* What holds of BenchmarkPipe for any number of chunks and any pipe.      *)
EXTENDS BenchmarkPipe, Integers, TLAPS

\* No chunk is made and none vanishes.
Conserved ==
  at["create"] + at["pipe1"] + at["copy1"] + at["copy2"] + at["pipe2"] + at["apply"] + at["lost"]
    = Chunks

\* What the workflow has started, and what it has waited for.
Started ==
  /\ main = "startCreate" => create = "unborn"
  /\ main \in {"startCreate", "startApply"} => apply = "unborn" /\ copy2 = "unborn"
  /\ main \in {"close", "waitApply", "applied"} => create = "ok" /\ copy1 = "done"
  /\ main = "applied" => apply = "ok" /\ copy2 = "done"
  /\ main = "error" => create = "failed" \/ apply \in {"unborn", "failed"}

\* The first half of the pipe is drained from its beginning.
FirstHalf ==
  /\ create = "ok" => at["create"] = 0
  /\ copy1 = "done" => create \in Exited /\ at["pipe1"] = 0
  /\ copy1 # "running" => at["copy1"] = 0
  /\ closed => create = "ok" /\ copy1 = "done"

\* The second half ends for one of two reasons: the writer was closed, or apply
\* gave up, and one chunk is lost.
SecondHalf ==
  /\ copy2 # "running" => at["copy2"] = 0
  /\ copy2 = "done" => closed \/ (apply = "failed" /\ at["lost"] = 1)
  /\ at["lost"] > 0 => copy2 = "done" /\ apply = "failed"
  /\ apply = "ok" => at["pipe2"] = 0 /\ (copy2 = "done" \/ main = "error")

IInv == TypeOK /\ Conserved /\ Started /\ FirstHalf /\ SecondHalf

-----------------------------------------------------------------------------
(* Moves.                                                                  *)

Count == at \in [Stations -> Int]

\* A move takes one from a station and adds one to another.
LEMMA MoveFacts ==
  ASSUME Count, NEW from \in Stations, NEW to \in Stations, from # to, Move(from, to)
  PROVE  /\ at'[from] = at[from] - 1 /\ at'[to] = at[to] + 1
         /\ \A p \in Stations \ {from, to} : at'[p] = at[p]
         /\ at' \in [Stations -> Int]
  BY DEF Move, Count

LEMMA CountFacts == TypeOK => Count
  BY ChunksAssumption DEF TypeOK, Count

\* A count of stations, none negative, that adds up to Chunks is a count of chunks.
LEMMA Bounded ==
  ASSUME Count', Conserved', \A p \in Stations : at'[p] >= 0 PROVE at' \in [Stations -> 0..Chunks]
  BY ChunksAssumption DEF Count, Conserved, Stations

-----------------------------------------------------------------------------
(* The inductive invariant.                                                *)

LEMMA IInit == Init => IInv
<1> SUFFICES ASSUME Init PROVE IInv
  OBVIOUS
<1> USE ChunksAssumption, CapacityAssumption DEF Init
<1>0. at \in [Stations -> 0..Chunks] /\ \A p \in Stations \ {"create"} : at[p] = 0
  OBVIOUS
<1>1. TypeOK
  <2>1. /\ \A p \in {"pipe1", "pipe2"} : at[p] <= Capacity
        /\ \A p \in {"copy1", "copy2", "lost"} : at[p] <= 1
    <3> HIDE DEF Init
    <3>1. QED
      BY <1>0 DEF Stations
  <2>2. /\ main = "startCreate" /\ create = "unborn" /\ apply = "unborn"
        /\ copy1 = "unborn" /\ copy2 = "unborn" /\ closed = FALSE
    OBVIOUS
  <2> HIDE DEF Init
  <2>3. QED
    BY <1>0, <2>1, <2>2 DEF TypeOK
<1>2. Conserved
  BY DEF Conserved, Stations
<1>3. Started /\ FirstHalf /\ SecondHalf
  BY DEF Started, FirstHalf, SecondHalf, Stations
<1>4. QED
  BY <1>1, <1>2, <1>3 DEF IInv

LEMMA MainStep == IInv /\ Main => IInv'
<1> SUFFICES ASSUME IInv, Main PROVE IInv'
  OBVIOUS
<1> USE DEF Main, StartCreate, StartApply, WaitCreate, CloseWriter, WaitApply, Close, ApplyVerdict,
            CreateIsOver
<1>1. TypeOK'
  BY DEF IInv, TypeOK, Over, Exited
<1>2. Conserved'
  BY DEF IInv, Conserved
<1>3. Started'
  <2>1. CASE StartCreate \/ StartApply
    BY <2>1 DEF IInv, Started
  <2>2. CASE WaitCreate
    BY <2>2 DEF IInv, Started, Exited
  <2>3. CASE CloseWriter
    BY <2>3 DEF IInv, Started
  <2>4. CASE WaitApply
    BY <2>4 DEF IInv, Started, Exited
  <2>5. QED
    BY <2>1, <2>2, <2>3, <2>4
<1>4. FirstHalf'
  BY DEF IInv, Started, FirstHalf, Exited
<1>5. SecondHalf'
  BY DEF IInv, TypeOK, Started, SecondHalf, Exited
<1>6. QED
  BY <1>1, <1>2, <1>3, <1>4, <1>5 DEF IInv

LEMMA CopiesStep == IInv /\ Copies => IInv'
<1> SUFFICES ASSUME IInv, Copies PROVE IInv'
  OBVIOUS
<1>t. /\ TypeOK /\ Count
      /\ UNCHANGED <<main, create, apply, closed>>
  BY CountFacts DEF IInv, Copies
<1> USE ChunksAssumption, CapacityAssumption DEF Stations
<1>1. CASE Copy1Reads
  <2>1. /\ at'["pipe1"] = at["pipe1"] - 1 /\ at'["copy1"] = at["copy1"] + 1
        /\ \A p \in Stations \ {"pipe1", "copy1"} : at'[p] = at[p]
        /\ Count' /\ UNCHANGED <<copy1, copy2>> /\ at["copy1"] = 0 /\ at["pipe1"] > 0
    BY <1>1, <1>t, MoveFacts DEF Copy1Reads, Count
  <2>2. Conserved'
    BY <2>1, <1>t DEF IInv, Conserved, Count
  <2>3. TypeOK'
    BY <2>1, <2>2, <1>t, Bounded DEF TypeOK
  <2>4. Started' /\ FirstHalf' /\ SecondHalf'
    BY <1>1, <2>1, <1>t DEF IInv, Started, FirstHalf, SecondHalf, Copy1Reads
  <2>5. QED
    BY <2>2, <2>3, <2>4 DEF IInv
<1>2. CASE Copy1Ends
  BY <1>2, <1>t DEF IInv, TypeOK, Conserved, Started, FirstHalf, SecondHalf, Copy1Ends
<1>3. CASE HandOver
  <2>1. /\ at'["copy1"] = at["copy1"] - 1 /\ at'["copy2"] = at["copy2"] + 1
        /\ \A p \in Stations \ {"copy1", "copy2"} : at'[p] = at[p]
        /\ Count' /\ UNCHANGED <<copy1, copy2>> /\ at["copy1"] = 1 /\ at["copy2"] = 0
    BY <1>3, <1>t, MoveFacts DEF HandOver, Count
  <2>2. Conserved'
    BY <2>1, <1>t DEF IInv, Conserved, Count
  <2>3. TypeOK'
    BY <2>1, <2>2, <1>t, Bounded DEF TypeOK
  <2>4. Started' /\ FirstHalf' /\ SecondHalf'
    BY <1>3, <2>1, <1>t DEF IInv, Started, FirstHalf, SecondHalf, HandOver
  <2>5. QED
    BY <2>2, <2>3, <2>4 DEF IInv
<1>4. CASE Copy2Writes
  <2>1. /\ at'["copy2"] = at["copy2"] - 1 /\ at'["pipe2"] = at["pipe2"] + 1
        /\ \A p \in Stations \ {"copy2", "pipe2"} : at'[p] = at[p]
        /\ Count' /\ UNCHANGED <<copy1, copy2>> /\ at["copy2"] = 1 /\ at["pipe2"] < Capacity
    BY <1>4, <1>t, MoveFacts DEF Copy2Writes, Count
  <2>2. Conserved'
    BY <2>1, <1>t DEF IInv, Conserved, Count
  <2>3. TypeOK'
    BY <2>1, <2>2, <1>t, Bounded DEF TypeOK
  <2>4. Started' /\ FirstHalf' /\ SecondHalf'
    BY <1>4, <2>1, <1>t DEF IInv, Started, FirstHalf, SecondHalf, Copy2Writes
  <2>5. QED
    BY <2>2, <2>3, <2>4 DEF IInv
<1>5. CASE Copy2Fails
  <2>1. /\ at'["copy2"] = at["copy2"] - 1 /\ at'["lost"] = at["lost"] + 1
        /\ \A p \in Stations \ {"copy2", "lost"} : at'[p] = at[p]
        /\ Count' /\ copy2' = "done" /\ UNCHANGED copy1 /\ at["copy2"] = 1
    BY <1>5, <1>t, MoveFacts DEF Copy2Fails, Count
  <2>2. copy2 = "running" /\ at["lost"] = 0 /\ apply = "failed"
    <3>1. copy2 = "running"
      BY <2>1 DEF IInv, SecondHalf
    <3>2. main # "error" /\ apply \in Exited
      BY <1>5 DEF Copies, Over, Copy2Fails
    <3>3. QED
      BY <3>1, <3>2, <1>t DEF IInv, SecondHalf, Exited, TypeOK
  <2>3. Conserved'
    BY <2>1, <1>t DEF IInv, Conserved, Count
  <2>4. TypeOK'
    BY <2>1, <2>2, <2>3, <1>t, Bounded DEF TypeOK
  <2>5. Started' /\ FirstHalf' /\ SecondHalf'
    BY <2>1, <2>2, <1>t DEF IInv, Started, FirstHalf, SecondHalf
  <2>6. QED
    BY <2>3, <2>4, <2>5 DEF IInv
<1>6. CASE Copy2Ends
  <2>1. copy2 = "running" /\ closed /\ at["copy2"] = 0 /\ copy2' = "done" /\ UNCHANGED <<copy1, at>>
    BY <1>6 DEF Copy2Ends
  <2>2. TypeOK' /\ Conserved'
    BY <2>1, <1>t DEF IInv, TypeOK, Conserved
  <2>3. Started'
    BY <2>1, <1>t DEF IInv, Started
  <2>4. FirstHalf'
    BY <2>1, <1>t DEF IInv, FirstHalf
  <2>5. SecondHalf'
    BY <2>1, <1>t DEF IInv, SecondHalf
  <2>6. QED
    BY <2>2, <2>3, <2>4, <2>5 DEF IInv
<1>7. QED
  BY <1>1, <1>2, <1>3, <1>4, <1>5, <1>6 DEF Copies

LEMMA ProgramStep ==
  ASSUME IInv, \/ CreateWrites \/ CreateSucceeds \/ CreateFails
               \/ ApplyReads \/ ApplySucceeds \/ ApplyFails
  PROVE  IInv'
<1>t. TypeOK /\ Count /\ UNCHANGED <<main, copy1, copy2, closed>>
  BY CountFacts
    DEF IInv, CreateWrites, CreateSucceeds, CreateFails, ApplyReads, ApplySucceeds, ApplyFails
<1> USE ChunksAssumption, CapacityAssumption DEF Stations
<1>1. CASE CreateWrites
  <2>1. /\ at'["create"] = at["create"] - 1 /\ at'["pipe1"] = at["pipe1"] + 1
        /\ \A p \in Stations \ {"create", "pipe1"} : at'[p] = at[p]
        /\ Count' /\ at["create"] > 0 /\ at["pipe1"] < Capacity
        /\ create = "running" /\ UNCHANGED <<create, apply>>
    BY <1>1, <1>t, MoveFacts DEF CreateWrites, Count
  <2>2. Conserved'
    BY <2>1, <1>t DEF IInv, Conserved, Count
  <2>3. TypeOK'
    BY <2>1, <2>2, <1>t, Bounded DEF TypeOK
  <2>4. Started' /\ FirstHalf' /\ SecondHalf'
    BY <2>1, <1>t DEF IInv, Started, FirstHalf, SecondHalf, Exited
  <2>5. QED
    BY <2>2, <2>3, <2>4 DEF IInv
<1>2. CASE CreateSucceeds \/ CreateFails
  BY <1>2, <1>t
    DEF IInv, TypeOK, Conserved, Started, FirstHalf, SecondHalf, Exited, CreateSucceeds, CreateFails
<1>3. CASE ApplyReads
  <2>1. /\ at'["pipe2"] = at["pipe2"] - 1 /\ at'["apply"] = at["apply"] + 1
        /\ \A p \in Stations \ {"pipe2", "apply"} : at'[p] = at[p]
        /\ Count' /\ at["pipe2"] > 0
        /\ apply = "running" /\ UNCHANGED <<create, apply>>
    BY <1>3, <1>t, MoveFacts DEF ApplyReads, Count
  <2>2. Conserved'
    BY <2>1, <1>t DEF IInv, Conserved, Count
  <2>3. TypeOK'
    BY <2>1, <2>2, <1>t, Bounded DEF TypeOK
  <2>4. Started' /\ FirstHalf' /\ SecondHalf'
    BY <2>1, <1>t DEF IInv, Started, FirstHalf, SecondHalf
  <2>5. QED
    BY <2>2, <2>3, <2>4 DEF IInv
<1>4. CASE ApplySucceeds \/ ApplyFails
  BY <1>4, <1>t
    DEF IInv, TypeOK, Conserved, Started, FirstHalf, SecondHalf, Exited, ApplySucceeds, ApplyFails
<1>5. QED
  BY <1>1, <1>2, <1>3, <1>4

LEMMA Stutter == IInv /\ UNCHANGED vars => IInv'
  BY DEF vars, IInv, TypeOK, Conserved, Started, FirstHalf, SecondHalf

LEMMA IStep == IInv /\ [Next]_vars => IInv'
  BY MainStep, CopiesStep, ProgramStep, Stutter DEF Next

-----------------------------------------------------------------------------
(* What follows from it.                                                   *)

\* If goroutine 2 has ended, and apply has not given up, all that create wrote is
\* beyond the second pipe.
LEMMA Drained == ASSUME IInv, copy2 = "done", apply = "ok" PROVE at["apply"] = Chunks
<1>1. closed /\ at["lost"] = 0
  BY ChunksAssumption DEF IInv, SecondHalf, TypeOK, Stations
<1>2. /\ at["create"] = 0 /\ at["pipe1"] = 0 /\ at["copy1"] = 0
      /\ at["copy2"] = 0 /\ at["pipe2"] = 0
  BY <1>1 DEF IInv, FirstHalf, SecondHalf
<1>3. at["apply"] \in Nat
  BY ChunksAssumption DEF IInv, TypeOK, Stations
<1>4. QED
  BY <1>1, <1>2, <1>3 DEF IInv, Conserved

LEMMA Consequences == IInv => AppliedIsComplete /\ PartialOnlyAfterError /\ JamNeedsEarlyExit
<1> SUFFICES ASSUME IInv PROVE AppliedIsComplete /\ PartialOnlyAfterError /\ JamNeedsEarlyExit
  OBVIOUS
<1>1. AppliedIsComplete
  BY Drained DEF IInv, Started, AppliedIsComplete
<1>2. PartialOnlyAfterError
  <2> SUFFICES ASSUME apply = "ok", at["apply"] < Chunks PROVE main = "error" /\ create = "failed"
    BY DEF PartialOnlyAfterError
  <2>1. copy2 # "done"
    BY Drained, ChunksAssumption
  <2>2. QED
    BY <2>1 DEF IInv, Started, SecondHalf
<1>3. JamNeedsEarlyExit
  <2> SUFFICES ASSUME at["copy1"] = 1, copy2 = "done"
               PROVE  apply = "failed" /\ at["apply"] + 2 <= Chunks
    BY DEF JamNeedsEarlyExit, Jammed
  <2>1. apply = "failed" /\ at["lost"] = 1
    BY DEF IInv, FirstHalf, SecondHalf
  <2>2. \A p \in Stations : at[p] \in Nat
    BY ChunksAssumption DEF IInv, TypeOK
  <2>3. QED
    BY <2>1, <2>2, ChunksAssumption DEF IInv, Conserved, Stations
<1>4. QED
  BY <1>1, <1>2, <1>3

-----------------------------------------------------------------------------
(* The theorems.                                                           *)

\* The inductive invariant of BenchmarkPipe.
THEOREM Invariance == Spec => []IInv
<1>1. QED
  BY IInit, IStep, PTL DEF Spec

\* The variables of BenchmarkPipe keep their types, and no station more than it holds.
THEOREM TypeCorrect == Spec => []TypeOK
<1>1. IInv => TypeOK
  BY DEF IInv
<1>2. QED
  BY <1>1, Invariance, PTL

\* The workflow goes on only with a ConfigMap that is whole.
THEOREM AppliedAlwaysComplete == Spec => []AppliedIsComplete
<1>1. QED
  BY Consequences, Invariance, PTL

\* A ConfigMap that is cut off is applied only after create failed.
THEOREM PartialAlwaysAfterError == Spec => []PartialOnlyAfterError
<1>1. QED
  BY Consequences, Invariance, PTL

\* Whatever the pipes hold, odf hangs in them only if apply gave up.
THEOREM JamAlwaysNeedsEarlyExit == Spec => []JamNeedsEarlyExit
<1>1. QED
  BY Consequences, Invariance, PTL

-----------------------------------------------------------------------------
(* Termination: why EndsOrJams can be true, short of fairness.             *)

\* The steps that are left: five for each chunk from create to apply, five of the
\* workflow, two (to begin and to end) of each program and goroutine.
ChunksLeft ==
  5 * at["create"] + 4 * at["pipe1"] + 3 * at["copy1"] + 2 * at["copy2"] + at["pipe2"]

MainLeft ==
  CASE main = "startCreate" -> 5
    [] main = "startApply"  -> 4
    [] main = "waitCreate"  -> 3
    [] main = "close"       -> 2
    [] main = "waitApply"   -> 1
    [] OTHER                -> 0

LifeLeft(thread) == CASE thread = "unborn" -> 2 [] thread = "running" -> 1 [] OTHER -> 0

ThreadsLeft == LifeLeft(create) + LifeLeft(apply) + LifeLeft(copy1) + LifeLeft(copy2)

StepsLeft == ChunksLeft + MainLeft + ThreadsLeft

LEMMA LessInAll ==
  \A a, b, c, x, y, z \in Nat :
    x <= a /\ y <= b /\ z <= c /\ (x < a \/ y < b \/ z < c) => x + y + z < a + b + c
  OBVIOUS

LEMMA LeftAreNumbers ==
  ASSUME TypeOK PROVE ChunksLeft \in Nat /\ MainLeft \in 0..5 /\ ThreadsLeft \in 0..8
<1>1. \A p \in Stations : at[p] \in Nat
  BY ChunksAssumption DEF TypeOK
<1>2. ChunksLeft \in Nat
  BY <1>1 DEF ChunksLeft, Stations
<1>3. MainLeft \in 0..5 /\ ThreadsLeft \in 0..8
  BY DEF MainLeft, ThreadsLeft, LifeLeft
<1>4. QED
  BY <1>2, <1>3

\* Each step is one of these: a chunk comes nearer to the end, the workflow goes
\* on, or a thread does.
LEMMA StepsAreSpent == ASSUME IInv, Next PROVE StepsLeft' < StepsLeft
<1>t. /\ TypeOK /\ TypeOK' /\ Count
  BY IStep, CountFacts DEF IInv
<1>n. /\ ChunksLeft \in Nat /\ MainLeft \in Nat /\ ThreadsLeft \in Nat
      /\ ChunksLeft' \in Nat /\ MainLeft' \in Nat /\ ThreadsLeft' \in Nat
  <2>1. (ChunksLeft \in Nat /\ MainLeft \in 0..5 /\ ThreadsLeft \in 0..8)'
    BY <1>t, LeftAreNumbers, ChunksAssumption, PTL
  <2>2. QED
    BY <2>1, <1>t, LeftAreNumbers
<1>1. CASE Main
  <2>1. UNCHANGED at
    BY <1>1 DEF Main, StartCreate, StartApply, WaitCreate, CloseWriter, WaitApply
  <2>2. ChunksLeft' = ChunksLeft
    BY <2>1 DEF ChunksLeft
  <2>3. MainLeft' < MainLeft
    BY <1>1 DEF Main, StartCreate, StartApply, WaitCreate, CloseWriter, WaitApply, ApplyVerdict,
                MainLeft
  <2>4. ThreadsLeft' <= ThreadsLeft
    <3>1. CASE StartCreate
      <4>1. create = "unborn" /\ copy1 # "done" /\ copy1 \in {"unborn", "running", "done"}
        BY <1>t, <3>1 DEF IInv, Started, FirstHalf, StartCreate, TypeOK, Exited
      <4>2. QED
        BY <3>1, <4>1 DEF StartCreate, ThreadsLeft, LifeLeft
    <3>2. CASE StartApply
      <4>1. apply = "unborn" /\ copy2 = "unborn"
        BY <3>2 DEF IInv, Started, StartApply
      <4>2. QED
        BY <3>2, <4>1 DEF StartApply, ThreadsLeft, LifeLeft
    <3>3. CASE WaitCreate \/ CloseWriter \/ WaitApply
      BY <3>3 DEF WaitCreate, CloseWriter, WaitApply, ThreadsLeft, LifeLeft
    <3>4. QED
      BY <1>1, <3>1, <3>2, <3>3 DEF Main
  <2>5. ChunksLeft' <= ChunksLeft /\ MainLeft' <= MainLeft
    BY <1>n, <2>2, <2>3
  <2>6. QED
    BY <1>n, <2>3, <2>4, <2>5, LessInAll DEF StepsLeft
<1>2. ASSUME NEW from \in Stations, NEW to \in Stations, Move(from, to),
             \/ from = "create" /\ to = "pipe1"
             \/ from = "pipe1" /\ to = "copy1"
             \/ from = "copy1" /\ to = "copy2"
             \/ from = "copy2" /\ to \in {"pipe2", "lost"}
             \/ from = "pipe2" /\ to = "apply",
             UNCHANGED <<main, create, apply, copy1>>,
             copy2' = copy2 \/ (copy2' = "done" /\ copy2 = "running")
      PROVE  StepsLeft' < StepsLeft
  <2>1. /\ at'[from] = at[from] - 1 /\ at'[to] = at[to] + 1
        /\ \A p \in Stations \ {from, to} : at'[p] = at[p]
    BY <1>2, <1>t, MoveFacts
  <2>2. \A p \in Stations : at[p] \in Int
    BY <1>t DEF Count
  <2>3. ChunksLeft' < ChunksLeft
    BY <1>2, <2>1, <2>2 DEF ChunksLeft, Stations
  <2>4. MainLeft' = MainLeft
    BY <1>2 DEF MainLeft
  <2>5. ThreadsLeft' <= ThreadsLeft
    BY <1>2 DEF ThreadsLeft, LifeLeft
  <2>6. ChunksLeft' <= ChunksLeft /\ MainLeft' <= MainLeft
    BY <1>n, <2>3, <2>4
  <2>7. QED
    BY <1>n, <2>3, <2>5, <2>6, LessInAll DEF StepsLeft
<1>3. ASSUME UNCHANGED <<main, at>>, ThreadsLeft' < ThreadsLeft PROVE StepsLeft' < StepsLeft
  BY <1>3, <1>n DEF StepsLeft, ChunksLeft, MainLeft
<1>4. CASE Copies
  <2>1. CASE Copy1Reads \/ HandOver \/ Copy2Writes
    BY <1>2, <1>4, <2>1 DEF Copies, Copy1Reads, HandOver, Copy2Writes, Stations
  <2>2. CASE Copy2Fails
    <3>1. copy2 = "running"
      BY <2>2 DEF IInv, SecondHalf, Copy2Fails
    <3>2. QED
      BY <1>2, <1>4, <2>2, <3>1 DEF Copies, Copy2Fails, Stations
  <2>3. CASE Copy1Ends \/ Copy2Ends
    <3>1. ThreadsLeft' < ThreadsLeft /\ UNCHANGED <<main, at>>
      BY <1>4, <2>3 DEF Copies, Copy1Ends, Copy2Ends, ThreadsLeft, LifeLeft
    <3>2. QED
      BY <1>3, <3>1
  <2>4. QED
    BY <1>4, <2>1, <2>2, <2>3 DEF Copies
<1>5. CASE CreateWrites \/ ApplyReads
  BY <1>2, <1>5 DEF CreateWrites, ApplyReads, Stations
<1>6. CASE CreateSucceeds \/ CreateFails \/ ApplySucceeds \/ ApplyFails
  <2>1. ThreadsLeft' < ThreadsLeft /\ UNCHANGED <<main, at>>
    BY <1>6 DEF CreateSucceeds, CreateFails, ApplySucceeds, ApplyFails, ThreadsLeft, LifeLeft
  <2>2. QED
    BY <1>3, <2>1
<1>7. QED
  BY <1>1, <1>4, <1>5, <1>6 DEF Next

\* The pipe does not run forever, whatever the scheduling: each of its steps uses
\* up one of at most 5 * Chunks + 13, and none is given back.
THEOREM StepsRunOut ==
  Spec => /\ StepsLeft <= 5 * Chunks + 13
          /\ [](StepsLeft \in Nat)
          /\ [][StepsLeft' < StepsLeft]_vars
<1>1. Init => StepsLeft <= 5 * Chunks + 13
  BY ChunksAssumption DEF Init, StepsLeft, ChunksLeft, MainLeft, ThreadsLeft, LifeLeft, Stations
<1>2. IInv => StepsLeft \in Nat
  BY LeftAreNumbers DEF IInv, StepsLeft
<1>3. IInv /\ [Next]_vars => [StepsLeft' < StepsLeft]_vars
  BY StepsAreSpent
<1>4. QED
  BY <1>1, <1>2, <1>3, Invariance, PTL DEF Spec

\* Whatever has been waited for has been started.
Begun ==
  /\ main \in {"startApply", "waitCreate", "close", "waitApply"} =>
       create # "unborn" /\ copy1 # "unborn"
  /\ main \in {"waitCreate", "close", "waitApply"} => apply # "unborn" /\ copy2 # "unborn"
  /\ main = "waitApply" => closed

LEMMA BegunStays == Spec => []Begun
<1>1. Init => Begun
  BY DEF Init, Begun
<1>2. Begun /\ [Next]_vars => Begun'
  <2> SUFFICES ASSUME Begun, [Next]_vars PROVE Begun'
    OBVIOUS
  <2>1. CASE Main
    BY <2>1 DEF Begun, Main, StartCreate, StartApply, WaitCreate, CloseWriter, WaitApply, Close,
                ApplyVerdict
  <2>2. CASE Copies
    BY <2>2 DEF Begun, Copies, Copy1Reads, Copy1Ends, HandOver, Copy2Writes, Copy2Fails, Copy2Ends
  <2>3. CASE CreateWrites \/ CreateSucceeds \/ CreateFails \/ ApplyReads \/ ApplySucceeds \/ ApplyFails
    BY <2>3 DEF Begun, CreateWrites, CreateSucceeds, CreateFails, ApplyReads, ApplySucceeds,
                ApplyFails
  <2>4. CASE UNCHANGED vars
    BY <2>4 DEF Begun, vars
  <2>5. QED
    BY <2>1, <2>2, <2>3, <2>4 DEF Next
<1>3. QED
  BY <1>1, <1>2, PTL DEF Spec

\* The guards of the actions the scheduling is fair to, group by group.
MainCan ==
  \/ main \in {"startCreate", "startApply", "close"}
  \/ main = "waitCreate" /\ CreateIsOver
  \/ main = "waitApply" /\ apply \in Exited /\ copy2 = "done"

CopiesCan ==
  /\ main \notin Over
  /\ \/ copy1 = "running" /\ at["copy1"] = 0 /\ (at["pipe1"] > 0 \/ create \in Exited)
     \/ copy2 = "running" /\ at["copy1"] = 1 /\ at["copy2"] = 0 /\ ~closed
     \/ at["copy2"] = 1 /\ apply = "running" /\ at["pipe2"] < Capacity
     \/ at["copy2"] = 1 /\ apply \in Exited
     \/ copy2 = "running" /\ at["copy2"] = 0 /\ closed

CreateCan == create = "running" /\ (at["create"] > 0 => at["pipe1"] < Capacity)

ApplyCan ==
  /\ apply = "running"
  /\ \/ at["pipe2"] > 0
     \/ at["apply"] > 0 /\ (copy2 = "done" \/ main = "error")

\* Everyone waits for somebody else.
Stuck == ~MainCan /\ ~CopiesCan /\ ~CreateCan /\ ~ApplyCan

\* There is a way on as long as goroutine 2 has a chunk.
LEMMA SecondHalfMoves ==
  ASSUME IInv, main \notin Over, apply # "unborn", at["copy2"] = 1 PROVE CopiesCan \/ ApplyCan
<1>1. apply = "running" \/ apply \in Exited
  BY DEF IInv, TypeOK
<1>2. at["pipe2"] \in Nat /\ at["pipe2"] <= Capacity
  BY ChunksAssumption DEF IInv, TypeOK, Stations
<1>3. at["pipe2"] < Capacity \/ at["pipe2"] > 0
  BY <1>2, CapacityAssumption
<1>4. QED
  BY <1>1, <1>3 DEF CopiesCan, ApplyCan

\* There is a way on, or a jam, as long as goroutine 1 has one.
LEMMA FirstHalfMoves ==
  ASSUME IInv, main = "waitCreate", Begun, at["copy1"] = 1 PROVE CopiesCan \/ ApplyCan \/ Jammed
<1>1. main \notin Over /\ apply # "unborn" /\ copy2 \in {"running", "done"}
  BY DEF IInv, TypeOK, Begun, Over
<1>2. copy1 = "running" /\ ~closed
  BY DEF IInv, FirstHalf
<1>3. CASE copy2 = "done"
  BY <1>1, <1>3 DEF Jammed
<1>4. CASE copy2 = "running" /\ at["copy2"] = 1
  BY <1>1, <1>4, SecondHalfMoves
<1>5. CASE copy2 = "running" /\ at["copy2"] = 0
  BY <1>1, <1>2, <1>5 DEF CopiesCan
<1>6. at["copy2"] \in {0, 1}
  BY ChunksAssumption DEF IInv, TypeOK, Stations
<1>7. QED
  BY <1>1, <1>3, <1>4, <1>5, <1>6

LEMMA StuckIsJammed == ASSUME IInv, Begun, Stuck PROVE main \in Over \/ Jammed
<1> SUFFICES ASSUME main \notin Over PROVE Jammed
  OBVIOUS
<1>t. \A p \in Stations : at[p] \in Nat
  BY ChunksAssumption DEF IInv, TypeOK
<1>1. main \in {"waitCreate", "waitApply"}
  BY DEF Stuck, MainCan, IInv, TypeOK
<1>2. /\ create \in {"running"} \union Exited /\ copy1 \in {"running", "done"}
      /\ apply \in {"running"} \union Exited /\ copy2 \in {"running", "done"}
      /\ apply # "unborn"
  BY <1>1 DEF Begun, IInv, TypeOK, Exited
<1>3. at["copy2"] = 0 /\ at["copy1"] \in {0, 1}
  <2>1. at["copy2"] # 1
    BY <1>2, SecondHalfMoves DEF Stuck
  <2>2. QED
    BY <2>1, <1>t DEF IInv, TypeOK, Stations
<1>4. CASE main = "waitCreate"
  <2>1. CASE at["copy1"] = 1
    BY <1>4, <2>1, FirstHalfMoves DEF Stuck
  <2>2. CASE at["copy1"] = 0
    <3>1. CASE create = "running"
      <4>1. copy1 = "running"
        BY <1>2, <3>1 DEF IInv, FirstHalf, Exited
      <4>2. at["pipe1"] = 0
        BY <2>2, <4>1, <1>t DEF Stuck, CopiesCan, Stations
      <4>3. CreateCan
        BY <3>1, <4>2, CapacityAssumption DEF CreateCan
      <4>4. QED
        BY <4>3 DEF Stuck
    <3>2. CASE create \in Exited
      <4>1. copy1 = "running"
        BY <1>2, <1>4, <3>2 DEF Stuck, MainCan, CreateIsOver
      <4>2. QED
        BY <2>2, <3>2, <4>1 DEF Stuck, CopiesCan
    <3>3. QED
      BY <1>2, <3>1, <3>2
  <2>3. QED
    BY <1>3, <2>1, <2>2
<1>5. CASE main = "waitApply"
  <2>1. closed
    BY <1>5 DEF Begun
  <2>2. copy2 = "done"
    BY <1>2, <1>3, <2>1 DEF Stuck, CopiesCan
  <2>3. apply = "running"
    BY <1>2, <1>5, <2>2 DEF Stuck, MainCan
  <2>4. at["pipe2"] = 0 /\ at["apply"] = 0
    BY <2>2, <2>3, <1>t DEF Stuck, ApplyCan, Stations
  <2>5. at["create"] = 0 /\ at["pipe1"] = 0 /\ at["copy1"] = 0 /\ at["lost"] = 0
    BY <2>1, <2>3, <1>t DEF IInv, FirstHalf, SecondHalf, Stations
  <2>6. QED
    BY <1>3, <2>4, <2>5, ChunksAssumption DEF IInv, Conserved
<1>6. QED
  BY <1>1, <1>4, <1>5

\* Whatever the pipes hold, the jam is the only deadlock: if neither the workflow
\* nor a goroutine nor a program that does not fail can go on, the workflow is over
\* or goroutine 1 has a chunk that nobody will take.
THEOREM OnlyJamsAreStuck == Spec => [](Stuck => main \in Over \/ Jammed)
<1>1. QED
  BY StuckIsJammed, Invariance, BegunStays, PTL
=============================================================================
