------------------------ MODULE CommandDispatchProofs ------------------------
(* What holds of CommandDispatch for every set of namespaces, and for the  *)
(* commands of CommandTable.                                               *)
EXTENDS CommandDispatch, TLAPS

\* What has been looked at on the way, unless the command skips it.
Looked ==
  /\ pc = "storageNamespace" => OperatorNamespace \in seen
  /\ pc \in {"ctrlClient", "preRun", "run", "work"} =>
       \/ {StorageClusterNamespace, OperatorNamespace} \subseteq seen
       \/ skipPreValidation(line.command)
  /\ pc \in {"run", "work"} /\ line.command.waits = "preRun" => OperatorNamespace \in sawOperator
  /\ pc = "work" /\ line.command.waits = "run" => OperatorNamespace \in sawOperator

IInv == TypeOK /\ Looked

-----------------------------------------------------------------------------
(* The table.                                                              *)

\* No command but the benchmarks is exempt from the validation, and there are
\* two places to wait.
LEMMA TableFacts ==
  ASSUME NEW c \in Commands
  PROVE  /\ skipPreValidation(c) => Parent(c) = "benchmark"
         /\ c.waits \in {"preRun", "run", "nowhere"}
<1> DEFINE Regular(d) == /\ skipPreValidation(d) => Parent(d) = "benchmark"
                        /\ d.waits \in {"preRun", "run", "nowhere"}
<1> USE DEF Command, Parent, skipPreValidation
<1>1. \A d \in ObjectCommands : Regular(d)
  <2> SUFFICES ASSUME NEW u \in {"enable remote-obc", "disable remote-obc"}
               PROVE  Regular(Command(<<"object">>, u, TRUE, Exactly(1), "args", "nowhere"))
    BY DEF ObjectCommands
  <2>1. QED
    OBVIOUS
<1>2. Regular(BenchmarkResources) /\ Regular(BenchmarkRunCmd)
  BY DEF BenchmarkResources, BenchmarkRunCmd
<1>3. Regular(MaintenanceStart) /\ Regular(MaintenanceStop)
  BY DEF MaintenanceStart, MaintenanceStop, MaintenancePreRun
<1>4. /\ Regular(OperatorRookSet) /\ Regular(OperatorRookRestart) /\ Regular(RestoreDeletedCmd)
      /\ Regular(RestoreMonQuorum) /\ Regular(PurgeOsd)
  BY DEF OperatorRookSet, OperatorRookRestart, RestoreDeletedCmd, RestoreMonQuorum, PurgeOsd
<1>5. /\ Regular(SetFull) /\ Regular(SetBackfillFull) /\ Regular(SetNearFull)
      /\ Regular(SetCephLogLevel) /\ Regular(SetRecoveryProfile)
  BY DEF SetFull, SetBackfillFull, SetNearFull, SetCephLogLevel, SetRecoveryProfile
<1>6. /\ Regular(GetRecoveryProfile) /\ Regular(GetHealth) /\ Regular(GetDrHealth)
      /\ Regular(GetDrPrereq) /\ Regular(GetMonEndpoints) /\ Regular(GetRookStatus)
  BY DEF GetRecoveryProfile, GetHealth, GetDrHealth, GetDrPrereq, GetMonEndpoints, GetRookStatus
<1>7. /\ Regular(CephCommand) /\ Regular(RbdCommand)
      /\ Regular(RadosgwCommand) /\ Regular(RadosCommand)
  BY DEF CephCommand, RbdCommand, RadosgwCommand, RadosCommand
<1>8. /\ Regular(SubvolumeLs) /\ Regular(SubvolumeDelete)
      /\ Regular(SnapLs) /\ Regular(SnapDelete)
  BY DEF SubvolumeLs, SubvolumeDelete, SnapLs, SnapDelete
<1> HIDE DEF Regular
<1>9. Regular(c)
  BY <1>1, <1>2, <1>3, <1>4, <1>5, <1>6, <1>7, <1>8 DEF Commands
<1>10. QED
  BY <1>9 DEF Regular

\* What the flags name are namespaces.
LEMMA FlagFacts ==
  ASSUME line \in Line
  PROVE  /\ StorageFlag \in Namespaces \union {NotGiven}
         /\ OperatorFlag \in Namespaces \union {NotGiven}
BY DEF Line, StorageFlag, OperatorFlag

-----------------------------------------------------------------------------
(* The inductive invariant.                                                *)

LEMMA IInit == Init => IInv
<1> SUFFICES ASSUME Init PROVE IInv
  OBVIOUS
<1>1. TypeOK
  BY NamespacesAssumption DEF Init, TypeOK, Ended
<1>2. Looked
  BY DEF Init, Looked
<1>3. QED
  BY <1>1, <1>2 DEF IInv

LEMMA ValidateArgsStep == IInv /\ ValidateArgs => IInv'
<1> SUFFICES ASSUME IInv, ValidateArgs PROVE IInv'
  OBVIOUS
<1> USE DEF ValidateArgs, cluster
<1>1. OperatorFlag \in Namespaces \union {NotGiven} /\ pc' \in {"resolve", "usage"}
  BY FlagFacts DEF IInv, TypeOK
<1>2. TypeOK'
  BY <1>1 DEF IInv, TypeOK, Ended
<1>3. Looked'
  BY <1>1 DEF Looked
<1>4. QED
  BY <1>2, <1>3 DEF IInv

LEMMA ResolveStep == IInv /\ Resolve => IInv'
<1> SUFFICES ASSUME IInv, Resolve PROVE IInv'
  OBVIOUS
<1> USE DEF Resolve, cluster
<1>1. EffectiveNamespace \in Namespaces /\ StorageClusterNamespace \in Namespaces
  BY FlagFacts DEF IInv, TypeOK, EffectiveNamespace
<1>2. \A ns \in Namespaces : OperatorOf(ns) \in Namespaces
  BY DEF IInv, TypeOK, OperatorOf
<1>3. TypeOK'
  BY <1>1, <1>2 DEF IInv, TypeOK, Ended
<1>4. Looked'
  BY DEF Looked
<1>5. QED
  BY <1>3, <1>4 DEF IInv

\* From here on the two namespaces stay, and the requests add to what was seen.
LEMMA MakeClientsStep == IInv /\ MakeClients => IInv'
<1> SUFFICES ASSUME IInv, MakeClients PROVE IInv'
  OBVIOUS
<1> USE DEF MakeClients, cluster, program
<1>1. TypeOK'
  BY DEF IInv, TypeOK, Ended
<1>2. Looked'
  BY DEF Looked
<1>3. QED
  BY <1>1, <1>2 DEF IInv

LEMMA PreValidationStep == IInv /\ preValidationCheck => IInv'
<1> SUFFICES ASSUME IInv, preValidationCheck PROVE IInv'
  OBVIOUS
<1> USE DEF preValidationCheck, CheckNamespace, cluster, program
<1>1. TypeOK'
  BY DEF IInv, TypeOK, Ended
<1>2. Looked'
  BY DEF IInv, Looked
<1>3. QED
  BY <1>1, <1>2 DEF IInv

LEMMA MakeCtrlClientStep == IInv /\ MakeCtrlClient => IInv'
<1> SUFFICES ASSUME IInv, MakeCtrlClient PROVE IInv'
  OBVIOUS
<1> USE DEF MakeCtrlClient, cluster, program
<1>1. TypeOK'
  BY DEF IInv, TypeOK, Ended
<1>2. Looked'
  BY DEF IInv, Looked, skipPreValidation, Parent
<1>3. QED
  BY <1>1, <1>2 DEF IInv

LEMMA CommandStep == IInv /\ (PreRun \/ Run \/ Work) => IInv'
<1> SUFFICES ASSUME IInv, PreRun \/ Run \/ Work PROVE IInv'
  OBVIOUS
<1> USE DEF PreRun, Run, Work, WaitForPodToRun, OperatorPodNamespace, cluster, program
<1>1. TypeOK'
  BY DEF IInv, TypeOK, Ended
<1>2. Looked'
  BY DEF IInv, Looked, skipPreValidation, Parent
<1>3. QED
  BY <1>1, <1>2 DEF IInv

LEMMA ClusterStep == IInv /\ Cluster => IInv'
<1> SUFFICES ASSUME IInv, NEW ns \in Namespaces, ChangeNamespace(ns) \/ ChangeOperator(ns)
             PROVE  IInv'
  BY DEF Cluster
<1> USE DEF ChangeNamespace, ChangeOperator, program
<1>1. TypeOK'
  BY DEF IInv, TypeOK
<1>2. Looked'
  BY DEF IInv, Looked, skipPreValidation, Parent
<1>3. QED
  BY <1>1, <1>2 DEF IInv

LEMMA IStep == IInv /\ [Next]_vars => IInv'
<1> SUFFICES ASSUME IInv, [Next]_vars PROVE IInv'
  OBVIOUS
<1>1. CASE UNCHANGED vars
  BY <1>1 DEF vars, IInv, TypeOK, Looked, skipPreValidation, Parent
<1>2. QED
  BY <1>1, ValidateArgsStep, ResolveStep, MakeClientsStep, PreValidationStep, MakeCtrlClientStep,
     CommandStep, ClusterStep DEF Next

\* The inductive invariant of CommandDispatch.
THEOREM Invariance == Spec => []IInv
<1>1. QED
  BY IInit, IStep, PTL DEF Spec

\* The variables of CommandDispatch keep their types, and from the resolution on
\* the operator has a namespace.
THEOREM TypeCorrect == Spec => []TypeOK
<1>1. IInv => TypeOK
  BY DEF IInv
<1>2. QED
  BY <1>1, Invariance, PTL

\* Every command but the benchmarks has seen the namespaces it works in, and one
\* that waits for an operator has found it there.
THEOREM WorksWhereCheckedCorrect == Spec => []WorksWhereChecked
<1>1. IInv => WorksWhereChecked
  <2> SUFFICES ASSUME IInv, pc = "work" PROVE WorksWhereChecked
    BY DEF WorksWhereChecked
  <2>1. line.command \in Commands
    BY DEF IInv, TypeOK, Line
  <2>2. QED
    BY <2>1, TableFacts DEF IInv, Looked, WorksWhereChecked
<1>2. QED
  BY <1>1, Invariance, PTL
=============================================================================
