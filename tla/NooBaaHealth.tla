---------------------------- MODULE NooBaaHealth ----------------------------
(***************************************************************************)
(* NooBaaHealthChecker.Check (pkg/health/noobaa.go), a custom check of     *)
(* `odf get health': the phase of the NooBaa CR, then the core pods, and   *)
(* the worst of what they say.                                             *)
(*                                                                         *)
(* An operator called Slip... is a plausible mistake in the operator that  *)
(* follows it; no specification uses it.                                   *)
(***************************************************************************)
EXTENDS Inspection, Naturals

CONSTANT CorePods   \* the names core pods can have

ASSUME CorePodsAssumption == "noobaa" \notin CorePods

\* The phase of the first NooBaa CR: "starting" are Creating, Connecting,
\* Configuring and Verifying, "overdue" the same from five minutes after its
\* creation; "other" is any other phase, or none; "unreadable" is no string.
Phases == {"absent", "Ready", "starting", "overdue", "Rejected", "other", "unreadable"}

\* A container of a pod of any phase may be crash-looping; the phases but Pending
\* are "settled": Running and Succeeded, but Failed and Unknown as well.
Pods == {"absent", "settled", "Pending", "looping", "looping Pending"}

\* NooBaa, and the core pods.
HealthWorld(phase, pods) ==
  [part \in {"noobaa"} \union CorePods |-> IF part = "noobaa" THEN phase ELSE pods[part]]

HealthWorlds == {HealthWorld(phase, pods) : phase \in Phases, pods \in [CorePods -> Pods]}

\* The statuses, from good to bad. (What Error is worth is never compared.)
OK == 1
Warning == 2
Critical == 3
Silent == 0   \* the empty CheckResult
Error  == 4   \* StatusError

\* What is remembered: the pods of the list that the loop has still to look at.
NoPods == [p \in {} |-> "absent"]

HealthInit == Begin("health", HealthWorlds, "noobaa", {NoPods}, Silent)

SlipLatest(a, b) == b

worseStatus(a, b) == IF a > b THEN a ELSE b

OfPhase(phase) ==
  CASE phase = "overdue"  -> Warning
    [] phase = "Rejected" -> Critical
    [] OTHER              -> OK

\* getNooBaaPhase: a request that fails is no error, but no NooBaa.
GetNooBaaPhase ==
  \/ /\ Answered("health", "noobaa")
     /\ \/ world.noobaa = "absent" /\ pc' = "done" /\ UNCHANGED report
        \/ world.noobaa = "unreadable" /\ pc' = "done" /\ report' = Error
        \/ /\ world.noobaa \notin {"absent", "unreadable"}
           /\ pc' = "pods" /\ report' = OfPhase(world.noobaa)
     /\ UNCHANGED known
  \/ Failed("health", "noobaa") /\ pc' = "done" /\ UNCHANGED report

isContainerCrashLooping(pod) == pod \in {"looping", "looping Pending"}

SlipPendingWarns(pod) == IF isContainerCrashLooping(pod) THEN Critical
                         ELSE IF pod = "Pending" THEN Warning ELSE OK

\* A pending pod is marked [WARN] in the details, and counts as critical.
OfPod(pod) == IF isContainerCrashLooping(pod) \/ pod = "Pending" THEN Critical ELSE OK

\* The list of the pods.
ListPods ==
  LET listed == {p \in CorePods : world[p] # "absent"}
  IN  \/ /\ Answered("health", "pods")
         /\ known' = [p \in listed |-> world[p]]
         /\ \/ listed = {} /\ pc' = "done" /\ report' = worseStatus(report, Warning)
            \/ listed # {} /\ pc' = "loop" /\ UNCHANGED report
      \/ Failed("health", "pods") /\ pc' = "done" /\ report' = worseStatus(report, Warning)

\* The loop over the list, one pod at a time.
LookAtPod ==
  /\ command = "health" /\ pc = "loop"
  /\ \E p \in DOMAIN known :
       /\ report' = worseStatus(report, OfPod(known[p]))
       /\ known' = [q \in DOMAIN known \ {p} |-> known[q]]
       /\ pc' = IF DOMAIN known = {p} THEN "done" ELSE "loop"
  /\ UNCHANGED <<command, world, steady>>

HealthNext ==
  \/ GetNooBaaPhase \/ ListPods \/ LookAtPod
  \/ Change("health", "noobaa", Phases)
  \/ \E p \in CorePods : Change("health", p, Pods)

-----------------------------------------------------------------------------
(* Properties.                                                             *)

HealthTypeOK ==
  /\ world \in HealthWorlds
  /\ pc \in {"noobaa", "pods", "loop", "done"}
  /\ DOMAIN known \subseteq CorePods
  /\ \A p \in DOMAIN known : known[p] \in Pods \ {"absent"}
  /\ pc = "loop" <=> DOMAIN known # {}
  /\ pc = "noobaa" => report = Silent
  /\ pc \in {"pods", "loop"} => report \in OK..Critical
  /\ report \in Silent..Error

\* What is broken.
Broken(part) ==
  IF part = "noobaa" THEN world[part] = "Rejected"
  ELSE world[part] \in {"Pending", "looping", "looping Pending"}

\* What is wrong throughout the check is reported, whatever else comes and goes
\* between its two requests and while it looks at the pods: bad news of one pod is
\* not lost on the next one, nor that of the phase on the pods; if not, no NooBaa
\* was found when it was asked for.
SteadyFaultsAreReported ==
  command = "health" /\ pc = "done" /\ (\E part \in steady : Broken(part)) =>
    \/ report = Critical
    \/ report \in {Silent, Error} /\ ("noobaa" \in steady => world.noobaa \in {"absent", "unreadable"})

\* If nothing changes and no request fails, the two reads are as good as one: the
\* check says the worst that is the case, and nothing only if there is no NooBaa.
HealthVerdict ==
  command = "health" /\ pc = "done" /\ Undisturbed =>
    report = CASE world.noobaa = "absent"     -> Silent
               [] world.noobaa = "unreadable" -> Error
               [] OTHER ->
                    IF \E part \in DOMAIN world : Broken(part) THEN Critical
                    ELSE IF world.noobaa = "overdue" \/ \A p \in CorePods : world[p] = "absent"
                           THEN Warning ELSE OK
=============================================================================
