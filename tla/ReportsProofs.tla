---------------------------- MODULE ReportsProofs ----------------------------
(* What holds of NooBaaHealth, DrPrereq and BenchmarkResources within      *)
(* Reports, for any pods, clusters, networks, nodes, disks and interfaces. *)
EXTENDS Reports, TLAPS

-----------------------------------------------------------------------------
(* NooBaaHealth.                                                           *)

HealthTypes ==
  /\ world.noobaa \in Phases
  /\ \A p \in CorePods : world[p] \in Pods
  /\ DOMAIN world = {"noobaa"} \union CorePods
  /\ world = [part \in DOMAIN world |-> world[part]]
  /\ steady \subseteq DOMAIN world
  /\ pc \in {"noobaa", "pods", "loop", "done"}
  /\ DOMAIN known \subseteq CorePods
  /\ \A p \in DOMAIN known : known[p] \in Pods \ {"absent"}
  /\ pc = "loop" <=> DOMAIN known # {}
  /\ pc = "noobaa" => report = Silent
  /\ pc \in {"pods", "loop"} => report \in OK..Critical
  /\ report \in Silent..Error

\* What is steady has been read as it is: the report is no better than the phase,
\* and than the pods that the loop has left behind.
HealthMemory ==
  /\ pc \in {"pods", "loop"} /\ "noobaa" \in steady =>
       world.noobaa \notin {"absent", "unreadable"} /\ OfPhase(world.noobaa) <= report
  /\ pc = "loop" =>
       /\ \A p \in DOMAIN known : p \in steady => known[p] = world[p]
       /\ \A p \in CorePods : p \in steady /\ Broken(p) => p \in DOMAIN known \/ report = Critical

\* If all is steady, the report is no worse either.
HealthQuiet ==
  Undisturbed =>
    /\ pc = "pods" => report = OfPhase(world.noobaa)
    /\ pc = "loop" =>
         /\ report = OfPhase(world.noobaa) \/ report = Critical
         /\ report = Critical => \E part \in DOMAIN world : Broken(part)
         /\ \E p \in CorePods : world[p] # "absent"

HealthIInv ==
  command = "health" =>
    HealthTypes /\ HealthMemory /\ HealthQuiet /\ SteadyFaultsAreReported /\ HealthVerdict

\* The statuses of a phase that could be read and of a pod.
LEMMA StatusFacts ==
  /\ \A phase \in Phases : OfPhase(phase) \in OK..Critical
  /\ \A phase \in Phases : OfPhase(phase) = Critical <=> phase = "Rejected"
  /\ \A phase \in Phases : OfPhase(phase) = Warning <=> phase = "overdue"
  /\ \A pod \in Pods : OfPod(pod) \in {OK, Critical}
  /\ \A pod \in Pods : OfPod(pod) = Critical <=> pod \in {"Pending", "looping", "looping Pending"}
  BY DEF Phases, Pods, OfPhase, OfPod, isContainerCrashLooping, OK, Warning, Critical

\* worseStatus is the maximum of two statuses.
LEMMA WorseFacts ==
  ASSUME NEW a \in OK..Critical, NEW b \in OK..Critical
  PROVE  /\ worseStatus(a, b) \in {a, b}
         /\ a <= worseStatus(a, b) /\ b <= worseStatus(a, b)
         /\ worseStatus(a, b) \in OK..Critical
         /\ a = Critical \/ b = Critical <=> worseStatus(a, b) = Critical
  BY DEF worseStatus, OK, Critical

LEMMA HealthInitFacts == HealthInit => HealthIInv
<1> SUFFICES ASSUME HealthInit PROVE HealthIInv
  OBVIOUS
<1>1. pc = "noobaa" /\ report = Silent /\ known = NoPods /\ steady = DOMAIN world
  BY DEF HealthInit, Begin
<1>w. world \in HealthWorlds
  BY DEF HealthInit, Begin
<1>2. PICK phase \in Phases, pods \in [CorePods -> Pods] : world = HealthWorld(phase, pods)
  BY <1>w DEF HealthWorlds
<1>3. HealthTypes
  BY <1>1, <1>2, CorePodsAssumption DEF HealthTypes, HealthWorld, NoPods, Silent, Error
<1>4. QED
  BY <1>1, <1>3 DEF HealthIInv, HealthMemory, HealthQuiet, SteadyFaultsAreReported, HealthVerdict

LEMMA HealthChange ==
  ASSUME HealthIInv, command = "health",
         \/ Change("health", "noobaa", Phases)
         \/ \E p \in CorePods : Change("health", p, Pods)
  PROVE  HealthIInv'
<1>1. PICK part \in {"noobaa"} \union CorePods, v \in Phases \union Pods :
        /\ v \in IF part = "noobaa" THEN Phases ELSE Pods
        /\ world' = [world EXCEPT ![part] = v] /\ steady' = steady \ {part}
        /\ pc \notin Ended /\ UNCHANGED <<command, pc, known, report>>
  BY CorePodsAssumption DEF Change
<1>2. HealthTypes'
  BY <1>1, CorePodsAssumption DEF HealthIInv, HealthTypes
<1>3. \A q \in steady' : world'[q] = world[q]
  BY <1>1 DEF HealthIInv, HealthTypes
<1>4. HealthMemory'
  BY <1>1, <1>3, CorePodsAssumption DEF HealthIInv, HealthMemory, Broken
<1>5. ~Undisturbed'
  BY <1>1 DEF Undisturbed, HealthIInv, HealthTypes
<1>6. SteadyFaultsAreReported' /\ HealthVerdict' /\ HealthQuiet'
  BY <1>1, <1>5 DEF SteadyFaultsAreReported, HealthVerdict, HealthQuiet, Ended
<1>7. QED
  BY <1>2, <1>4, <1>6 DEF HealthIInv

LEMMA GetNooBaaPhaseStep ==
  ASSUME HealthIInv, command = "health", GetNooBaaPhase PROVE HealthIInv'
<1>1. /\ pc = "noobaa" /\ report = Silent /\ DOMAIN known = {}
      /\ UNCHANGED <<command, world, known>>
  BY DEF GetNooBaaPhase, Answered, Failed, HealthIInv, HealthTypes
<1>2. CASE pc' = "pods"
  <2>1. /\ UNCHANGED steady /\ report' = OfPhase(world.noobaa)
        /\ world.noobaa \notin {"absent", "unreadable"}
    BY <1>2 DEF GetNooBaaPhase, Answered, Failed
  <2>2. OfPhase(world.noobaa) \in OK..Critical
    BY StatusFacts DEF HealthIInv, HealthTypes
  <2>3. HealthTypes'
    BY <1>1, <1>2, <2>1, <2>2 DEF HealthIInv, HealthTypes, OK, Critical, Silent, Error
  <2>4. HealthMemory'
    BY <1>1, <1>2, <2>1, <2>2 DEF HealthMemory, OK, Critical
  <2>5. HealthQuiet' /\ SteadyFaultsAreReported' /\ HealthVerdict'
    BY <1>1, <1>2, <2>1 DEF HealthQuiet, SteadyFaultsAreReported, HealthVerdict
  <2>6. QED
    BY <2>3, <2>4, <2>5 DEF HealthIInv
<1>3. CASE pc' = "done"
  <2>1. \/ UNCHANGED steady /\ world.noobaa = "absent" /\ report' = Silent
        \/ UNCHANGED steady /\ world.noobaa = "unreadable" /\ report' = Error
        \/ steady' = {} /\ report' = Silent
    BY <1>1, <1>3 DEF GetNooBaaPhase, Answered, Failed
  <2>2. HealthTypes'
    BY <1>1, <1>3, <2>1 DEF HealthIInv, HealthTypes, Silent, Error
  <2>3. HealthMemory' /\ HealthQuiet'
    BY <1>3 DEF HealthMemory, HealthQuiet
  <2>4. SteadyFaultsAreReported'
    BY <1>1, <1>3, <2>1 DEF SteadyFaultsAreReported
  <2>5. HealthVerdict'
    BY <1>1, <1>3, <2>1 DEF HealthVerdict, Undisturbed, HealthIInv, HealthTypes
  <2>6. QED
    BY <2>2, <2>3, <2>4, <2>5 DEF HealthIInv
<1>4. QED
  BY <1>2, <1>3 DEF GetNooBaaPhase

\* The end of the check: whoever ends has a report that is no better than what was
\* steady, and if all was, no worse.
LEMMA HealthEnds ==
  ASSUME HealthIInv, command = "health", pc' = "done", UNCHANGED <<command, world>>,
         steady' \subseteq steady, DOMAIN known' = {}, report' \in OK..Critical,
         \A part \in steady' : Broken(part) => report' = Critical,
         Undisturbed' =>
           /\ world.noobaa \notin {"absent", "unreadable"}
           /\ report' = Critical => \E part \in DOMAIN world : Broken(part)
           /\ report' # Critical =>
                (report' = Warning <=> world.noobaa = "overdue" \/ \A p \in CorePods : world[p] = "absent")
  PROVE  HealthIInv'
<1>1. HealthTypes'
  BY DEF HealthIInv, HealthTypes, OK, Critical, Silent, Error
<1>2. HealthMemory' /\ HealthQuiet'
  BY DEF HealthMemory, HealthQuiet
<1>3. SteadyFaultsAreReported'
  BY DEF SteadyFaultsAreReported, Broken
<1>4. HealthVerdict'
  <2> SUFFICES ASSUME Undisturbed'
               PROVE  report' = IF \E part \in DOMAIN world : Broken(part) THEN Critical
                                ELSE IF world.noobaa = "overdue" \/ \A p \in CorePods : world[p] = "absent"
                                       THEN Warning ELSE OK
    BY DEF HealthVerdict, Broken
  <2>1. steady' = DOMAIN world
    BY DEF Undisturbed
  <2>2. report' \in {OK, Warning, Critical}
    BY DEF OK, Warning, Critical
  <2>3. CASE \E part \in DOMAIN world : Broken(part)
    BY <2>1, <2>3
  <2>4. CASE ~\E part \in DOMAIN world : Broken(part)
    BY <2>2, <2>4 DEF OK, Warning, Critical
  <2>5. QED
    BY <2>3, <2>4
<1>5. QED
  BY <1>1, <1>2, <1>3, <1>4 DEF HealthIInv

LEMMA ListPodsStep == ASSUME HealthIInv, command = "health", ListPods PROVE HealthIInv'
<1> DEFINE listed == {p \in CorePods : world[p] # "absent"}
           phase == OfPhase(world.noobaa)
<1>1. /\ pc = "pods" /\ report \in OK..Critical /\ DOMAIN known = {}
      /\ UNCHANGED <<command, world>>
  BY DEF ListPods, Answered, Failed, HealthIInv, HealthTypes
<1>2. /\ world.noobaa \in Phases /\ \A p \in CorePods : world[p] \in Pods
      /\ DOMAIN world = {"noobaa"} \union CorePods /\ "noobaa" \notin CorePods
  BY CorePodsAssumption DEF HealthIInv, HealthTypes
<1>3. /\ "noobaa" \in steady => world.noobaa \notin {"absent", "unreadable"} /\ phase <= report
      /\ Undisturbed => report = phase
      /\ phase \in OK..Critical /\ (phase = Critical <=> world.noobaa = "Rejected")
      /\ phase = Warning <=> world.noobaa = "overdue"
  BY <1>1, <1>2, StatusFacts DEF HealthIInv, HealthMemory, HealthQuiet
<1> DEFINE worse == worseStatus(report, Warning)
<1>4. /\ worse \in OK..Critical /\ worse \in {report, Warning} /\ Warning <= worse
      /\ worse = Critical <=> report = Critical
      /\ worse = Critical \/ worse = Warning
  <2>1. Warning \in OK..Critical
    BY DEF OK, Warning, Critical
  <2>2. /\ worse \in OK..Critical /\ worse \in {report, Warning} /\ Warning <= worse
        /\ worse = Critical <=> report = Critical \/ Warning = Critical
    BY <1>1, <2>1, WorseFacts
  <2>3. QED
    BY <2>2 DEF OK, Warning, Critical
<1> HIDE DEF phase, worse
<1>5. CASE Failed("health", "pods") /\ pc' = "done" /\ report' = worse
  <2>1. steady' = {} /\ UNCHANGED known
    BY <1>5 DEF Failed
  <2>2. ~Undisturbed'
    BY <1>1, <1>2, <2>1 DEF Undisturbed
  <2>3. QED
    BY <1>1, <1>4, <1>5, <2>1, <2>2, HealthEnds
<1>6. CASE /\ Answered("health", "pods") /\ known' = [p \in listed |-> world[p]]
           /\ listed = {} /\ pc' = "done" /\ report' = worse
  <2>1. UNCHANGED steady /\ DOMAIN known' = {} /\ \A p \in CorePods : world[p] = "absent"
    BY <1>6 DEF Answered
  <2>2. \A part \in steady : Broken(part) => part = "noobaa" /\ world.noobaa = "Rejected"
    BY <1>2, <2>1 DEF Broken, HealthIInv, HealthTypes
  <2>3. \A part \in steady : Broken(part) => worse = Critical
    BY <1>1, <1>3, <1>4, <2>2 DEF OK, Critical
  <2>4. Undisturbed =>
          /\ world.noobaa \notin {"absent", "unreadable"}
          /\ worse = Critical => \E part \in DOMAIN world : Broken(part)
          /\ worse # Critical => worse = Warning
    BY <1>2, <1>3, <1>4 DEF Undisturbed, Broken
  <2>5. QED
    BY <1>1, <1>4, <1>6, <2>1, <2>3, <2>4, HealthEnds DEF Undisturbed
<1>7. CASE /\ Answered("health", "pods") /\ known' = [p \in listed |-> world[p]]
           /\ listed # {} /\ pc' = "loop" /\ UNCHANGED report
  <2>1. /\ UNCHANGED steady /\ DOMAIN known' = listed /\ \A p \in listed : known'[p] = world[p]
    BY <1>7 DEF Answered
  <2>2. HealthTypes'
    BY <1>1, <1>2, <1>7, <2>1 DEF HealthIInv, HealthTypes
  <2>3. HealthMemory'
    <3>1. \A p \in CorePods : Broken(p) => p \in listed
      BY <1>2 DEF Broken
    <3>2. \A p \in CorePods : Broken(p)' <=> Broken(p)
      BY <1>1 DEF Broken
    <3>3. QED
      BY <1>1, <1>3, <1>7, <2>1, <3>1, <3>2 DEF HealthMemory, phase
  <2>4. HealthQuiet'
    <3>1. Undisturbed' <=> Undisturbed
      BY <1>1, <2>1 DEF Undisturbed
    <3>2. phase = Critical => Broken("noobaa")' /\ "noobaa" \in DOMAIN world'
      BY <1>1, <1>2, <1>3 DEF Broken
    <3>3. QED
      BY <1>1, <1>3, <1>7, <2>1, <3>1, <3>2 DEF HealthQuiet, phase
  <2>5. SteadyFaultsAreReported' /\ HealthVerdict'
    BY <1>7 DEF SteadyFaultsAreReported, HealthVerdict
  <2>6. QED
    BY <2>2, <2>3, <2>4, <2>5 DEF HealthIInv
<1>8. QED
  BY <1>5, <1>6, <1>7 DEF ListPods, worse

LEMMA LookAtPodStep == ASSUME HealthIInv, command = "health", LookAtPod PROVE HealthIInv'
<1> DEFINE phase == OfPhase(world.noobaa)
<1>1. PICK p \in DOMAIN known :
        /\ report' = worseStatus(report, OfPod(known[p]))
        /\ known' = [q \in DOMAIN known \ {p} |-> known[q]]
        /\ pc' = IF DOMAIN known = {p} THEN "done" ELSE "loop"
  BY DEF LookAtPod
<1>2. pc = "loop" /\ UNCHANGED <<command, world, steady>>
  BY DEF LookAtPod
<1>3. /\ world.noobaa \in Phases /\ \A q \in CorePods : world[q] \in Pods
      /\ DOMAIN world = {"noobaa"} \union CorePods /\ "noobaa" \notin CorePods
      /\ steady \subseteq DOMAIN world /\ p \in CorePods /\ known[p] \in Pods
      /\ report \in OK..Critical
  BY <1>2, CorePodsAssumption DEF HealthIInv, HealthTypes
<1>4. /\ DOMAIN known' = DOMAIN known \ {p}
      /\ \A q \in DOMAIN known' : known'[q] = known[q]
  BY <1>1
<1>5. /\ report' \in OK..Critical /\ report <= report'
      /\ report' = report \/ report' = Critical
      /\ report' = Critical <=> report = Critical \/ known[p] \in {"Pending", "looping", "looping Pending"}
  <2>1. /\ OfPod(known[p]) \in {OK, Critical}
        /\ OfPod(known[p]) = Critical <=> known[p] \in {"Pending", "looping", "looping Pending"}
    BY <1>3, StatusFacts
  <2> DEFINE b == OfPod(known[p])
  <2>2. b \in {OK, Critical} /\ report' = worseStatus(report, b)
    BY <1>1, <2>1
  <2> HIDE DEF b
  <2>3. /\ report' \in OK..Critical /\ report <= report' /\ report' \in {report, b}
        /\ report' = Critical <=> report = Critical \/ b = Critical
    BY <1>3, <2>2 DEF worseStatus, OK, Critical
  <2>4. report' = report \/ report' = Critical
    BY <1>3, <2>2, <2>3 DEF OK, Critical
  <2>5. QED
    BY <2>1, <2>3, <2>4 DEF b
<1>6. /\ "noobaa" \in steady => world.noobaa \notin {"absent", "unreadable"} /\ phase <= report
      /\ \A q \in DOMAIN known : q \in steady => known[q] = world[q]
      /\ \A q \in CorePods : q \in steady /\ Broken(q) => q \in DOMAIN known \/ report = Critical
  BY <1>2 DEF HealthIInv, HealthMemory
<1>7. Undisturbed =>
        /\ report = phase \/ report = Critical
        /\ report = Critical => \E part \in DOMAIN world : Broken(part)
        /\ \E q \in CorePods : world[q] # "absent"
  BY <1>2 DEF HealthIInv, HealthQuiet
<1>8. /\ phase \in OK..Critical /\ (phase = Critical <=> world.noobaa = "Rejected")
      /\ phase = Warning <=> world.noobaa = "overdue"
  BY <1>3, StatusFacts
<1> HIDE DEF phase
<1>n. report' \in OK..Critical /\ report <= report' /\ (report = Critical => report' = Critical)
  BY <1>5
<1>m. /\ "noobaa" \in steady => phase <= report'
      /\ "noobaa" \in steady /\ phase = Critical => report' = Critical
  <2>1. report \in OK..Critical /\ ("noobaa" \in steady => phase <= report)
    BY <1>3, <1>6
  <2>2. QED
    <3>1. phase \in OK..Critical
      BY <1>8
    <3>2. QED
      BY <1>n, <2>1, <3>1 DEF OK, Critical
<1>9. \A q \in CorePods : q \in steady /\ Broken(q) => q \in DOMAIN known' \/ report' = Critical
  <2> SUFFICES ASSUME NEW q \in CorePods, q \in steady, Broken(q), q \notin DOMAIN known'
               PROVE  report' = Critical
    OBVIOUS
  <2>1. CASE q = p
    BY <1>3, <1>5, <1>6, <2>1 DEF Broken
  <2>2. CASE q # p
    BY <1>4, <1>5, <1>6, <2>2
  <2>3. QED
    BY <2>1, <2>2
<1>10. Undisturbed => (report' = Critical => \E part \in DOMAIN world : Broken(part))
  <2> SUFFICES ASSUME Undisturbed, report' = Critical, report # Critical
               PROVE  \E part \in DOMAIN world : Broken(part)
    BY <1>7
  <2>1. p \in steady
    BY <1>3 DEF Undisturbed
  <2>2. Broken(p)
    BY <1>3, <1>5, <1>6, <2>1 DEF Broken
  <2>3. QED
    BY <1>3, <2>2
<1>11. CASE DOMAIN known = {p}
  <2>1. pc' = "done" /\ DOMAIN known' = {}
    BY <1>1, <1>4, <1>11
  <2>2. \A part \in steady : Broken(part) => report' = Critical
    <3>1. \A q \in CorePods : q \in steady /\ Broken(q) => report' = Critical
      BY <1>9, <2>1
    <3>2. "noobaa" \in steady /\ Broken("noobaa") => report' = Critical
      BY <1>8, <1>m DEF Broken
    <3>3. QED
      BY <1>3, <3>1, <3>2
  <2>3. Undisturbed =>
          /\ world.noobaa \notin {"absent", "unreadable"}
          /\ report' # Critical =>
               (report' = Warning <=> world.noobaa = "overdue" \/ \A q \in CorePods : world[q] = "absent")
    <3>1. Undisturbed => "noobaa" \in steady
      BY <1>3 DEF Undisturbed
    <3>2. Undisturbed /\ report' # Critical => report' = phase
      BY <1>5, <1>7
    <3>3. QED
      BY <1>6, <1>7, <1>8, <3>1, <3>2
  <2>4. QED
    BY <1>2, <1>5, <1>10, <2>1, <2>2, <2>3, HealthEnds DEF Undisturbed
<1>12. CASE DOMAIN known # {p}
  <2>1. pc' = "loop" /\ DOMAIN known' # {}
    BY <1>1, <1>4, <1>12
  <2>2. HealthTypes'
    <3>1. report' \in OK..Critical /\ report' \in Silent..Error
      BY <1>n DEF OK, Critical, Silent, Error
    <3>2. QED
      BY <1>2, <1>4, <2>1, <3>1 DEF HealthIInv, HealthTypes
  <2>3. HealthMemory'
    <3>1. \A q \in CorePods : Broken(q)' <=> Broken(q)
      BY <1>2 DEF Broken
    <3>2. QED
      BY <1>2, <1>4, <1>6, <1>9, <1>m, <3>1 DEF HealthMemory, phase
  <2>4. HealthQuiet'
    <3>1. Undisturbed' <=> Undisturbed
      BY <1>2 DEF Undisturbed
    <3>2. \A part \in DOMAIN world : Broken(part)' <=> Broken(part)
      BY <1>2 DEF Broken
    <3>3. QED
      BY <1>2, <1>5, <1>7, <1>10, <2>1, <3>1, <3>2 DEF HealthQuiet, phase
  <2>5. SteadyFaultsAreReported' /\ HealthVerdict'
    BY <2>1 DEF SteadyFaultsAreReported, HealthVerdict
  <2>6. QED
    BY <2>2, <2>3, <2>4, <2>5 DEF HealthIInv
<1>13. QED
  BY <1>11, <1>12

LEMMA HealthStep == HealthIInv /\ [Next]_vars => HealthIInv'
<1> SUFFICES ASSUME HealthIInv, [Next]_vars, command' = "health" PROVE HealthIInv'
  BY DEF HealthIInv
<1>1. CASE UNCHANGED vars
  BY <1>1 DEF vars, HealthIInv, HealthTypes, HealthMemory, HealthQuiet, SteadyFaultsAreReported,
              HealthVerdict, Undisturbed, Broken
<1>2. CASE DrNext \/ ResourcesNext
  <2>1. command' \in {"dr-prereq", "resources"}
    BY <1>2 DEF DrNext, ResourcesNext, GetSubmariner, GetLocal, GetPeer, ListNodes, GetDisks,
                GetMountedDisks, GetNics, WriteFile, Change, Answered, Failed
  <2>2. QED
    BY <2>1
<1>3. CASE HealthNext
  <2>1. command = "health"
    BY <1>3 DEF HealthNext, GetNooBaaPhase, ListPods, LookAtPod, Change, Answered, Failed
  <2>2. QED
    BY <1>3, <2>1, GetNooBaaPhaseStep, ListPodsStep, LookAtPodStep, HealthChange DEF HealthNext
<1>4. QED
  BY <1>1, <1>2, <1>3 DEF Next

LEMMA HealthStart == Init => HealthIInv
  BY HealthInitFacts DEF Init, DrInit, ResourcesInit, Begin, HealthIInv

\* The inductive invariant of NooBaaHealth.
THEOREM HealthInvariance == Spec => []HealthIInv
<1>1. QED
  BY HealthStart, HealthStep, PTL DEF Spec

\* Whatever the pods and however many, what was wrong throughout is reported.
THEOREM SteadyFaultsAlwaysReported == Spec => []SteadyFaultsAreReported
<1>1. HealthIInv => SteadyFaultsAreReported
  BY DEF HealthIInv, SteadyFaultsAreReported
<1>2. QED
  BY <1>1, HealthInvariance, PTL

\* Whatever the pods and however many, the report is the worst of what is the case,
\* if nothing changes and no request fails.
THEOREM HealthVerdictCorrect == Spec => []HealthVerdict
<1>1. HealthIInv => HealthVerdict
  BY DEF HealthIInv, HealthVerdict
<1>2. QED
  BY <1>1, HealthInvariance, PTL

-----------------------------------------------------------------------------
(* DrPrereq.                                                               *)

DrTypes ==
  /\ world.submariner \in Submariners
  /\ \A c \in ClusterIds : world[c] \in Clusters
  /\ DOMAIN world = {"submariner"} \union ClusterIds
  /\ world = [part \in DOMAIN world |-> world[part]]
  /\ steady \subseteq DOMAIN world
  /\ pc \in {"submariner", "local", "peer"} \union Ended
  /\ pc \in {"peer", "done"} => known.local.exists
  /\ known \in [peer : ClusterIds, submariner : Submariners, local : Clusters]

\* What is remembered is what was there, if it has not changed; and whoever looks
\* at the peer has found the local cluster, which is not the peer.
DrMemory ==
  /\ pc \in {"local", "peer"} =>
       /\ report = {IF known.submariner.installed THEN "installed" ELSE "not installed"}
       /\ "submariner" \in steady => known.submariner = world.submariner
       /\ known.submariner.id # known.peer
  /\ pc = "peer" =>
       /\ known.submariner.id \in ClusterIds
       /\ known.submariner.id \in steady => known.local = world[known.submariner.id]

DrIInv == command = "dr-prereq" => DrTypes /\ DrMemory /\ ComparesTwoClusters /\ DrVerdict

LEMMA SubmarinerFacts ==
  ASSUME NEW s \in Submariners
  PROVE  s.id \in ClusterIds => s.installed
<1>1. CASE s = NotInstalled
  <2>1. s.id = NoId
    BY <1>1 DEF NotInstalled
  <2>2. QED
    BY <2>1, NoIdAssumption
<1>2. CASE s \in [installed : {TRUE}, id : ClusterIds \union {NoId}, available : BOOLEAN]
  <2>1. s.installed = TRUE
    BY <1>2
  <2>2. QED
    BY <2>1
<1>3. QED
  BY <1>1, <1>2 DEF Submariners

LEMMA DrInitFacts == DrInit => DrIInv
<1> SUFFICES ASSUME DrInit, command = "dr-prereq" PROVE DrIInv
  BY DEF DrIInv
<1>1. pc = "submariner" /\ steady = DOMAIN world
  BY DEF DrInit, Begin
<1>w. world \in DrWorlds
  BY DEF DrInit, Begin
<1>2. PICK s \in Submariners, clusters \in [ClusterIds -> Clusters] : world = DrWorld(s, clusters)
  BY <1>w DEF DrWorlds
<1>3. PICK peer \in ClusterIds : known = Memory(peer)
  BY DEF DrInit, Begin
<1>4. NotInstalled \in Submariners /\ NoCluster \in Clusters
  BY DEF Submariners, Clusters
<1>5. known \in [peer : ClusterIds, submariner : Submariners, local : Clusters]
  BY <1>3, <1>4 DEF Memory
<1>6. DrTypes
  BY <1>1, <1>2, <1>5, NoIdAssumption DEF DrTypes, DrWorld
<1>7. QED
  BY <1>1, <1>6 DEF DrIInv, DrMemory, ComparesTwoClusters, DrVerdict

LEMMA DrChange ==
  ASSUME DrIInv, command = "dr-prereq",
         \/ Change("dr-prereq", "submariner", Submariners)
         \/ \E c \in ClusterIds : Change("dr-prereq", c, Clusters)
  PROVE  DrIInv'
<1>1. PICK part \in {"submariner"} \union ClusterIds, v \in Submariners \union Clusters :
        /\ v \in IF part = "submariner" THEN Submariners ELSE Clusters
        /\ world' = [world EXCEPT ![part] = v] /\ steady' = steady \ {part}
        /\ pc \notin Ended /\ UNCHANGED <<command, pc, known, report>>
  BY NoIdAssumption DEF Change
<1>2. DrTypes'
  BY <1>1, NoIdAssumption DEF DrIInv, DrTypes
<1>3. \A q \in steady' : world'[q] = world[q]
  BY <1>1 DEF DrIInv, DrTypes
<1>4. DrMemory'
  BY <1>1, <1>3, NoIdAssumption DEF DrIInv, DrMemory
<1>5. ComparesTwoClusters' /\ DrVerdict'
  BY <1>1 DEF ComparesTwoClusters, DrVerdict, Ended
<1>6. QED
  BY <1>2, <1>4, <1>5 DEF DrIInv

LEMMA GetSubmarinerStep ==
  ASSUME DrIInv, command = "dr-prereq", GetSubmariner PROVE DrIInv'
<1> USE DEF GetSubmariner, Answered, Failed, Fatal
<1>1. DrTypes'
  BY DEF DrIInv, DrTypes, Ended
<1>2. DrMemory'
  BY DEF DrIInv, DrTypes, DrMemory
<1>3. ComparesTwoClusters' /\ DrVerdict'
  BY DEF ComparesTwoClusters, DrVerdict
<1>4. QED
  BY <1>1, <1>2, <1>3 DEF DrIInv

LEMMA GetLocalStep ==
  ASSUME DrIInv, command = "dr-prereq", GetLocal PROVE DrIInv'
<1> USE DEF GetLocal, Answered, Failed, Fatal
<1>1. DrTypes'
  BY DEF DrIInv, DrTypes, Ended, Found
<1>2. DrMemory'
  BY DEF DrIInv, DrTypes, DrMemory
<1>3. ComparesTwoClusters' /\ DrVerdict'
  BY DEF ComparesTwoClusters, DrVerdict
<1>4. QED
  BY <1>1, <1>2, <1>3 DEF DrIInv

LEMMA GetPeerStep ==
  ASSUME DrIInv, command = "dr-prereq", GetPeer PROVE DrIInv'
<1> DEFINE peer == world[known.peer]
           required == Required(known.local, peer)
           enabled == known.submariner.available
<1>1. CASE pc' = "fatal"
  BY <1>1 DEF GetPeer, Answered, Failed, Fatal, DrIInv, DrTypes, DrMemory, ComparesTwoClusters,
              DrVerdict, Ended
<1>2. CASE pc' # "fatal"
  <2>1. /\ pc = "peer" /\ pc' = "done" /\ peer.exists
        /\ report' = report \union Conclusions(required, enabled)
        /\ UNCHANGED <<known, command, world, steady>>
    BY <1>2 DEF GetPeer, Answered, Failed, Fatal, Found, isGlobalnetEnabled
  <2>2. report = {"installed"}
    BY <2>1, SubmarinerFacts DEF DrIInv, DrTypes, DrMemory
  <2>3. DrTypes' /\ DrMemory'
    BY <2>1 DEF DrIInv, DrTypes, DrMemory, Ended
  <2>4. ComparesTwoClusters'
    BY <2>1, <2>2 DEF DrIInv, DrMemory, ComparesTwoClusters
  <2>5. /\ "required" \in report' <=> required
        /\ "not required" \in report' <=> ~required
        /\ "enabled" \in report' <=> enabled
        /\ "not enabled, but required" \in report' <=> required /\ ~enabled
    <3> HIDE DEF required, enabled
    <3>1. QED
      BY <2>1, <2>2 DEF Conclusions
  <2>6. required <=> \/ \E x \in known.local.covers : x \in peer.covers
                     \/ peer.malformed
                     \/ known.local.malformed /\ peer.covers # {}
    BY DEF Required, OverlappingSubnets
  <2>7. DrVerdict'
    <3> HIDE DEF required
    <3>1. known.submariner.id \in steady => known.local = world[known.submariner.id]
      BY <2>1 DEF DrIInv, DrMemory
    <3>2. "submariner" \in steady => enabled = world.submariner.available
      BY <2>1 DEF DrIInv, DrMemory
    <3>3. "submariner" \in steady =>
            /\ "enabled" \in report' <=> world.submariner.available
            /\ "not enabled, but required" \in report' <=>
                 "required" \in report' /\ ~world.submariner.available
      BY <2>5, <3>2
    <3>4. {known.submariner.id, known.peer} \subseteq steady =>
            /\ "not required" \in report' =>
                 /\ \A x \in world[known.submariner.id].covers, y \in peer.covers : x # y
                 /\ ~peer.malformed
                 /\ world[known.submariner.id].malformed => peer.covers = {}
            /\ "required" \in report' =>
                 \/ world[known.submariner.id].malformed \/ peer.malformed
                 \/ \E x \in world[known.submariner.id].covers : x \in peer.covers
      BY <2>5, <2>6, <3>1
    <3>5. QED
      BY <2>1, <3>3, <3>4 DEF DrVerdict
  <2>8. QED
    BY <2>3, <2>4, <2>7 DEF DrIInv
<1>3. QED
  BY <1>1, <1>2

LEMMA DrStep == DrIInv /\ [Next]_vars => DrIInv'
<1> SUFFICES ASSUME DrIInv, [Next]_vars, command' = "dr-prereq" PROVE DrIInv'
  BY DEF DrIInv
<1>1. CASE UNCHANGED vars
  BY <1>1 DEF vars, DrIInv, DrTypes, DrMemory, ComparesTwoClusters, DrVerdict
<1>2. CASE HealthNext \/ ResourcesNext
  <2>1. command' \in {"health", "resources"}
    BY <1>2 DEF HealthNext, ResourcesNext, GetNooBaaPhase, ListPods, LookAtPod, ListNodes, GetDisks,
                GetMountedDisks, GetNics, WriteFile, Change, Answered, Failed
  <2>2. QED
    BY <2>1
<1>3. CASE DrNext
  <2>1. command = "dr-prereq"
    BY <1>3 DEF DrNext, GetSubmariner, GetLocal, GetPeer, Change, Answered, Failed
  <2>2. QED
    BY <1>3, <2>1, GetSubmarinerStep, GetLocalStep, GetPeerStep, DrChange DEF DrNext
<1>4. QED
  BY <1>1, <1>2, <1>3 DEF Next

LEMMA DrStart == Init => DrIInv
  BY DrInitFacts DEF Init, HealthInit, ResourcesInit, Begin, DrIInv

\* The inductive invariant of DrPrereq.
THEOREM DrInvariance == Spec => []DrIInv
<1>1. QED
  BY DrStart, DrStep, PTL DEF Spec

\* A verdict is about two clusters that have joined.
THEOREM AlwaysComparesTwoClusters == Spec => []ComparesTwoClusters
<1>1. DrIInv => ComparesTwoClusters
  BY DEF DrIInv, ComparesTwoClusters
<1>2. QED
  BY <1>1, DrInvariance, PTL

\* Whatever the networks, the verdict on two clusters that stay as they are is right.
THEOREM DrVerdictCorrect == Spec => []DrVerdict
<1>1. DrIInv => DrVerdict
  BY DEF DrIInv, DrVerdict
<1>2. QED
  BY <1>1, DrInvariance, PTL

-----------------------------------------------------------------------------
(* BenchmarkResources.                                                     *)

ResTypes ==
  /\ world.nodes \in SUBSET Nodes
  /\ \A n \in Nodes : world[n] \in [Disks -> Uses]
  /\ DOMAIN world = {"nodes"} \union Nodes
  /\ world = [part \in DOMAIN world |-> world[part]]
  /\ steady \subseteq DOMAIN world
  /\ pc \in {"nodes", "lsblk", "mounts", "nics", "write"} \union Ended
  /\ known \in [todo : SUBSET Nodes, node : Nodes \union {NoNode}, disks : SUBSET Disks,
                nodes : SUBSET Entry]
  /\ report \in [file : {"untouched", "whole", "cut off"}, nodes : SUBSET Entry]

NodesOf(entries) == {e.node : e \in entries}
Current == IF pc \in {"mounts", "nics"} THEN {known.node} ELSE {}

\* Every node is done, at hand or to do, and only one of these.
Partition ==
  /\ pc = "nodes" => known.nodes = {} /\ known.todo = {}
  /\ pc \in {"lsblk", "mounts", "nics", "write"} =>
       /\ NodesOf(known.nodes) \union Current \union known.todo = world.nodes
       /\ \A e \in known.nodes : e.node \notin Current \union known.todo
       /\ Current \intersect known.todo = {}
       /\ \A e, f \in known.nodes : e.node = f.node => e = f
  /\ pc \in {"mounts", "nics"} => known.node \in Nodes
  /\ pc = "write" => known.todo = {}

\* The disks of a node that are in one of the uses.
DisksIn(n, uses) == {d \in Disks : world[n][d] \in uses}

\* A list of disks is excused.
Excused(n, disks) ==
  /\ DisksIn(n, {"free"}) \subseteq disks
  /\ disks \subseteq DisksIn(n, {"free", "partition mounted"})

Complete(nics) == \A nic \in Nics \ nics : nic.parent = 0 => nic.prefix # "other"

\* What has been collected is as good as what will be written.
Collection ==
  /\ \A e \in known.nodes : (e.node \in steady => Excused(e.node, e.disks)) /\ Complete(e.nics)
  /\ pc = "mounts" /\ known.node \in steady =>
       known.disks = {d \in Disks : world[known.node][d] # "absent"}
  /\ pc = "nics" /\ known.node \in steady => Excused(known.node, known.disks)

\* The file.
Written ==
  /\ pc \notin Ended => report = Untouched
  /\ report.nodes # {} => report.nodes = known.nodes
  /\ report.file = "whole" => pc = "done"

ResIInv ==
  command = "resources" => ResTypes /\ Partition /\ Collection /\ Written /\ FileIsComplete

-----------------------------------------------------------------------------
(* The lists.                                                              *)

LEMMA NicFacts ==
  Complete(filterPhysicalInterfaces(Nics)) /\ filterPhysicalInterfaces(Nics) \subseteq Nics
<1>1. ASSUME NEW nic \in Nics, nic.parent = 0, nic.prefix = "other"
      PROVE  nic \in filterPhysicalInterfaces(Nics)
  <2>1. nic.length \in 1..15
    BY NicsAssumption DEF Nic
  <2>2. QED
    BY <1>1, <2>1 DEF filterPhysicalInterfaces, Shown
<1>2. QED
  BY <1>1 DEF Complete, filterPhysicalInterfaces

\* The rows of the disks that are mounted have their names, the rows of their
\* partitions have not.
LEMMA MountFacts ==
  ASSUME NEW uses \in [Disks -> Uses], NEW d \in Disks
  PROVE  (<<d>> \in parseMountedDisks(Rows(uses))) <=> uses[d] = "mounted"
<1> DEFINE whole == {[name |-> <<e>>, mounted |-> uses[e] = "mounted"]
                       : e \in {e \in Disks : uses[e] # "absent"}}
           parts == {[name |-> <<"|-", e>>, mounted |-> TRUE]
                       : e \in {e \in Disks : uses[e] = "partition mounted"}}
<1>1. ASSUME uses[d] = "mounted" PROVE <<d>> \in parseMountedDisks(Rows(uses))
  <2> DEFINE row == [name |-> <<d>>, mounted |-> uses[d] = "mounted"]
  <2>1. row \in Rows(uses)
    BY <1>1 DEF Rows
  <2>2. row.mounted /\ row.name = <<d>>
    BY <1>1
  <2>3. QED
    BY <2>1, <2>2 DEF parseMountedDisks
<1>2. ASSUME NEW r \in Rows(uses), r.mounted, r.name = <<d>> PROVE uses[d] = "mounted"
  <2>1. CASE r \in whole
    <3>1. PICK e \in Disks : r = [name |-> <<e>>, mounted |-> uses[e] = "mounted"]
      BY <2>1
    <3>2. <<e>> = <<d>> /\ uses[e] = "mounted"
      BY <3>1, <1>2
    <3>3. QED
      BY <3>2
  <2>2. CASE r \in parts
    <3>1. PICK e \in Disks : r = [name |-> <<"|-", e>>, mounted |-> TRUE]
      BY <2>2
    <3>2. r.name = <<"|-", e>>
      BY <3>1
    <3>3. <<"|-", e>> # <<d>>
      OBVIOUS
    <3>4. QED
      BY <3>2, <3>3, <1>2
  <2>3. QED
    BY <2>1, <2>2 DEF Rows
<1>3. QED
  BY <1>1, <1>2 DEF parseMountedDisks

-----------------------------------------------------------------------------
(* The inductive invariant of BenchmarkResources.                          *)

LEMMA ResInitFacts == ResourcesInit => ResIInv
<1> SUFFICES ASSUME ResourcesInit
             PROVE  ResTypes /\ Partition /\ Collection /\ Written /\ FileIsComplete
  BY DEF ResIInv
<1>1. /\ pc = "nodes" /\ report = Untouched /\ steady = DOMAIN world
      /\ known = [todo |-> {}, node |-> NoNode, disks |-> {}, nodes |-> {}]
  BY DEF ResourcesInit, Begin
<1>w. world \in ResourcesWorlds
  BY DEF ResourcesInit, Begin
<1>2. PICK nodes \in SUBSET Nodes, disks \in [Nodes -> [Disks -> Uses]] :
        world = World(nodes, disks)
  BY <1>w DEF ResourcesWorlds
<1>3. ResTypes
  BY <1>1, <1>2, NodesAssumption DEF ResTypes, Untouched, World
<1>4. Partition /\ Collection /\ Written /\ FileIsComplete
  BY <1>1 DEF Partition, Collection, Written, FileIsComplete, Untouched, Ended
<1>5. QED
  BY <1>3, <1>4

LEMMA ResChange ==
  ASSUME ResIInv, command = "resources", NEW n \in Nodes, Change("resources", n, [Disks -> Uses])
  PROVE  ResIInv'
<1>1. PICK v \in [Disks -> Uses] :
        /\ world' = [world EXCEPT ![n] = v] /\ steady' = steady \ {n}
        /\ pc \notin Ended /\ UNCHANGED <<command, pc, known, report>>
  BY DEF Change
<1>2. world'.nodes = world.nodes /\ \A q \in Nodes \ {n} : world'[q] = world[q]
  BY <1>1, NodesAssumption DEF ResIInv, ResTypes
<1>3. ResTypes'
  BY <1>1, NodesAssumption DEF ResIInv, ResTypes
<1>4. Partition'
  BY <1>1, <1>2 DEF ResIInv, Partition, NodesOf, Current
<1>5. Collection'
  <2>1. \A q \in Nodes, disks \in SUBSET Disks :
          q \in steady' => q \in steady /\ (Excused(q, disks) => Excused(q, disks)')
    BY <1>1, <1>2 DEF Excused, DisksIn
  <2>2. /\ \A e \in known.nodes : e.node \in Nodes /\ e.disks \in SUBSET Disks
        /\ known.disks \in SUBSET Disks
    BY DEF ResIInv, ResTypes, Entry
  <2>3. QED
    BY <1>1, <1>2, <2>1, <2>2 DEF ResIInv, Collection, Partition, Complete
<1>6. Written' /\ FileIsComplete'
  BY <1>1, <1>2 DEF ResIInv, Written, FileIsComplete
<1>7. QED
  BY <1>3, <1>4, <1>5, <1>6 DEF ResIInv

\* A request that fails leaves the file alone, or cut off, and says nothing.
LEMMA ResFailure ==
  ASSUME ResIInv, command = "resources", pc \notin Ended, pc' = "fatal", steady' = {},
         UNCHANGED <<command, world, known>>, report'.nodes = {},
         report'.file \in {"untouched", "cut off"},
         report' \in [file : {"untouched", "whole", "cut off"}, nodes : SUBSET Entry]
  PROVE  ResIInv'
<1>1. ResTypes'
  BY DEF ResIInv, ResTypes, Ended
<1>2. Partition' /\ Collection'
  BY DEF ResIInv, Partition, Collection, Complete
<1>3. Written' /\ FileIsComplete'
  BY DEF Written, Ended, FileIsComplete
<1>4. QED
  BY <1>1, <1>2, <1>3 DEF ResIInv

LEMMA RequestFails ==
  ASSUME ResIInv, command = "resources", NEW at \in {"nodes", "lsblk", "mounts", "nics"},
         Failed("resources", at), pc' = "fatal", UNCHANGED report
  PROVE  ResIInv'
<1>1. pc = at /\ steady' = {} /\ UNCHANGED <<command, world, known>>
  BY DEF Failed
<1>2. pc \notin Ended
  BY <1>1 DEF Ended
<1>3. report' = Untouched
  BY <1>2 DEF ResIInv, Written
<1>4. report'.nodes = {} /\ report'.file = "untouched"
  BY <1>3 DEF Untouched
<1>5. report' \in [file : {"untouched", "whole", "cut off"}, nodes : SUBSET Entry]
  BY DEF ResIInv, ResTypes
<1>6. QED
  BY <1>1, <1>2, <1>4, <1>5, ResFailure

LEMMA ListNodesStep == ASSUME ResIInv, command = "resources", ListNodes PROVE ResIInv'
<1>1. CASE Failed("resources", "nodes") /\ Fatal
  BY <1>1, RequestFails DEF Fatal
<1>2. CASE /\ Answered("resources", "nodes") /\ known' = [known EXCEPT !.todo = world.nodes]
           /\ pc' = NextRequest(world.nodes) /\ UNCHANGED report
  <2>1. /\ pc = "nodes" /\ pc' \in {"lsblk", "write"} /\ (pc' = "write" => world.nodes = {})
        /\ UNCHANGED <<command, world, steady, report>>
    BY <1>2 DEF Answered, NextRequest
  <2>2. /\ known'.todo = world.nodes /\ known'.nodes = {}
        /\ known' \in [todo : SUBSET Nodes, node : Nodes \union {NoNode}, disks : SUBSET Disks,
                       nodes : SUBSET Entry]
    BY <1>2, <2>1 DEF ResIInv, ResTypes, Partition
  <2>3. ResTypes'
    BY <2>1, <2>2 DEF ResIInv, ResTypes
  <2>4. Partition'
    BY <2>1, <2>2 DEF Partition, NodesOf, Current
  <2>5. Collection' /\ Written' /\ FileIsComplete'
    BY <2>1, <2>2 DEF ResIInv, Collection, Written, FileIsComplete, Ended, Untouched
  <2>6. QED
    BY <2>3, <2>4, <2>5 DEF ResIInv
<1>3. QED
  BY <1>1, <1>2 DEF ListNodes

LEMMA GetDisksStep == ASSUME ResIInv, command = "resources", GetDisks PROVE ResIInv'
<1>1. CASE Failed("resources", "lsblk") /\ Fatal
  BY <1>1, RequestFails DEF Fatal
<1>2. ASSUME NEW n \in known.todo, Answered("resources", "lsblk"), pc' = "mounts", UNCHANGED report,
             known' = [known EXCEPT !.todo = @ \ {n}, !.node = n,
                                    !.disks = {d \in Disks : world[n][d] # "absent"}]
      PROVE  ResIInv'
  <2>1. pc = "lsblk" /\ UNCHANGED <<command, world, steady, report>>
    BY <1>2 DEF Answered
  <2>2. /\ known'.todo = known.todo \ {n} /\ known'.node = n /\ n \in Nodes
        /\ known'.disks = {d \in Disks : world[n][d] # "absent"} /\ known'.nodes = known.nodes
        /\ known' \in [todo : SUBSET Nodes, node : Nodes \union {NoNode}, disks : SUBSET Disks,
                       nodes : SUBSET Entry]
    BY <1>2 DEF ResIInv, ResTypes
  <2>3. ResTypes'
    BY <1>2, <2>1, <2>2 DEF ResIInv, ResTypes
  <2>4. Partition'
    <3>1. /\ NodesOf(known.nodes) \union known.todo = world.nodes /\ n \in known.todo
          /\ \A e \in known.nodes : e.node \notin known.todo
          /\ \A e, f \in known.nodes : e.node = f.node => e = f
      BY <1>2, <2>1 DEF ResIInv, Partition, Current
    <3>2. Current' = {n} /\ NodesOf(known.nodes)' = NodesOf(known.nodes)
      BY <1>2, <2>2 DEF Current, NodesOf
    <3>3. NodesOf(known.nodes)' \union Current' \union known'.todo = world'.nodes
      BY <2>1, <2>2, <3>1, <3>2
    <3>4. \A e \in known'.nodes : e.node \notin Current' \union known'.todo
      BY <2>2, <3>1, <3>2
    <3>5. QED
      BY <1>2, <2>2, <3>1, <3>2, <3>3, <3>4 DEF Partition
  <2>5. Collection'
    BY <1>2, <2>1, <2>2 DEF ResIInv, Collection, Excused, DisksIn, Complete
  <2>6. Written' /\ FileIsComplete'
    BY <1>2, <2>1, <2>2 DEF ResIInv, Written, FileIsComplete, Ended, Untouched
  <2>7. QED
    BY <2>3, <2>4, <2>5, <2>6 DEF ResIInv
<1>3. QED
  BY <1>1, <1>2 DEF GetDisks

LEMMA GetMountedDisksStep == ASSUME ResIInv, command = "resources", GetMountedDisks PROVE ResIInv'
<1> DEFINE left == filterUnmountedDisks(known.disks, parseMountedDisks(Rows(world[known.node])))
<1>1. CASE Failed("resources", "mounts") /\ Fatal
  BY <1>1, RequestFails DEF Fatal
<1>2. CASE /\ Answered("resources", "mounts") /\ known' = [known EXCEPT !.disks = left]
           /\ pc' = "nics" /\ UNCHANGED report
  <2>1. /\ pc = "mounts" /\ pc' = "nics" /\ UNCHANGED <<command, world, steady, report>>
        /\ known.node \in Nodes
    BY <1>2 DEF Answered, ResIInv, Partition
  <2>2. world[known.node] \in [Disks -> Uses] /\ known.disks \subseteq Disks
    BY <2>1 DEF ResIInv, ResTypes
  <2>3. left = {d \in known.disks : world[known.node][d] # "mounted"}
    BY <2>2, MountFacts DEF filterUnmountedDisks
  <2>4. known.node \in steady => Excused(known.node, left)
    <3> SUFFICES ASSUME known.node \in steady PROVE Excused(known.node, left)
      OBVIOUS
    <3>1. known.disks = {d \in Disks : world[known.node][d] # "absent"}
      BY <2>1 DEF ResIInv, Collection
    <3>2. QED
      BY <2>2, <2>3, <3>1 DEF Excused, DisksIn, Uses
  <2>5. left \subseteq Disks
    BY <2>2, <2>3
  <2> HIDE DEF left
  <2>6. /\ known'.disks = left /\ known'.todo = known.todo /\ known'.node = known.node
        /\ known'.nodes = known.nodes
        /\ known' \in [todo : SUBSET Nodes, node : Nodes \union {NoNode}, disks : SUBSET Disks,
                       nodes : SUBSET Entry]
    BY <1>2, <2>5 DEF ResIInv, ResTypes
  <2>7. ResTypes'
    BY <2>1, <2>6 DEF ResIInv, ResTypes
  <2>8. Partition'
    BY <2>1, <2>6 DEF ResIInv, Partition, NodesOf, Current
  <2>9. Collection'
    BY <2>1, <2>4, <2>6 DEF ResIInv, Collection, Excused, DisksIn, Complete
  <2>10. Written' /\ FileIsComplete'
    BY <2>1, <2>6 DEF ResIInv, Written, FileIsComplete, Ended, Untouched
  <2>11. QED
    BY <2>7, <2>8, <2>9, <2>10 DEF ResIInv
<1>3. QED
  BY <1>1, <1>2 DEF GetMountedDisks

LEMMA GetNicsStep == ASSUME ResIInv, command = "resources", GetNics PROVE ResIInv'
<1> DEFINE entry == [node |-> known.node, disks |-> known.disks,
                     nics |-> filterPhysicalInterfaces(Nics)]
<1>1. CASE Failed("resources", "nics") /\ NodeFails
  BY <1>1, RequestFails DEF NodeFails
<1>2. CASE /\ Answered("resources", "nics")
           /\ known' = [known EXCEPT !.nodes = Collected, !.node = NoNode, !.disks = {}]
           /\ pc' = NextRequest(known.todo) /\ UNCHANGED report
  <2>1. /\ pc = "nics" /\ pc' \in {"lsblk", "write"} /\ (pc' = "write" => known.todo = {})
        /\ UNCHANGED <<command, world, steady, report>> /\ known.node \in Nodes
    BY <1>2 DEF Answered, NextRequest, ResIInv, Partition
  <2>2. /\ entry \in Entry /\ entry.node = known.node
        /\ (known.node \in steady => Excused(known.node, entry.disks)) /\ Complete(entry.nics)
    BY <2>1, NicFacts DEF ResIInv, ResTypes, Collection, Entry
  <2>3. Collected = known.nodes \union {entry}
    BY DEF Collected
  <2> HIDE DEF entry
  <2>4. /\ known'.nodes = known.nodes \union {entry} /\ known'.todo = known.todo
        /\ known' \in [todo : SUBSET Nodes, node : Nodes \union {NoNode}, disks : SUBSET Disks,
                       nodes : SUBSET Entry]
    BY <1>2, <2>2, <2>3 DEF ResIInv, ResTypes
  <2>5. ResTypes'
    BY <2>1, <2>4 DEF ResIInv, ResTypes
  <2>6. Partition'
    BY <2>1, <2>2, <2>4 DEF ResIInv, Partition, NodesOf, Current
  <2>7. Collection'
    BY <2>1, <2>2, <2>4 DEF ResIInv, Collection, Excused, DisksIn, Complete
  <2>8. Written' /\ FileIsComplete'
    BY <2>1 DEF ResIInv, Written, FileIsComplete, Ended, Untouched
  <2>9. QED
    BY <2>5, <2>6, <2>7, <2>8 DEF ResIInv
<1>3. QED
  BY <1>1, <1>2 DEF GetNics

LEMMA WriteFileStep == ASSUME ResIInv, command = "resources", WriteFile PROVE ResIInv'
<1>1. CASE /\ Failed("resources", "write") /\ pc' = "fatal"
           /\ \E f \in {"untouched", "cut off"} : report' = [Untouched EXCEPT !.file = f]
  <2>1. PICK f \in {"untouched", "cut off"} : report' = [file |-> f, nodes |-> {}]
    BY <1>1 DEF Untouched
  <2>2. /\ report'.nodes = {} /\ report'.file \in {"untouched", "cut off"}
        /\ report' \in [file : {"untouched", "whole", "cut off"}, nodes : SUBSET Entry]
    BY <2>1
  <2>3. QED
    BY <1>1, <2>2, ResFailure DEF Failed, Ended
<1>2. CASE /\ Answered("resources", "write") /\ pc' = "done"
           /\ report' = [file |-> "whole", nodes |-> known.nodes] /\ UNCHANGED known
  <2>1. pc = "write" /\ UNCHANGED <<command, world, steady, known>>
    BY <1>2 DEF Answered
  <2>2. ResTypes'
    BY <1>2, <2>1 DEF ResIInv, ResTypes, Ended
  <2>3. Partition' /\ Collection' /\ Written'
    BY <1>2, <2>1 DEF ResIInv, Partition, Collection, Excused, DisksIn, Complete, Written, Ended
  <2>4. FileIsComplete'
    BY <1>2, <2>1 DEF ResIInv, Partition, NodesOf, Current, FileIsComplete
  <2>5. QED
    BY <2>2, <2>3, <2>4 DEF ResIInv
<1>3. QED
  BY <1>1, <1>2 DEF WriteFile

LEMMA ResStep == ResIInv /\ [Next]_vars => ResIInv'
<1> SUFFICES ASSUME ResIInv, [Next]_vars, command' = "resources" PROVE ResIInv'
  BY DEF ResIInv
<1>1. CASE UNCHANGED vars
  BY <1>1 DEF vars, ResIInv, ResTypes, Partition, NodesOf, Current, Collection, Excused, DisksIn,
              Complete, Written, FileIsComplete
<1>2. CASE HealthNext \/ DrNext
  <2>1. command' \in {"health", "dr-prereq"}
    BY <1>2 DEF HealthNext, DrNext, GetNooBaaPhase, ListPods, LookAtPod, GetSubmariner, GetLocal, GetPeer,
                Change, Answered, Failed
  <2>2. QED
    BY <2>1
<1>3. CASE ResourcesNext
  <2>1. command = "resources"
    BY <1>3 DEF ResourcesNext, ListNodes, GetDisks, GetMountedDisks, GetNics, WriteFile, Change,
                Answered, Failed
  <2>2. QED
    BY <1>3, <2>1, ListNodesStep, GetDisksStep, GetMountedDisksStep, GetNicsStep, WriteFileStep,
       ResChange DEF ResourcesNext
<1>4. QED
  BY <1>1, <1>2, <1>3 DEF Next

LEMMA ResStart == Init => ResIInv
  BY ResInitFacts DEF Init, HealthInit, DrInit, Begin, ResIInv

\* The inductive invariant of BenchmarkResources.
THEOREM ResInvariance == Spec => []ResIInv
<1>1. QED
  BY ResStart, ResStep, PTL DEF Spec

\* A file that was written has every node, once.
THEOREM FileAlwaysComplete == Spec => []FileIsComplete
<1>1. ResIInv => FileIsComplete
  BY DEF ResIInv, FileIsComplete
<1>2. QED
  BY <1>1, ResInvariance, PTL

\* On a node that does not change, the lists of disks are right, but for mounted
\* partitions.
THEOREM DisksAlwaysExcused == Spec => []DisksAreExcused
<1>1. ResIInv => DisksAreExcused
  <2> SUFFICES ASSUME ResIInv, command = "resources", NEW e \in report.nodes, e.node \in steady
               PROVE  Excused(e.node, e.disks)
    BY DEF DisksAreExcused, Excused, DisksIn
  <2>1. QED
    BY DEF ResIInv, Written, Collection
<1>2. QED
  BY <1>1, ResInvariance, PTL

\* Whatever the interfaces are called, none without a parent is too long.
THEOREM OnlyChildrenEverTooLong == Spec => []OnlyChildrenTooLong
<1>1. ResIInv => OnlyChildrenTooLong
  BY DEF ResIInv, Written, Collection, Complete, OnlyChildrenTooLong
<1>2. QED
  BY <1>1, ResInvariance, PTL

-----------------------------------------------------------------------------
(* The types of Reports.                                                   *)

LEMMA HealthTyped == HealthTypes => HealthTypeOK
<1> SUFFICES ASSUME HealthTypes PROVE HealthTypeOK
  OBVIOUS
<1> DEFINE pods == [p \in CorePods |-> world[p]]
<1>1. world.noobaa \in Phases /\ pods \in [CorePods -> Pods]
  BY DEF HealthTypes
<1>2. world = HealthWorld(world.noobaa, pods)
  BY CorePodsAssumption DEF HealthTypes, HealthWorld
<1> HIDE DEF pods
<1>3. world \in HealthWorlds
  BY <1>1, <1>2 DEF HealthWorlds
<1>4. QED
  BY <1>3 DEF HealthTypes, HealthTypeOK

LEMMA DrTyped == DrTypes => DrTypeOK
<1> SUFFICES ASSUME DrTypes PROVE DrTypeOK
  OBVIOUS
<1> DEFINE clusters == [c \in ClusterIds |-> world[c]]
<1>1. world.submariner \in Submariners /\ clusters \in [ClusterIds -> Clusters]
  BY DEF DrTypes
<1>2. world = DrWorld(world.submariner, clusters)
  BY NoIdAssumption DEF DrTypes, DrWorld
<1> HIDE DEF clusters
<1>3. world \in DrWorlds
  BY <1>1, <1>2 DEF DrWorlds
<1>4. QED
  BY <1>3 DEF DrTypes, DrTypeOK

LEMMA ResTyped == ResTypes => ResourcesTypeOK
<1> SUFFICES ASSUME ResTypes PROVE ResourcesTypeOK
  OBVIOUS
<1> DEFINE disks == [n \in Nodes |-> world[n]]
<1>1. world.nodes \in SUBSET Nodes /\ disks \in [Nodes -> [Disks -> Uses]]
  BY DEF ResTypes
<1>2. world = World(world.nodes, disks)
  BY NodesAssumption DEF ResTypes, World
<1> HIDE DEF disks
<1>3. world \in ResourcesWorlds
  BY <1>1, <1>2 DEF ResourcesWorlds
<1>4. QED
  BY <1>3 DEF ResTypes, ResourcesTypeOK

\* Nobody runs another command than the three.
OneOfThree == command \in {"health", "dr-prereq", "resources"}

LEMMA CommandStays == Spec => []OneOfThree
<1>1. Init => OneOfThree
  BY DEF Init, HealthInit, DrInit, ResourcesInit, Begin, OneOfThree
<1>2. OneOfThree /\ [Next]_vars => OneOfThree'
  BY DEF OneOfThree, vars, Next, HealthNext, DrNext, ResourcesNext, GetNooBaaPhase, ListPods,
         LookAtPod, GetSubmariner, GetLocal, GetPeer, ListNodes, GetDisks, GetMountedDisks,
         GetNics, WriteFile, Change, Answered, Failed
<1>3. QED
  BY <1>1, <1>2, PTL DEF Spec

\* The variables keep the types that the command gives them.
THEOREM TypeCorrect == Spec => []TypeOK
<1>1. HealthIInv /\ DrIInv /\ ResIInv /\ OneOfThree => TypeOK
  <2> SUFFICES ASSUME HealthIInv, DrIInv, ResIInv, OneOfThree PROVE TypeOK
    OBVIOUS
  <2>1. command = "health" => HealthTypeOK /\ steady \subseteq DOMAIN world
    BY HealthTyped DEF HealthIInv, HealthTypes
  <2>2. command = "dr-prereq" => DrTypeOK /\ steady \subseteq DOMAIN world
    BY DrTyped DEF DrIInv, DrTypes
  <2>3. command = "resources" => ResourcesTypeOK /\ steady \subseteq DOMAIN world
    BY ResTyped DEF ResIInv, ResTypes
  <2>4. QED
    BY <2>1, <2>2, <2>3 DEF OneOfThree, TypeOK
<1>2. QED
  BY <1>1, HealthInvariance, DrInvariance, ResInvariance, CommandStays, PTL
=============================================================================
