------------------------ MODULE RestoreDeletedProofs ------------------------
(* What holds of RestoreDeleted for any number of sessions, any requests,  *)
(* and whichever deployment RestoreCrd scales.                             *)
EXTENDS RestoreDeleted, TLAPS

-----------------------------------------------------------------------------
(* Types.                                                                  *)

LEMMA TypeInit == Init => TypeOK
<1> SUFFICES ASSUME Init PROVE TypeOK
  OBVIOUS
<1>1. cr \in Cr /\ cr.state = "live"
  BY BoundsAssumption DEF Init, Cr
<1>2. \A s \in Sessions : pc[s] \notin Running
  BY DEF Init, Running, Section, Repair
<1>3. written \in 1..MaxRev /\ stale \subseteq Sessions
  BY BoundsAssumption DEF Init
<1>4. QED
  BY <1>1, <1>2, <1>3 DEF Init, TypeOK, Running, Section, Repair

\* A reply, whichever it is, moves the session on or ends it.
LEMMA MoveType ==
  ASSUME TypeOK, NEW s \in Sessions, pc[s] \in Running,
         NEW next \in {"done"} \union Running, Reply(s, next),
         UNCHANGED copy,
         next \in Section \ {"parse"} => Parses(request[s]),
         next \in {"prompt", "innerDown", "strip", "finalizers", "recreate", "innerUp"}
            => copy[s] \in Cr
  PROVE  /\ pc' \in [Sessions -> {"idle", "done", "fatal"} \union Running]
         /\ request' \in [Sessions -> Requests \union {NoRequest}]
         /\ copy' \in [Sessions -> Cr \union {NoCopy}]
         /\ diedAt' \in [Sessions -> {"none"} \union Running]
         /\ \A t \in Sessions :
              /\ pc'[t] \in Running => request'[t] \in Requests
              /\ pc'[t] \in Section \ {"parse"} => Parses(request'[t])
              /\ pc'[t] \in {"prompt", "innerDown", "strip", "finalizers", "recreate", "innerUp"}
                   => copy'[t] \in Cr
<1>1. CASE Goto(s, next)
  BY <1>1 DEF TypeOK, Goto
<1>2. CASE Die(s)
  BY <1>2 DEF TypeOK, Die, Running, Section, Repair
<1>3. QED
  BY <1>1, <1>2 DEF Reply

LEMMA TypeStep == TypeOK /\ [Next]_vars => TypeOK'
<1> SUFFICES ASSUME TypeOK, [Next]_vars PROVE TypeOK'
  OBVIOUS
<1> USE BoundsAssumption, InnerAssumption DEF edits
<1>0. ASSUME NEW d \in Deployments, NEW n \in {0, 1}, SetDeploymentScale(d, n)
      PROVE  scale' \in [Deployments -> {0, 1}]
  BY <1>0 DEF SetDeploymentScale, TypeOK
<1>a. "ocs-operator" \in Deployments
  BY DEF Deployments
<1>b. "idle" \notin Running /\ Section \subseteq Running
  BY DEF Running, Section, Repair
<1>1. ASSUME NEW s \in Sessions, NEW r \in Requests, Invoke(s, r) PROVE TypeOK'
  BY <1>1 DEF Invoke, TypeOK, Running, Section, Repair, cluster
<1>2. ASSUME NEW s \in Sessions, WaitForPodToRun(s) PROVE TypeOK'
  BY <1>2, MoveType DEF WaitForPodToRun, TypeOK, Reply, Running, Section, Repair, cluster
<1>3. ASSUME NEW s \in Sessions, ScaleDown(s) PROVE TypeOK'
  <2>1. scale' \in [Deployments -> {0, 1}] /\ overlap' \in BOOLEAN
    BY <1>0, <1>a, <1>3 DEF ScaleDown
  <2>2. QED
    BY <1>3, <2>1, MoveType DEF ScaleDown, TypeOK, Running, Section, Repair
<1>4. ASSUME NEW s \in Sessions, Parse(s) PROVE TypeOK'
  BY <1>4, MoveType DEF Parse, TypeOK, Reply, Running, Section, Repair, cluster
<1>5. ASSUME NEW s \in Sessions, List(s) PROVE TypeOK'
  <2>1. CASE Die(s) /\ UNCHANGED copy
    BY <1>5, <2>1, MoveType DEF List, TypeOK, Reply, Running, Section, Repair, cluster
  <2>2. CASE TakeCopy(s) /\ Goto(s, "prompt")
    BY <1>5, <2>2 DEF List, TakeCopy, Goto, TypeOK, Running, Section, Repair, cluster
  <2>3. CASE NothingToRestore(s) /\ UNCHANGED copy
    BY <1>5, <2>3 DEF List, NothingToRestore, Goto, TypeOK, Running, Section, Repair, cluster
  <2>4. QED
    BY <1>5, <2>1, <2>2, <2>3 DEF List
<1>6. ASSUME NEW s \in Sessions, Answer(s) PROVE TypeOK'
  BY <1>6, MoveType DEF Answer, TypeOK, Reply, Running, Section, Repair, cluster
<1>7. ASSUME NEW s \in Sessions, InnerDown(s) PROVE TypeOK'
  BY <1>0, <1>7, MoveType DEF InnerDown, TypeOK, Running, Section, Repair
<1>8. ASSUME NEW s \in Sessions, Strip(s) PROVE TypeOK'
  BY <1>8, MoveType DEF Strip, TypeOK, Running, Section, Repair
<1>9. ASSUME NEW s \in Sessions, Finalizers(s) PROVE TypeOK'
  <2>1. /\ cr' \in Cr /\ (cr'.state # "live" => cr'.life < MaxLives)
        /\ owned' \subseteq Children(kind) /\ collected' \in BOOLEAN
    BY <1>9 DEF Finalizers, TypeOK, Cr
  <2>2. QED
    BY <1>9, <2>1, MoveType DEF Finalizers, TypeOK, Running, Section, Repair
<1>10. ASSUME NEW s \in Sessions, Recreate(s) PROVE TypeOK'
  <2>1. cr' \in Cr /\ (cr'.state # "live" => cr'.life < MaxLives)
    BY <1>10 DEF Recreate, SpecOf, TypeOK, Cr
  <2>2. QED
    BY <1>10, <2>1, MoveType DEF Recreate, OnAlreadyExists, Reply, TypeOK, Running, Section, Repair
<1>11. ASSUME NEW s \in Sessions, InnerUp(s) PROVE TypeOK'
  BY <1>0, <1>11, MoveType DEF InnerUp, TypeOK, Running, Section, Repair
<1>12. ASSUME NEW s \in Sessions, ScaleUp(s) PROVE TypeOK'
  BY <1>0, <1>a, <1>12, MoveType DEF ScaleUp, TypeOK, Running, Section, Repair
<1>13. ASSUME NEW s \in Sessions, Abort(s) PROVE TypeOK'
  BY <1>13, MoveType DEF Abort, Reply, TypeOK, cluster
<1>14. CASE DeleteCr
  BY <1>14 DEF DeleteCr, TypeOK, Cr
<1>15. CASE EditCr
  BY <1>15 DEF EditCr, TypeOK, Cr, Holding
<1>16. CASE OcsReconcile
  BY <1>16 DEF OcsReconcile, TypeOK, Cr
<1>17. CASE Adopt
  BY <1>17 DEF Adopt, TypeOK
<1>18. CASE UNCHANGED vars
  BY <1>18 DEF vars, TypeOK
<1>19. QED
  BY <1>1, <1>2, <1>3, <1>4, <1>5, <1>6, <1>7, <1>8, <1>9, <1>10, <1>11, <1>12,
     <1>13, <1>14, <1>15, <1>16, <1>17, <1>18 DEF Next, Proceed

\* Type correctness: no session re-creates a CR it has not read, or lists a
\* group that is not in the table.
THEOREM TypeCorrect == Spec => []TypeOK
BY TypeInit, TypeStep, PTL DEF Spec

-----------------------------------------------------------------------------
(* The inductive invariant.                                                *)

\* A session that ended in an error is no longer running.
Deaths == \A s \in Sessions : diedAt[s] # "none" => pc[s] = "fatal"

\* Without an overlap at most one session is at work.
Alone ==
  overlap \/ \A s, t \in Sessions : pc[s] \in Section /\ pc[t] \in Section => s = t

\* The steps at which a session that goes on will still scale d up.
HeldDown(d) ==
  IF d = "ocs-operator" THEN Section ELSE {"strip", "finalizers", "recreate", "innerUp"}

\* The session that scaled d down last has not scaled it up since.
DownHeld ==
  \A d \in Deployments : scale[d] = 0 =>
    /\ d \in {"ocs-operator", Inner}
    /\ \E s \in Sessions :
         pc[s] \in HeldDown(d) \/ diedAt[s] \in HeldDown(d) \union {"scaleDown", "innerDown"}

\* From the prompt to the finalizers a session has a copy of a CR it was asked
\* for. Either that CR is still there, being deleted and without children when
\* the finalizers go, or it has been replaced.
FocusOf(s) ==
  pc[s] \in Holding \ {"recreate"} =>
    /\ Matches(request[s])
    /\ copy[s].life =< cr.life
    /\ copy[s].life = cr.life => cr.state # "live"
    /\ copy[s].life = cr.life /\ cr.state = "deleting" /\ pc[s] = "finalizers"
         => owned = {}

Focus == \A s \in Sessions : FocusOf(s)

\* A CR that is gone has a session about to re-create it, or had.
GoneHeld == cr.state = "gone" => Lost \/ \E s \in Sessions : pc[s] = "recreate"

\* Of the sessions about to re-create the CR one will fail, or has: there are
\* two for one CR, or the CR is back already.
OneTooMany ==
  \/ Lost
  \/ \E s \in Sessions :
       /\ pc[s] = "recreate"
       /\ cr.state = "gone" => \E t \in Sessions \ {s} : pc[t] = "recreate"

\* The default spec, in the CR or in a copy that may become its spec again.
DefaultExcused ==
  cr.rev = 0 \/ (\E s \in Sessions : pc[s] \in Holding /\ copy[s].rev = 0)
    => Lost \/ (overlap /\ OneTooMany)

\* An old spec, in the CR or in a copy that nobody knows to be stale.
OldExcused ==
  cr.rev # written \/ (\E s \in Sessions \ stale : pc[s] \in Holding /\ copy[s].rev # written)
    => WroteStale \/ Lost \/ (overlap /\ OneTooMany)

IInv ==
  /\ TypeOK /\ Deaths /\ Alone /\ DownHeld /\ OcsDownDuringRepair
  /\ Focus /\ GoneHeld /\ DefaultExcused /\ OldExcused

-----------------------------------------------------------------------------
(* Who moves, and how.                                                     *)

\* What a step of s does to the sessions' variables: those of all others stay,
\* and s dies where it is, or goes on without a trace in the history.
SessionMove(s) ==
  /\ \A t \in Sessions \ {s} : /\ pc'[t] = pc[t] /\ request'[t] = request[t]
                               /\ copy'[t] = copy[t] /\ diedAt'[t] = diedAt[t]
  /\ \/ pc[s] \in Running /\ pc'[s] = "fatal" /\ diedAt'[s] = pc[s]
     \/ pc[s] \in {"idle"} \union Running /\ pc'[s] # "fatal" /\ diedAt'[s] = diedAt[s]
  /\ pc[s] \in Running => request'[s] = request[s]
  /\ pc[s] # "list" => copy'[s] = copy[s]

\* A session enters its section from "scaleDown" only, and that is where an
\* overlap is noticed.
Entry(s) ==
  /\ overlap => overlap'
  /\ pc'[s] \in Section => pc[s] \in Section \/ pc[s] = "scaleDown"
  /\ pc[s] = "scaleDown" /\ pc'[s] \in Section
       => overlap' \/ ~ \E t \in Sessions : pc[t] \in Section

LEMMA GotoMoves ==
  ASSUME TypeOK, NEW s \in Sessions, pc[s] \in Running, UNCHANGED copy,
         NEW next, Reply(s, next), next # "fatal"
  PROVE  SessionMove(s) /\ pc'[s] \in {next, "fatal"}
BY DEF Reply, Goto, Die, SessionMove, TypeOK

LEMMA SessionMoves ==
  ASSUME TypeOK, NEW s \in Sessions,
         (\E r \in Requests : Invoke(s, r)) \/ Proceed(s) \/ Answer(s) \/ Abort(s)
  PROVE  SessionMove(s) /\ Entry(s)
<1> USE DEF Running, Section, Repair
<1>1. ASSUME NEW r \in Requests, Invoke(s, r) PROVE SessionMove(s) /\ Entry(s)
  BY <1>1 DEF Invoke, SessionMove, Entry, TypeOK
<1>2. CASE WaitForPodToRun(s)
  BY <1>2, GotoMoves DEF WaitForPodToRun, Reply, Entry
<1>3. CASE ScaleDown(s)
  BY <1>3, GotoMoves DEF ScaleDown, Entry
<1>4. CASE Parse(s)
  BY <1>4, GotoMoves DEF Parse, Reply, Entry
<1>5. CASE List(s)
  BY <1>5 DEF List, TakeCopy, NothingToRestore, Goto, Die, SessionMove, Entry, TypeOK
<1>6. CASE Answer(s)
  BY <1>6, GotoMoves DEF Answer, Reply, Entry
<1>7. CASE InnerDown(s)
  BY <1>7, GotoMoves DEF InnerDown, Entry
<1>8. CASE Strip(s)
  BY <1>8, GotoMoves DEF Strip, Entry
<1>9. CASE Finalizers(s)
  BY <1>9, GotoMoves DEF Finalizers, Entry
<1>10. CASE Recreate(s)
  BY <1>10, GotoMoves DEF Recreate, OnAlreadyExists, Reply, Entry
<1>11. CASE InnerUp(s)
  BY <1>11, GotoMoves DEF InnerUp, Entry
<1>12. CASE ScaleUp(s)
  BY <1>12, GotoMoves DEF ScaleUp, Entry
<1>13. CASE Abort(s)
  BY <1>13 DEF Abort, Die, SessionMove, Entry, TypeOK
<1>14. QED
  BY <1>1, <1>2, <1>3, <1>4, <1>5, <1>6, <1>7, <1>8, <1>9, <1>10, <1>11, <1>12, <1>13
     DEF Proceed

\* The steps of the cluster concern the CR, its edits and its children only.
ClusterMove ==
  UNCHANGED <<scale, kind, collected, pc, request, copy, diedAt, overlap>>

LEMMA ClusterMoves ==
  DeleteCr \/ EditCr \/ OcsReconcile \/ Adopt \/ UNCHANGED vars => ClusterMove
BY DEF DeleteCr, EditCr, OcsReconcile, Adopt, vars, ClusterMove

LEMMA WhoMoves ==
  ASSUME TypeOK, [Next]_vars
  PROVE  ClusterMove \/ \E s \in Sessions : SessionMove(s) /\ Entry(s)
BY SessionMoves, ClusterMoves DEF Next

LEMMA DeathsStep == TypeOK /\ Deaths /\ [Next]_vars => Deaths'
BY WhoMoves DEF Deaths, SessionMove, ClusterMove, Running, Section, Repair

LEMMA AloneStep == TypeOK /\ Alone /\ [Next]_vars => Alone'
<1> SUFFICES ASSUME TypeOK, Alone, [Next]_vars PROVE Alone'
  OBVIOUS
<1>1. CASE ClusterMove
  BY <1>1 DEF ClusterMove, Alone
<1>2. ASSUME NEW s \in Sessions, SessionMove(s), Entry(s) PROVE Alone'
  BY <1>2 DEF SessionMove, Entry, Alone
<1>3. QED
  BY <1>1, <1>2, WhoMoves

-----------------------------------------------------------------------------
(* The operators.                                                          *)

\* A deployment goes down in the hands of s, and s does not let go of it
\* before it has scaled it up.
Hold(s, d) ==
  /\ scale[d] # 0 /\ scale'[d] = 0
       => /\ d \in {"ocs-operator", Inner}
          /\ pc'[s] \in HeldDown(d) \/ diedAt'[s] \in {"scaleDown", "innerDown"}
  /\ scale'[d] = 0 /\ pc[s] \in HeldDown(d) /\ d \in {"ocs-operator", Inner}
       => pc'[s] \in HeldDown(d) \/ diedAt'[s] \in HeldDown(d)

LEMMA Holds ==
  ASSUME TypeOK, NEW s \in Sessions, NEW d \in Deployments,
         (\E r \in Requests : Invoke(s, r)) \/ Proceed(s) \/ Answer(s) \/ Abort(s)
  PROVE  Hold(s, d)
<1> USE InnerAssumption DEF HeldDown, Section, Repair, Deployments
<1>1. ASSUME NEW r \in Requests, Invoke(s, r) PROVE Hold(s, d)
  BY <1>1 DEF Invoke, Hold, cluster
<1>2. CASE WaitForPodToRun(s) \/ Parse(s) \/ List(s) \/ Answer(s) \/ Abort(s)
  <2>1. UNCHANGED scale
    BY <1>2 DEF WaitForPodToRun, Parse, List, Answer, Abort, cluster
  <2>2. CASE Die(s)
    BY <2>1, <2>2 DEF Die, Hold, TypeOK
  <2>3. CASE ~Die(s)
    BY <1>2, <2>1, <2>3
       DEF WaitForPodToRun, Parse, List, NothingToRestore, Answer, Abort, Goto, Hold, TypeOK
  <2>4. QED
    BY <2>2, <2>3
<1>3. CASE ScaleDown(s)
  BY <1>3 DEF ScaleDown, SetDeploymentScale, Reply, Goto, Die, Hold, TypeOK
<1>4. CASE InnerDown(s)
  BY <1>4 DEF InnerDown, SetDeploymentScale, Reply, Goto, Die, Hold, TypeOK
<1>5. CASE Strip(s) \/ Finalizers(s) \/ Recreate(s)
  <2>1. UNCHANGED scale
    BY <1>5 DEF Strip, Finalizers, Recreate
  <2>2. CASE Die(s)
    BY <2>1, <2>2 DEF Die, Hold, TypeOK
  <2>3. CASE ~Die(s)
    BY <1>5, <2>1, <2>3 DEF Strip, Finalizers, Recreate, OnAlreadyExists, Reply, Goto, Hold, TypeOK
  <2>4. QED
    BY <2>2, <2>3
<1>6. CASE InnerUp(s)
  BY <1>6 DEF InnerUp, SetDeploymentScale, Reply, Goto, Die, Hold, TypeOK
<1>7. CASE ScaleUp(s)
  BY <1>7 DEF ScaleUp, SetDeploymentScale, Reply, Goto, Die, Hold, TypeOK
<1>8. QED
  BY <1>1, <1>2, <1>3, <1>4, <1>5, <1>6, <1>7 DEF Proceed

LEMMA DownHeldStep == TypeOK /\ Deaths /\ DownHeld /\ [Next]_vars => DownHeld'
<1> SUFFICES ASSUME TypeOK, Deaths, DownHeld, [Next]_vars,
                    NEW d \in Deployments, scale'[d] = 0
             PROVE  /\ d \in {"ocs-operator", Inner}
                    /\ \E s \in Sessions :
                         \/ pc'[s] \in HeldDown(d)
                         \/ diedAt'[s] \in HeldDown(d) \union {"scaleDown", "innerDown"}
  BY DEF DownHeld, HeldDown
<1>1. CASE ClusterMove
  BY <1>1 DEF ClusterMove, DownHeld
<1>2. ASSUME NEW s \in Sessions,
             (\E r \in Requests : Invoke(s, r)) \/ Proceed(s) \/ Answer(s) \/ Abort(s)
      PROVE  /\ d \in {"ocs-operator", Inner}
             /\ \E t \in Sessions :
                  \/ pc'[t] \in HeldDown(d)
                  \/ diedAt'[t] \in HeldDown(d) \union {"scaleDown", "innerDown"}
  <2>1. Hold(s, d) /\ SessionMove(s)
    BY <1>2, Holds, SessionMoves
  <2>2. CASE scale[d] # 0
    BY <2>1, <2>2 DEF Hold
  <2>3. CASE scale[d] = 0
    <3>1. PICK t \in Sessions :
            pc[t] \in HeldDown(d) \/ diedAt[t] \in HeldDown(d) \union {"scaleDown", "innerDown"}
      BY <2>3 DEF DownHeld
    <3>2. d \in {"ocs-operator", Inner}
      BY <2>3 DEF DownHeld
    <3>3. CASE t # s
      BY <2>1, <3>1, <3>2, <3>3 DEF SessionMove
    <3>4. CASE t = s
      <4>1. pc[s] # "fatal"
        BY <2>1 DEF SessionMove, Running, Section, Repair
      <4>2. diedAt[s] = "none"
        BY <4>1 DEF Deaths
      <4>3. pc[s] \in HeldDown(d)
        BY <3>1, <3>4, <4>2 DEF HeldDown, Section, Repair
      <4>4. QED
        BY <2>1, <3>2, <4>3 DEF Hold
    <3>5. QED
      BY <3>3, <3>4
  <2>4. QED
    BY <2>2, <2>3
<1>3. QED
  BY <1>1, <1>2, ClusterMoves DEF Next

LEMMA OcsDownStep ==
  TypeOK /\ Alone /\ OcsDownDuringRepair /\ [Next]_vars => OcsDownDuringRepair'
<1> SUFFICES ASSUME TypeOK, Alone, OcsDownDuringRepair, [Next]_vars,
                    NEW t \in Sessions, pc'[t] \in Repair, ~overlap'
             PROVE  scale'["ocs-operator"] = 0
  BY DEF OcsDownDuringRepair
<1> USE DEF Section, Repair
<1>1. CASE ClusterMove
  BY <1>1 DEF ClusterMove, OcsDownDuringRepair
<1>2. ASSUME NEW s \in Sessions,
             (\E r \in Requests : Invoke(s, r)) \/ Proceed(s) \/ Answer(s) \/ Abort(s)
      PROVE  scale'["ocs-operator"] = 0
  <2>1. SessionMove(s) /\ Entry(s)
    BY <1>2, SessionMoves
  <2>2. CASE UNCHANGED scale /\ pc[t] \in Repair
    BY <2>1, <2>2 DEF Entry, OcsDownDuringRepair
  <2>3. ASSUME ~(UNCHANGED scale)
        PROVE  \/ ScaleDown(s) \/ ScaleUp(s)
               \/ InnerDown(s) \/ InnerUp(s)
    BY <1>2, <2>3
       DEF Invoke, Proceed, Answer, Abort, WaitForPodToRun, Parse, List, Strip,
           Finalizers, Recreate, cluster
  <2>4. CASE ScaleDown(s)
    BY <2>4 DEF ScaleDown, SetDeploymentScale, TypeOK, Deployments
  <2>5. CASE ScaleUp(s)
    <3>1. pc'[s] \notin Repair /\ pc[s] \in Section
      BY <2>5 DEF ScaleUp, Reply, Goto, Die, TypeOK
    <3>2. t # s /\ pc[t] \in Section
      BY <2>1, <3>1 DEF SessionMove
    <3>3. QED
      BY <2>1, <3>1, <3>2 DEF Alone, Entry
  <2>6. CASE InnerDown(s)
    <3>1. pc[s] \in Repair /\ ~overlap
      BY <2>1, <2>6 DEF InnerDown, Entry
    <3>2. scale["ocs-operator"] = 0
      BY <3>1 DEF OcsDownDuringRepair
    <3>3. QED
      BY <2>6, <3>2 DEF InnerDown, SetDeploymentScale, TypeOK, Deployments
  <2>7. CASE InnerUp(s)
    <3>1. pc'[s] \notin Repair /\ pc[s] \in Section
      BY <2>7 DEF InnerUp, Reply, Goto, Die, TypeOK
    <3>2. t # s /\ pc[t] \in Section
      BY <2>1, <3>1 DEF SessionMove
    <3>3. QED
      BY <2>1, <3>1, <3>2 DEF Alone, Entry
  <2>8. ASSUME pc[t] \notin Repair PROVE ScaleDown(s)
    <3>1. t = s
      BY <2>1, <2>8 DEF SessionMove
    <3>2. pc[s] = "scaleDown" \/ pc[s] = "scaleUp"
      BY <2>1, <2>8, <3>1 DEF Entry
    <3>3. ~ScaleUp(s)
      BY <3>1 DEF ScaleUp, Reply, Goto, Die, TypeOK
    <3>4. pc'[s] # "fatal"
      BY <3>1
    <3>5. QED
      BY <1>2, <3>2, <3>3, <3>4
         DEF Invoke, Proceed, Answer, Abort, WaitForPodToRun, Parse, List, InnerDown, Strip,
             Finalizers, Recreate, InnerUp, Die, TypeOK
  <2>9. QED
    BY <2>2, <2>3, <2>4, <2>5, <2>6, <2>7, <2>8
<1>3. QED
  BY <1>1, <1>2, ClusterMoves DEF Next

-----------------------------------------------------------------------------
(* The CR and its children.                                                *)

\* Only three steps of a session touch the CR and its children.
LEMMA CrFrame ==
  ASSUME NEW s \in Sessions,
         (\E r \in Requests : Invoke(s, r)) \/ Proceed(s) \/ Answer(s) \/ Abort(s)
  PROVE  \/ UNCHANGED <<kind, cr, owned, collected>>
         \/ Strip(s) \/ Finalizers(s) \/ Recreate(s)
BY DEF Invoke, Proceed, Answer, Abort, WaitForPodToRun, ScaleDown, Parse, List,
       InnerDown, InnerUp, ScaleUp, cluster

\* Once its request matches, a strip leaves no child with an owner.
LEMMA StripStripsAll ==
  ASSUME TypeOK, NEW s \in Sessions, Strip(s), Matches(request[s]), copy[s].life = cr.life
  PROVE  owned' = {}
<1>1. Children(kind) \subseteq {"core"} \union CustomGroups(request[s])
  BY DEF Matches, Children, CustomGroups
<1>2. QED
  BY <1>1 DEF Strip, TypeOK

\* What happens to the CR never makes it the live one a session has read, or gives
\* it children again while it is being deleted.
CrMovesOn ==
  /\ kind' = kind
  /\ cr'.life >= cr.life
  /\ cr'.life = cr.life /\ cr'.state = "live" => cr.state = "live"
  /\ cr'.life = cr.life /\ cr'.state = "deleting" /\ cr.state # "live" /\ owned = {}
       => cr.state = "deleting" /\ owned' = {}
  /\ cr'.life = cr.life /\ cr'.state = "deleting" /\ cr.state # "live"
       => cr.state = "deleting"

LEMMA CrMoves == TypeOK /\ [Next]_vars => CrMovesOn
<1> SUFFICES ASSUME TypeOK, [Next]_vars PROVE CrMovesOn
  OBVIOUS
<1> USE DEF TypeOK, Cr, CrMovesOn
<1>1. CASE DeleteCr
  BY <1>1 DEF DeleteCr
<1>2. CASE EditCr
  BY <1>2 DEF EditCr
<1>3. CASE OcsReconcile
  BY <1>3 DEF OcsReconcile
<1>4. CASE Adopt
  BY <1>4 DEF Adopt
<1>5. CASE UNCHANGED vars
  BY <1>5 DEF vars
<1>6. ASSUME NEW s \in Sessions, Strip(s) PROVE CrMovesOn
  BY <1>6 DEF Strip
<1>7. ASSUME NEW s \in Sessions, Finalizers(s) PROVE CrMovesOn
  BY <1>7 DEF Finalizers
<1>8. ASSUME NEW s \in Sessions, Recreate(s) PROVE CrMovesOn
  BY <1>8 DEF Recreate
<1>9. ASSUME UNCHANGED <<kind, cr, owned, collected>> PROVE CrMovesOn
  BY <1>9
<1>10. QED
  BY <1>1, <1>2, <1>3, <1>4, <1>5, <1>6, <1>7, <1>8, <1>9, CrFrame DEF Next

LEMMA FocusStep == TypeOK /\ Focus /\ [Next]_vars => Focus'
<1> SUFFICES ASSUME TypeOK, Focus, [Next]_vars, NEW t \in Sessions,
                    pc'[t] \in Holding \ {"recreate"}
             PROVE  FocusOf(t)'
  BY DEF Focus, FocusOf, Matches
<1>0. FocusOf(t) /\ CrMovesOn
  BY CrMoves DEF Focus, FocusOf
<1>l. cr.life \in Nat /\ cr'.life \in Nat
  BY TypeStep DEF TypeOK, Cr
<1>1. ASSUME pc'[t] = pc[t], request'[t] = request[t], copy'[t] = copy[t]
      PROVE  FocusOf(t)'
  <2>1. copy[t].life \in Nat
    BY <1>1 DEF TypeOK, Cr, Holding
  <2>2. QED
    BY <1>0, <1>1, <1>l, <2>1 DEF FocusOf, CrMovesOn, Matches
<1>2. CASE ClusterMove
  BY <1>1, <1>2 DEF ClusterMove
<1>3. ASSUME NEW s \in Sessions, s # t,
             (\E r \in Requests : Invoke(s, r)) \/ Proceed(s) \/ Answer(s) \/ Abort(s)
      PROVE  FocusOf(t)'
  BY <1>1, <1>3, SessionMoves DEF SessionMove
<1>4. ASSUME (\E r \in Requests : Invoke(t, r)) \/ Proceed(t) \/ Answer(t) \/ Abort(t)
      PROVE  FocusOf(t)'
  <2> USE DEF Holding, Running, Section, Repair
  <2>1. CASE List(t)
    BY <2>1, <1>l DEF List, TakeCopy, NothingToRestore, Goto, Die, FocusOf, Matches, TypeOK, cluster
  <2>2. CASE Answer(t)
    BY <1>0, <2>2 DEF Answer, Goto, Die, FocusOf, Matches, TypeOK, cluster
  <2>3. CASE InnerDown(t)
    BY <1>0, <2>3 DEF InnerDown, Reply, Goto, Die, FocusOf, Matches, TypeOK
  <2>4. CASE Strip(t)
    <3>1. Matches(request[t]) /\ UNCHANGED <<kind, cr, copy, request>> /\ pc[t] = "strip"
      BY <1>0, <2>4 DEF Strip, Reply, Goto, Die, FocusOf
    <3>2. copy[t].life = cr.life => owned' = {}
      BY <2>4, <3>1, StripStripsAll
    <3>3. QED
      BY <1>0, <3>1, <3>2 DEF FocusOf, Matches
  <2>5. CASE Finalizers(t) \/ Recreate(t) \/ InnerUp(t) \/ ScaleUp(t)
    BY <2>5 DEF Finalizers, Recreate, OnAlreadyExists, InnerUp, ScaleUp, Reply, Goto, Die, TypeOK
  <2>6. CASE WaitForPodToRun(t) \/ ScaleDown(t) \/ Parse(t) \/ Abort(t)
    BY <2>6 DEF WaitForPodToRun, ScaleDown, Parse, Abort, Reply, Goto, Die, TypeOK
  <2>7. CASE \E r \in Requests : Invoke(t, r)
    BY <2>7 DEF Invoke, TypeOK
  <2>8. QED
    BY <1>4, <2>1, <2>2, <2>3, <2>4, <2>5, <2>6, <2>7 DEF Proceed
<1>5. QED
  BY <1>2, <1>3, <1>4, ClusterMoves DEF Next

-----------------------------------------------------------------------------
(* The spec of the CR.                                                     *)

\* Overlaps and losses are not forgotten.
LEMMA HistoryGrows ==
  ASSUME TypeOK, Deaths, [Next]_vars
  PROVE  /\ overlap => overlap'
         /\ Lost => Lost'
<1>1. overlap => overlap'
  BY WhoMoves DEF ClusterMove, Entry
<1>2. ASSUME NEW s \in Sessions, diedAt[s] # "none" PROVE diedAt'[s] = diedAt[s]
  BY <1>2, WhoMoves DEF ClusterMove, SessionMove, Deaths, Running, Section, Repair
<1>3. QED
  BY <1>1, <1>2 DEF Lost

\* A session that was to re-create the CR has done so, or has died.
LEMMA Recreates ==
  ASSUME TypeOK, NEW s \in Sessions, pc[s] = "recreate", pc'[s] # "recreate", [Next]_vars,
         ~Lost'
  PROVE  /\ cr.state = "gone" /\ cr'.state = "live" /\ cr'.rev = copy[s].rev
         /\ pc'[s] = "innerUp"
         /\ \A t \in Sessions \ {s} : pc'[t] = pc[t]
<1>1. PICK t \in Sessions :
        (\E r \in Requests : Invoke(t, r)) \/ Proceed(t) \/ Answer(t) \/ Abort(t)
  BY ClusterMoves DEF Next, ClusterMove
<1>2. t = s /\ SessionMove(s)
  BY <1>1, SessionMoves DEF SessionMove
<1>3. pc'[s] # "fatal"
  BY <1>2 DEF SessionMove, Lost
<1>4. Recreate(s)
  BY <1>1, <1>2, <1>3
     DEF Invoke, Proceed, Answer, Abort, Die, WaitForPodToRun, ScaleDown, Parse, List,
         InnerDown, Strip, Finalizers, InnerUp, ScaleUp, TypeOK
<1>5. QED
  BY <1>2, <1>3, <1>4
     DEF Recreate, OnAlreadyExists, SpecOf, Reply, Goto, Die, SessionMove, TypeOK

\* The CR goes in the hands of a session, which then stands at its re-creation.
LEMMA GoesAway ==
  ASSUME TypeOK, cr.state # "gone", cr'.state = "gone", [Next]_vars, ~Lost'
  PROVE  \E s \in Sessions :
           /\ pc[s] = "finalizers" /\ pc'[s] = "recreate"
           /\ \A t \in Sessions \ {s} : pc'[t] = pc[t]
<1>1. PICK s \in Sessions : Finalizers(s)
  <2>1. ASSUME NEW s \in Sessions, Strip(s) \/ Recreate(s) PROVE FALSE
    BY <2>1 DEF Strip, Recreate
  <2>2. ~DeleteCr /\ ~EditCr /\ ~OcsReconcile /\ ~Adopt /\ ~UNCHANGED vars
    BY DEF DeleteCr, EditCr, OcsReconcile, Adopt, vars, TypeOK, Cr
  <2>3. QED
    BY <2>1, <2>2, CrFrame DEF Next
<1>2. pc[s] = "finalizers" /\ diedAt'[s] \notin {"finalizers", "recreate"}
  BY <1>1 DEF Finalizers, Lost
<1>3. Goto(s, "recreate")
  BY <1>1, <1>2 DEF Finalizers, Reply, Die, TypeOK
<1>4. QED
  BY <1>2, <1>3 DEF Goto, TypeOK

LEMMA GoneStep == TypeOK /\ Deaths /\ GoneHeld /\ [Next]_vars => GoneHeld'
<1> SUFFICES ASSUME TypeOK, Deaths, GoneHeld, [Next]_vars, cr'.state = "gone", ~Lost'
             PROVE  \E s \in Sessions : pc'[s] = "recreate"
  BY DEF GoneHeld
<1>1. CASE cr.state # "gone"
  BY <1>1, GoesAway
<1>2. CASE cr.state = "gone"
  <2>1. PICK t \in Sessions : pc[t] = "recreate"
    BY <1>2, HistoryGrows DEF GoneHeld
  <2>2. pc'[t] = "recreate"
    BY <2>1, Recreates
  <2>3. QED
    BY <2>2
<1>3. QED
  BY <1>1, <1>2

\* One that will fail can only be made to fail by a re-creation that leaves
\* another to fail.
LEMMA OneTooManyStays ==
  TypeOK /\ Deaths /\ OneTooMany /\ [Next]_vars => OneTooMany'
<1> SUFFICES ASSUME TypeOK, Deaths, OneTooMany, [Next]_vars, ~Lost'
             PROVE  \E s \in Sessions :
                      /\ pc'[s] = "recreate"
                      /\ cr'.state = "gone" => \E t \in Sessions \ {s} : pc'[t] = "recreate"
  BY DEF OneTooMany
<1>1. PICK s \in Sessions :
        /\ pc[s] = "recreate"
        /\ cr.state = "gone" => \E t \in Sessions \ {s} : pc[t] = "recreate"
  BY HistoryGrows DEF OneTooMany
<1>2. CASE pc'[s] # "recreate"
  <2>1. /\ cr.state = "gone" /\ cr'.state = "live"
        /\ \A t \in Sessions \ {s} : pc'[t] = pc[t]
    BY <1>1, <1>2, Recreates
  <2>2. QED
    BY <1>1, <2>1
<1>3. CASE pc'[s] = "recreate" /\ cr'.state = "gone" /\ cr.state = "gone"
  <2>1. PICK t \in Sessions \ {s} : pc[t] = "recreate"
    BY <1>1, <1>3
  <2>2. pc'[t] = "recreate"
    BY <1>3, <2>1, Recreates
  <2>3. QED
    BY <1>3, <2>2
<1>4. CASE pc'[s] = "recreate" /\ cr'.state = "gone" /\ cr.state # "gone"
  <2>1. PICK t \in Sessions : pc[t] = "finalizers" /\ pc'[t] = "recreate"
    BY <1>4, GoesAway
  <2>2. QED
    BY <1>1, <1>4, <2>1
<1>5. QED
  BY <1>2, <1>3, <1>4

\* ocs-operator creates a CR only if it is up, and then two sessions are at work.
LEMMA ReplacedOnlyThen ==
  ASSUME TypeOK, Deaths, OcsDownDuringRepair, GoneHeld, OcsReconcile
  PROVE  Lost' \/ (overlap' /\ OneTooMany')
<1>1. CASE Lost
  BY <1>1 DEF OcsReconcile, Lost
<1>2. ASSUME NEW s \in Sessions, pc[s] = "recreate" PROVE overlap' /\ OneTooMany'
  <2>1. overlap
    BY <1>2 DEF OcsReconcile, OcsDownDuringRepair, Repair
  <2>2. pc'[s] = "recreate" /\ cr'.state = "live"
    BY <1>2 DEF OcsReconcile
  <2>3. QED
    BY <2>1, <2>2 DEF OneTooMany, OcsReconcile
<1>3. QED
  BY <1>1, <1>2 DEF GoneHeld, OcsReconcile

\* Only by reading it does a session come to hold a copy.
LEMMA HeldCopy ==
  ASSUME TypeOK, [Next]_vars, NEW s \in Sessions, pc'[s] \in Holding
  PROVE  \/ pc[s] \in Holding /\ copy'[s] = copy[s]
         \/ copy'[s] = cr /\ UNCHANGED <<cr, written, stale>>
<1>1. CASE ClusterMove
  BY <1>1 DEF ClusterMove
<1>2. ASSUME NEW t \in Sessions, t # s, SessionMove(t)
      PROVE  pc[s] \in Holding /\ copy'[s] = copy[s]
  BY <1>2 DEF SessionMove
<1>3. CASE List(s)
  BY <1>3 DEF List, TakeCopy, NothingToRestore, Goto, Die, Holding, TypeOK, cluster, edits
<1>4. CASE Answer(s) \/ InnerDown(s) \/ Strip(s) \/ Finalizers(s)
  <2>1. pc[s] \in Holding /\ UNCHANGED copy
    BY <1>4 DEF Answer, InnerDown, Strip, Finalizers, Holding
  <2>2. QED
    BY <2>1
<1>5. CASE \/ WaitForPodToRun(s) \/ ScaleDown(s) \/ Parse(s) \/ Abort(s)
           \/ \E r \in Requests : Invoke(s, r)
  BY <1>5 DEF WaitForPodToRun, ScaleDown, Parse, Abort, Invoke, Reply, Goto, Die, Holding, TypeOK
<1>6. CASE Recreate(s) \/ InnerUp(s) \/ ScaleUp(s)
  BY <1>6 DEF Recreate, OnAlreadyExists, InnerUp, ScaleUp, Reply, Goto, Die, Holding, TypeOK
<1>7. QED
  BY <1>1, <1>2, <1>3, <1>4, <1>5, <1>6, SessionMoves, ClusterMoves DEF Next, Proceed

\* Who gives the CR another spec.
LEMMA SpecMoves ==
  ASSUME TypeOK, [Next]_vars
  PROVE  \/ UNCHANGED <<written, stale>> /\ cr'.rev = cr.rev
         \/ UNCHANGED <<written, stale>> /\ \E s \in Sessions : Recreate(s)
         \/ UNCHANGED <<written, stale>> /\ OcsReconcile
         \/ EditCr
<1>1. CASE DeleteCr \/ Adopt \/ UNCHANGED vars
  BY <1>1 DEF DeleteCr, Adopt, vars, edits, TypeOK, Cr
<1>2. CASE OcsReconcile
  BY <1>2 DEF OcsReconcile, edits
<1>3. ASSUME NEW s \in Sessions,
             (\E r \in Requests : Invoke(s, r)) \/ Proceed(s) \/ Answer(s) \/ Abort(s)
      PROVE  /\ UNCHANGED <<written, stale>>
             /\ cr'.rev = cr.rev \/ Recreate(s)
  <2>1. UNCHANGED <<written, stale>>
    BY <1>3 DEF Invoke, Proceed, Answer, Abort, WaitForPodToRun, ScaleDown, Parse, List,
                InnerDown, Strip, Finalizers, Recreate, InnerUp, ScaleUp, edits
  <2>2. ASSUME Strip(s) \/ Finalizers(s) PROVE cr'.rev = cr.rev
    BY <2>2 DEF Strip, Finalizers, TypeOK, Cr
  <2>3. QED
    BY <1>3, <2>1, <2>2, CrFrame
<1>4. QED
  BY <1>1, <1>2, <1>3 DEF Next

\* A re-creation that succeeds writes the copy, and so does one whose answer is lost.
LEMMA RecreateWrites ==
  ASSUME TypeOK, NEW s \in Sessions, Recreate(s)
  PROVE  /\ pc[s] = "recreate"
         /\ cr'.rev = cr.rev \/ cr'.rev = copy[s].rev
         /\ pc'[s] = "innerUp" \/ diedAt'[s] = "recreate"
BY DEF Recreate, OnAlreadyExists, SpecOf, Reply, Goto, Die, TypeOK

LEMMA DefaultStep ==
  ASSUME TypeOK, Deaths, OcsDownDuringRepair, GoneHeld, DefaultExcused, [Next]_vars
  PROVE  DefaultExcused'
<1> SUFFICES ASSUME ~(Lost' \/ (overlap' /\ OneTooMany'))
             PROVE  cr'.rev # 0 /\ \A s \in Sessions : pc'[s] \in Holding => copy'[s].rev # 0
  BY DEF DefaultExcused
<1>1. ~(Lost \/ (overlap /\ OneTooMany))
  BY HistoryGrows, OneTooManyStays
<1>2. cr.rev # 0 /\ \A s \in Sessions : pc[s] \in Holding => copy[s].rev # 0
  BY <1>1 DEF DefaultExcused
<1>3. cr'.rev # 0
  <2>1. ASSUME NEW s \in Sessions, Recreate(s) PROVE cr'.rev # 0
    BY <1>2, <2>1, RecreateWrites DEF Holding
  <2>2. CASE EditCr
    BY <2>2 DEF EditCr, TypeOK, Cr
  <2>3. QED
    BY <1>2, <2>1, <2>2, SpecMoves, ReplacedOnlyThen
<1>4. ASSUME NEW s \in Sessions, pc'[s] \in Holding PROVE copy'[s].rev # 0
  BY <1>2, <1>4, HeldCopy
<1>5. QED
  BY <1>3, <1>4

LEMMA WroteStaleStays == TypeOK /\ Deaths /\ WroteStale /\ [Next]_vars => WroteStale'
<1> SUFFICES ASSUME TypeOK, Deaths, WroteStale, [Next]_vars PROVE WroteStale'
  OBVIOUS
<1> DEFINE After(s) == \/ pc[s] \in {"innerUp", "scaleUp", "done"}
                       \/ diedAt[s] \in {"innerUp", "scaleUp"}
<1>1. PICK s \in stale : s \in Sessions /\ After(s)
  BY DEF WroteStale, TypeOK
<1>2. s \in stale'
  BY <1>1, SpecMoves DEF EditCr
<1>3. After(s)'
  <2>1. CASE pc'[s] = pc[s] /\ diedAt'[s] = diedAt[s]
    BY <1>1, <2>1
  <2>2. CASE ~(pc'[s] = pc[s] /\ diedAt'[s] = diedAt[s])
    <3>1. PICK t \in Sessions :
            (\E r \in Requests : Invoke(t, r)) \/ Proceed(t) \/ Answer(t) \/ Abort(t)
      BY <2>2, ClusterMoves DEF Next, ClusterMove
    <3>2. t = s /\ SessionMove(s)
      BY <1>1, <2>2, <3>1, SessionMoves DEF SessionMove
    <3>3. pc[s] \in {"innerUp", "scaleUp"}
      BY <1>1, <3>2 DEF SessionMove, Deaths, Running, Section, Repair
    <3>4. pc'[s] = "fatal" => diedAt'[s] \in {"innerUp", "scaleUp"}
      BY <3>2, <3>3 DEF SessionMove
    <3>5. CASE InnerUp(s) \/ ScaleUp(s)
      BY <3>4, <3>5 DEF InnerUp, ScaleUp, Reply, Goto, Die, TypeOK
    <3>6. CASE Abort(s)
      BY <3>4, <3>6 DEF Abort, Die, TypeOK
    <3>7. QED
      BY <3>1, <3>2, <3>3, <3>5, <3>6
         DEF Invoke, Proceed, Answer, WaitForPodToRun, ScaleDown, Parse, List, InnerDown,
             Strip, Finalizers, Recreate
  <2>3. QED
    BY <2>1, <2>2
<1>4. QED
  BY <1>1, <1>2, <1>3 DEF WroteStale

LEMMA OldStep ==
  ASSUME TypeOK, Deaths, OcsDownDuringRepair, GoneHeld, OldExcused, [Next]_vars
  PROVE  OldExcused'
<1> SUFFICES ASSUME ~(WroteStale' \/ Lost' \/ (overlap' /\ OneTooMany'))
             PROVE  /\ cr'.rev = written'
                    /\ \A s \in Sessions \ stale' :
                         pc'[s] \in Holding => copy'[s].rev = written'
  BY DEF OldExcused
<1>1. ~(WroteStale \/ Lost \/ (overlap /\ OneTooMany))
  BY HistoryGrows, OneTooManyStays, WroteStaleStays
<1>2. /\ cr.rev = written
      /\ \A s \in Sessions \ stale : pc[s] \in Holding => copy[s].rev = written
  BY <1>1 DEF OldExcused
<1>3. CASE EditCr
  <2>1. cr'.rev = written'
    BY <1>3 DEF EditCr, TypeOK, Cr
  <2>2. ASSUME NEW s \in Sessions \ stale' PROVE pc'[s] \notin Holding
    BY <1>3, <2>2 DEF EditCr
  <2>3. QED
    BY <2>1, <2>2
<1>4. CASE ~EditCr
  <2>1. UNCHANGED <<written, stale>> /\ ~OcsReconcile
    BY <1>4, SpecMoves, ReplacedOnlyThen
  <2>2. ASSUME NEW s \in Sessions, Recreate(s) PROVE cr'.rev = written
    <3>1. pc[s] = "recreate" /\ pc'[s] = "innerUp"
      BY <2>2, RecreateWrites DEF Lost
    <3>2. s \notin stale
      BY <2>1, <3>1 DEF WroteStale
    <3>3. QED
      BY <1>2, <2>2, <3>1, <3>2, RecreateWrites DEF Holding
  <2>3. cr'.rev = written'
    BY <1>2, <1>4, <2>1, <2>2, SpecMoves
  <2>4. ASSUME NEW s \in Sessions \ stale', pc'[s] \in Holding PROVE copy'[s].rev = written'
    BY <1>2, <2>1, <2>4, HeldCopy
  <2>5. QED
    BY <2>3, <2>4
<1>5. QED
  BY <1>3, <1>4

-----------------------------------------------------------------------------
(* The theorems.                                                           *)

LEMMA IInvInit == Init => IInv
<1> SUFFICES ASSUME Init PROVE IInv
  OBVIOUS
<1>1. TypeOK
  BY TypeInit
<1>2. \A s \in Sessions : pc[s] = "idle" /\ diedAt[s] = "none"
  BY DEF Init
<1>3. \A d \in Deployments : scale[d] = 1
  BY DEF Init
<1>4. cr.state = "live" /\ cr.rev = 1 /\ written = 1
  BY DEF Init
<1>5. Deaths /\ Alone /\ DownHeld /\ OcsDownDuringRepair /\ Focus
  BY <1>2, <1>3 DEF Deaths, Alone, DownHeld, OcsDownDuringRepair, Focus, FocusOf, Holding, Section,
                     Repair
<1>6. GoneHeld /\ DefaultExcused /\ OldExcused
  BY <1>2, <1>4 DEF GoneHeld, DefaultExcused, OldExcused, Holding
<1>7. QED
  BY <1>1, <1>5, <1>6 DEF IInv

LEMMA IInvStep == IInv /\ [Next]_vars => IInv'
BY TypeStep, DeathsStep, AloneStep, DownHeldStep, OcsDownStep, FocusStep, GoneStep,
   DefaultStep, OldStep DEF IInv

THEOREM Invariance == Spec => []IInv
BY IInvInit, IInvStep, PTL DEF Spec

\* An operator is at zero only while a session is at work, or after one died.
THEOREM OperatorDownAlwaysOwned == Spec => []OperatorDownIsOwned
<1>1. IInv => OperatorDownIsOwned
  BY DEF IInv, DownHeld, HeldDown, OperatorDownIsOwned, Section, Repair
<1>2. QED
  BY <1>1, Invariance, PTL

\* ocs-operator does not reconcile while a lone session repairs the CR.
THEOREM OcsAlwaysDownDuringRepair == Spec => []OcsDownDuringRepair
<1>1. IInv => OcsDownDuringRepair
  BY DEF IInv
<1>2. QED
  BY <1>1, Invariance, PTL

LEMMA ChildrenStep ==
  IInv /\ [Next]_vars =>
    [collected' /\ ~collected =>
       \E s \in Sessions :
         pc[s] = "finalizers" /\ pc'[s] # pc[s] /\ copy[s].life # cr.life]_vars
<1> SUFFICES ASSUME IInv, [Next]_vars, collected', ~collected
             PROVE  \E s \in Sessions :
                      pc[s] = "finalizers" /\ pc'[s] # pc[s] /\ copy[s].life # cr.life
  OBVIOUS
<1>1. PICK s \in Sessions :
        (\E r \in Requests : Invoke(s, r)) \/ Proceed(s) \/ Answer(s) \/ Abort(s)
  BY ClusterMoves DEF Next, ClusterMove
<1>2. Finalizers(s)
  BY <1>1, CrFrame DEF Strip, Recreate
<1>3. cr.state = "deleting" /\ owned # {} /\ pc[s] = "finalizers"
  BY <1>2 DEF Finalizers
<1>4. copy[s].life # cr.life
  BY <1>3 DEF IInv, Focus, FocusOf, Holding
<1>5. pc'[s] # pc[s]
  BY <1>2, <1>3 DEF IInv, TypeOK, Finalizers, Reply, Goto, Die
<1>6. QED
  BY <1>3, <1>4, <1>5

\* No session, among any number of them, costs the CR it has read a child.
THEOREM ChildrenAlwaysSurvive == Spec => ChildrenSurvive
BY Invariance, ChildrenStep, PTL DEF Spec, ChildrenSurvive

LEMMA OneTooManyFails == overlap /\ OneTooMany => Lost \/ ReplacedEarly
BY DEF OneTooMany, ReplacedEarly

\* An operator's default spec means that a session has failed, or is about to.
THEOREM SpecAlwaysKept == Spec => []SpecKept
<1>1. IInv => SpecKept
  BY OneTooManyFails DEF IInv, DefaultExcused, SpecKept
<1>2. QED
  BY <1>1, Invariance, PTL

\* An edit is undone only by a session that read the CR before it, or is lost to
\* a session that fails.
THEOREM EditsAlwaysSurvive == Spec => []EditsSurvive
<1>1. IInv => EditsSurvive
  BY OneTooManyFails DEF IInv, OldExcused, EditsSurvive
<1>2. QED
  BY <1>1, Invariance, PTL

-----------------------------------------------------------------------------
(* Termination: why OcsComesBack can be true, short of fairness.           *)

\* How many steps a session that is at a step of the command has ahead of it.
Ahead(step) ==
  CASE step = "idle"       -> 12
    [] step = "wait"       -> 11
    [] step = "scaleDown"  -> 10
    [] step = "parse"      -> 9
    [] step = "list"       -> 8
    [] step = "prompt"     -> 7
    [] step = "innerDown"  -> 6
    [] step = "strip"      -> 5
    [] step = "finalizers" -> 4
    [] step = "recreate"   -> 3
    [] step = "innerUp"    -> 2
    [] step = "scaleUp"    -> 1
    [] OTHER               -> 0

\* The command has no loop: a session is past at least one of its steps with each.
LEMMA SessionsGoOn ==
  ASSUME TypeOK, NEW s \in Sessions,
         (\E r \in Requests : Invoke(s, r)) \/ Proceed(s) \/ Answer(s) \/ Abort(s)
  PROVE  Ahead(pc'[s]) < Ahead(pc[s])
<1> USE DEF Ahead
<1>t. pc \in [Sessions -> {"idle", "done", "fatal"} \union Running]
  BY DEF TypeOK
<1>1. ASSUME NEW here, NEW next, pc[s] = here, Reply(s, next),
             Ahead(here) \in 1..12, Ahead(next) < Ahead(here)
      PROVE  Ahead(pc'[s]) < Ahead(pc[s])
  <2>1. pc'[s] = next \/ pc'[s] = "fatal"
    BY <1>t, <1>1 DEF Reply, Goto, Die
  <2>2. QED
    BY <1>1, <2>1
<1>2. ASSUME NEW r \in Requests, Invoke(s, r) PROVE Ahead(pc'[s]) < Ahead(pc[s])
  BY <1>t, <1>2 DEF Invoke
<1>3. CASE WaitForPodToRun(s)
  BY <1>1, <1>3 DEF WaitForPodToRun, Reply
<1>4. CASE ScaleDown(s)
  BY <1>1, <1>4 DEF ScaleDown
<1>5. CASE Parse(s)
  BY <1>1, <1>5 DEF Parse, Reply
<1>6. CASE List(s)
  <2>1. pc[s] = "list" /\ (Reply(s, "prompt") \/ Reply(s, "scaleUp"))
    BY <1>6 DEF List, NothingToRestore, Reply
  <2>2. QED
    BY <1>1, <2>1
<1>7. CASE Answer(s)
  BY <1>1, <1>7 DEF Answer, Reply
<1>8. CASE InnerDown(s)
  BY <1>1, <1>8 DEF InnerDown
<1>9. CASE Strip(s)
  BY <1>1, <1>9 DEF Strip
<1>10. CASE Finalizers(s)
  BY <1>1, <1>10 DEF Finalizers
<1>11. CASE Recreate(s)
  BY <1>1, <1>11 DEF Recreate, OnAlreadyExists, Reply
<1>12. CASE InnerUp(s)
  BY <1>1, <1>12 DEF InnerUp
<1>13. CASE ScaleUp(s)
  BY <1>1, <1>13 DEF ScaleUp
<1>14. CASE Abort(s)
  <2>1. pc'[s] = "fatal" /\ pc[s] \in Running
    BY <1>t, <1>14 DEF Abort, Die
  <2>2. QED
    BY <2>1 DEF Running, Section, Repair
<1>15. QED
  BY <1>2, <1>3, <1>4, <1>5, <1>6, <1>7, <1>8, <1>9, <1>10, <1>11, <1>12, <1>13, <1>14
     DEF Proceed

\* No session runs forever, whatever the scheduling and whoever interferes: it has
\* at most twelve steps, and takes none twice.
THEOREM SessionsRunOut ==
  Spec => [][\A s \in Sessions : pc'[s] # pc[s] => Ahead(pc'[s]) < Ahead(pc[s])]_vars
<1>1. TypeOK /\ [Next]_vars =>
        [\A s \in Sessions : pc'[s] # pc[s] => Ahead(pc'[s]) < Ahead(pc[s])]_vars
  <2> SUFFICES ASSUME TypeOK, Next, NEW s \in Sessions, pc'[s] # pc[s]
               PROVE  Ahead(pc'[s]) < Ahead(pc[s])
    OBVIOUS
  <2>1. PICK t \in Sessions :
          (\E r \in Requests : Invoke(t, r)) \/ Proceed(t) \/ Answer(t) \/ Abort(t)
    BY ClusterMoves DEF Next, ClusterMove
  <2>2. t = s
    BY <2>1, SessionMoves DEF SessionMove
  <2>3. QED
    BY <2>1, <2>2, SessionsGoOn
<1>2. QED
  BY <1>1, TypeCorrect, PTL DEF Spec

\* The guard of the step that a session takes of itself.
CanGoOn(s) ==
  CASE pc[s] = "wait"     -> scale["rook-ceph-operator"] = 1
    [] pc[s] = "recreate" -> cr.state = "gone" => cr.life < MaxLives
    [] OTHER              -> pc[s] \in Running \ {"prompt"}

\* Whenever ocs-operator is at zero, a session has died, or waits for its user, or
\* has a way to go on that nobody else can bar: two sessions, or a session and the
\* operators, never wait for one another.
THEOREM OcsIsNotForgotten ==
  Spec => [](scale["ocs-operator"] = 0 =>
               \E s \in Sessions : \/ diedAt[s] # "none" \/ pc[s] = "prompt"
                                   \/ pc[s] \in Section /\ CanGoOn(s))
<1>1. IInv => (scale["ocs-operator"] = 0 =>
                 \E s \in Sessions : \/ diedAt[s] # "none" \/ pc[s] = "prompt"
                                     \/ pc[s] \in Section /\ CanGoOn(s))
  <2> SUFFICES ASSUME IInv, scale["ocs-operator"] = 0
               PROVE  \E s \in Sessions : \/ diedAt[s] # "none" \/ pc[s] = "prompt"
                                          \/ pc[s] \in Section /\ CanGoOn(s)
    OBVIOUS
  <2>1. PICK s \in Sessions : pc[s] \in Section \/ diedAt[s] # "none"
    <3>1. "none" \notin Section \union {"scaleDown", "innerDown"}
      BY DEF Section, Repair
    <3>2. QED
      BY <3>1 DEF IInv, DownHeld, HeldDown, Deployments
  <2>2. cr.state = "gone" => cr.life < MaxLives
    BY DEF IInv, TypeOK
  <2>3. pc[s] \in Section => pc[s] = "prompt" \/ CanGoOn(s)
    BY <2>2 DEF CanGoOn, Running, Section, Repair
  <2>4. QED
    BY <2>1, <2>3
<1>2. QED
  BY <1>1, Invariance, PTL
=============================================================================
