--------------------------- MODULE PurgeOsdProofs ---------------------------
(* What holds of PurgeOsd for any number of sessions and OSDs.             *)
EXTENDS PurgeOsd, TLAPS

\* A session is forced only by its user.
Consent == \A s \in Sessions : force[s] => s \in word

\* What a session that is not forced has behind it.
Vouched ==
  \A s \in Sessions : ~force[s] =>
    /\ pc[s] \in {"purge", "remove"} => "odf" \in cleared[s]
    /\ pc[s] = "remove" => "rook" \in cleared[s] /\ (s \in overtaken \/ Osd(s) \notin needed)

IInv == TypeOK /\ Consent /\ Vouched /\ LossIsExcused /\ NobodyElseDecides /\ AskedForAReason

-----------------------------------------------------------------------------
(* Types.                                                                  *)

LEMMA TypeInit == Init => TypeOK
  BY DEF Init, TypeOK, Running, Ended

LEMMA TypeStep == TypeOK /\ [Next]_vars => TypeOK'
<1> SUFFICES ASSUME TypeOK, [Next]_vars PROVE TypeOK'
  OBVIOUS
<1> USE DEF Goto, Running, Ended, cluster, history
<1>1. ASSUME NEW s \in Sessions, Start(s) PROVE TypeOK'
  BY <1>1 DEF TypeOK, Start, forceflagValue
<1>2. ASSUME NEW s \in Sessions, Check(s) PROVE TypeOK'
  <2> PICK answer \in CephAnswers(Osd(s)) :
        /\ pc' = [pc EXCEPT ![s] = AfterCheck(SafeToDestroy(answer, argument[s]))]
        /\ cleared' = [cleared EXCEPT ![s] = IF answer = "safe" THEN @ \union {"odf"} ELSE @]
        /\ quiet' = IF answer = "failed" THEN quiet \ {s} ELSE quiet
    BY <1>2 DEF Check
  <2>1. /\ AfterCheck(SafeToDestroy(answer, argument[s])) \in {"prompt", "purge", "fatal"}
        /\ AfterCheck(SafeToDestroy(answer, argument[s])) = "purge" => argument[s].spelling = "plain"
    BY DEF AfterCheck, SafeToDestroy
  <2> HIDE DEF AfterCheck, SafeToDestroy
  <2>2. QED
    BY <1>2, <2>1 DEF TypeOK, Check
<1>3. ASSUME NEW s \in Sessions, Prompt(s) PROVE TypeOK'
  BY <1>3 DEF TypeOK, Prompt
<1>4. ASSUME NEW s \in Sessions, RookCheck(s) PROVE TypeOK'
  BY <1>4 DEF TypeOK, RookCheck
<1>5. ASSUME NEW s \in Sessions, RookRemove(s) PROVE TypeOK'
  BY <1>5 DEF TypeOK, RookRemove
<1>6. ASSUME NEW s \in Sessions, Abort(s) PROVE TypeOK'
  BY <1>6 DEF TypeOK, Abort
<1>7. ASSUME NEW o \in Osds, Occupy(o) \/ Drain(o) \/ Add(o) PROVE TypeOK'
  BY <1>7 DEF TypeOK, Occupy, Drain, Add, Changes, Safe
<1>8. CASE UNCHANGED vars
  BY <1>8 DEF TypeOK, vars
<1>9. QED
  BY <1>1, <1>2, <1>3, <1>4, <1>5, <1>6, <1>7, <1>8 DEF Next, Step, Environment

\* The variables of PurgeOsd keep their types, and what is purged without force
\* was named as ceph names it.
THEOREM TypeCorrect == Spec => []TypeOK
<1>1. QED
  BY TypeInit, TypeStep, PTL DEF Spec

-----------------------------------------------------------------------------
(* The inductive invariant.                                                *)

LEMMA IInit == Init => IInv
<1> SUFFICES ASSUME Init PROVE IInv
  OBVIOUS
<1>1. QED
  BY TypeInit DEF Init, IInv, Consent, Vouched, LossIsExcused, NobodyElseDecides, AskedForAReason

LEMMA CheckStep == ASSUME IInv, TypeOK', NEW s \in Sessions, Check(s) PROVE IInv'
<1> USE DEF Goto, cluster, history
<1> PICK answer \in CephAnswers(Osd(s)) :
      /\ pc' = [pc EXCEPT ![s] = AfterCheck(SafeToDestroy(answer, argument[s]))]
      /\ cleared' = [cleared EXCEPT ![s] = IF answer = "safe" THEN @ \union {"odf"} ELSE @]
      /\ quiet' = IF answer = "failed" THEN quiet \ {s} ELSE quiet
  BY DEF Check
<1> DEFINE next == AfterCheck(SafeToDestroy(answer, argument[s]))
<1>1. next = IF answer = "safe" /\ argument[s].spelling = "plain" THEN "purge" ELSE "prompt"
  BY DEF AfterCheck, SafeToDestroy
<1>2. answer \in {"safe", "busy", "failed"}
  BY DEF CephAnswers
<1>3. answer = "safe" => Osd(s) \notin needed
  BY DEF CephAnswers
<1>4. answer = "busy" => ~Safe(Osd(s))
  BY DEF CephAnswers, Safe
<1>t. /\ pc \in [Sessions -> {"idle"} \union Running \union Ended]
      /\ cleared \in [Sessions -> SUBSET {"odf", "rook"}]
      /\ quiet \subseteq Sessions /\ removed \subseteq Sessions
  BY DEF IInv, TypeOK
<1>u. UNCHANGED <<present, needed, argument, force, word, overtaken, removed, lost>>
  BY DEF Check
<1> HIDE DEF next
<1>p. pc' = [pc EXCEPT ![s] = next]
  BY DEF next
<1>5. Consent'
  BY <1>u DEF IInv, Consent
<1>6. Vouched'
  BY <1>u, <1>p, <1>t, <1>1 DEF IInv, Vouched, Osd
<1>7. LossIsExcused'
  BY <1>u DEF IInv, LossIsExcused
<1>8. NobodyElseDecides'
  BY <1>u, <1>t DEF IInv, NobodyElseDecides
<1>9. AskedForAReason'
  <2> SUFFICES ASSUME NEW t \in quiet'
               PROVE  /\ pc'[t] = "prompt" => ~Safe(Osd(t)) \/ argument[t].spelling # "plain"
                      /\ pc'[t] = "purge" /\ ~force[t] => Osd(t) \notin needed
    BY <1>u DEF AskedForAReason, Safe, Osd
  <2>1. CASE t = s
    BY <2>1, <1>p, <1>t, <1>1, <1>2, <1>3, <1>4
  <2>2. CASE t # s
    BY <2>2, <1>p, <1>t DEF IInv, AskedForAReason
  <2>3. QED
    BY <2>1, <2>2
<1>10. QED
  BY <1>5, <1>6, <1>7, <1>8, <1>9 DEF IInv

LEMMA PromptStep == ASSUME IInv, TypeOK', NEW s \in Sessions, Prompt(s) PROVE IInv'
<1> USE DEF Goto, cluster, history
<1>t. /\ pc \in [Sessions -> {"idle"} \union Running \union Ended]
      /\ force \in [Sessions -> BOOLEAN] /\ quiet \subseteq Sessions
  BY DEF IInv, TypeOK
<1>1. /\ word \subseteq word'
      /\ \/ pc' = [pc EXCEPT ![s] = "purge"] /\ force' = [force EXCEPT ![s] = TRUE] /\ s \in word'
         \/ pc' = [pc EXCEPT ![s] = "fatal"] /\ UNCHANGED force
      /\ UNCHANGED <<present, needed, argument, cleared, overtaken, removed, lost, quiet>>
  BY DEF Prompt, Continues
<1>5. Consent'
  BY <1>1, <1>t DEF IInv, Consent
<1>6. Vouched'
  BY <1>1, <1>t DEF IInv, Vouched, Osd
<1>7. LossIsExcused'
  BY <1>1 DEF IInv, LossIsExcused
<1>8. NobodyElseDecides'
  BY <1>1 DEF IInv, NobodyElseDecides
<1>9. AskedForAReason'
  BY <1>1, <1>t DEF IInv, AskedForAReason, Safe, Osd
<1>10. QED
  BY <1>5, <1>6, <1>7, <1>8, <1>9 DEF IInv

LEMMA RookCheckStep == ASSUME IInv, TypeOK', NEW s \in Sessions, RookCheck(s) PROVE IInv'
<1> USE DEF Goto, cluster, history
<1>t. /\ pc \in [Sessions -> {"idle"} \union Running \union Ended]
      /\ cleared \in [Sessions -> SUBSET {"odf", "rook"}]
      /\ quiet \subseteq Sessions /\ removed \subseteq Sessions
  BY DEF IInv, TypeOK
<1>5. Consent'
  BY DEF IInv, Consent, RookCheck
<1>6. Vouched'
  BY <1>t DEF IInv, Vouched, RookCheck, Osd, Safe
<1>7. LossIsExcused'
  BY DEF IInv, LossIsExcused, RookCheck
<1>8. NobodyElseDecides'
  BY <1>t DEF IInv, NobodyElseDecides, RookCheck
<1>9. AskedForAReason'
  BY <1>t DEF IInv, AskedForAReason, RookCheck, Safe, Osd
<1>10. QED
  BY <1>5, <1>6, <1>7, <1>8, <1>9 DEF IInv

LEMMA RookRemoveStep == ASSUME IInv, TypeOK', NEW s \in Sessions, RookRemove(s) PROVE IInv'
<1> USE DEF Goto, cluster, history
<1>t. /\ pc \in [Sessions -> {"idle"} \union Running \union Ended]
      /\ force \in [Sessions -> BOOLEAN]
      /\ cleared \in [Sessions -> SUBSET {"odf", "rook"}]
  BY DEF IInv, TypeOK
<1>5. Consent'
  BY DEF IInv, Consent, RookRemove
<1>6. Vouched'
  BY <1>t DEF IInv, Vouched, RookRemove, Osd
<1>7. LossIsExcused'
  BY <1>t DEF IInv, Consent, Vouched, LossIsExcused, RookRemove
<1>8. NobodyElseDecides'
  BY <1>t DEF IInv, Consent, Vouched, NobodyElseDecides, RookRemove
<1>9. AskedForAReason'
  BY <1>t DEF AskedForAReason, RookRemove
<1>10. QED
  BY <1>5, <1>6, <1>7, <1>8, <1>9 DEF IInv

LEMMA ClusterStep ==
  ASSUME IInv, TypeOK', NEW o \in Osds, Occupy(o) \/ Drain(o) \/ Add(o) PROVE IInv'
<1> USE DEF Changes
<1>5. Consent'
  BY DEF IInv, Consent, Occupy, Drain, Add
<1>6. Vouched'
  BY DEF IInv, Vouched, Occupy, Drain, Add, Osd
<1>7. LossIsExcused'
  BY DEF IInv, LossIsExcused, Occupy, Drain, Add
<1>8. NobodyElseDecides'
  BY DEF IInv, NobodyElseDecides, Occupy, Drain, Add
<1>9. AskedForAReason'
  BY DEF AskedForAReason, Occupy, Drain, Add
<1>10. QED
  BY <1>5, <1>6, <1>7, <1>8, <1>9 DEF IInv

LEMMA IStep == IInv /\ [Next]_vars => IInv'
<1> SUFFICES ASSUME IInv, [Next]_vars PROVE IInv'
  OBVIOUS
<1>t. TypeOK /\ TypeOK'
  BY TypeStep DEF IInv
<1>1. ASSUME NEW s \in Sessions, Start(s) PROVE IInv'
  BY <1>1, <1>t DEF Start, forceflagValue, Goto, cluster, history, TypeOK, IInv, Consent,
       Vouched, LossIsExcused, NobodyElseDecides, AskedForAReason, Osd, Safe
<1>2. ASSUME NEW s \in Sessions, Abort(s) PROVE IInv'
  BY <1>2, <1>t DEF Abort, Goto, cluster, history, TypeOK, IInv, Consent,
       Vouched, LossIsExcused, NobodyElseDecides, AskedForAReason, Osd, Safe
<1>3. CASE UNCHANGED vars
  BY <1>3 DEF vars, cluster, history, IInv, TypeOK, Consent, Vouched, LossIsExcused,
       NobodyElseDecides, AskedForAReason, Osd, Safe
<1>4. QED
  BY <1>1, <1>2, <1>3, <1>t, CheckStep, PromptStep, RookCheckStep, RookRemoveStep, ClusterStep
    DEF Next, Step, Environment

\* The inductive invariant of PurgeOsd.
THEOREM Invariance == Spec => []IInv
<1>1. QED
  BY IInit, IStep, PTL DEF Spec

\* Data is lost only on the word of the user of this run, or with an OSD that
\* became needed after rook's check.
THEOREM LossAlwaysExcused == Spec => []LossIsExcused
<1>1. IInv => LossIsExcused
  BY DEF IInv
<1>2. QED
  BY <1>1, Invariance, PTL

\* Without the word, an OSD is removed after two good answers only.
THEOREM NobodyElseEverDecides == Spec => []NobodyElseDecides
<1>1. IInv => NobodyElseDecides
  BY DEF IInv
<1>2. QED
  BY <1>1, Invariance, PTL

\* A run that nothing disturbs asks for a reason, and does not purge what is needed.
THEOREM AlwaysAskedForAReason == Spec => []AskedForAReason
<1>1. IInv => AskedForAReason
  BY DEF IInv
<1>2. QED
  BY <1>1, Invariance, PTL

-----------------------------------------------------------------------------
(* The refinement of OsdRemoval.                                           *)

\* A session that goes on or ends, and all that OsdRemoval sees of it.
LEMMA OverMap ==
  ASSUME TypeOK, NEW s \in Sessions, NEW next, Goto(s, next), pc[s] \notin Ended
  PROVE  /\ s \notin Over
         /\ next \in Ended => Over' = Over \union {s}
         /\ next \notin Ended => Over' = Over
  BY DEF TypeOK, Goto, Over

LEMMA TargetMap == UNCHANGED argument => Target' = Target
  BY DEF Target, Osd

LEMMA RemovalInit == Init => Removal!Init
<1> SUFFICES ASSUME Init PROVE Removal!Init
  OBVIOUS
<1>1. Target \in [Sessions -> Osds]
  BY DEF Init, Target, Osd, Argument
<1>2. Over = {}
  BY DEF Init, Over, Ended
<1>3. QED
  BY <1>1, <1>2 DEF Init, Removal!Init

\* An ending that touches nothing.
LEMMA StopMap ==
  ASSUME TypeOK, NEW s \in Sessions, pc[s] \notin Ended, NEW next \in Ended, Goto(s, next),
         UNCHANGED <<present, needed, argument, word, cleared>>
  PROVE  Removal!Stop(s)
  BY OverMap, TargetMap DEF Removal!Stop

\* A voucher, or none.
LEMMA VouchMap ==
  ASSUME TypeOK, NEW s \in Sessions, pc[s] \notin Ended, NEW next, next \notin Ended, Goto(s, next),
         NEW who \in {"odf", "rook"}, NEW good \in BOOLEAN, good => Osd(s) \notin needed,
         cleared' = [cleared EXCEPT ![s] = IF good THEN @ \union {who} ELSE @],
         UNCHANGED <<present, needed, argument, word>>
  PROVE  Removal!Vouch(s, who) \/ UNCHANGED Removal!vars
<1>1. s \notin Over /\ Over' = Over /\ Target' = Target /\ Target[s] = Osd(s)
  BY OverMap, TargetMap DEF Target
<1>2. CASE good
  BY <1>1, <1>2 DEF Removal!Vouch
<1>3. CASE ~good
  <2>1. cleared' = cleared
    BY <1>3 DEF TypeOK
  <2>2. QED
    BY <1>1, <2>1 DEF Removal!vars
<1>4. QED
  BY <1>2, <1>3

LEMMA CheckMaps ==
  ASSUME TypeOK, NEW s \in Sessions, Check(s)
  PROVE  Removal!Vouch(s, "odf") \/ UNCHANGED Removal!vars
<1>1. PICK answer \in CephAnswers(Osd(s)) :
        /\ Goto(s, AfterCheck(SafeToDestroy(answer, argument[s])))
        /\ cleared' = [cleared EXCEPT ![s] = IF answer = "safe" THEN @ \union {"odf"} ELSE @]
  BY DEF Check
<1> DEFINE next == AfterCheck(SafeToDestroy(answer, argument[s]))
           good == answer = "safe"
<1>2. next \in {"prompt", "purge"}
  BY DEF AfterCheck, SafeToDestroy
<1>3. good => Osd(s) \notin needed
  BY DEF CephAnswers
<1>4. /\ pc[s] \notin Ended /\ next \notin Ended
      /\ UNCHANGED <<present, needed, argument, word>>
  BY <1>2 DEF Check, Ended, cluster
<1>5. /\ good \in BOOLEAN /\ Goto(s, next)
      /\ cleared' = [cleared EXCEPT ![s] = IF good THEN @ \union {"odf"} ELSE @]
  BY <1>1
<1> HIDE DEF next, good
<1>6. QED
  BY <1>3, <1>4, <1>5, VouchMap

LEMMA PromptMaps ==
  ASSUME TypeOK, NEW s \in Sessions, Prompt(s) PROVE Removal!Consent(s) \/ Removal!Stop(s)
<1>1. pc[s] \notin Ended /\ UNCHANGED <<present, needed, argument, cleared>>
  BY DEF Prompt, Ended, cluster
<1>2. CASE word' = word \union {s} /\ Goto(s, "purge")
  <2>1. s \notin Over /\ Over' = Over
    BY <1>1, <1>2, OverMap DEF Ended
  <2>2. QED
    BY <1>1, <1>2, <2>1, TargetMap DEF Removal!Consent
<1>3. CASE word' = word /\ Goto(s, "fatal")
  BY <1>1, <1>3, StopMap DEF Ended
<1>4. QED
  BY <1>2, <1>3 DEF Prompt, Continues

LEMMA RookCheckMaps ==
  ASSUME TypeOK, NEW s \in Sessions, RookCheck(s)
  PROVE  Removal!Vouch(s, "rook") \/ UNCHANGED Removal!vars
<1> DEFINE good == Safe(Osd(s))
<1>1. /\ pc[s] \notin Ended /\ "remove" \notin Ended /\ Goto(s, "remove")
      /\ UNCHANGED <<present, needed, argument, word>>
      /\ cleared' = [cleared EXCEPT ![s] = IF good THEN @ \union {"rook"} ELSE @]
  BY DEF RookCheck, Ended, cluster
<1>2. good \in BOOLEAN /\ (good => Osd(s) \notin needed)
  BY DEF Safe
<1> HIDE DEF good
<1>3. QED
  BY <1>1, <1>2, VouchMap

LEMMA RookRemoveMaps ==
  ASSUME IInv, NEW s \in Sessions, RookRemove(s) PROVE Removal!Remove(s)
<1>1. /\ pc[s] = "remove" /\ Osd(s) \in present /\ Goto(s, "done")
      /\ present' = present \ {Osd(s)} /\ needed' = needed \ {Osd(s)}
      /\ UNCHANGED <<argument, word, cleared>>
  BY DEF RookRemove
<1>2. s \notin Over /\ Over' = Over \union {s} /\ Target' = Target /\ Target[s] = Osd(s)
  BY <1>1, OverMap, TargetMap DEF IInv, Ended, Target
<1>3. Removal!Permitted(s)
  <2>1. CASE force[s]
    BY <2>1 DEF IInv, Consent, Removal!Permitted
  <2>2. CASE ~force[s]
    <3>1. {"odf", "rook"} \subseteq cleared[s] /\ cleared[s] \subseteq {"odf", "rook"}
      BY <1>1, <2>2 DEF IInv, Vouched, TypeOK
    <3>2. QED
      BY <3>1 DEF Removal!Permitted
  <2>3. QED
    BY <2>1, <2>2
<1>4. QED
  BY <1>1, <1>2, <1>3 DEF Removal!Remove

LEMMA ChangeMaps ==
  ASSUME TypeOK, TypeOK', NEW o \in Osds, Occupy(o) \/ Drain(o) \/ Add(o) PROVE Removal!Change
<1>1. UNCHANGED <<pc, argument, word, cleared>> /\ present \subseteq present'
  BY DEF Occupy, Drain, Add, Changes
<1>2. Over' = Over /\ Target' = Target
  BY <1>1, TargetMap DEF Over
<1>3. present' \in SUBSET Osds /\ needed' \in SUBSET present'
  BY DEF TypeOK
<1>4. QED
  BY <1>1, <1>2, <1>3 DEF Removal!Change

LEMMA RemovalStep == ASSUME IInv, [Next]_vars PROVE [Removal!Next]_(Removal!vars)
<1>t. TypeOK /\ TypeOK'
  BY TypeStep DEF IInv
<1>1. ASSUME NEW s \in Sessions, Start(s) PROVE Removal!Stop(s) \/ UNCHANGED Removal!vars
  <2>1. /\ pc[s] \notin Ended /\ UNCHANGED <<present, needed, argument, word, cleared>>
        /\ Goto(s, "usage") \/ Goto(s, "check")
    BY <1>1 DEF Start, Ended, cluster, history
  <2>2. CASE Goto(s, "usage")
    BY <1>t, <2>1, <2>2, StopMap DEF Ended
  <2>3. CASE Goto(s, "check")
    BY <1>t, <2>1, <2>3, OverMap, TargetMap DEF Ended, Removal!vars
  <2>4. QED
    BY <2>1, <2>2, <2>3
<1>2. ASSUME NEW s \in Sessions, Abort(s) PROVE Removal!Stop(s)
  BY <1>2, <1>t, StopMap DEF Abort, Running, Ended, cluster, history
<1>3. CASE UNCHANGED vars
  BY <1>3, TargetMap DEF vars, cluster, history, Over, Removal!vars
<1>4. ASSUME NEW s \in Sessions, Step(s) PROVE [Removal!Next]_(Removal!vars)
  BY <1>1, <1>2, <1>4, <1>t, CheckMaps, PromptMaps, RookCheckMaps, RookRemoveMaps
    DEF Step, Removal!Next
<1>5. CASE Environment
  BY <1>5, <1>t, ChangeMaps DEF Environment, Removal!Next
<1>6. QED
  BY <1>3, <1>4, <1>5 DEF Next

\* However many sessions and OSDs: what the command does, in five steps and two
\* programs, is one removal with a permission of its own, or none.
THEOREM RemovalRefined == Spec => ImplementsRemoval
<1>1. QED
  BY RemovalInit, RemovalStep, Invariance, PTL DEF Spec, ImplementsRemoval, Removal!Spec
=============================================================================
