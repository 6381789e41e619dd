-------------------------- MODULE ObjectCrdsProofs --------------------------
(* What holds of ObjectCrds for any number of sessions, CRDs and writes.   *)
EXTENDS ObjectCrds, TLAPS

-----------------------------------------------------------------------------
(* Types.                                                                  *)

\* Store keeps the cluster well-typed.
LEMMA StoreType ==
  ASSUME TypeOK, NEW c \in Crds, NEW m \in Manifests, NEW t \in BOOLEAN, Store(c, m, t)
  PROVE  /\ crd' \in [Crds -> Object \union {Absent}]
         /\ revision' \in Nat
<1>1. [version |-> revision + 1, manifest |-> m, terminating |-> t] \in Object
  BY DEF TypeOK, Object
<1>2. QED
  BY <1>1 DEF TypeOK, Store

\* Whether the answer arrives or not, the session's variables keep their
\* types, and a session that goes on is still within its list.
LEMMA AnswerType ==
  ASSUME TypeOK, NEW s \in Sessions, pc[s] \in Busy, Answer(s)
  PROVE  /\ verb' \in [Sessions -> Verbs \union {"none"}]
         /\ pc' \in [Sessions -> {"idle"} \union Busy \union Ended]
         /\ cursor' \in [Sessions -> 1..(NumCrds + 1)]
         /\ existing' \in [Sessions -> Object \union {Absent}]
         /\ \A t \in Sessions : /\ pc'[t] \in {"idle"} \union Busy => cursor'[t] \in Crds
                                /\ pc'[t] = "update" => existing'[t] \in Object
<1>1. CASE Advance(s)
  BY <1>1, NumCrdsAssumption DEF TypeOK, Advance, FirstRequest, Busy, Ended, Crds
<1>2. CASE Die(s)
  BY <1>2, NumCrdsAssumption DEF TypeOK, Die, Busy, Ended, Crds
<1>3. QED
  BY <1>1, <1>2 DEF Answer

\* Every variable has its type, and no session ever asks for a CRD outside of
\* its list (no index error in either loop).
LEMMA TypeInit == Init => TypeOK
<1> SUFFICES ASSUME Init PROVE TypeOK
  OBVIOUS
<1>1. [version |-> 0, manifest |-> Foreign, terminating |-> FALSE] \in Object
  BY DEF Object, Manifests
<1>2. crd \in [Crds -> Object \union {Absent}]
  BY <1>1 DEF Init
<1>3. QED
  BY <1>2, NumCrdsAssumption, MaxForeignAssumption DEF Init, TypeOK, Busy, Ended, Crds

LEMMA TypeStep == TypeOK /\ [Next]_vars => TypeOK'
<1> SUFFICES ASSUME TypeOK, [Next]_vars PROVE TypeOK'
  OBVIOUS
<1>1. ASSUME NEW s \in Sessions, NEW v \in Verbs, Start(s, v) PROVE TypeOK'
  BY <1>1, NumCrdsAssumption
     DEF TypeOK, Start, FirstRequest, Busy, Ended, Crds, cluster
<1>2. ASSUME NEW s \in Sessions, Create(s) PROVE TypeOK'
  <2>1. pc[s] \in Busy /\ Target(s) \in Crds /\ s \in Manifests
    BY <1>2 DEF Create, TypeOK, Busy, Target, Manifests
  <2>2. CASE Store(Target(s), s, FALSE) /\ Answer(s)
    BY <1>2, <2>1, <2>2, StoreType, AnswerType DEF Create, TypeOK, history
  <2>3. CASE OnAlreadyExists(s) /\ UNCHANGED <<crd, revision>>
    BY <1>2, <2>1, <2>3 DEF Create, OnAlreadyExists, TypeOK, Busy, Ended, history
  <2>4. QED
    BY <1>2, <2>2, <2>3 DEF Create
<1>3. ASSUME NEW s \in Sessions, Get(s) PROVE TypeOK'
  BY <1>3 DEF Get, Die, Exists, TypeOK, Busy, Ended, Target, cluster, history
<1>4. ASSUME NEW s \in Sessions, Update(s) PROVE TypeOK'
  <2>1. pc[s] \in Busy /\ Target(s) \in Crds /\ s \in Manifests
    BY <1>4 DEF Update, TypeOK, Busy, Target, Manifests
  <2>2. CASE VersionMatches(s) /\ Store(Target(s), s, crd[Target(s)].terminating) /\ Answer(s)
    <3>1. crd[Target(s)].terminating \in BOOLEAN
      BY <2>2 DEF VersionMatches, Exists, Object
    <3>2. QED
      BY <1>4, <2>1, <2>2, <3>1, StoreType, AnswerType DEF Update, TypeOK, history
  <2>3. CASE OnConflict(s) /\ UNCHANGED <<crd, revision>>
    BY <1>4, <2>1, <2>3, AnswerType DEF Update, OnConflict, Answer, TypeOK, history
  <2>4. QED
    BY <1>4, <2>2, <2>3 DEF Update
<1>5. ASSUME NEW s \in Sessions, Delete(s) PROVE TypeOK'
  <2>1. pc[s] \in Busy /\ Target(s) \in Crds
    BY <1>5 DEF Delete, TypeOK, Busy, Target
  <2>2. Answer(s)
    BY <1>5 DEF Delete, OnNotFound, Answer
  <2>3. crd' \in [Crds -> Object \union {Absent}] /\ revision' \in Nat
    <3>1. CASE UNCHANGED <<crd, revision>>
      BY <3>1 DEF TypeOK
    <3>2. CASE Exists(Target(s)) /\ Store(Target(s), crd[Target(s)].manifest, TRUE)
      <4>1. crd[Target(s)].manifest \in Manifests
        BY <3>2 DEF Exists, Object
      <4>2. QED
        BY <2>1, <3>2, <4>1, StoreType
    <3>3. CASE crd' = [crd EXCEPT ![Target(s)] = Absent] /\ revision' = revision + 1
      <4>1. crd' \in [Crds -> Object \union {Absent}]
        BY <3>3 DEF TypeOK
      <4>2. revision' \in Nat
        BY <3>3 DEF TypeOK
      <4>3. QED
        BY <4>1, <4>2
    <3>4. \/ UNCHANGED <<crd, revision>>
          \/ Exists(Target(s)) /\ Store(Target(s), crd[Target(s)].manifest, TRUE)
          \/ crd' = [crd EXCEPT ![Target(s)] = Absent] /\ revision' = revision + 1
      BY <1>5, Zenon DEF Delete
    <3>5. QED
      BY <3>1, <3>2, <3>3, <3>4
  <2>4. QED
    BY <1>5, <2>1, <2>2, <2>3, AnswerType DEF Delete, TypeOK, history
<1>6. ASSUME NEW s \in Sessions, Abort(s) PROVE TypeOK'
  BY <1>6, AnswerType DEF Abort, Answer, TypeOK, cluster, history
<1>7. ASSUME NEW c \in Crds, ForeignWrite(c) PROVE TypeOK'
  <2>1. Foreign \in Manifests /\ Terminating(c) \in BOOLEAN
    BY DEF Manifests, Terminating, Exists, Object
  <2>2. crd' \in [Crds -> Object \union {Absent}] /\ revision' \in Nat
    BY <1>7, <2>1, StoreType DEF ForeignWrite
  <2>3. meddled' \in 0..MaxForeign
    BY <1>7, MaxForeignAssumption DEF ForeignWrite, TypeOK
  <2>4. QED
    BY <1>7, <2>2, <2>3 DEF ForeignWrite, TypeOK, session
<1>8. ASSUME NEW c \in Crds, Cleanup(c) PROVE TypeOK'
  BY <1>8 DEF Cleanup, TypeOK, session, history
<1>9. CASE UNCHANGED vars
  BY <1>9 DEF vars, TypeOK
<1>10. QED
  BY <1>1, <1>2, <1>3, <1>4, <1>5, <1>6, <1>7, <1>8, <1>9 DEF Next, Step

\* Type correctness, for every number of sessions and CRDs.
THEOREM TypeCorrect == Spec => []TypeOK
<1>1. QED
  BY TypeInit, TypeStep, PTL DEF Spec

-----------------------------------------------------------------------------
(* The inductive invariant.                                                *)

\* What a session is about to ask tells its command, and the loop it reports
\* to have finished it went through to the end.
Control ==
  \A s \in Sessions :
    /\ pc[s] = "idle" => verb[s] = "none" /\ cursor[s] = 1
    /\ pc[s] \in {"create", "get", "update"} => verb[s] = "enable"
    /\ pc[s] = "delete" => verb[s] = "disable"
    /\ pc[s] = "done" => cursor[s] = NumCrds + 1

\* No object, nor the snapshot of one, is newer than the store.
Versions ==
  /\ \A c \in Crds : Exists(c) => crd[c].version <= revision
  /\ \A s \in Sessions : pc[s] = "update" => existing[s].version <= revision

\* Whoever holds the version of the stored object holds the object.
Snapshots ==
  \A s \in Sessions :
    pc[s] = "update" /\ VersionMatches(s) => crd[Target(s)] = existing[s]

\* The lone enable: nobody else is at work, no CRD became terminating since
\* it began, and those behind its cursor carry its manifest.
Solo ==
  \A s \in Sessions : quiet = s =>
    /\ pc[s] # "idle"
    /\ \A t \in Sessions : pc[t] \in Busy => t = s
    /\ verb[s] = "enable" =>
         /\ \A c \in Crds : Terminating(c) => c \in dying
         /\ \A c \in Crds : c < cursor[s] =>
              /\ Exists(c) => crd[c].manifest = s
              /\ ~Exists(c) => c \in dying

LEMMA ControlStep == TypeOK /\ Control /\ [Next]_vars => Control'
<1> SUFFICES ASSUME TypeOK, Control, [Next]_vars PROVE Control'
  OBVIOUS
<1> USE NumCrdsAssumption DEF Control, TypeOK
<1>a. ASSUME NEW s \in Sessions, pc[s] \in Busy, Answer(s) PROVE Control'
  BY <1>a DEF Answer, Advance, Die, FirstRequest, Busy, Verbs
<1>1. ASSUME NEW s \in Sessions, NEW v \in Verbs, Start(s, v) PROVE Control'
  BY <1>1 DEF Start, FirstRequest, Verbs
<1>2. ASSUME NEW s \in Sessions, Create(s) PROVE Control'
  BY <1>2, <1>a DEF Create, OnAlreadyExists, Busy
<1>3. ASSUME NEW s \in Sessions, Get(s) PROVE Control'
  BY <1>3 DEF Get, Die
<1>4. ASSUME NEW s \in Sessions, Update(s) PROVE Control'
  BY <1>4, <1>a DEF Update, OnConflict, Answer, Busy
<1>5. ASSUME NEW s \in Sessions, Delete(s) PROVE Control'
  BY <1>5, <1>a DEF Delete, OnNotFound, Answer, Busy
<1>6. ASSUME NEW s \in Sessions, Abort(s) PROVE Control'
  BY <1>6, <1>a DEF Abort, Answer
<1>7. ASSUME NEW c \in Crds, ForeignWrite(c) \/ Cleanup(c) PROVE Control'
  BY <1>7 DEF ForeignWrite, Cleanup, session
<1>8. CASE UNCHANGED vars
  BY <1>8 DEF vars
<1>9. QED
  BY <1>1, <1>2, <1>3, <1>4, <1>5, <1>6, <1>7, <1>8 DEF Next, Step

-----------------------------------------------------------------------------
(* Versions and snapshots.                                                 *)

\* Every write, and every removal, leaves all other CRDs alone, and what it
\* writes is newer than anything in the store.
Fresh(c) ==
  /\ revision' = revision + 1
  /\ \A d \in Crds : d # c => crd'[d] = crd[d]
  /\ crd'[c] \in Object => crd'[c].version = revision + 1

LEMMA StoreIsFresh ==
  ASSUME TypeOK, NEW c \in Crds, NEW m, NEW t, Store(c, m, t)
  PROVE  Fresh(c)
BY DEF TypeOK, Store, Fresh

LEMMA RemoveIsFresh ==
  ASSUME TypeOK, NEW c \in Crds,
         crd' = [crd EXCEPT ![c] = Absent], revision' = revision + 1
  PROVE  Fresh(c)
BY AbsentIsNoObject DEF TypeOK, Fresh

\* A step either leaves the CRDs as they are, or writes one of them.
LEMMA CrdStep ==
  ASSUME TypeOK, [Next]_vars
  PROVE  UNCHANGED <<crd, revision>> \/ \E c \in Crds : Fresh(c)
<1>1. ASSUME NEW s \in Sessions, Step(s)
      PROVE  UNCHANGED <<crd, revision>> \/ \E c \in Crds : Fresh(c)
  <2>1. CASE UNCHANGED <<crd, revision>>
    BY <2>1
  <2>2. CASE /\ Target(s) \in Crds
             /\ \/ \E m \in Manifests, t \in BOOLEAN : Store(Target(s), m, t)
                \/ crd' = [crd EXCEPT ![Target(s)] = Absent] /\ revision' = revision + 1
    <3>1. CASE \E m \in Manifests, t \in BOOLEAN : Store(Target(s), m, t)
      BY <2>2, <3>1, StoreIsFresh
    <3>2. CASE crd' = [crd EXCEPT ![Target(s)] = Absent] /\ revision' = revision + 1
      BY <2>2, <3>2, RemoveIsFresh
    <3>3. QED
      BY <2>2, <3>1, <3>2
  <2>3. ASSUME (\E v \in Verbs : Start(s, v)) \/ Get(s) \/ Abort(s)
        PROVE  UNCHANGED <<crd, revision>>
    BY <2>3 DEF Start, Get, Abort, cluster
  <2>4. ASSUME Create(s) \/ Update(s) \/ Delete(s)
        PROVE  \/ UNCHANGED <<crd, revision>>
               \/ /\ Target(s) \in Crds
                  /\ \/ \E m \in Manifests, t \in BOOLEAN : Store(Target(s), m, t)
                     \/ crd' = [crd EXCEPT ![Target(s)] = Absent] /\ revision' = revision + 1
    <3>1. Target(s) \in Crds /\ s \in Manifests
      BY <2>4 DEF Create, Update, Delete, TypeOK, Busy, Target, Manifests
    <3>2. Exists(Target(s)) => /\ crd[Target(s)].manifest \in Manifests
                               /\ crd[Target(s)].terminating \in BOOLEAN
      BY DEF Exists, Object
    <3>3. CASE Create(s)
      BY <3>1, <3>3 DEF Create
    <3>4. CASE Update(s)
      BY <3>1, <3>2, <3>4 DEF Update, VersionMatches
    <3>5. CASE Delete(s)
      BY <3>1, <3>2, <3>5 DEF Delete
    <3>6. QED
      BY <2>4, <3>3, <3>4, <3>5
  <2>5. QED
    BY <1>1, <2>1, <2>2, <2>3, <2>4 DEF Step
<1>2. ASSUME NEW c \in Crds, ForeignWrite(c) PROVE Fresh(c)
  BY <1>2, StoreIsFresh DEF ForeignWrite
<1>3. ASSUME NEW c \in Crds, Cleanup(c) PROVE Fresh(c)
  BY <1>3, RemoveIsFresh DEF Cleanup
<1>4. CASE UNCHANGED vars
  BY <1>4 DEF vars
<1>5. QED
  BY <1>1, <1>2, <1>3, <1>4 DEF Next

LEMMA VersionStep ==
  TypeOK /\ Versions /\ Snapshots /\ [Next]_vars => Versions' /\ Snapshots'
<1> SUFFICES ASSUME TypeOK, Versions, Snapshots, [Next]_vars
             PROVE  Versions' /\ Snapshots'
  OBVIOUS
<1>1. revision \in Nat /\ revision <= revision'
  BY CrdStep DEF TypeOK, Fresh
<1>2. \A c \in Crds : /\ Exists(c)' => crd'[c].version <= revision'
                      /\ crd'[c] = crd[c] \/ (Exists(c)' => crd'[c].version > revision)
  <2>1. CASE UNCHANGED <<crd, revision>>
    BY <2>1 DEF Versions, Exists
  <2>2. CASE \E c \in Crds : Fresh(c)
    <3>1. PICK c \in Crds : Fresh(c)
      BY <2>2
    <3>2. \A d \in Crds : Exists(d) => crd[d].version \in Nat
      BY DEF Exists, Object
    <3>3. QED
      BY <1>1, <3>1, <3>2 DEF Fresh, Versions, Exists
  <2>3. QED
    BY <2>1, <2>2, CrdStep
\* A session that is about to update took its snapshot before or just now.
<1>3. ASSUME NEW s \in Sessions, pc'[s] = "update"
      PROVE  \/ /\ pc[s] = "update"
                /\ existing'[s] = existing[s] /\ cursor'[s] = cursor[s]
             \/ /\ Target(s) \in Crds /\ Exists(Target(s))
                /\ existing'[s] = crd[Target(s)] /\ cursor'[s] = cursor[s]
                /\ UNCHANGED <<crd, revision>>
  <2>1. ASSUME NEW t \in Sessions, Answer(t)
        PROVE  /\ pc[s] = "update"
               /\ existing'[s] = existing[s] /\ cursor'[s] = cursor[s]
    BY <1>3, <2>1 DEF Answer, Advance, Die, FirstRequest, TypeOK
  <2>2. ASSUME NEW t \in Sessions, NEW v \in Verbs, Start(t, v)
        PROVE  /\ pc[s] = "update"
               /\ existing'[s] = existing[s] /\ cursor'[s] = cursor[s]
    BY <1>3, <2>2 DEF Start, FirstRequest, TypeOK
  <2>3. ASSUME NEW t \in Sessions, OnAlreadyExists(t)
        PROVE  /\ pc[s] = "update"
               /\ existing'[s] = existing[s] /\ cursor'[s] = cursor[s]
    BY <1>3, <2>3 DEF OnAlreadyExists, TypeOK
  <2>4. ASSUME NEW t \in Sessions, Get(t)
        PROVE  \/ /\ pc[s] = "update"
                  /\ existing'[s] = existing[s] /\ cursor'[s] = cursor[s]
               \/ /\ Target(s) \in Crds /\ Exists(Target(s))
                  /\ existing'[s] = crd[Target(s)] /\ cursor'[s] = cursor[s]
                  /\ UNCHANGED <<crd, revision>>
    <3>1. CASE Die(t)
      BY <2>1, <3>1 DEF Answer
    <3>2. CASE ~Die(t)
      BY <1>3, <2>4, <3>2 DEF Get, Target, Busy, TypeOK, cluster
    <3>3. QED
      BY <3>1, <3>2
  <2>5. CASE UNCHANGED session
    BY <1>3, <2>5 DEF session
  <2>6. QED
    BY <2>1, <2>2, <2>3, <2>4, <2>5
       DEF Next, Step, Create, Update, OnConflict, Delete, OnNotFound, Abort,
           Answer, ForeignWrite, Cleanup, vars, session
<1>4. Versions'
  <2>1. ASSUME NEW s \in Sessions, pc'[s] = "update"
        PROVE  existing'[s].version <= revision'
    <3>1. CASE pc[s] = "update" /\ existing'[s] = existing[s]
      <4>1. existing[s].version \in Nat /\ existing[s].version <= revision
        BY <3>1 DEF TypeOK, Versions, Object
      <4>2. revision' \in Nat
        BY TypeStep DEF TypeOK
      <4>3. QED
        BY <1>1, <3>1, <4>1, <4>2
    <3>2. CASE Target(s) \in Crds /\ Exists(Target(s)) /\ existing'[s] = crd[Target(s)] /\ revision' = revision
      BY <3>2 DEF Versions
    <3>3. QED
      BY <1>3, <2>1, <3>1, <3>2
  <2>2. QED
    BY <1>2, <2>1 DEF Versions
<1>5. Snapshots'
  <2> SUFFICES ASSUME NEW s \in Sessions, pc'[s] = "update", VersionMatches(s)'
               PROVE  crd'[cursor'[s]] = existing'[s]
    BY DEF Snapshots, Target
  <2>1. /\ cursor'[s] \in Crds
        /\ crd'[cursor'[s]] \in Object
        /\ crd'[cursor'[s]].version = existing'[s].version
    <3>1. TypeOK'
      BY TypeStep
    <3>2. QED
      BY <3>1 DEF TypeOK, VersionMatches, Exists, Target, Busy
  <2>2. CASE pc[s] = "update" /\ existing'[s] = existing[s] /\ cursor'[s] = cursor[s]
    <3>1. existing[s].version \in Nat /\ existing[s].version <= revision
      BY <2>2 DEF TypeOK, Versions, Object
    <3>2. crd'[Target(s)] = crd[Target(s)]
      BY <1>1, <1>2, <2>1, <2>2, <3>1 DEF Target, Exists
    <3>3. VersionMatches(s)
      BY <2>1, <2>2, <3>2 DEF VersionMatches, Target, Exists
    <3>4. QED
      BY <2>2, <3>2, <3>3 DEF Snapshots, Target
  <2>3. CASE existing'[s] = crd[Target(s)] /\ cursor'[s] = cursor[s] /\ crd' = crd
    BY <2>3 DEF Target
  <2>4. QED
    BY <1>3, <2>2, <2>3
<1>6. QED
  BY <1>4, <1>5

-----------------------------------------------------------------------------
(* What a session leaves behind.                                           *)

\* A request of s that writes its own manifest, or that of the object in
\* place, keeps the footprints of all sessions prefixes.
LEMMA FootprintOfRequest ==
  ASSUME TypeOK, Control, FootprintIsPrefix,
         NEW s \in Sessions, pc[s] \in Busy, Answer(s),
         \A d \in Crds : crd'[d] \in Object =>
           \/ crd[d] \in Object /\ crd'[d].manifest = crd[d].manifest
           \/ d = cursor[s] /\ crd'[d].manifest = s /\ verb[s] = "enable"
  PROVE  FootprintIsPrefix'
<1> SUFFICES ASSUME NEW t \in Sessions, NEW c \in Crds,
                    crd'[c] \in Object, crd'[c].manifest = t
             PROVE  /\ verb'[t] = "enable"
                    /\ c < cursor'[t] \/ (c = cursor'[t] /\ pc'[t] = "fatal")
  BY DEF FootprintIsPrefix, Exists
<1>1. CASE crd[c] \in Object /\ crd'[c].manifest = crd[c].manifest
  <2>1. verb[t] = "enable" /\ (c < cursor[t] \/ (c = cursor[t] /\ pc[t] = "fatal"))
    BY <1>1 DEF FootprintIsPrefix, Exists
  <2>2. c \in Nat /\ cursor[t] \in Nat
    BY NumCrdsAssumption DEF TypeOK, Crds
  <2>3. QED
    BY <2>1, <2>2 DEF Answer, Advance, Die, TypeOK, Busy
<1>2. CASE c = cursor[s] /\ t = s /\ verb[s] = "enable"
  <2>1. c \in Nat
    BY NumCrdsAssumption DEF Crds
  <2>2. QED
    BY <1>2, <2>1 DEF Answer, Advance, Die, TypeOK
<1>3. QED
  BY <1>1, <1>2

LEMMA FootprintStep ==
  TypeOK /\ Control /\ FootprintIsPrefix /\ [Next]_vars => FootprintIsPrefix'
<1> SUFFICES ASSUME TypeOK, Control, FootprintIsPrefix, [Next]_vars
             PROVE  FootprintIsPrefix'
  OBVIOUS
<1>1. ASSUME NEW s \in Sessions, NEW v \in Verbs, Start(s, v) PROVE FootprintIsPrefix'
  <2>1. pc[s] = "idle" /\ verb[s] = "none"
    BY <1>1 DEF Start, Control
  <2>2. ~ \E c \in Crds : Exists(c) /\ crd[c].manifest = s
    BY <2>1 DEF FootprintIsPrefix
  <2>3. QED
    BY <1>1, <2>2 DEF Start, FootprintIsPrefix, Exists, TypeOK, cluster
<1>2. ASSUME NEW s \in Sessions, Create(s) PROVE FootprintIsPrefix'
  <2>1. pc[s] \in Busy /\ Target(s) = cursor[s] /\ cursor[s] \in Crds /\ verb[s] = "enable"
    BY <1>2 DEF Create, Busy, Target, TypeOK, Control
  <2>2. CASE Store(Target(s), s, FALSE) /\ Answer(s)
    BY <2>1, <2>2, FootprintOfRequest DEF Store, TypeOK
  <2>3. CASE OnAlreadyExists(s) /\ UNCHANGED <<crd, revision>>
    BY <1>2, <2>1, <2>3 DEF OnAlreadyExists, FootprintIsPrefix, Exists, Create, TypeOK
  <2>4. QED
    BY <1>2, <2>2, <2>3 DEF Create
<1>3. ASSUME NEW s \in Sessions, Get(s) PROVE FootprintIsPrefix'
  BY <1>3 DEF Get, Die, FootprintIsPrefix, Exists, TypeOK, cluster
<1>4. ASSUME NEW s \in Sessions, Update(s) PROVE FootprintIsPrefix'
  <2>1. pc[s] \in Busy /\ Target(s) = cursor[s] /\ cursor[s] \in Crds /\ verb[s] = "enable"
    BY <1>4 DEF Update, Busy, Target, TypeOK, Control
  <2>2. CASE Store(Target(s), s, crd[Target(s)].terminating) /\ Answer(s)
    BY <2>1, <2>2, FootprintOfRequest DEF Store, TypeOK
  <2>3. CASE OnConflict(s) /\ UNCHANGED <<crd, revision>>
    BY <2>1, <2>3, FootprintOfRequest DEF OnConflict, Answer
  <2>4. QED
    BY <1>4, <2>2, <2>3 DEF Update
<1>5. ASSUME NEW s \in Sessions, Delete(s) PROVE FootprintIsPrefix'
  <2>1. pc[s] \in Busy /\ Target(s) = cursor[s] /\ cursor[s] \in Crds /\ Answer(s)
    BY <1>5 DEF Delete, OnNotFound, Answer, Busy, Target, TypeOK
  <2>2. CASE UNCHANGED <<crd, revision>>
    BY <2>1, <2>2, FootprintOfRequest
  <2>3. CASE Exists(Target(s)) /\ Store(Target(s), crd[Target(s)].manifest, TRUE)
    <3>1. \A d \in Crds : crd'[d] \in Object =>
            crd[d] \in Object /\ crd'[d].manifest = crd[d].manifest
      BY <2>1, <2>3 DEF Store, Exists, TypeOK
    <3>2. QED
      BY <2>1, <3>1, FootprintOfRequest
  <2>4. CASE crd' = [crd EXCEPT ![Target(s)] = Absent]
    <3>1. \A d \in Crds : crd'[d] \in Object => crd'[d] = crd[d]
      BY <2>1, <2>4, AbsentIsNoObject DEF TypeOK
    <3>2. QED
      BY <2>1, <3>1, FootprintOfRequest
  <2>5. QED
    BY <1>5, <2>2, <2>3, <2>4 DEF Delete
<1>6. ASSUME NEW s \in Sessions, Abort(s) PROVE FootprintIsPrefix'
  BY <1>6, FootprintOfRequest DEF Abort, Answer, cluster
<1>7. ASSUME NEW c \in Crds, ForeignWrite(c) PROVE FootprintIsPrefix'
  BY <1>7, SentinelsAssumption DEF ForeignWrite, Store, FootprintIsPrefix, Exists, TypeOK, session
<1>8. ASSUME NEW c \in Crds, Cleanup(c) PROVE FootprintIsPrefix'
  BY <1>8, AbsentIsNoObject DEF Cleanup, FootprintIsPrefix, Exists, TypeOK, session
<1>9. CASE UNCHANGED vars
  BY <1>9 DEF vars, FootprintIsPrefix, Exists
<1>10. QED
  BY <1>1, <1>2, <1>3, <1>4, <1>5, <1>6, <1>7, <1>8, <1>9 DEF Next, Step

-----------------------------------------------------------------------------
(* The theorems.                                                           *)

IInv == TypeOK /\ Control /\ Versions /\ Snapshots /\ FootprintIsPrefix

LEMMA IInvInit == Init => IInv
<1> SUFFICES ASSUME Init PROVE IInv
  OBVIOUS
<1>1. TypeOK
  BY TypeInit
<1>2. Control /\ Snapshots
  BY DEF Init, Control, Snapshots
<1>3. \A c \in Crds : Exists(c) => /\ crd[c].version = 0
                                   /\ crd[c].manifest = Foreign
  BY AbsentIsNoObject DEF Init, Exists
<1>4. Versions
  BY <1>3 DEF Init, Versions
<1>5. FootprintIsPrefix
  BY <1>3, SentinelsAssumption DEF FootprintIsPrefix
<1>6. QED
  BY <1>1, <1>2, <1>4, <1>5 DEF IInv

LEMMA IInvStep == IInv /\ [Next]_vars => IInv'
BY TypeStep, ControlStep, VersionStep, FootprintStep DEF IInv

THEOREM Invariance == Spec => []IInv
BY IInvInit, IInvStep, PTL DEF Spec

\* A command that stops in the middle leaves a prefix of its work.
THEOREM FootprintAlwaysPrefix == Spec => []FootprintIsPrefix
<1>1. IInv => FootprintIsPrefix
  BY DEF IInv
<1>2. QED
  BY <1>1, Invariance, PTL

\* Only its own Update takes a session out of "update" in a step that writes
\* a CRD, and that needs the version of the snapshot.
LEMMA NoLostUpdateStep ==
  IInv /\ [Next]_vars =>
    [\A s \in Sessions :
       pc[s] = "update" /\ pc'[s] # pc[s] /\ crd' # crd
         => crd[Target(s)] = existing[s]]_vars
<1> SUFFICES ASSUME IInv, [Next]_vars, NEW s \in Sessions,
                    pc[s] = "update", pc'[s] # pc[s], crd' # crd
             PROVE  crd[Target(s)] = existing[s]
  OBVIOUS
<1> USE DEF IInv
<1>1. ASSUME NEW t \in Sessions, Answer(t) \/ OnAlreadyExists(t) PROVE t = s
  BY <1>1 DEF Answer, Advance, Die, OnAlreadyExists, TypeOK
<1>2. ~(UNCHANGED vars) /\ ~(UNCHANGED session)
  BY DEF vars, session
<1>3. PICK t \in Sessions : Create(t) \/ Update(t) \/ Delete(t)
  BY <1>2 DEF Next, Step, Start, Get, Abort, ForeignWrite, Cleanup, cluster
<1>4. Update(s)
  BY <1>1, <1>3 DEF Create, Update, Delete, OnConflict, OnNotFound, Answer
<1>5. VersionMatches(s)
  BY <1>4 DEF Update
<1>6. QED
  BY <1>5 DEF Snapshots

\* The optimistic update of applyCRD never overwrites what it has not read.
THEOREM NoUpdateIsLost == Spec => NoLostUpdate
BY Invariance, NoLostUpdateStep, PTL DEF Spec, NoLostUpdate

-----------------------------------------------------------------------------
(* ObjectCrds implements CrdRegistry.                                      *)

LEMMA RegistryInit == Init => Registry!Init
<1> SUFFICES ASSUME Init PROVE Registry!Init
  OBVIOUS
<1>1. \A c \in Crds : \/ ~Exists(c)
                      \/ crd[c].manifest = Foreign /\ crd[c].terminating = FALSE
  BY AbsentIsNoObject DEF Init, Exists
<1>2. Content \in [Crds -> {Foreign, Absent}] /\ Doomed = {}
  BY <1>1 DEF Content, Doomed, Terminating
<1>3. QED
  BY <1>2 DEF Init, Phase, Busy, Registry!Init, Registry!Crds, Crds

\* The answer to a request is, for the registry, the end of the CRD's turn.
LEMMA AnswerMaps ==
  ASSUME TypeOK, Control, NEW s \in Sessions, pc[s] \in Busy
  PROVE  /\ Advance(s) => Registry!Proceed(s)
         /\ Die(s) => Registry!Quit(s)
         /\ Phase[s] = "working"
<1>1. Phase[s] = "working"
  BY DEF Phase
<1>2. ASSUME Advance(s) PROVE Registry!Proceed(s)
  <2>1. Phase' = [Phase EXCEPT ![s] = IF cursor[s] = NumCrds THEN "done" ELSE @]
    BY <1>1, <1>2 DEF Advance, FirstRequest, Phase, TypeOK, Busy
  <2>2. QED
    BY <1>2, <2>1 DEF Advance, Registry!Proceed
<1>3. ASSUME Die(s) PROVE Registry!Quit(s)
  BY <1>3 DEF Die, Registry!Quit, Phase, TypeOK, Busy
<1>4. QED
  BY <1>1, <1>2, <1>3

\* What storing, marking and removing an object is for the registry.
LEMMA StoreMaps ==
  ASSUME TypeOK, NEW c \in Crds, NEW m \in Manifests, NEW t \in BOOLEAN, Store(c, m, t)
  PROVE  /\ Content' = [Content EXCEPT ![c] = m]
         /\ Doomed' = IF t THEN Doomed \union {c} ELSE Doomed \ {c}
<1>1. [version |-> revision + 1, manifest |-> m, terminating |-> t] \in Object
  BY DEF TypeOK, Object
<1>2. \A d \in Crds : /\ crd'[d] \in Object <=> (d = c \/ crd[d] \in Object)
                      /\ crd'[d] = IF d = c
                                     THEN [version |-> revision + 1, manifest |-> m, terminating |-> t]
                                     ELSE crd[d]
  BY <1>1 DEF TypeOK, Store
<1>3. Content' = [Content EXCEPT ![c] = m]
  <2>1. Content' = [d \in Crds |-> IF crd'[d] \in Object THEN crd'[d].manifest ELSE Absent]
    BY DEF Content, Exists
  <2>2. \A d \in Crds : (IF crd'[d] \in Object THEN crd'[d].manifest ELSE Absent)
                       = IF d = c THEN m ELSE Content[d]
    BY <1>2 DEF Content, Exists
  <2>3. Content' = [d \in Crds |-> IF d = c THEN m ELSE Content[d]]
    BY <2>1, <2>2
  <2>4. QED
    BY <2>3 DEF Content
<1>4. Doomed' = IF t THEN Doomed \union {c} ELSE Doomed \ {c}
  BY <1>2 DEF Doomed, Terminating, Exists
<1>5. QED
  BY <1>3, <1>4

LEMMA RemoveMaps ==
  ASSUME TypeOK, NEW c \in Crds, crd' = [crd EXCEPT ![c] = Absent]
  PROVE  /\ Content' = [Content EXCEPT ![c] = Absent]
         /\ Doomed' = Doomed \ {c}
<1>1. \A d \in Crds : /\ crd'[d] \in Object <=> (d # c /\ crd[d] \in Object)
                      /\ d # c => crd'[d] = crd[d]
  BY AbsentIsNoObject DEF TypeOK
<1>2. Content' = [Content EXCEPT ![c] = Absent]
  <2>1. Content' = [d \in Crds |-> IF crd'[d] \in Object THEN crd'[d].manifest ELSE Absent]
    BY DEF Content, Exists
  <2>2. \A d \in Crds : (IF crd'[d] \in Object THEN crd'[d].manifest ELSE Absent)
                       = IF d = c THEN Absent ELSE Content[d]
    BY <1>1 DEF Content, Exists
  <2>3. Content' = [d \in Crds |-> IF d = c THEN Absent ELSE Content[d]]
    BY <2>1, <2>2
  <2>4. QED
    BY <2>3 DEF Content
<1>3. Doomed' = Doomed \ {c}
  BY <1>1 DEF Doomed, Terminating, Exists
<1>4. QED
  BY <1>2, <1>3

LEMMA FrameMaps == UNCHANGED crd => UNCHANGED <<Content, Doomed>>
BY DEF Content, Doomed, Exists, Terminating

LEMMA PhaseFrame == UNCHANGED session => UNCHANGED <<verb, Phase, cursor>>
BY DEF session, Phase

\* Requests that change nothing on the cluster.
LEMMA QuietMaps ==
  ASSUME TypeOK, Control, NEW s \in Sessions, pc[s] \in Busy, UNCHANGED crd
  PROVE  /\ Die(s) => Registry!GiveUp(s)
         /\ OnAlreadyExists(s) => UNCHANGED Registry!vars
<1>1. UNCHANGED <<Content, Doomed>>
  BY FrameMaps
<1>2. ASSUME Die(s) PROVE Registry!GiveUp(s)
  BY <1>1, <1>2, AnswerMaps DEF Registry!GiveUp
<1>3. ASSUME OnAlreadyExists(s) PROVE UNCHANGED Registry!vars
  BY <1>1, <1>3 DEF OnAlreadyExists, Registry!vars, Phase, TypeOK, Busy
<1>4. QED
  BY <1>2, <1>3

\* The two requests that install a manifest.
LEMMA InstallMaps ==
  ASSUME TypeOK, Control, NEW s \in Sessions, pc[s] \in Busy, verb[s] = "enable",
         Answer(s), Doomed' = Doomed, Content' = [Content EXCEPT ![cursor[s]] = s]
  PROVE  Registry!Install(s)
BY AnswerMaps DEF Answer, Registry!Install

LEMMA DeleteMaps ==
  ASSUME TypeOK, Control, NEW s \in Sessions, Delete(s)
  PROVE  Registry!Remove(s)
<1>1. /\ pc[s] \in Busy /\ verb[s] = "disable"
      /\ Target(s) = cursor[s] /\ cursor[s] \in Crds
  BY DEF Delete, Busy, Target, TypeOK, Control
<1>2. Registry!Proceed(s) \/ Registry!Quit(s)
  BY <1>1, AnswerMaps DEF Delete, OnNotFound, Answer
<1>3. \/ /\ Content' = [Content EXCEPT ![cursor[s]] = Absent]
         /\ Doomed' = Doomed \ {cursor[s]}
      \/ /\ Content[cursor[s]] # Absent
         /\ Doomed' = Doomed \union {cursor[s]}
         /\ Content' = Content
  <2>1. CASE ~Exists(Target(s)) /\ UNCHANGED <<crd, revision>>
    <3>1. Content[cursor[s]] = Absent /\ cursor[s] \notin Doomed
      BY <1>1, <2>1 DEF Content, Doomed, Terminating
    <3>2. Content' = Content /\ Doomed' = Doomed
      BY <2>1, FrameMaps
    <3>3. Content = [Content EXCEPT ![cursor[s]] = Absent]
      BY <3>1 DEF Content
    <3>4. QED
      BY <3>1, <3>2, <3>3
  <2>2. CASE Exists(Target(s)) /\ Store(Target(s), crd[Target(s)].manifest, TRUE)
    <3>1. crd[Target(s)].manifest \in Manifests
      BY <2>2 DEF Exists, Object
    <3>2. /\ Content' = [Content EXCEPT ![cursor[s]] = crd[Target(s)].manifest]
          /\ Doomed' = Doomed \union {cursor[s]}
      BY <1>1, <2>2, <3>1, StoreMaps
    <3>3. Content[cursor[s]] = crd[Target(s)].manifest
      BY <1>1, <2>2 DEF Content
    <3>4. Content[cursor[s]] # Absent
      BY <3>1, <3>3, SentinelsAssumption DEF Manifests
    <3>5. Content' = Content
      BY <3>2, <3>3 DEF Content
    <3>6. QED
      BY <3>2, <3>4, <3>5
  <2>3. CASE crd' = [crd EXCEPT ![Target(s)] = Absent]
    BY <1>1, <2>3, RemoveMaps
  <2>4. CASE Terminating(Target(s)) /\ UNCHANGED <<crd, revision>>
    <3>1. crd[Target(s)].manifest \in Manifests
      BY <2>4 DEF Terminating, Exists, Object
    <3>2. Content[cursor[s]] = crd[Target(s)].manifest
      BY <1>1, <2>4 DEF Content, Terminating
    <3>3. Content[cursor[s]] # Absent
      BY <3>1, <3>2, SentinelsAssumption DEF Manifests
    <3>4. cursor[s] \in Doomed
      BY <1>1, <2>4 DEF Doomed
    <3>5. Content' = Content /\ Doomed' = Doomed
      BY <2>4, FrameMaps
    <3>6. QED
      BY <3>3, <3>4, <3>5
  <2>5. QED
    BY <2>1, <2>2, <2>3, <2>4 DEF Delete
<1>4. QED
  BY <1>1, <1>2, <1>3, AnswerMaps DEF Registry!Remove

\* Each step of a session, and of the cluster, is a step of the registry or
\* none: AlreadyExists and Get are invisible there, Conflict is giving up.
LEMMA RegistryStep == IInv /\ [Next]_vars => [Registry!Next]_Registry!vars
<1> SUFFICES ASSUME IInv, [Next]_vars PROVE [Registry!Next]_Registry!vars
  OBVIOUS
<1> USE DEF IInv
<1>1. ASSUME NEW s \in Sessions, NEW v \in Verbs, Start(s, v) PROVE Registry!Begin(s, v)
  <2>1. UNCHANGED <<Content, Doomed>>
    BY <1>1, FrameMaps DEF Start, cluster
  <2>2. FirstRequest(v) \in Busy
    BY DEF FirstRequest, Busy
  <2>3. QED
    BY <1>1, <2>1, <2>2 DEF Start, Registry!Begin, Phase, TypeOK, Busy
<1>2. ASSUME NEW s \in Sessions, Create(s)
      PROVE  Registry!Install(s) \/ UNCHANGED Registry!vars
  <2>1. /\ pc[s] \in Busy /\ verb[s] = "enable" /\ s \in Manifests
        /\ Target(s) = cursor[s] /\ cursor[s] \in Crds
    BY <1>2 DEF Create, Busy, Target, TypeOK, Control, Manifests
  <2>2. CASE ~Exists(Target(s)) /\ Store(Target(s), s, FALSE) /\ Answer(s)
    <3>1. Content' = [Content EXCEPT ![cursor[s]] = s] /\ Doomed' = Doomed \ {cursor[s]}
      BY <2>1, <2>2, StoreMaps
    <3>2. Doomed' = Doomed
      BY <2>1, <2>2, <3>1 DEF Doomed, Terminating
    <3>3. QED
      BY <2>1, <2>2, <3>1, <3>2, InstallMaps
  <2>3. CASE OnAlreadyExists(s) /\ UNCHANGED <<crd, revision>>
    BY <2>1, <2>3, QuietMaps
  <2>4. QED
    BY <1>2, <2>2, <2>3 DEF Create
<1>3. ASSUME NEW s \in Sessions, Get(s)
      PROVE  Registry!GiveUp(s) \/ UNCHANGED Registry!vars
  <2>1. pc[s] \in Busy /\ UNCHANGED crd
    BY <1>3 DEF Get, Busy, cluster
  <2>2. CASE Die(s)
    BY <2>1, <2>2, QuietMaps
  <2>3. CASE pc' = [pc EXCEPT ![s] = "update"] /\ UNCHANGED <<verb, cursor>>
    BY <2>1, <2>3, FrameMaps DEF Registry!vars, Phase, TypeOK, Busy
  <2>4. QED
    BY <1>3, <2>2, <2>3 DEF Get
<1>4. ASSUME NEW s \in Sessions, Update(s)
      PROVE  Registry!Install(s) \/ Registry!GiveUp(s)
  <2>1. /\ pc[s] \in Busy /\ verb[s] = "enable" /\ s \in Manifests
        /\ Target(s) = cursor[s] /\ cursor[s] \in Crds
    BY <1>4 DEF Update, Busy, Target, TypeOK, Control, Manifests
  <2>2. CASE /\ VersionMatches(s) /\ Answer(s)
             /\ Store(Target(s), s, crd[Target(s)].terminating)
    <3>1. Exists(Target(s)) /\ crd[Target(s)].terminating \in BOOLEAN
      BY <2>2 DEF VersionMatches, Exists, Object
    <3>2. /\ Content' = [Content EXCEPT ![cursor[s]] = s]
          /\ Doomed' = IF crd[Target(s)].terminating THEN Doomed \union {cursor[s]}
                                                     ELSE Doomed \ {cursor[s]}
      BY <2>1, <2>2, <3>1, StoreMaps
    <3>3. crd[Target(s)].terminating <=> cursor[s] \in Doomed
      BY <2>1, <3>1 DEF Doomed, Terminating
    <3>4. Doomed' = Doomed
      BY <3>2, <3>3
    <3>5. QED
      BY <2>1, <2>2, <3>2, <3>4, InstallMaps
  <2>3. CASE OnConflict(s) /\ UNCHANGED <<crd, revision>>
    BY <2>1, <2>3, QuietMaps DEF OnConflict
  <2>4. QED
    BY <1>4, <2>2, <2>3 DEF Update
<1>5. ASSUME NEW s \in Sessions, Delete(s) PROVE Registry!Remove(s)
  BY <1>5, DeleteMaps
<1>6. ASSUME NEW s \in Sessions, Abort(s) PROVE Registry!GiveUp(s)
  BY <1>6, QuietMaps DEF Abort, cluster
<1>7. ASSUME NEW c \in Crds, ForeignWrite(c) PROVE Registry!Interfere(c)
  <2>1. Foreign \in Manifests /\ Terminating(c) \in BOOLEAN
    BY DEF Manifests, Terminating, Exists, Object
  <2>2. /\ Content' = [Content EXCEPT ![c] = Foreign]
        /\ Doomed' = IF Terminating(c) THEN Doomed \union {c} ELSE Doomed \ {c}
    BY <1>7, <2>1, StoreMaps DEF ForeignWrite
  <2>3. Doomed' = Doomed
    BY <2>2 DEF Doomed
  <2>4. QED
    BY <1>7, <2>2, <2>3, PhaseFrame DEF ForeignWrite, Registry!Interfere
<1>8. ASSUME NEW c \in Crds, Cleanup(c) PROVE Registry!Vanish(c)
  BY <1>8, RemoveMaps, PhaseFrame DEF Cleanup, Registry!Vanish, Doomed
<1>9. CASE UNCHANGED vars
  BY <1>9, FrameMaps, PhaseFrame DEF vars, session, Registry!vars
<1>10. Registry!Crds = Crds /\ Registry!Verbs = Verbs
  BY DEF Registry!Crds, Crds, Registry!Verbs, Verbs
<1>11. QED
  BY <1>1, <1>2, <1>3, <1>4, <1>5, <1>6, <1>7, <1>8, <1>9, <1>10
     DEF Next, Step, Registry!Next

\* The commands behave like indivisible installations and removals.
THEOREM RegistryRefined == Spec => ImplementsRegistry
BY RegistryInit, RegistryStep, Invariance, PTL DEF Spec, ImplementsRegistry, Registry!Spec

-----------------------------------------------------------------------------
(* The lone enable.                                                        *)

\* A request of s that leaves the CRDs it is past alone, dooms none, and, if
\* it goes on, has put its manifest on the CRD at its cursor.
LEMMA SoloOfRequest ==
  ASSUME TypeOK, Solo, NEW s \in Sessions, pc[s] \in Busy, Answer(s),
         UNCHANGED history,
         verb[s] = "enable" =>
           /\ \A d \in Crds : crd'[d] \in Object /\ crd'[d].terminating
                                => Terminating(d)
           /\ \A d \in Crds : d # cursor[s] => crd'[d] = crd[d]
           /\ Advance(s) => /\ crd'[cursor[s]] \in Object
                            /\ crd'[cursor[s]].manifest = s
  PROVE  Solo'
<1> SUFFICES ASSUME NEW t \in Sessions, quiet = t
             PROVE  /\ pc'[t] # "idle"
                    /\ \A u \in Sessions : pc'[u] \in Busy => u = t
                    /\ verb'[t] = "enable" =>
                         /\ \A c \in Crds : crd'[c] \in Object /\ crd'[c].terminating => c \in dying
                         /\ \A c \in Crds : c < cursor'[t] =>
                              /\ crd'[c] \in Object => crd'[c].manifest = t
                              /\ crd'[c] \notin Object => c \in dying
  BY DEF Solo, Terminating, Exists, history
<1>1. t = s
  BY DEF Solo
<1>2. /\ pc'[s] # "idle"
      /\ \A u \in Sessions : pc'[u] \in Busy => u = s
      /\ verb' = verb
  BY <1>1 DEF Solo, Answer, Advance, Die, FirstRequest, TypeOK, Busy
<1>3. ASSUME verb[s] = "enable", NEW c \in Crds, crd'[c] \in Object, crd'[c].terminating
      PROVE  c \in dying
  BY <1>1, <1>3 DEF Solo
<1>4. ASSUME verb[s] = "enable", NEW c \in Crds, c < cursor'[s]
      PROVE  /\ crd'[c] \in Object => crd'[c].manifest = s
             /\ crd'[c] \notin Object => c \in dying
  <2>1. c \in Nat /\ cursor[s] \in Nat
    BY NumCrdsAssumption DEF Crds, TypeOK
  <2>2. CASE c < cursor[s]
    BY <1>1, <1>4, <2>1, <2>2 DEF Solo, Exists
  <2>3. CASE c = cursor[s]
    <3>1. Advance(s)
      BY <1>4, <2>1, <2>3 DEF Answer, Die
    <3>2. QED
      BY <1>4, <2>3, <3>1
  <2>4. c <= cursor[s]
    BY <1>4, <2>1 DEF Answer, Advance, Die, TypeOK
  <2>5. QED
    BY <2>1, <2>2, <2>3, <2>4
<1>5. QED
  BY <1>1, <1>2, <1>3, <1>4

LEMMA SoloStep == IInv /\ Solo /\ [Next]_vars => Solo'
<1> SUFFICES ASSUME IInv, Solo, [Next]_vars PROVE Solo'
  OBVIOUS
<1> USE DEF IInv
<1>1. ASSUME NEW s \in Sessions, NEW v \in Verbs, Start(s, v) PROVE Solo'
  <2> SUFFICES ASSUME NEW t \in Sessions, quiet' = t
               PROVE  /\ t = s /\ cursor[t] = 1 /\ pc'[t] # "idle"
                      /\ \A u \in Sessions : pc'[u] \in Busy => u = t
                      /\ dying' = {c \in Crds : Terminating(c)}
                      /\ UNCHANGED <<crd, cursor>>
    <3>1. \A c \in Crds : ~(c < 1)
      BY NumCrdsAssumption DEF Crds
    <3>2. QED
      BY <3>1 DEF Solo, Terminating, Exists
  <2>1. t = s /\ ~(\E u \in Sessions : pc[u] \in Busy)
    BY <1>1, SentinelsAssumption DEF Start
  <2>2. pc[s] = "idle"
    BY <1>1 DEF Start
  <2>3. QED
    BY <1>1, <2>1, <2>2 DEF Start, FirstRequest, TypeOK, cluster, Control, Busy
<1>2. ASSUME NEW s \in Sessions, Create(s) PROVE Solo'
  <2>1. pc[s] \in Busy /\ Target(s) = cursor[s] /\ cursor[s] \in Crds /\ s \in Manifests
    BY <1>2 DEF Create, Busy, Target, TypeOK, Manifests
  <2>2. CASE Store(Target(s), s, FALSE) /\ Answer(s)
    <3>1. /\ \A d \in Crds : d # cursor[s] => crd'[d] = crd[d]
          /\ crd'[cursor[s]] = [version |-> revision + 1, manifest |-> s, terminating |-> FALSE]
          /\ crd'[cursor[s]] \in Object
      BY <2>1, <2>2, StoreType DEF Store, TypeOK, Object
    <3>2. QED
      BY <1>2, <2>1, <2>2, <3>1, SoloOfRequest DEF Create, Terminating, Exists
  <2>3. CASE OnAlreadyExists(s) /\ UNCHANGED <<crd, revision>>
    BY <1>2, <2>1, <2>3 DEF Create, OnAlreadyExists, Solo, Terminating, Exists, TypeOK, history, Busy
  <2>4. QED
    BY <1>2, <2>2, <2>3 DEF Create
<1>3. ASSUME NEW s \in Sessions, Get(s) PROVE Solo'
  BY <1>3 DEF Get, Die, Solo, Terminating, Exists, TypeOK, history, cluster, Busy
<1>4. ASSUME NEW s \in Sessions, Update(s) PROVE Solo'
  <2>1. pc[s] \in Busy /\ Target(s) = cursor[s] /\ cursor[s] \in Crds /\ s \in Manifests
    BY <1>4 DEF Update, Busy, Target, TypeOK, Manifests
  <2>2. CASE VersionMatches(s) /\ Store(Target(s), s, crd[Target(s)].terminating) /\ Answer(s)
    <3>1. Exists(Target(s)) /\ crd[Target(s)].terminating \in BOOLEAN
      BY <2>2 DEF VersionMatches, Exists, Object
    <3>2. /\ \A d \in Crds : d # cursor[s] => crd'[d] = crd[d]
          /\ crd'[cursor[s]].manifest = s
          /\ crd'[cursor[s]].terminating = crd[cursor[s]].terminating
          /\ crd'[cursor[s]] \in Object
      BY <2>1, <2>2, <3>1 DEF Store, TypeOK, Object
    <3>3. QED
      BY <1>4, <2>1, <2>2, <3>1, <3>2, SoloOfRequest DEF Update, Terminating, Exists
  <2>3. CASE OnConflict(s) /\ UNCHANGED <<crd, revision>>
    <3>1. Die(s) /\ ~Advance(s)
      BY <2>1, <2>3 DEF OnConflict, Die, Advance, TypeOK, Crds
    <3>2. QED
      BY <1>4, <2>1, <2>3, <3>1, SoloOfRequest DEF Update, Answer, Terminating, Exists
  <2>4. QED
    BY <1>4, <2>2, <2>3 DEF Update
<1>5. ASSUME NEW s \in Sessions, Delete(s) PROVE Solo'
  BY <1>5, SoloOfRequest DEF Delete, OnNotFound, Answer, Busy, Control
<1>6. ASSUME NEW s \in Sessions, Abort(s) PROVE Solo'
  <2>1. Die(s) /\ ~Advance(s)
    BY <1>6, NumCrdsAssumption DEF Abort, Die, Advance, TypeOK, Crds
  <2>2. QED
    BY <1>6, <2>1, SoloOfRequest DEF Abort, Answer, Terminating, Exists, cluster
<1>7. ASSUME NEW c \in Crds, ForeignWrite(c) PROVE Solo'
  BY <1>7, SentinelsAssumption DEF ForeignWrite, Solo
<1>8. ASSUME NEW c \in Crds, Cleanup(c) PROVE Solo'
  <2>1. \A d \in Crds : /\ crd'[d] \in Object => crd[d] \in Object /\ crd'[d] = crd[d]
                        /\ crd'[d] \notin Object => crd[d] \notin Object \/ d = c
    BY <1>8, AbsentIsNoObject DEF Cleanup, TypeOK
  <2>2. Terminating(c) /\ UNCHANGED session /\ UNCHANGED history
    BY <1>8 DEF Cleanup
  <2>3. QED
    BY <2>1, <2>2 DEF Solo, Terminating, Exists, session, history
<1>9. CASE UNCHANGED vars
  BY <1>9 DEF vars, Solo, Terminating, Exists
<1>10. QED
  BY <1>1, <1>2, <1>3, <1>4, <1>5, <1>6, <1>7, <1>8, <1>9 DEF Next, Step

\* A lone enable that reports success has installed every CRD, save those
\* that were already on their way out when it began.
THEOREM SoloEnableCorrect == Spec => []SoloEnableInstalls
<1>1. Init => Solo
  BY SentinelsAssumption DEF Init, Solo
<1>2. IInv /\ Solo => SoloEnableInstalls
  <2> SUFFICES ASSUME IInv, Solo, NEW s \in Sessions, quiet = s, verb[s] = "enable",
                      pc[s] = "done", NEW c \in Crds
               PROVE  /\ Exists(c) => crd[c].manifest = s
                      /\ ~Exists(c) \/ Terminating(c) => c \in dying
    BY DEF SoloEnableInstalls
  <2>1. c < cursor[s]
    BY NumCrdsAssumption DEF IInv, Control, Crds
  <2>2. QED
    BY <2>1 DEF Solo
<1>3. QED
  BY <1>1, <1>2, SoloStep, Invariance, PTL DEF Spec
-----------------------------------------------------------------------------
(* What a lone disable does: the safety that DisableConverges builds on.   *)

\* A lone disable leaves nothing behind its cursor but CRDs whose deletion has
\* begun.
SoloDisable ==
  \A s \in Sessions : quiet = s /\ verb[s] = "disable" =>
    \A c \in Crds : c < cursor[s] /\ Exists(c) => Terminating(c)

\* A disable that had the cluster to itself and reported success.
Disabled(s) == quiet = s /\ verb[s] = "disable" /\ pc[s] = "done"

LEMMA SoloDisableStep == IInv /\ Solo /\ SoloDisable /\ [Next]_vars => SoloDisable'
<1> SUFFICES ASSUME IInv, Solo, SoloDisable, [Next]_vars,
                    NEW t \in Sessions, quiet' = t, verb'[t] = "disable",
                    NEW c \in Crds, c < cursor'[t], Exists(c)'
             PROVE  Terminating(c)'
  BY DEF SoloDisable
<1> USE DEF IInv
<1>1. ASSUME NEW s \in Sessions, NEW v \in Verbs, Start(s, v) PROVE Terminating(c)'
  <2>1. t = s
    BY <1>1, SentinelsAssumption DEF Start
  <2>2. cursor'[t] = 1 /\ ~(c < 1)
    <3>1. pc[s] = "idle" /\ cursor' = cursor
      BY <1>1 DEF Start
    <3>2. cursor[s] = 1
      BY <3>1 DEF Control
    <3>3. ~(c < 1)
      BY NumCrdsAssumption DEF Crds
    <3>4. QED
      BY <2>1, <3>1, <3>2, <3>3
  <2>3. QED
    BY <2>2
<1>2. ASSUME NEW s \in Sessions, pc[s] \in {"create", "get", "update"}, quiet' = quiet,
             verb' = verb
      PROVE  FALSE
  BY <1>2 DEF Solo, Control, Busy
<1>3. ASSUME NEW s \in Sessions, Create(s) \/ Get(s) \/ Update(s) PROVE Terminating(c)'
  <2>1. quiet' = quiet /\ verb' = verb
    BY <1>3 DEF Create, Get, Update, OnAlreadyExists, OnConflict, Answer, Advance, Die, history
  <2>2. pc[s] \in {"create", "get", "update"}
    BY <1>3 DEF Create, Get, Update
  <2>3. QED
    BY <1>2, <2>1, <2>2
<1>4. ASSUME NEW s \in Sessions, Delete(s) PROVE Terminating(c)'
  <2>1. quiet = t /\ s = t /\ verb[t] = "disable"
    BY <1>4 DEF Delete, OnNotFound, Answer, Advance, Die, history, Solo, Busy
  <2>2. cursor[t] \in Nat /\ c \in Nat /\ Target(t) = cursor[t] /\ cursor'[t] \in {cursor[t], cursor[t] + 1}
    <3>1. cursor' = cursor \/ cursor' = [cursor EXCEPT ![t] = @ + 1]
      BY <1>4, <2>1 DEF Delete, OnNotFound, Answer, Advance, Die
    <3>2. cursor \in [Sessions -> 1..(NumCrds + 1)] /\ NumCrds \in Nat /\ c \in Nat
      BY NumCrdsAssumption DEF TypeOK, Crds
    <3>3. QED
      BY <3>1, <3>2 DEF Target
  <2>3. CASE c = Target(t)
    <3>1. CASE ~Exists(c) /\ UNCHANGED crd
      BY <3>1 DEF Exists
    <3>2. CASE Store(c, crd[c].manifest, TRUE)
      BY <3>2 DEF Store, Terminating, Exists, TypeOK
    <3>3. CASE crd' = [crd EXCEPT ![c] = Absent]
      BY <3>3, AbsentIsNoObject DEF Exists, TypeOK
    <3>4. CASE Terminating(c) /\ UNCHANGED crd
      BY <3>4 DEF Terminating, Exists
    <3>5. QED
      BY <1>4, <2>1, <2>3, <3>1, <3>2, <3>3, <3>4 DEF Delete
  <2>4. CASE c # Target(t)
    <3>1. crd'[c] = crd[c] /\ c < cursor[t]
      <4>1. crd'[c] = crd[c]
        BY <1>4, <2>1, <2>4 DEF Delete, Store, TypeOK
      <4>2. QED
        BY <4>1, <2>2, <2>4
    <3>2. QED
      BY <2>1, <3>1 DEF SoloDisable, Terminating, Exists
  <2>5. QED
    BY <2>3, <2>4
<1>5. ASSUME NEW s \in Sessions, Abort(s) PROVE Terminating(c)'
  BY <1>5 DEF Abort, Die, cluster, history, SoloDisable, Terminating, Exists
<1>6. ASSUME NEW d \in Crds, ForeignWrite(d) PROVE Terminating(c)'
  BY <1>6, SentinelsAssumption DEF ForeignWrite
<1>7. ASSUME NEW d \in Crds, Cleanup(d) PROVE Terminating(c)'
  <2>1. crd'[c] = crd[c]
    BY <1>7, AbsentIsNoObject DEF Cleanup, Exists, TypeOK
  <2>2. quiet = t /\ verb[t] = "disable" /\ c < cursor[t]
    BY <1>7 DEF Cleanup, session, history
  <2>3. QED
    BY <2>1, <2>2 DEF SoloDisable, Terminating, Exists
<1>8. CASE UNCHANGED vars
  BY <1>8 DEF vars, SoloDisable, Terminating, Exists
<1>9. QED
  BY <1>1, <1>3, <1>4, <1>5, <1>6, <1>7, <1>8 DEF Next, Step

\* A lone disable that reports success has begun the deletion of every CRD there
\* is, and until somebody else acts a CRD can only go away, none comes back: all
\* that DisableConverges still needs is that the cluster ends what it has begun.
THEOREM DisableDooms ==
  Spec => /\ [](\A s \in Sessions : Disabled(s) => \A c \in Crds : Exists(c) => Terminating(c))
          /\ [][\A s \in Sessions : Disabled(s) /\ quiet' = s =>
                  /\ Disabled(s)'
                  /\ \A c \in Crds : crd'[c] # crd[c] => ~Exists(c)']_vars
<1>1. Init => Solo /\ SoloDisable
  BY SentinelsAssumption DEF Init, Solo, SoloDisable
<1>2. IInv /\ SoloDisable =>
        \A s \in Sessions : Disabled(s) => \A c \in Crds : Exists(c) => Terminating(c)
  <2> SUFFICES ASSUME IInv, SoloDisable, NEW s \in Sessions, Disabled(s), NEW c \in Crds, Exists(c)
               PROVE  Terminating(c)
    OBVIOUS
  <2>1. c < cursor[s]
    BY NumCrdsAssumption DEF IInv, Control, Crds, Disabled
  <2>2. QED
    BY <2>1 DEF SoloDisable, Disabled
<1>3. IInv /\ Solo /\ [Next]_vars =>
        [\A s \in Sessions : Disabled(s) /\ quiet' = s =>
           /\ Disabled(s)'
           /\ \A c \in Crds : crd'[c] # crd[c] => ~Exists(c)']_vars
  <2> SUFFICES ASSUME IInv, Solo, Next, NEW s \in Sessions, Disabled(s), quiet' = s
               PROVE  /\ Disabled(s)'
                      /\ \A c \in Crds : crd'[c] # crd[c] => ~Exists(c)'
    OBVIOUS
  <2>1. \A u \in Sessions : pc[u] \notin Busy
    BY DEF Solo, Disabled, Busy
  <2>2. ASSUME NEW u \in Sessions, Step(u) PROVE FALSE
    <3>1. PICK v \in Verbs : Start(u, v)
      BY <2>1, <2>2 DEF Step, Create, Get, Update, Delete, Abort, Busy
    <3>2. u = s
      BY <3>1, SentinelsAssumption DEF Start
    <3>3. QED
      BY <3>1, <3>2 DEF Start, Disabled
  <2>3. ASSUME NEW c \in Crds, ForeignWrite(c) PROVE FALSE
    BY <2>3, SentinelsAssumption DEF ForeignWrite
  <2>4. ASSUME NEW c \in Crds, Cleanup(c)
        PROVE  /\ Disabled(s)'
               /\ \A d \in Crds : crd'[d] # crd[d] => ~Exists(d)'
    BY <2>4, AbsentIsNoObject DEF Cleanup, Disabled, Exists, IInv, TypeOK, session, history
  <2>5. QED
    BY <2>2, <2>3, <2>4 DEF Next
<1>4. QED
  BY <1>1, <1>2, <1>3, SoloStep, SoloDisableStep, Invariance, PTL DEF Spec
=============================================================================
