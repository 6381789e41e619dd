------------------------- MODULE StorageClientProofs -------------------------
(* What holds of StorageClient for any number of sessions, command lines   *)
(* and incarnations of the client.                                         *)
EXTENDS StorageClient, TLAPS

\* What a session may find now did not exist too early: a name that is free
\* will have a uid that is higher than the last.
Fresh ==
  \A s \in Sessions : pc[s] # "idle" =>
    /\ since[s] <= last + 1
    /\ client # NoUid => since[s] <= last

\* A session that was given a StorageClient and has come to its operation is in
\* a group of this client; one that has not begun has touched nothing.
Located ==
  \A s \in Sessions :
    /\ pc[s] = "idle" => touched[s] = {}
    /\ pc[s] = "act" /\ line[s].storageClient => group[s] \in since[s]..last

\* What a session has read so far, if nothing has changed since it began.
ReadBefore(at) == CASE at = "connection" -> {}
               [] at = "secret"     -> {"connection"}
               [] at = "pods"       -> {"connection", "secret"}

Settled ==
  \A s \in quiet :
    /\ pc[s] \in {"profiles"} \union Backing => client # NoUid /\ uid[s] = client
    /\ pc[s] \in Backing => profile[client] = "usable" /\ ReadBefore(pc[s]) \subseteq backing

IInv == TypeOK /\ Fresh /\ Located /\ Settled /\ OwnGroupsOnly /\ QuietVerdict

-----------------------------------------------------------------------------
(* Types.                                                                  *)

LEMMA Numbers == MaxUid \in Nat /\ NoUid \in Nat /\ MaxUid >= 1 /\ NoUid = MaxUid + 1
  BY MaxUidAssumption DEF NoUid

LEMMA TypeInit == Init => TypeOK
<1> SUFFICES ASSUME Init PROVE TypeOK
  OBVIOUS
<1>1. NoLine \in Line
  BY DEF NoLine, Line
<1>2. backing \subseteq Backing
  BY DEF Init
<1>3. QED
  BY <1>1, <1>2, Numbers DEF Init, TypeOK, Uids, Groups, Running, Resolving, Backing

LEMMA StartType == ASSUME TypeOK, NEW s \in Sessions, NEW l \in Lines, Start(s, l) PROVE TypeOK'
<1>1. l \in Line /\ l.storageClient \in BOOLEAN
  BY LinesAssumption DEF Line
<1>2. NamedGroup(l) \in Groups
  BY DEF NamedGroup, ArgumentGroup, FlagGroup, Groups
<1>3. (IF client = NoUid THEN last + 1 ELSE client) \in 1..NoUid
  BY Numbers DEF TypeOK
<1>4. QED
  BY <1>1, <1>2, <1>3, Numbers DEF TypeOK, Start, Goto, cluster, Resolving, Running, Backing

LEMMA StepType == ASSUME TypeOK, Fresh, NEW s \in Sessions, Step(s) PROVE TypeOK'
<1> USE DEF Goto, cluster
<1>1. ASSUME NEW l \in Lines, Start(s, l) PROVE TypeOK'
  BY <1>1, StartType
<1>2. CASE GetClient(s)
  <2>1. CASE client = NoUid
    BY <1>2, <2>1 DEF TypeOK, GetClient, Resolving, Running, Backing
  <2>2. CASE client # NoUid
    <3>1. client \in Uids /\ client \in since[s]..last
      BY <1>2, <2>2, Numbers DEF TypeOK, Fresh, GetClient, Uids
    <3>2. pc' = [pc EXCEPT ![s] = "profiles"] /\ uid' = [uid EXCEPT ![s] = client]
      BY <1>2, <2>2 DEF GetClient
    <3>3. QED
      BY <1>2, <3>1, <3>2 DEF TypeOK, GetClient, Resolving, Running, Backing
  <2>3. QED
    BY <2>1, <2>2
<1>3. CASE ListProfiles(s)
  <2>1. CASE \E u \in Owned(s) : Usable(u) /\ Override(s, u) /\ Goto(s, "connection")
    <3> PICK u \in Uids : u = uid[s] /\ group' = [group EXCEPT ![s] = u]
                       /\ pc' = [pc EXCEPT ![s] = "connection"]
      BY <2>1 DEF Owned, OwnedBy, Override
    <3>1. QED
      BY <1>3 DEF TypeOK, ListProfiles, Groups, Resolving, Running, Backing
  <2>2. CASE Goto(s, "fatal") /\ UNCHANGED group
    BY <1>3, <2>2 DEF TypeOK, ListProfiles, Resolving, Running, Backing
  <2>3. QED
    BY <1>3, <2>1, <2>2 DEF ListProfiles
<1>4. CASE Act(s)
  BY <1>4 DEF TypeOK, Act, Resolving, Running, Backing
<1>5. CASE Abort(s)
  BY <1>5 DEF TypeOK, Abort, Resolving, Running, Backing
<1>6. ASSUME NEW b \in Backing, Read(s, b) PROVE TypeOK'
  BY <1>6 DEF TypeOK, Read, Next3, Resolving, Running, Backing
<1>7. QED
  BY <1>1, <1>2, <1>3, <1>4, <1>5, <1>6 DEF Step

LEMMA EnvironmentType == ASSUME TypeOK, Environment PROVE TypeOK'
<1> USE Numbers DEF Changes
<1>1. CASE DeleteClient
  BY <1>1 DEF TypeOK, DeleteClient
<1>2. CASE CreateClient
  BY <1>2 DEF TypeOK, CreateClient, Uids, Resolving, Running, Backing
<1>3. ASSUME NEW u \in Uids, WriteProfile(u) PROVE TypeOK'
  BY <1>3 DEF TypeOK, WriteProfile, Uids, Other
<1>4. ASSUME NEW u \in Uids, CollectProfile(u) PROVE TypeOK'
  BY <1>4 DEF TypeOK, CollectProfile
<1>5. ASSUME NEW b \in Backing, ChangeBacking(b) PROVE TypeOK'
  BY <1>5 DEF TypeOK, ChangeBacking
<1>6. QED
  BY <1>1, <1>2, <1>3, <1>4, <1>5 DEF Environment

-----------------------------------------------------------------------------
(* The inductive invariant.                                                *)

LEMMA IInit == Init => IInv
<1> SUFFICES ASSUME Init PROVE IInv
  OBVIOUS
<1>1. QED
  BY TypeInit DEF Init, IInv, Fresh, Located, Settled, OwnGroupsOnly, QuietVerdict

LEMMA StartStep ==
  ASSUME IInv, TypeOK', NEW s \in Sessions, NEW l \in Lines, Start(s, l) PROVE IInv'
<1> USE DEF Start, Goto, cluster
<1>t. /\ pc \in [Sessions -> {"idle", "done", "fatal", "aborted"} \union Running]
      /\ line \in [Sessions -> Line] /\ group \in [Sessions -> Groups]
      /\ since \in [Sessions -> 1..NoUid] /\ quiet \subseteq Sessions
      /\ last \in 1..MaxUid /\ client \in {last, NoUid}
  BY DEF IInv, TypeOK
<1>1. pc'[s] = IF l.storageClient THEN "client" ELSE "act"
  BY <1>t
<1>2. line'[s] = l /\ since'[s] = IF client = NoUid THEN last + 1 ELSE client
  BY <1>t
<1>3. Fresh'
  BY <1>t, <1>2, Numbers DEF IInv, Fresh
<1>4. Located'
  BY <1>t, <1>1, <1>2 DEF IInv, Located
<1>5. Settled'
  BY <1>t, <1>1 DEF IInv, Settled, Backing, ReadBefore
<1>6. OwnGroupsOnly'
  BY <1>t, <1>2 DEF IInv, Located, OwnGroupsOnly
<1>7. QuietVerdict'
  BY <1>t, <1>1, <1>2 DEF IInv, QuietVerdict, Resolvable
<1>8. QED
  BY <1>3, <1>4, <1>5, <1>6, <1>7 DEF IInv

LEMMA GetClientStep == ASSUME IInv, TypeOK', NEW s \in Sessions, GetClient(s) PROVE IInv'
<1> USE DEF GetClient, Goto, cluster
<1>t. /\ pc \in [Sessions -> {"idle", "done", "fatal", "aborted"} \union Running]
      /\ uid \in [Sessions -> Uids \union {NoUid}] /\ quiet \subseteq Sessions
  BY DEF IInv, TypeOK
<1>3. Fresh'
  BY <1>t DEF IInv, Fresh
<1>4. Located'
  BY <1>t DEF IInv, Located
<1>5. Settled'
  BY <1>t DEF IInv, Settled, Backing, ReadBefore
<1>6. OwnGroupsOnly'
  BY DEF IInv, OwnGroupsOnly
<1>7. QuietVerdict'
  BY <1>t DEF IInv, QuietVerdict, Resolvable
<1>8. QED
  BY <1>3, <1>4, <1>5, <1>6, <1>7 DEF IInv

LEMMA ListProfilesStep == ASSUME IInv, TypeOK', NEW s \in Sessions, ListProfiles(s) PROVE IInv'
<1> USE DEF Goto
<1>t. /\ pc \in [Sessions -> {"idle", "done", "fatal", "aborted"} \union Running]
      /\ group \in [Sessions -> Groups] /\ quiet \subseteq Sessions
      /\ client \in {last, NoUid} /\ last \in 1..MaxUid
  BY DEF IInv, TypeOK
<1>u. /\ pc[s] = "profiles"
      /\ UNCHANGED <<client, last, profile, backing, line, uid, touched, since, quiet>>
  BY DEF ListProfiles, cluster
<1>1. CASE \E u \in Owned(s) : Usable(u) /\ Override(s, u) /\ Goto(s, "connection")
  <2>1. /\ profile[uid[s]] = "usable"
        /\ group' = [group EXCEPT ![s] = uid[s]] /\ pc' = [pc EXCEPT ![s] = "connection"]
    BY <1>1 DEF Owned, OwnedBy, Usable, Override
  <2>3. Fresh'
    BY <1>t, <1>u, <2>1 DEF IInv, Fresh
  <2>4. Located'
    BY <1>t, <1>u, <2>1 DEF IInv, Located
  <2>5. Settled'
    BY <1>t, <1>u, <2>1 DEF IInv, Settled, ReadBefore
  <2>6. OwnGroupsOnly'
    BY <1>u DEF IInv, OwnGroupsOnly
  <2>7. QuietVerdict'
    BY <1>t, <1>u, <2>1 DEF IInv, QuietVerdict, Resolvable
  <2>8. QED
    BY <2>3, <2>4, <2>5, <2>6, <2>7 DEF IInv
<1>2. CASE (\A u \in Owned(s) : ~Usable(u)) /\ Goto(s, "fatal") /\ UNCHANGED group
  <2>1. s \in quiet => ~Resolvable
    BY <1>2, <1>u, <1>t, Numbers DEF IInv, Settled, Resolvable, Owned, OwnedBy, Usable, Uids
  <2>3. Fresh'
    BY <1>t, <1>u, <1>2 DEF IInv, Fresh
  <2>4. Located'
    BY <1>t, <1>u, <1>2 DEF IInv, Located
  <2>5. Settled'
    BY <1>t, <1>u, <1>2 DEF IInv, Settled, Backing
  <2>6. OwnGroupsOnly'
    BY <1>u DEF IInv, OwnGroupsOnly
  <2>7. QuietVerdict'
    BY <1>t, <1>u, <1>2, <2>1 DEF IInv, QuietVerdict, Resolvable
  <2>8. QED
    BY <2>3, <2>4, <2>5, <2>6, <2>7 DEF IInv
<1>3. QED
  BY <1>1, <1>2 DEF ListProfiles

LEMMA ReadStep ==
  ASSUME IInv, TypeOK', NEW s \in Sessions, NEW b \in Backing, Read(s, b) PROVE IInv'
<1> USE DEF Read, Goto, cluster, Backing
<1>t. /\ pc \in [Sessions -> {"idle", "done", "fatal", "aborted"} \union Running]
      /\ quiet \subseteq Sessions /\ line \in [Sessions -> Line]
  BY DEF IInv, TypeOK
<1>o. group[s] = uid[s] /\ uid[s] \in since[s]..last
  BY DEF IInv, TypeOK
<1>1. pc'[s] = IF b \in backing THEN Next3(b) ELSE "fatal"
  BY <1>t
<1>2. /\ Next3(b) \in {"secret", "pods", "act"} /\ (Next3(b) = "act") = (b = "pods")
      /\ Next3(b) # "act" => ReadBefore(Next3(b)) = ReadBefore(b) \union {b}
  BY DEF Next3, ReadBefore
<1>3. Fresh'
  BY <1>t DEF IInv, Fresh
<1>4. Located'
  BY <1>t, <1>o, <1>1, <1>2 DEF IInv, Located
<1>5. Settled'
  BY <1>t, <1>1, <1>2 DEF IInv, Settled
<1>6. OwnGroupsOnly'
  BY DEF IInv, OwnGroupsOnly
<1>7. QuietVerdict'
  <2>1. s \in quiet /\ pc'[s] = "act" => Resolvable /\ group[s] = client
    BY <1>1, <1>2, <1>o DEF IInv, Settled, Resolvable, ReadBefore, TypeOK
  <2>2. pc'[s] = "fatal" => ~Resolvable
    BY <1>1, <1>2 DEF Resolvable
  <2>3. pc'[s] # "done"
    BY <1>1, <1>2
  <2>4. QED
    BY <1>t, <2>1, <2>2, <2>3 DEF IInv, QuietVerdict, Resolvable
<1>8. QED
  BY <1>3, <1>4, <1>5, <1>6, <1>7 DEF IInv

LEMMA EndStep == ASSUME IInv, TypeOK', NEW s \in Sessions, Act(s) \/ Abort(s) PROVE IInv'
<1> USE DEF Act, Abort, Goto, cluster
<1>t. /\ pc \in [Sessions -> {"idle", "done", "fatal", "aborted"} \union Running]
      /\ touched \in [Sessions -> SUBSET Groups] /\ quiet \subseteq Sessions
  BY DEF IInv, TypeOK
<1>1. /\ touched'[s] \subseteq touched[s] \union (IF pc[s] = "act" THEN {group[s]} ELSE {})
      /\ \A t \in Sessions \ {s} : touched'[t] = touched[t]
  BY <1>t
<1>3. Fresh'
  BY <1>t DEF IInv, Fresh, Running, Resolving, Backing
<1>4. Located'
  BY <1>t DEF IInv, Located
<1>5. Settled'
  BY <1>t DEF IInv, Settled, Backing
<1>6. OwnGroupsOnly'
  BY <1>1 DEF IInv, OwnGroupsOnly, Located
<1>7. QuietVerdict'
  BY <1>t DEF IInv, QuietVerdict, Resolvable
<1>8. QED
  BY <1>3, <1>4, <1>5, <1>6, <1>7 DEF IInv

LEMMA EnvironmentStep == ASSUME IInv, TypeOK', Environment PROVE IInv'
<1>t. /\ last \in 1..MaxUid /\ client \in {last, NoUid}
      /\ since \in [Sessions -> 1..NoUid]
  BY DEF IInv, TypeOK
<1>u. quiet' = {} /\ UNCHANGED <<pc, line, uid, group, touched, since>>
  BY DEF Environment, DeleteClient, CreateClient, WriteProfile, CollectProfile, ChangeBacking,
         Changes
<1>1. \/ UNCHANGED last /\ client' \in {client, NoUid}
      \/ client = NoUid /\ last' = last + 1 /\ last' <= MaxUid /\ client' = last'
  BY <1>t, Numbers
    DEF Environment, DeleteClient, CreateClient, WriteProfile, CollectProfile, ChangeBacking
<1>3. Fresh'
  BY <1>t, <1>u, <1>1, Numbers DEF IInv, Fresh
<1>4. Located'
  BY <1>t, <1>u, <1>1, Numbers DEF IInv, Located
<1>5. Settled' /\ QuietVerdict'
  BY <1>u DEF Settled, QuietVerdict
<1>6. OwnGroupsOnly'
  <2>1. \A s \in Sessions : since[s]..last \subseteq since[s]..last'
    BY <1>t, <1>1, Numbers
  <2>2. QED
    BY <1>u, <2>1 DEF IInv, OwnGroupsOnly
<1>7. QED
  BY <1>3, <1>4, <1>5, <1>6 DEF IInv

LEMMA IStep == IInv /\ [Next]_vars => IInv'
<1> SUFFICES ASSUME IInv, [Next]_vars PROVE IInv'
  OBVIOUS
<1>1. CASE Environment
  BY <1>1, EnvironmentType, EnvironmentStep DEF IInv
<1>2. ASSUME NEW s \in Sessions, Step(s) PROVE IInv'
  <2>1. TypeOK'
    BY <1>2, StepType DEF IInv
  <2>2. QED
    BY <1>2, <2>1, StartStep, GetClientStep, ListProfilesStep, ReadStep, EndStep DEF Step
<1>3. CASE UNCHANGED vars
  BY <1>3 DEF vars, IInv, TypeOK, Fresh, Located, Settled, OwnGroupsOnly, QuietVerdict, Resolvable
<1>4. QED
  BY <1>1, <1>2, <1>3 DEF Next

\* The inductive invariant of StorageClient.
THEOREM Invariance == Spec => []IInv
<1>1. QED
  BY IInit, IStep, PTL DEF Spec

\* The variables of StorageClient keep their types, and a session that resolves
\* the client is where what it has read allows it to be.
THEOREM TypeCorrect == Spec => []TypeOK
<1>1. IInv => TypeOK
  BY DEF IInv
<1>2. QED
  BY <1>1, Invariance, PTL

\* However often the client is re-created meanwhile, a command works only in a
\* group of an incarnation that it could have meant.
THEOREM OwnGroupsOnlyCorrect == Spec => []OwnGroupsOnly
<1>1. IInv => OwnGroupsOnly
  BY DEF IInv
<1>2. QED
  BY <1>1, Invariance, PTL

\* On a cluster that stands still the reads are as good as one.
THEOREM QuietVerdictCorrect == Spec => []QuietVerdict
<1>1. IInv => QuietVerdict
  BY DEF IInv
<1>2. QED
  BY <1>1, Invariance, PTL
=============================================================================
