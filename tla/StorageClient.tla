---------------------------- MODULE StorageClient ----------------------------
(***************************************************************************)
(* `odf subvolume ls|delete' and `odf cephfs-snap ls|delete', and how they *)
(* resolve --storage-client (pkg/filesystem/storageclient.go): five reads, *)
(* each of objects the previous one named, and then the operation, with    *)
(* what was read. Between two of these steps the cluster changes.          *)
(*                                                                         *)
(* A session is one run of a command. The cluster and the operation itself *)
(* (kubectl-rook-ceph) are external. Every incarnation of a StorageClient  *)
(* has a uid and a subvolume group of its own: the client that sessions    *)
(* ask for by its name has the uids 1, 2, ..., another client has uid 0.   *)
(* The ClientProfile of an incarnation outlives it until it is collected.  *)
(*                                                                         *)
(* An operator called Slip... is a plausible mistake in the operator that  *)
(* follows it; no specification uses it.                                   *)
(***************************************************************************)
EXTENDS Naturals

CONSTANTS Sessions,    \* runs of a command
          Lines,       \* command lines
          Default,     \* the subvolume group "csi"
          Flag,        \* the one --svg names
          Argument,    \* the one the third argument names
          MaxUid       \* bound on the incarnations of the client

\* --storage-client was given; where a subvolume group was named.
Line == [command : {"subvolume ls", "subvolume delete", "snap ls", "snap delete"},
         storageClient : BOOLEAN,
         named : {"nowhere", "flag", "argument"}]

ASSUME LinesAssumption  == Lines \subseteq Line
ASSUME MaxUidAssumption == MaxUid \in Nat \ {0}
ASSUME GroupsAssumption == {Default, Flag, Argument} \intersect Nat = {}

Other == 0
Uids  == 0..MaxUid
NoUid == MaxUid + 1   \* no such StorageClient, or none was read

VARIABLES client,    \* the uid of the StorageClient of that name
          last,      \* the last uid it had
          profile,   \* the ClientProfile of each uid
          backing,   \* which of the objects behind the profiles are in order
          pc,        \* the next step of each session
          line,      \* its command line
          uid,       \* the StorageClient it has read
          group,     \* the subvolume group it is to work in
          touched,   \* history: the groups it has worked in
          since,     \* history: the first uid the name could have since it began
          quiet      \* history: the sessions since whose beginning nothing changed

cluster == <<client, last, profile, backing>>
vars    == <<client, last, profile, backing, pc, line, uid, group, touched, since, quiet>>

Groups == {Default, Flag, Argument} \union Uids

\* The CephConnection and its monitors, the Secret and its keys, the pods of
\* the CSI controller plugin.
Backing == {"connection", "secret", "pods"}

Resolving == {"client", "profiles"} \union Backing
Running   == Resolving \union {"act"}

NoLine == [command |-> "subvolume ls", storageClient |-> FALSE, named |-> "nowhere"]

Init ==
  /\ client  \in {1, NoUid}
  /\ last    = 1
  /\ profile \in [Uids -> {"none", "usable", "lacking"}]
  /\ \A u \in Uids : u > last => profile[u] = "none"
  /\ backing \in {Backing} \union {Backing \ {b} : b \in Backing}
  /\ pc      = [s \in Sessions |-> "idle"]
  /\ line    = [s \in Sessions |-> NoLine]
  /\ uid     = [s \in Sessions |-> NoUid]
  /\ group   = [s \in Sessions |-> Default]
  /\ touched = [s \in Sessions |-> {}]
  /\ since   = [s \in Sessions |-> NoUid]
  /\ quiet   = {}

-----------------------------------------------------------------------------
(* The four commands.                                                      *)

\* listCmd, snapshotListCmd and snapshotDeleteCmd take --svg.
FlagGroup(l) == IF l.named = "flag" THEN Flag ELSE Default

\* deleteCmd takes its third argument, and ignores the --svg it accepts.
ArgumentGroup(l) == IF l.named = "argument" THEN Argument ELSE Default

NamedGroup(l) == IF l.command = "subvolume delete" THEN ArgumentGroup(l) ELSE FlagGroup(l)

Goto(s, next) == pc' = [pc EXCEPT ![s] = next]

Start(s, l) ==
  /\ pc[s] = "idle"
  /\ line'  = [line  EXCEPT ![s] = l]
  /\ group' = [group EXCEPT ![s] = NamedGroup(l)]
  /\ Goto(s, IF l.storageClient THEN "client" ELSE "act")
  /\ since' = [since EXCEPT ![s] = IF client = NoUid THEN last + 1 ELSE client]
  /\ quiet' = quiet \union {s}
  /\ UNCHANGED <<cluster, uid, touched>>

\* The operation, in the group that was resolved. It may fail on its way.
Act(s) ==
  /\ pc[s] = "act"
  /\ touched' = [touched EXCEPT ![s] = @ \union {group[s]}]
  /\ Goto(s, "done")
  /\ UNCHANGED <<cluster, line, uid, group, since, quiet>>

-----------------------------------------------------------------------------
(* ResolveStorageClientConfig. An error is fatal to the command.           *)

\* 1. The StorageClient.
GetClient(s) ==
  /\ pc[s] = "client"
  /\ IF client = NoUid
       THEN Goto(s, "fatal") /\ UNCHANGED uid
       ELSE Goto(s, "profiles") /\ uid' = [uid EXCEPT ![s] = client]
  /\ UNCHANGED <<cluster, line, group, touched, since, quiet>>

SlipOwnedByAny(u, s) == TRUE

\* ref.UID == storageClient.UID.
OwnedBy(u, s) == u = uid[s]

Owned(s) == {u \in Uids : profile[u] # "none" /\ OwnedBy(u, s)}

SlipNoChecks(u) == TRUE

\* Nothing is missing of what is taken from the profile.
Usable(u) == profile[u] = "usable"

SlipKeepFlag(s, u) == UNCHANGED group

\* What is resolved replaces what was named on the command line.
Override(s, u) == group' = [group EXCEPT ![s] = u]

\* 2. and 3. The ClientProfile it owns.
ListProfiles(s) ==
  /\ pc[s] = "profiles"
  /\ \/ \E u \in Owned(s) :
          /\ Usable(u)
          /\ Override(s, u)
          /\ Goto(s, "connection")
     \/ /\ \A u \in Owned(s) : ~Usable(u)
        /\ Goto(s, "fatal") /\ UNCHANGED group
  /\ UNCHANGED <<cluster, line, uid, touched, since, quiet>>

Next3(b) == CASE b = "connection" -> "secret" [] b = "secret" -> "pods" [] b = "pods" -> "act"

\* 4., 5. and 6.: an object that is not there, or not complete, is an error.
Read(s, b) ==
  /\ pc[s] = b
  /\ Goto(s, IF b \in backing THEN Next3(b) ELSE "fatal")
  /\ UNCHANGED <<cluster, line, uid, group, touched, since, quiet>>

\* A request fails, or the user interrupts the command; also within Act.
Abort(s) ==
  /\ pc[s] \in Running
  /\ Goto(s, "aborted")
  /\ touched' = [touched EXCEPT ![s] = @ \union (IF pc[s] = "act" THEN {group[s]} ELSE {})]
  /\ UNCHANGED <<cluster, line, uid, group, since, quiet>>

Step(s) ==
  \/ \E l \in Lines : Start(s, l)
  \/ GetClient(s) \/ ListProfiles(s) \/ Act(s) \/ Abort(s)
  \/ \E b \in Backing : Read(s, b)

-----------------------------------------------------------------------------
(* The cluster (external).                                                 *)

Changes == quiet' = {} /\ UNCHANGED <<pc, line, uid, group, touched, since>>

DeleteClient ==
  /\ Changes
  /\ client # NoUid /\ client' = NoUid
  /\ UNCHANGED <<last, profile, backing>>

CreateClient ==
  /\ Changes
  /\ client = NoUid /\ last < MaxUid
  /\ last' = last + 1 /\ client' = last + 1
  /\ UNCHANGED <<profile, backing>>

\* The operator of a client creates its profile, or changes it.
WriteProfile(u) ==
  /\ Changes
  /\ u \in {client, Other}
  /\ \E state \in {"usable", "lacking"} : profile' = [profile EXCEPT ![u] = state]
  /\ UNCHANGED <<client, last, backing>>

\* The profile of a client that is gone is collected, sooner or later.
CollectProfile(u) ==
  /\ Changes
  /\ u # client /\ profile[u] # "none"
  /\ profile' = [profile EXCEPT ![u] = "none"]
  /\ UNCHANGED <<client, last, backing>>

ChangeBacking(b) ==
  /\ Changes
  /\ backing' = IF b \in backing THEN backing \ {b} ELSE backing \union {b}
  /\ UNCHANGED <<client, last, profile>>

Environment ==
  \/ DeleteClient \/ CreateClient
  \/ \E u \in Uids : WriteProfile(u) \/ CollectProfile(u)
  \/ \E b \in Backing : ChangeBacking(b)

Next == Environment \/ \E s \in Sessions : Step(s)

Spec == Init /\ [][Next]_vars

-----------------------------------------------------------------------------
(* Properties.                                                             *)

\* Types; the client has the last uid, no later one has a profile, and a
\* session that resolves was asked to and is past what it has read.
TypeOK ==
  /\ last \in 1..MaxUid /\ client \in {last, NoUid}
  /\ profile \in [Uids -> {"none", "usable", "lacking"}]
  /\ \A u \in Uids : u > last => profile[u] = "none"
  /\ backing \subseteq Backing
  /\ pc \in [Sessions -> {"idle", "done", "fatal", "aborted"} \union Running]
  /\ line \in [Sessions -> Line]
  /\ uid \in [Sessions -> Uids \union {NoUid}]
  /\ group \in [Sessions -> Groups]
  /\ touched \in [Sessions -> SUBSET Groups]
  /\ since \in [Sessions -> 1..NoUid]
  /\ quiet \subseteq Sessions
  /\ \A s \in Sessions :
       /\ pc[s] \in Resolving => line[s].storageClient
       /\ pc[s] \in {"profiles"} \union Backing => uid[s] \in since[s]..last
       /\ pc[s] \in Backing => group[s] = uid[s]

\* A command that was given a StorageClient works in a group of that client,
\* never in another client's nor in one named on the command line; and in
\* none of an incarnation that was gone before the command began, however
\* often the client is re-created and its profiles are collected meanwhile.
OwnGroupsOnly ==
  \A s \in Sessions : line[s].storageClient => touched[s] \subseteq since[s]..last

\* What the reads are to find out, on a cluster that stands still.
Resolvable == client # NoUid /\ profile[client] = "usable" /\ backing = Backing

\* If nothing changes while a command resolves the client, the five reads
\* together are one: the command gets to its operation, in the group of
\* the client, if and only if the client can be resolved.
QuietVerdict ==
  \A s \in quiet :
    line[s].storageClient =>
      /\ pc[s] \in {"act", "done"} => Resolvable /\ group[s] = client
      /\ pc[s] = "fatal" => ~Resolvable
=============================================================================
