----------------------------- MODULE ObjectCrds -----------------------------
(***************************************************************************)
(* pkg/noobaa/crds.go, run by `odf object enable remote-obc' (InstallCRDs) *)
(* and `odf object disable remote-obc' (UninstallCRDs).                    *)
(*                                                                         *)
(* A session is one run of the program. Every request it sends to the API  *)
(* server is one step; between two requests of a session the other         *)
(* sessions, other writers of the CRDs, and the cluster's own deletion of  *)
(* a terminating CRD take their steps. The cluster is external: a CRD is   *)
(* absent, or an object with a resource version (drawn from one counter    *)
(* for the whole store), the manifest it carries, and a mark that it is    *)
(* being deleted.                                                          *)
(*                                                                         *)
(* An operator called Slip... is a plausible mistake in the operator that  *)
(* follows it; no specification uses it.                                   *)
(***************************************************************************)
EXTENDS Naturals

CONSTANTS Sessions,    \* runs of the program
          NumCrds,     \* length of embeddedCRDPaths (2 in the source)
          Foreign,     \* a manifest written by somebody else
          Absent,      \* no such CRD
          Nobody,      \* not a session
          MaxForeign   \* bound on the writes of others

ASSUME NumCrdsAssumption == NumCrds \in Nat \ {0}
ASSUME MaxForeignAssumption == MaxForeign \in Nat
ASSUME SentinelsAssumption ==
  /\ Foreign \notin Sessions
  /\ Nobody \notin Sessions
  /\ Absent \notin Sessions \union {Foreign}

VARIABLES crd,        \* the CRDs on the cluster
          revision,   \* the store's revision counter
          meddled,    \* writes of others so far
          verb,       \* the command of each session
          pc,         \* its next request
          cursor,     \* its place in the list of CRDs
          existing,   \* the object its last Get returned
          quiet,      \* history: the session that began last, if nobody else acted since
          dying       \* history: the CRDs that were terminating when it began

cluster == <<crd, revision, meddled>>
session == <<verb, pc, cursor, existing>>
history == <<quiet, dying>>
vars    == <<crd, revision, meddled, verb, pc, cursor, existing, quiet, dying>>

Crds      == 1..NumCrds
Manifests == Sessions \union {Foreign}
Verbs     == {"enable", "disable"}
Object    == [version : Nat, manifest : Manifests, terminating : BOOLEAN]
Busy      == {"create", "get", "update", "delete"}
Ended     == {"done", "fatal"}

ASSUME AbsentIsNoObject == Absent \notin Object

Exists(c)      == crd[c] \in Object
Terminating(c) == Exists(c) /\ crd[c].terminating

Init ==
  /\ crd \in [Crds -> {Absent} \union
                      {[version |-> 0, manifest |-> Foreign, terminating |-> FALSE]}]
  /\ revision = 0
  /\ meddled  = 0
  /\ verb     = [s \in Sessions |-> "none"]
  /\ pc       = [s \in Sessions |-> "idle"]
  /\ cursor   = [s \in Sessions |-> 1]
  /\ existing = [s \in Sessions |-> Absent]
  /\ quiet    = Nobody
  /\ dying    = {}

-----------------------------------------------------------------------------
(* The control of the two loops.                                           *)

\* The request each iteration starts with.
FirstRequest(v) == IF v = "enable" THEN "create" ELSE "delete"

SlipReversed(s) == NumCrds + 1 - cursor[s]

\* The CRD a session is at: both lists name OB, then OBC.
Target(s) == cursor[s]

SlipOneTooMany(s) ==
  /\ cursor' = [cursor EXCEPT ![s] = @ + 1]
  /\ pc' = [pc EXCEPT ![s] = IF cursor[s] > NumCrds THEN "done" ELSE FirstRequest(verb[s])]
  /\ existing' = [existing EXCEPT ![s] = Absent]
  /\ UNCHANGED verb

\* Nothing failed: on to the next CRD, or out of the loop.
Advance(s) ==
  /\ cursor' = [cursor EXCEPT ![s] = @ + 1]
  /\ pc' = [pc EXCEPT ![s] = IF cursor[s] = NumCrds THEN "done" ELSE FirstRequest(verb[s])]
  /\ existing' = [existing EXCEPT ![s] = Absent]
  /\ UNCHANGED verb

\* logging.Fatal: the program ends, and nothing of what it did is undone.
Die(s) ==
  /\ pc' = [pc EXCEPT ![s] = "fatal"]
  /\ existing' = [existing EXCEPT ![s] = Absent]
  /\ UNCHANGED <<verb, cursor>>

\* The cluster has done what it was asked. The answer says so, or it is lost
\* (a timeout, a broken connection, an interrupt) and the program takes the
\* request for failed.
Answer(s) == Advance(s) \/ Die(s)

\* Every write gets the next revision of the store.
Store(c, manifest, terminating) ==
  /\ revision' = revision + 1
  /\ crd' = [crd EXCEPT ![c] = [version     |-> revision + 1,
                                manifest    |-> manifest,
                                terminating |-> terminating]]

-----------------------------------------------------------------------------
(* A session.                                                              *)

Start(s, v) ==
  /\ pc[s] = "idle"
  /\ verb'  = [verb EXCEPT ![s] = v]
  /\ pc'    = [pc EXCEPT ![s] = FirstRequest(v)]
  /\ quiet' = IF \E t \in Sessions : pc[t] \in Busy THEN Nobody ELSE s
  /\ dying' = {c \in Crds : Terminating(c)}
  /\ UNCHANGED <<cluster, cursor, existing>>

SlipExistsIsFine(s) == Advance(s)

\* AlreadyExists is the one error of Create that applyCRD goes on from.
OnAlreadyExists(s) ==
  /\ pc' = [pc EXCEPT ![s] = "get"]
  /\ UNCHANGED <<verb, cursor, existing>>

Create(s) ==
  /\ pc[s] = "create"
  /\ \/ /\ ~Exists(Target(s))
        /\ Store(Target(s), s, FALSE)
        /\ Answer(s)
     \/ /\ Exists(Target(s))
        /\ OnAlreadyExists(s)
        /\ UNCHANGED <<crd, revision>>
  /\ UNCHANGED <<meddled, history>>

Get(s) ==
  /\ pc[s] = "get"
  /\ \/ /\ Exists(Target(s))
        /\ existing' = [existing EXCEPT ![s] = crd[Target(s)]]
        /\ pc' = [pc EXCEPT ![s] = "update"]
        /\ UNCHANGED <<verb, cursor>>
     \/ /\ ~Exists(Target(s))
        /\ Die(s)
  /\ UNCHANGED <<cluster, history>>

SlipNoResourceVersion(s) == Exists(Target(s))

\* crd.ResourceVersion = existing.ResourceVersion, so that the API server
\* refuses the update of any object but the one that was read.
VersionMatches(s) ==
  Exists(Target(s)) /\ crd[Target(s)].version = existing[s].version

SlipConflictIsFine(s) == Advance(s)

\* The caller of applyCRD takes Conflict, and NotFound, for fatal: no retry.
OnConflict(s) == Die(s)

\* An update replaces the manifest; it does not call a deletion off.
Update(s) ==
  /\ pc[s] = "update"
  /\ \/ /\ VersionMatches(s)
        /\ Store(Target(s), s, crd[Target(s)].terminating)
        /\ Answer(s)
     \/ /\ ~VersionMatches(s)
        /\ OnConflict(s)
        /\ UNCHANGED <<crd, revision>>
  /\ UNCHANGED <<meddled, history>>

SlipStopAtNotFound(s) ==
  /\ pc' = [pc EXCEPT ![s] = "done"]
  /\ UNCHANGED <<verb, cursor, existing>>

\* NotFound is no error of a Delete: the loop continues.
OnNotFound(s) == Advance(s)

\* A deletion removes the CRD at once, or marks it and leaves the rest to the
\* cluster (DeleteOptions asks for no wait); marking it twice is no write.
Delete(s) ==
  /\ pc[s] = "delete"
  /\ \/ /\ ~Exists(Target(s))
        /\ OnNotFound(s)
        /\ UNCHANGED <<crd, revision>>
     \/ /\ Exists(Target(s)) /\ ~Terminating(Target(s))
        /\ \/ Store(Target(s), crd[Target(s)].manifest, TRUE)
           \/ crd' = [crd EXCEPT ![Target(s)] = Absent] /\ revision' = revision + 1
        /\ Answer(s)
     \/ /\ Terminating(Target(s))
        /\ Answer(s)
        /\ UNCHANGED <<crd, revision>>
  /\ UNCHANGED <<meddled, history>>

\* A request is refused or never arrives, or the user interrupts the program.
Abort(s) ==
  /\ pc[s] \in Busy
  /\ Die(s)
  /\ UNCHANGED <<cluster, history>>

-----------------------------------------------------------------------------
(* The rest of the cluster (external).                                     *)

\* Another program creates the CRD, or changes it.
ForeignWrite(c) ==
  /\ meddled < MaxForeign
  /\ meddled' = meddled + 1
  /\ Store(c, Foreign, Terminating(c))
  /\ quiet' = Nobody
  /\ UNCHANGED <<session, dying>>

\* The deletion of a terminating CRD completes.
Cleanup(c) ==
  /\ Terminating(c)
  /\ crd' = [crd EXCEPT ![c] = Absent]
  /\ revision' = revision + 1
  /\ UNCHANGED <<meddled, session, history>>

-----------------------------------------------------------------------------
Step(s) ==
  \/ \E v \in Verbs : Start(s, v)
  \/ Create(s) \/ Get(s) \/ Update(s) \/ Delete(s)
  \/ Abort(s)

Next ==
  \/ \E s \in Sessions : Step(s)
  \/ \E c \in Crds : ForeignWrite(c) \/ Cleanup(c)

Spec == Init /\ [][Next]_vars

\* The cluster completes the deletions it has begun. Nothing is asked of the
\* sessions: a user may interrupt them, or never start one.
FairSpec == Spec /\ \A c \in Crds : WF_vars(Cleanup(c))

-----------------------------------------------------------------------------
(* Properties.                                                             *)

\* Types; a session that is not through with its list is at a CRD of it, and one
\* that is about to update has read an object.
TypeOK ==
  /\ crd \in [Crds -> Object \union {Absent}]
  /\ revision \in Nat
  /\ meddled \in 0..MaxForeign
  /\ verb \in [Sessions -> Verbs \union {"none"}]
  /\ pc \in [Sessions -> {"idle"} \union Busy \union Ended]
  /\ cursor \in [Sessions -> 1..(NumCrds + 1)]
  /\ existing \in [Sessions -> Object \union {Absent}]
  /\ quiet \in Sessions \union {Nobody}
  /\ dying \subseteq Crds
  /\ \A s \in Sessions :
       /\ pc[s] \in {"idle"} \union Busy => cursor[s] \in Crds
       /\ pc[s] = "update" => existing[s] \in Object

\* An update of applyCRD only ever overwrites the very object its Get
\* returned: whatever others did in between (an update, a deletion, a
\* deletion and a re-creation) makes it fail instead of being lost.
NoLostUpdate ==
  [][\A s \in Sessions :
       pc[s] = "update" /\ pc'[s] # pc[s] /\ crd' # crd
         => crd[Target(s)] = existing[s]]_vars

\* However a session ended, what it left on the cluster is a prefix of its
\* list: no CRD after the one it stopped at carries its manifest, and none
\* at all if it was a disable. A failed enable can be completed by another.
FootprintIsPrefix ==
  \A s \in Sessions, c \in Crds :
    Exists(c) /\ crd[c].manifest = s
      => /\ verb[s] = "enable"
         /\ c < cursor[s] \/ (c = cursor[s] /\ pc[s] = "fatal")

\* An enable that had the cluster to itself and reported success has left
\* every CRD in place with its manifest, except those that were already
\* terminating when it began: these carry its manifest or are gone.
SoloEnableInstalls ==
  \A s \in Sessions :
    quiet = s /\ verb[s] = "enable" /\ pc[s] = "done"
      => \A c \in Crds :
           /\ Exists(c) => crd[c].manifest = s
           /\ ~Exists(c) \/ Terminating(c) => c \in dying

\* A disable that had the cluster to itself and reported success is followed
\* by a cluster without the CRDs, unless somebody else acts first.
DisableConverges ==
  \A s \in Sessions :
    (quiet = s /\ verb[s] = "disable" /\ pc[s] = "done")
      ~> (quiet # s \/ \A c \in Crds : ~Exists(c))

\* docs/object.md:5-6: "Install the OB and OBC CRDs, and if the CRDs already
\* exist on the cluster, they will be updated." It does not hold of CRDs that
\* are being deleted: they are updated, reported as installed, and vanish.
EnableLeavesCrdsInstalled ==
  \A s \in Sessions :
    quiet = s /\ verb[s] = "enable" /\ pc[s] = "done" => \A c \in Crds : Exists(c)

-----------------------------------------------------------------------------
(* The abstract registry this implements.                                  *)

Content == [c \in Crds |-> IF Exists(c) THEN crd[c].manifest ELSE Absent]
Doomed  == {c \in Crds : Terminating(c)}
Phase   == [s \in Sessions |-> IF pc[s] \in Busy THEN "working" ELSE pc[s]]

Registry == INSTANCE CrdRegistry WITH
              content <- Content, doomed <- Doomed, phase <- Phase

\* Create, AlreadyExists, Get and Update together act as one indivisible
\* installation of a CRD, Delete as one indivisible removal: a session
\* moves on only after that step, and in a conflict it stops without it.
ImplementsRegistry == Registry!Spec
=============================================================================
