---------------------------- MODULE CrdRegistry ----------------------------
(***************************************************************************)
(* What `odf object enable|disable remote-obc' promises, without the       *)
(* conversation with the API server that achieves it: a command walks      *)
(* through the embedded CRDs in their order and takes each of them to the  *)
(* state it wants in one indivisible step, or gives up where it stands.    *)
(* ObjectCrds, the step by step model of pkg/noobaa/crds.go, implements it.*)
(***************************************************************************)
EXTENDS Naturals

CONSTANTS Sessions,  \* runs of the command
          NumCrds,   \* how many CRDs are embedded in the binary
          Foreign,   \* a manifest written by somebody else
          Absent     \* no such CRD on the cluster

VARIABLES content,   \* whose manifest each CRD carries, or Absent
          doomed,    \* the CRDs being deleted
          verb,      \* what each session was asked to do
          phase,     \* "idle", "working", "done" or "fatal"
          cursor     \* the CRD a session is at

vars == <<content, doomed, verb, phase, cursor>>

Crds  == 1..NumCrds
Verbs == {"enable", "disable"}

Init ==
  /\ content \in [Crds -> {Foreign, Absent}]
  /\ doomed  = {}
  /\ verb    = [s \in Sessions |-> "none"]
  /\ phase   = [s \in Sessions |-> "idle"]
  /\ cursor  = [s \in Sessions |-> 1]

Begin(s, v) ==
  /\ phase[s] = "idle"
  /\ verb'  = [verb  EXCEPT ![s] = v]
  /\ phase' = [phase EXCEPT ![s] = "working"]
  /\ UNCHANGED <<content, doomed, cursor>>

\* The session is through with the CRD at its cursor.
Proceed(s) ==
  /\ cursor' = [cursor EXCEPT ![s] = @ + 1]
  /\ phase'  = [phase EXCEPT ![s] = IF cursor[s] = NumCrds THEN "done" ELSE @]
  /\ UNCHANGED verb

\* The process ends with an error message and exit status 1.
Quit(s) ==
  /\ phase' = [phase EXCEPT ![s] = "fatal"]
  /\ UNCHANGED <<verb, cursor>>

\* The CRD carries the session's manifest; the answer of the API server may
\* get lost. A CRD that is being deleted still is.
Install(s) ==
  /\ phase[s] = "working" /\ verb[s] = "enable"
  /\ content' = [content EXCEPT ![cursor[s]] = s]
  /\ Proceed(s) \/ Quit(s)
  /\ UNCHANGED doomed

\* The CRD is gone, or on its way out.
Remove(s) ==
  /\ phase[s] = "working" /\ verb[s] = "disable"
  /\ \/ /\ content' = [content EXCEPT ![cursor[s]] = Absent]
        /\ doomed'  = doomed \ {cursor[s]}
     \/ /\ content[cursor[s]] # Absent
        /\ doomed' = doomed \union {cursor[s]}
        /\ UNCHANGED content
  /\ Proceed(s) \/ Quit(s)

GiveUp(s) ==
  /\ phase[s] = "working"
  /\ Quit(s)
  /\ UNCHANGED <<content, doomed>>

\* Somebody else creates the CRD or changes it.
Interfere(c) ==
  /\ content' = [content EXCEPT ![c] = Foreign]
  /\ UNCHANGED <<doomed, verb, phase, cursor>>

\* A CRD that is being deleted disappears.
Vanish(c) ==
  /\ c \in doomed
  /\ content' = [content EXCEPT ![c] = Absent]
  /\ doomed'  = doomed \ {c}
  /\ UNCHANGED <<verb, phase, cursor>>

Next ==
  \/ \E s \in Sessions :
       \/ \E v \in Verbs : Begin(s, v)
       \/ Install(s) \/ Remove(s) \/ GiveUp(s)
  \/ \E c \in Crds : Interfere(c) \/ Vanish(c)

Spec == Init /\ [][Next]_vars
=============================================================================
