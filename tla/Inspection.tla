----------------------------- MODULE Inspection -----------------------------
(***************************************************************************)
(* What the commands that only look have in common: `odf get health' (its  *)
(* NooBaa check), `odf get dr-prereq' and `odf benchmark resources' read   *)
(* one thing of the cluster after another, and conclude from what they     *)
(* remember. Each has a module of its own over these variables; Reports    *)
(* puts the three together.                                                *)
(***************************************************************************)
VARIABLES command,   \* which command it is
          world,     \* what it looks at: the state of each part
          pc,        \* its next request
          known,     \* what it remembers
          report,    \* what it has said
          steady     \* history: the parts that have not changed since it began,
                     \* none if a request has failed

vars == <<command, world, pc, known, report, steady>>

Ended == {"done", "fatal"}

Begin(c, worlds, first, memories, silence) ==
  /\ command = c
  /\ world \in worlds /\ known \in memories
  /\ pc = first /\ report = silence
  /\ steady = DOMAIN world

\* The request that is next is answered.
Answered(c, at) == command = c /\ pc = at /\ UNCHANGED <<command, world, steady>>

\* It fails, and what the command goes on with.
Failed(c, at) == command = c /\ pc = at /\ steady' = {} /\ UNCHANGED <<command, world, known>>

Fatal == pc' = "fatal" /\ UNCHANGED <<known, report>>

\* Somebody else changes a part (external).
Change(c, part, values) ==
  /\ command = c /\ pc \notin Ended
  /\ \E v \in values \ {world[part]} : world' = [world EXCEPT ![part] = v]
  /\ steady' = steady \ {part}
  /\ UNCHANGED <<command, pc, known, report>>

Undisturbed == steady = DOMAIN world
=============================================================================
