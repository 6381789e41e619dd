----------------------------- MODULE OsdRemoval -----------------------------
(***************************************************************************)
(* What `odf purge-osd' promises, whatever it asks in which order: an OSD  *)
(* is removed, by the one session that was told to, on the word of its own *)
(* user or after two good answers, one to odf and one to rook, each given  *)
(* when the OSD was not needed. PurgeOsd implements it.                    *)
(***************************************************************************)
CONSTANTS Sessions, Osds

VARIABLES present,    \* the OSDs of the cluster
          needed,     \* those that are not safe to destroy
          target,     \* the OSD of each session
          consent,    \* sessions whose user has said yes
          vouchers,   \* who has found the OSD of a session not needed
          over        \* sessions that will do nothing more

vars == <<present, needed, target, consent, vouchers, over>>

Init ==
  /\ present \in SUBSET Osds
  /\ needed \in SUBSET present
  /\ target \in [Sessions -> Osds]
  /\ consent = {} /\ over = {}
  /\ vouchers = [s \in Sessions |-> {}]

Consent(s) ==
  /\ s \notin over
  /\ consent' = consent \union {s}
  /\ UNCHANGED <<present, needed, target, vouchers, over>>

Vouch(s, who) ==
  /\ s \notin over /\ target[s] \notin needed
  /\ vouchers' = [vouchers EXCEPT ![s] = @ \union {who}]
  /\ UNCHANGED <<present, needed, target, consent, over>>

Permitted(s) == s \in consent \/ vouchers[s] = {"odf", "rook"}

Remove(s) ==
  /\ s \notin over /\ target[s] \in present
  /\ Permitted(s)
  /\ present' = present \ {target[s]}
  /\ needed' = needed \ {target[s]}
  /\ over' = over \union {s}
  /\ UNCHANGED <<target, consent, vouchers>>

Stop(s) ==
  /\ s \notin over
  /\ over' = over \union {s}
  /\ UNCHANGED <<present, needed, target, consent, vouchers>>

\* OSDs come, and are needed or not. None goes away.
Change ==
  /\ present' \in SUBSET Osds /\ needed' \in SUBSET present'
  /\ present \subseteq present'
  /\ UNCHANGED <<target, consent, vouchers, over>>

Next ==
  \/ Change
  \/ \E s \in Sessions : \/ Consent(s) \/ Remove(s) \/ Stop(s)
                         \/ \E who \in {"odf", "rook"} : Vouch(s, who)

Spec == Init /\ [][Next]_vars
=============================================================================
