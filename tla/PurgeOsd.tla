------------------------------ MODULE PurgeOsd ------------------------------
(***************************************************************************)
(* `odf purge-osd <ID>' (cmd/odf/purgeosd/purge_osd.go, pkg/rook/osd): ask *)
(* ceph whether the OSD is safe to destroy, ask the user if it is not, and *)
(* hand over to rook, which removes it. Placement groups move and OSDs come*)
(* back under an ID that was used before, between any two of these steps.  *)
(*                                                                         *)
(* rook is external, and modelled from the log in docs/purge_osd.md: it    *)
(* asks ceph once more, and goes on if the answer is good or it is forced. *)
(*                                                                         *)
(* An operator called Slip... is a plausible mistake in the operator that  *)
(* follows it; no specification uses it.                                   *)
(***************************************************************************)
CONSTANTS Sessions,   \* runs of the command
          Osds        \* IDs

\* The argument, and how it is spelled: as a program prints the ID, as another
\* spelling of the same integer (007, +7), or not as an integer.
Argument == [osd : Osds, spelling : {"plain", "other", "none"}]

VARIABLES present,     \* the OSDs of the cluster
          needed,      \* those that are not safe to destroy
          pc,          \* the next step of each session
          argument,    \* its argument
          force,       \* its forceflagValue
          word,        \* history: sessions whose user typed yes-force-destroy-osd
          cleared,     \* history: who found the OSD of a session safe
          overtaken,   \* history: sessions whose OSD was needed after rook's check
          removed,     \* history: sessions that removed an OSD
          lost,        \* history: sessions that removed one that was needed
          quiet        \* history: sessions whose requests all succeeded, with
                       \* no change of the cluster since they began

cluster == <<present, needed>>
history == <<word, cleared, overtaken, removed, lost>>
vars    == <<cluster, pc, argument, force, history, quiet>>

Running == {"check", "prompt", "purge", "remove"}
Ended   == {"usage", "fatal", "done"}

Osd(s)  == argument[s].osd
Safe(o) == o \in present \ needed

Goto(s, next) == pc' = [pc EXCEPT ![s] = next]

Init ==
  /\ present \in SUBSET Osds
  /\ needed \in SUBSET present
  /\ pc       = [s \in Sessions |-> "idle"]
  /\ argument \in [Sessions -> Argument]
  /\ force    = [s \in Sessions |-> FALSE]
  /\ word = {} /\ overtaken = {} /\ removed = {} /\ lost = {} /\ quiet = {}
  /\ cleared = [s \in Sessions |-> {}]

-----------------------------------------------------------------------------
(* The command.                                                            *)

SlipForced == TRUE

\* The flag's value until somebody has said yes.
forceflagValue == FALSE

\* validateOsdID, and the beginning of Run.
Start(s) ==
  /\ pc[s] = "idle"
  /\ Goto(s, IF argument[s].spelling = "none" THEN "usage" ELSE "check")
  /\ force' = [force EXCEPT ![s] = forceflagValue]
  /\ quiet' = quiet \union {s}
  /\ UNCHANGED <<cluster, argument, history>>

\* `ceph osd safe-to-destroy' (external). An OSD that is needed is an error of
\* the command, too (EBUSY), and one that does not exist may be called safe.
CephAnswers(o) ==
  {"failed"} \union (IF o \in needed THEN {"busy"}
                     ELSE IF o \in present THEN {"safe"} ELSE {"safe", "busy"})

SlipNotCompared(answer, a) == [safe |-> answer = "safe", err |-> answer # "safe"]

\* The answer is compared with the argument as a string.
SafeToDestroy(answer, a) ==
  [safe |-> answer = "safe" /\ a.spelling = "plain", err |-> answer # "safe"]

SlipErrorGoesOn(r) == IF r.safe \/ r.err THEN "purge" ELSE "prompt"

\* The branch that reports a failed check comes second, and an error comes with
\* "not safe": it is never taken.
AfterCheck(r) == IF ~r.safe THEN "prompt" ELSE IF r.err THEN "fatal" ELSE "purge"

Check(s) ==
  /\ pc[s] = "check"
  /\ \E answer \in CephAnswers(Osd(s)) :
       /\ Goto(s, AfterCheck(SafeToDestroy(answer, argument[s])))
       /\ cleared' = [cleared EXCEPT ![s] = IF answer = "safe" THEN @ \union {"odf"} ELSE @]
       /\ quiet' = IF answer = "failed" THEN quiet \ {s} ELSE quiet
  /\ UNCHANGED <<cluster, argument, force, word, overtaken, removed, lost>>

SlipAnyAnswer(typed) == TRUE

\* PromptToContinueOrCancel: whether it was the very word. Who sets
\* ODF_SKIP_PROMPTS (.github/workflows/go-test.yaml:27) is not asked: this counts
\* as the word, given in advance.
Continues(typed) == typed

\* An interrupted or empty answer is one that is not the word.
Prompt(s) ==
  /\ pc[s] = "prompt"
  /\ \E typed \in BOOLEAN :
       /\ word' = IF typed THEN word \union {s} ELSE word
       /\ IF Continues(typed)
            THEN Goto(s, "purge") /\ force' = [force EXCEPT ![s] = TRUE]
            ELSE Goto(s, "fatal") /\ UNCHANGED force
  /\ UNCHANGED <<cluster, argument, cleared, overtaken, removed, lost, quiet>>

-----------------------------------------------------------------------------
(* rook.PurgeOsds (external).                                              *)

RookCheck(s) ==
  /\ pc[s] = "purge" /\ Osd(s) \in present
  /\ Safe(Osd(s)) \/ force[s]
  /\ Goto(s, "remove")
  /\ cleared' = [cleared EXCEPT ![s] = IF Safe(Osd(s)) THEN @ \union {"rook"} ELSE @]
  /\ UNCHANGED <<cluster, argument, force, word, overtaken, removed, lost, quiet>>

RookRemove(s) ==
  /\ pc[s] = "remove" /\ Osd(s) \in present
  /\ present' = present \ {Osd(s)}
  /\ needed'  = needed \ {Osd(s)}
  /\ removed' = removed \union {s}
  /\ lost'    = IF Osd(s) \in needed THEN lost \union {s} ELSE lost
  /\ quiet'   = quiet \intersect {s}
  /\ Goto(s, "done")
  /\ UNCHANGED <<argument, force, word, cleared, overtaken>>

\* A request fails, or the user interrupts the command.
Abort(s) ==
  /\ pc[s] \in Running
  /\ Goto(s, "fatal")
  /\ UNCHANGED <<cluster, argument, force, history, quiet>>

Step(s) == Start(s) \/ Check(s) \/ Prompt(s) \/ RookCheck(s) \/ RookRemove(s) \/ Abort(s)

-----------------------------------------------------------------------------
(* The cluster (external).                                                 *)

Changes == quiet' = {} /\ UNCHANGED <<pc, argument, force, word, cleared, removed, lost>>

\* Data is placed on an OSD, or another one with the same data fails.
Occupy(o) ==
  /\ Changes
  /\ Safe(o)
  /\ needed' = needed \union {o}
  /\ overtaken' = overtaken \union {s \in Sessions : pc[s] = "remove" /\ Osd(s) = o}
  /\ UNCHANGED present

\* All that was on it is elsewhere.
Drain(o) ==
  /\ Changes
  /\ o \in needed
  /\ needed' = needed \ {o}
  /\ UNCHANGED <<present, overtaken>>

\* A new OSD gets an ID that is free, that of a removed one included.
Add(o) ==
  /\ Changes
  /\ o \notin present
  /\ present' = present \union {o}
  /\ UNCHANGED <<needed, overtaken>>

Environment == \E o \in Osds : Occupy(o) \/ Drain(o) \/ Add(o)

Next == Environment \/ \E s \in Sessions : Step(s)

Spec == Init /\ [][Next]_vars

-----------------------------------------------------------------------------
(* Properties.                                                             *)

\* Types; only what exists is needed; and nobody hands an ID over without force
\* that SafeToDestroy could not have found in ceph's answer.
TypeOK ==
  /\ present \subseteq Osds /\ needed \subseteq present
  /\ pc \in [Sessions -> {"idle"} \union Running \union Ended]
  /\ argument \in [Sessions -> Argument]
  /\ force \in [Sessions -> BOOLEAN]
  /\ cleared \in [Sessions -> SUBSET {"odf", "rook"}]
  /\ word \union overtaken \union removed \union lost \union quiet \subseteq Sessions
  /\ \A s \in Sessions :
       pc[s] \in {"purge", "remove", "done"} /\ ~force[s] => argument[s].spelling = "plain"

\* Data is only lost with an OSD that was still needed if the user of this run
\* has typed yes-force-destroy-osd, or if the OSD became needed after the very
\* last check, rook's own: not by another run's yes, not by a check that
\* has failed, and not because the OSD filled up while odf waited for an answer.
LossIsExcused == \A s \in lost : s \in word \/ s \in overtaken

\* An OSD that was removed without the word was found safe twice, by odf and by
\* rook: a check that failed never counts as one that has passed.
NobodyElseDecides == \A s \in removed : s \in word \/ cleared[s] = {"odf", "rook"}

\* If nothing changes and no request fails, the user is only asked about an OSD
\* that is not safe, or whose ID is absent or spelled otherwise (which a
\* comparison of strings takes for unsafe), and an OSD is purged without a
\* question only if it is safe.
AskedForAReason ==
  \A s \in quiet :
    /\ pc[s] = "prompt" => ~Safe(Osd(s)) \/ argument[s].spelling # "plain"
    /\ pc[s] = "purge" /\ ~force[s] => Osd(s) \notin needed

-----------------------------------------------------------------------------
(* The abstract removal this implements.                                   *)

Target == [s \in Sessions |-> Osd(s)]
Over   == {s \in Sessions : pc[s] \in Ended}

Removal == INSTANCE OsdRemoval WITH
             target <- Target, consent <- word, vouchers <- cleared, over <- Over

\* Every step of the command is one of OsdRemoval or none: whatever it asks, is
\* refused and waits for, it removes what it was told to remove, once, and with a
\* permission that was good when it was given.
ImplementsRemoval == Removal!Spec
=============================================================================
