--------------------------- MODULE GenerationStages ----------------------------
(***************************************************************************)
(* What ScorecardService relies on in the two generation steps of a call:  *)
(* first the advisory note, then the narration; each ends with nothing to  *)
(* report, or with its refusals on record, or with an audit write that     *)
(* raised.  A model that answers nonsense, declines or raises is not among *)
(* the ways a step can fail.                                               *)
(***************************************************************************)
CONSTANT AuditFaulty

VARIABLES
  stage,  \* the step under way
  trail   \* the steps with a BLOCKED record

vars == <<stage, trail>>

Init == stage = "advise" /\ trail = {}

After(step) == IF step = "advise" THEN "narrate" ELSE "done"

(* Nothing was refused.                                                    *)
Quiet(step) ==
  /\ stage = step
  /\ stage' = After(step)
  /\ UNCHANGED trail

(* Something was refused, and every refusal is on record.                  *)
Blocked(step) ==
  /\ stage = step
  /\ stage' = After(step)
  /\ trail' = trail \cup {step}

(* Something was refused, and putting it on record raised.                 *)
Failed(step) ==
  /\ AuditFaulty
  /\ stage = step
  /\ stage' = "failed"
  /\ trail' \in {trail, trail \cup {step}}

Next == \E step \in {"advise", "narrate"} : Quiet(step) \/ Blocked(step) \/ Failed(step)

Spec == Init /\ [][Next]_vars
===============================================================================
