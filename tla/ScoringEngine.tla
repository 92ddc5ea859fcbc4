----------------------------- MODULE ScoringEngine -----------------------------
(***************************************************************************)
(* ScoringEngine.score: the verdict on one contact, as a function of what  *)
(* the contact declared, what the score pack configures, what the speech   *)
(* kit heard and which cues the customer gave.  The variables are those    *)
(* inputs and the scorecard; the actions are the ways the inputs change    *)
(* between two assessments of one contact that ask for the same as_of.     *)
(* What an assessment must do is a property of a state, and how two        *)
(* assessments must compare is a property of a step.                       *)
(*                                                                         *)
(* Wording, evidence spans, citations and the sentiment sum are left out.  *)
(* Severities are strings, ids are numbers in their textual order.         *)
(***************************************************************************)
EXTENDS Integers, Sequences, SequencesExt, FiniteSetsExt

CONSTANTS
  Ids,          \* requirement ids, as numbers
  Cues,         \* cue ids
  Packs,        \* the score packs this contact may be scored against
  MaxDeclared,  \* bound on the length of the contact's declaration
  StampsEnd     \* does the transcript source say when the call ended

Severities == {"critical", "high", "medium", "low"}

(* SEVERITY_RANK: the worst is the least.                                  *)
Rank == [critical |-> 0, high |-> 1, medium |-> 2, low |-> 3]

Requirement == [kind : {"disclosure", "script_segment"}, severity : Severities]
CueSet == [kind : {"sentiment", "vulnerability"}, severity : Severities]
ScorePack == [version      : Nat,
              requirements : UNION {[ids -> Requirement] : ids \in SUBSET Ids},
              cues         : [Cues -> CueSet]]

(* A pack that changed is published under a version of its own; disclosures*)
(* merged in from a sibling file leave the version as it was.              *)
ASSUME PackAssumption ==
  /\ Ids \subseteq Nat
  /\ Packs \subseteq ScorePack
  /\ \A p, q \in Packs :
       p.version = q.version =>
         /\ p.cues = q.cues
         /\ \A id \in DOMAIN p.requirements \cap DOMAIN q.requirements :
              p.requirements[id].kind = q.requirements[id].kind
  /\ MaxDeclared \in Nat
  /\ StampsEnd \in BOOLEAN

VARIABLES
  declared,  \* the contact's declared_requirement_ids
  pack,      \* the active score pack
  said,      \* how the agent said each requirement's steps
  detected,  \* the cues matched on turns that are not the agent's
  over,      \* has the call ended
  card       \* the scorecard of the latest assessment

vars == <<declared, pack, said, detected, over, card>>

(* "inside" stands for a sequence said in order with no window to miss too;*)
(* "untimed" is one whose window the transcript cannot tell.               *)
Manners == {"unsaid", "disordered", "outside", "untimed", "inside"}

Statuses == {"present", "absent", "out_of_order", "late", "pending", "unverifiable", "gap"}

-----------------------------------------------------------------------------
(* Findings.                                                               *)

(* The kit's adherence outcome: it takes a transcript with no ended_at for *)
(* a call that is still open.                                              *)
Adherence(manner) ==
  CASE manner = "inside" -> "satisfied"
    [] manner = "outside" -> "late"
    [] manner = "untimed" -> "unverifiable"
    [] manner = "disordered" -> "out_of_order"
    [] manner = "unsaid" -> IF over /\ StampsEnd THEN "absent" ELSE "pending"

(* ADHERENCE_TO_STATUS.                                                    *)
StatusOf(outcome) == IF outcome = "satisfied" THEN "present" ELSE outcome

Satisfied(finding) == finding.status = "present"

Configured(id) == id \in DOMAIN pack.requirements

(* One finding: an obligation the pack does not configure is a gap.        *)
Finding(id, manner) ==
  IF Configured(id)
  THEN [id |-> id, kind |-> pack.requirements[id].kind, status |-> StatusOf(Adherence(manner)),
        severity |-> pack.requirements[id].severity]
  ELSE [id |-> id, kind |-> "unconfigured", status |-> "gap", severity |-> "critical"]

(* Slip: a declaration that names an obligation twice owes it twice.       *)
Undistinct(ids) == ids

(* dict.fromkeys: an id that is there already stays where it is.           *)
Distinct(ids) ==
  LET kept[n \in 0..Len(ids)] ==
        IF n = 0 THEN <<>>
        ELSE kept[n - 1] \o (IF \E j \in 1..(n - 1) : ids[j] = ids[n] THEN <<>> ELSE <<ids[n]>>)
  IN  kept[Len(ids)]

(* The sort key: failing first, then worst severity, then id.              *)
Before(f, g) ==
  \/ ~Satisfied(f) /\ Satisfied(g)
  \/ /\ Satisfied(f) = Satisfied(g)
     /\ \/ Rank[f.severity] < Rank[g.severity]
        \/ Rank[f.severity] = Rank[g.severity] /\ f.id < g.id

(* sorted(): the rearrangement in which no two are the wrong way round.    *)
Rearrangements(list) ==
  {[i \in DOMAIN list |-> list[p[i]]] :
     p \in {q \in [DOMAIN list -> DOMAIN list] : ToSet(q) = DOMAIN list}}

Sorted(list) ==
  CHOOSE sorted \in Rearrangements(list) :
    \A i, j \in DOMAIN sorted : i < j => ~Before(sorted[j], sorted[i])

(* Slip: an obligation the pack does not configure is passed over.         *)
FindingsConfigured(ids, heard) ==
  LET owed == Distinct(SelectSeq(ids, Configured))
  IN  Sorted([i \in DOMAIN owed |-> Finding(owed[i], heard[owed[i]])])

Findings(ids, heard) ==
  LET owed == Distinct(ids)
  IN  Sorted([i \in DOMAIN owed |-> Finding(owed[i], heard[owed[i]])])

-----------------------------------------------------------------------------
(* Roll-up.                                                                *)

(* Ten-thousandths, the four decimals round() keeps; there is no half to   *)
(* round below 32 findings.  Nothing measured is 0.                        *)
Ratio(satisfied, total) ==
  IF total = 0 THEN 0 ELSE (20000 * satisfied + total) \div (2 * total)

CountIf(findings, Test(_)) == Cardinality({i \in DOMAIN findings : Test(findings[i])})

(* disclosure_score and adherence_score: what is satisfied of one kind, of *)
(* all that is not known to be of the other.                               *)
KindScore(findings, kind, other) ==
  Ratio(CountIf(findings, LAMBDA f : Satisfied(f) /\ f.kind = kind),
        CountIf(findings, LAMBDA f : f.kind # other))

Vulnerabilities(cues, seen) == {cue \in seen : cues[cue].kind = "vulnerability"}

ConsequentialCue(cues, seen) ==
  \E cue \in Vulnerabilities(cues, seen) : cues[cue].severity \in {"critical", "high"}

(* Slip: a breach is a breach, whatever else could not be concluded.       *)
DispositionBreachFirst(failing, measured, cues, seen) ==
  IF ~measured THEN "indeterminate"
  ELSE IF \E f \in failing : f.severity \in {"critical", "high"} THEN "non_compliant"
  ELSE IF \E f \in failing : f.status \in {"gap", "unverifiable", "pending"} THEN "indeterminate"
  ELSE IF failing # {} \/ ConsequentialCue(cues, seen) THEN "remediate"
  ELSE "compliant"

(* The verdict on the failing findings, worst first: nothing declared or   *)
(* something not concluded, then a breach, then anything to put right.     *)
Disposition(failing, measured, cues, seen) ==
  IF ~measured THEN "indeterminate"
  ELSE IF \E f \in failing : f.status \in {"gap", "unverifiable", "pending"} THEN "indeterminate"
  ELSE IF \E f \in failing : f.severity \in {"critical", "high"} THEN "non_compliant"
  ELSE IF failing # {} \/ ConsequentialCue(cues, seen) THEN "remediate"
  ELSE "compliant"

(* The worst severity in play: unmet obligations, detected vulnerability   *)
(* cues, and nothing declared at all.                                      *)
Severity(failing, measured, cues, seen) ==
  LET candidates == {f.severity : f \in failing}
                      \cup {cues[cue].severity : cue \in Vulnerabilities(cues, seen)}
                      \cup (IF measured THEN {} ELSE {"critical"})
  IN  IF candidates = {} THEN "low"
      ELSE CHOOSE s \in candidates : \A other \in candidates : Rank[s] <= Rank[other]

(* Slip: the pack's version is not hashed.                                 *)
ScorecardIdUnversioned(findings) ==
  [findings |-> [i \in DOMAIN findings |-> <<findings[i].id, findings[i].status, findings[i].severity>>],
   signals  |-> detected]

(* What _scorecard_id hashes, but for what no step changes here.           *)
ScorecardId(findings) ==
  [pack     |-> pack.version,
   findings |-> [i \in DOMAIN findings |-> <<findings[i].id, findings[i].status, findings[i].severity>>],
   signals  |-> detected]

Scorecard(findings) ==
  LET failing == {f \in ToSet(findings) : ~Satisfied(f)}
      measured == findings # <<>>
      disposition == Disposition(failing, measured, pack.cues, detected)
  IN  [scorecard_id          |-> ScorecardId(findings),
       findings              |-> findings,
       disclosure_score      |-> KindScore(findings, "disclosure", "script_segment"),
       adherence_score       |-> KindScore(findings, "script_segment", "disclosure"),
       disposition           |-> disposition,
       requires_human_review |-> disposition # "compliant",
       severity              |-> Severity(failing, measured, pack.cues, detected)]

ScoreOf(ids, heard) == Scorecard(Findings(ids, heard))

-----------------------------------------------------------------------------
(* How the inputs change.                                                  *)

TypeOK ==
  /\ declared \in Seq(Ids)
  /\ pack \in Packs
  /\ said \in [Ids -> Manners]
  /\ detected \subseteq Cues
  /\ over \in BOOLEAN
  /\ \A i \in DOMAIN card.findings : card.findings[i].status \in Statuses
  /\ card.disclosure_score \in 0..10000
  /\ card.adherence_score \in 0..10000
  /\ card.severity \in Severities

Init ==
  /\ declared \in BoundedSeq(Ids, MaxDeclared)
  /\ pack \in Packs
  /\ said = [id \in Ids |-> "unsaid"]
  /\ detected = {}
  /\ over = FALSE
  /\ card = ScoreOf(declared, said)

(* The contact is assessed anew.                                           *)
Assess == \E findings \in {Findings(declared, said)'} : card' = Scorecard(findings)'

(* The contact's record is edited: obligations come, go, repeat, move.     *)
Declare(ids) ==
  /\ declared' = ids
  /\ UNCHANGED <<pack, said, detected, over>>
  /\ Assess

(* Another pack, or another version of it, is deployed.                    *)
Deploy(p) ==
  /\ pack' = p
  /\ UNCHANGED <<declared, said, detected, over>>
  /\ Assess

(* The agent says the steps of a requirement, or says them again.          *)
Say(id, manner) ==
  /\ ~over
  /\ manner # "unsaid"
  /\ said' = [said EXCEPT ![id] = manner]
  /\ UNCHANGED <<declared, pack, detected, over>>
  /\ Assess

(* The customer gives a cue.                                               *)
Give(cue) ==
  /\ ~over
  /\ detected' = detected \cup {cue}
  /\ UNCHANGED <<declared, pack, said, over>>
  /\ Assess

HangUp ==
  /\ ~over
  /\ over' = TRUE
  /\ UNCHANGED <<declared, pack, said, detected>>
  /\ Assess

Next ==
  \/ \E ids \in BoundedSeq(Ids, MaxDeclared) : Declare(ids)
  \/ \E p \in Packs : Deploy(p)
  \/ \E id \in Ids, manner \in Manners : Say(id, manner)
  \/ \E cue \in Cues : Give(cue)
  \/ HangUp

Spec == Init /\ [][Next]_vars

-----------------------------------------------------------------------------
(* One assessment.                                                         *)

(* Nothing passes that was not measured: a compliant contact owed          *)
(* something, everything it owed is configured in the pack and was said in *)
(* order and in time, and no serious vulnerability cue was detected.       *)
NothingUnmeasuredPasses ==
  card.disposition = "compliant" =>
    /\ declared # <<>>
    /\ \A id \in ToSet(declared) : Configured(id) /\ said[id] = "inside"
    /\ \A cue \in detected :
         pack.cues[cue].kind = "vulnerability" => pack.cues[cue].severity \in {"medium", "low"}

(* Severity and disposition are rolled up apart from each other; still, no *)
(* scorecard of critical or high severity goes without human review.       *)
SevereCardsAreReviewed ==
  card.severity \in {"critical", "high"} => card.requires_human_review

-----------------------------------------------------------------------------
(* Two assessments.                                                        *)

(* Dispositions and severities, from the mildest to the worst.             *)
Gravity == [compliant |-> 0, remediate |-> 1, non_compliant |-> 2, indeterminate |-> 3]

NoMilder == /\ Gravity[card.disposition] <= Gravity[card'.disposition]
            /\ Rank[card.severity] >= Rank[card'.severity]

NoGraver == /\ Gravity[card.disposition] >= Gravity[card'.disposition]
            /\ Rank[card.severity] <= Rank[card'.severity]

(* The order of a declaration, and how often it names an obligation, move  *)
(* nothing on the scorecard, its id included.                              *)
DeclarationOrderIsIrrelevant ==
  [][ UNCHANGED <<pack, said, detected, over>> /\ ToSet(declared) = ToSet(declared') =>
        card = card' ]_vars

(* Facts move the verdict one way only.  An obligation met late in the     *)
(* call never makes the contact look worse: not its disposition, not its   *)
(* severity, neither of its scores.  A cue the customer gives never makes  *)
(* it look better, and moves neither of the two scores.                    *)
DutiesHelpAndCuesHurt ==
  [][ /\ UNCHANGED <<declared, pack, detected, over>>
           /\ (\E id \in Ids : said' = [said EXCEPT ![id] = "inside"]) =>
           /\ NoGraver
           /\ card.disclosure_score <= card'.disclosure_score
           /\ card.adherence_score <= card'.adherence_score
      /\ detected # detected' =>
           /\ NoMilder
           /\ card.disclosure_score = card'.disclosure_score
           /\ card.adherence_score = card'.adherence_score ]_vars

(* Two assessments with one scorecard id are one scorecard, so that the    *)
(* store's upsert by id never replaces a verdict by another.               *)
SameIdSameScorecard ==
  [][ card.scorecard_id = card'.scorecard_id => card = card' ]_vars
===============================================================================
