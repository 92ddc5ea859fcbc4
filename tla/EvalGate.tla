------------------------------- MODULE EvalGate -------------------------------
(***************************************************************************)
(* eval/run_eval.py and the evaluation adapters: the offline smoke run     *)
(* scores the pipeline against labels written by hand, metric by metric,   *)
(* and the promotion verdict is asked of an authority, never computed.     *)
(*                                                                         *)
(* A labelled contact is what scoring it came to beside what its label     *)
(* says; a narration gate is told apart by which of the three drafts of    *)
(* the metric it takes, falling back to the deterministic text otherwise.  *)
(* Scores are counted in parts of Unit, means in ten-thousandths; what is  *)
(* scored right or wrong is a set of places, of which some are right.      *)
(***************************************************************************)
EXTENDS Integers, FiniteSetsExt, SequencesExt

CONSTANTS
  Samples,    \* the packs and the labelled contacts a smoke run may find
  MaxChanges  \* bound on the changes of the authority and its address

(* Lists as the loaders make them; the kinds of a finding, or none.        *)
IsList(s) == s \in Seq(ToSet(s))

ASSUME SampleAssumption ==
  \A sample \in Samples :
    /\ IsList(sample.packs) /\ IsList(sample.dataset)
    /\ \A pack \in ToSet(sample.packs) :
         /\ IsList(pack.requirements)
         /\ \A requirement \in ToSet(pack.requirements) : IsList(requirement.steps)
    /\ \A row \in ToSet(sample.dataset) :
         /\ IsList(row.labels)
         /\ \A label \in ToSet(row.labels) :
              label.kind \in {"disclosure", "script_segment", "unconfigured", "absent"}

VARIABLES
  dataset,    \* the labelled contacts of this run, with what the pipeline made of them
  packs,      \* the packs this run loads
  gate,       \* the narration gate under the metric
  smoke,      \* the exit of the smoke run: "none" before
  process,    \* the process that asks for promotion: its profile, and the script or the adapter
  quality,    \* CONVQA_QUALITY_URL now
  willing,    \* would the authority promote now?
  client,     \* the cached client: whom it asks, and what the variable said
  promotion,  \* how far the promotion has got
  changes     \* how often the surroundings changed

evalVars == <<dataset, packs, gate, smoke, process, quality, willing, client, promotion, changes>>

-----------------------------------------------------------------------------
(* The metrics.                                                            *)

Unit == 2     \* enough for the recall of two labelled cues
Whole == 10000

(* Slip: nothing to score is nothing wrong.                                *)
MeanOrPerfect(total, n) ==
  IF n = 0 THEN Whole ELSE (2 * Whole * total + Unit * n) \div (2 * Unit * n)

(* _mean of n scores, rounded to four places.                              *)
Mean(total, n) ==
  IF n = 0 THEN 0 ELSE (2 * Whole * total + Unit * n) \div (2 * Unit * n)

(* The mean where a score is all or nothing.                               *)
Share(right, scored) == Mean(Unit * Cardinality(right), Cardinality(scored))

(* A label's requirement, its expected status, the kind and status of the  *)
(* finding ("absent" if there is none), the quotation it expects, and what *)
(* of it the finding's evidence holds: the span, the wording, or neither.  *)
(* A place is a contact's and a label's there.                             *)
Places(rows) == UNION {{i} \X (DOMAIN rows[i].labels) : i \in DOMAIN rows}

LabelAt(rows, place) == rows[place[1]].labels[place[2]]

Read(label) == label.kind # "absent" /\ label.status = label.expected

(* Slip: a requirement without a finding is skipped.                       *)
StatusAccuracyOfFindings(rows, kinds) ==
  LET counted == {p \in Places(rows) : LabelAt(rows, p).kind \in kinds}
  IN  Share({p \in counted : Read(LabelAt(rows, p))}, counted)

(* _status_accuracy: one without a finding is wrong under every kind.      *)
StatusAccuracy(rows, kinds) ==
  LET counted == {p \in Places(rows) : LabelAt(rows, p).kind \in kinds \cup {"absent"}}
  IN  Share({p \in counted : Read(LabelAt(rows, p))}, counted)

Cites(label) ==
  /\ label.kind # "absent"
  /\ label.quote = "in_turn"
  /\ label.evidence = {"span", "wording"}

CitationAccuracy(rows) ==
  LET quoted == {p \in Places(rows) : LabelAt(rows, p).quote # "none"}
  IN  Share({p \in quoted : Cites(LabelAt(rows, p))}, quoted)

(* Recall; without a label, nothing may be found.                          *)
Recall(row) ==
  IF row.cues = {} THEN IF row.found = {} THEN Unit ELSE 0
  ELSE (Unit * Cardinality(row.cues \cap row.found)) \div Cardinality(row.cues)

VulnerabilityRecall(rows) ==
  Mean(MapThenSumSet(LAMBDA i : Recall(rows[i]), DOMAIN rows), Len(rows))

Drafts == {"invented", "miscited", "clean"}

ProductionGate == {"clean"}

(* The text kept of a draft.  The fallback is the clean draft's own text,  *)
(* and the prose of the miscited draft too.                                *)
Body(draft) == IF draft = "invented" THEN "invented" ELSE "deterministic"
Kept(taken, draft) == IF draft \in taken THEN draft ELSE "clean"

(* Neither invention survives, the clean draft's text does.                *)
Holds(taken, draft) ==
  CASE draft = "invented" -> Body(Kept(taken, draft)) # Body(draft)
    [] draft = "miscited" -> Kept(taken, draft) # draft
    [] draft = "clean"    -> Body(Kept(taken, draft)) = Body(draft)

NarrationGroundedness(rows, taken) ==
  Share((DOMAIN rows) \X {draft \in Drafts : Holds(taken, draft)}, (DOMAIN rows) \X Drafts)

(* Flagged and routed, on the real service.                                *)
Handled(row) == row.flagged = row.review /\ row.referenced = row.review

ReviewSafety(rows) == Share({i \in DOMAIN rows : Handled(rows[i])}, DOMAIN rows)

(* No summary may hold what the patterns know or what was planted.         *)
PiiSafety(rows) == IF \E i \in DOMAIN rows : rows[i].leaks # {} THEN 0 ELSE Whole

(* A wording is whether it is mandated and whether it is blank; a window   *)
(* is "none", or whether it ever opens.                                    *)
StepIsSound(step) ==
  /\ \E i \in DOMAIN step : step[i].required
  /\ \A i \in DOMAIN step : ~step[i].blank

RequirementIsSound(requirement) ==
  /\ requirement.steps # <<>>
  /\ requirement.role
  /\ requirement.cited
  /\ requirement.window # "never"
  /\ \A i \in DOMAIN requirement.steps : StepIsSound(requirement.steps[i])

(* pack_problems finds nothing, whatever the loader made of the file.      *)
WellFormed(pack) ==
  /\ pack.requirements # <<>> /\ pack.cues # <<>> /\ pack.versioned
  /\ \A i \in DOMAIN pack.requirements :
       /\ RequirementIsSound(pack.requirements[i])
       /\ \A j \in 1..(i - 1) : pack.requirements[j].id # pack.requirements[i].id
  /\ \A i \in DOMAIN pack.cues : pack.cues[i].phrases /\ pack.cues[i].polarity \in -1..1

PackSchemaValidity == Share({i \in DOMAIN packs : WellFormed(packs[i])}, DOMAIN packs)

Thresholds ==
  [pack_schema_validity   |-> 10000,
   disclosure_presence    |-> 9500,
   script_adherence       |-> 9500,
   citation_accuracy      |-> 9900,
   vulnerability_recall   |-> 9500,
   narration_groundedness |-> 10000,
   review_safety          |-> 10000,
   pii_safety             |-> 9900]

Report ==
  [pack_schema_validity   |-> PackSchemaValidity,
   disclosure_presence    |-> StatusAccuracy(dataset, {"disclosure", "unconfigured"}),
   script_adherence       |-> StatusAccuracy(dataset, {"script_segment"}),
   citation_accuracy      |-> CitationAccuracy(dataset),
   vulnerability_recall   |-> VulnerabilityRecall(dataset),
   narration_groundedness |-> NarrationGroundedness(dataset, gate),
   review_safety          |-> ReviewSafety(dataset),
   pii_safety             |-> PiiSafety(dataset)]

Passes(report) == \A metric \in DOMAIN Thresholds : report[metric] >= Thresholds[metric]

-----------------------------------------------------------------------------
Processes == [profile : {"local", "gcp", "onprem"}, caller : {"script", "adapter"}]
Addresses == {"unset", "emptied", "one", "other"}
NoClient == [asks |-> "nobody", read |-> "nothing"]

EvalInit ==
  /\ dataset = <<>>
  /\ packs = <<>>
  /\ gate = ProductionGate
  /\ smoke = "none"
  /\ process = [profile |-> "local", caller |-> "adapter"]
  /\ quality = "unset"
  /\ willing = FALSE
  /\ client = NoClient
  /\ promotion = "none"
  /\ changes = 0

promotionVars == <<process, quality, willing, client, promotion, changes>>

(* run_smoke with the dataset, the packs and the gate as they are; an      *)
(* empty dataset is an exit of its own.  It reads nothing of what promotion*)
(* is about, so it comes first or not at all.                              *)
RunSmoke ==
  /\ smoke = "none" /\ promotion = "none" /\ changes = 0
  /\ gate' \in SUBSET Drafts
  /\ \E sample \in Samples : packs' = sample.packs /\ dataset' = sample.dataset
  /\ smoke' = IF dataset' = <<>> THEN "no_dataset" ELSE "scored"
  /\ UNCHANGED promotionVars

Green == smoke = "scored" /\ Passes(Report)

(* Slip: an emptied address is read like an unset one.                     *)
NamedByDefault == TRUE

(* The variable has three states, and set to nothing it names nobody.      *)
Named == quality # "emptied"

(* The client made now, or the one the process has: the address is read    *)
(* once, when the client is first needed.                                  *)
GateClient ==
  IF client # NoClient THEN client
  ELSE [asks |-> IF quality \in {"one", "other"} THEN quality ELSE "default", read |-> quality]

Asked == /\ process.profile = "gcp" /\ (client # NoClient \/ Named)
         /\ client' = GateClient
         /\ UNCHANGED <<dataset, packs, gate, smoke, process, quality, willing, changes>>

(* The script asks for the report first, ...                               *)
AskToEvaluate ==
  /\ process.caller = "script" /\ promotion = "none"
  /\ Asked
  /\ promotion' \in {"reported", "below"}

(* ... and for the verdict in a second call; both have to agree.           *)
AskForVerdict ==
  /\ process.caller = "script" /\ promotion \in {"reported", "below"}
  /\ Asked
  /\ promotion' = IF willing /\ promotion = "reported" THEN "promoted" ELSE "denied"

(* The adapter passes on the verdict alone, as often as it is asked.       *)
AskAdapter ==
  /\ process.caller = "adapter" /\ smoke = "none"
  /\ Asked
  /\ promotion' = IF willing THEN "promoted" ELSE "denied"

(* Off the managed profile, or with nobody named, nobody is asked.         *)
RefusePromotion ==
  /\ promotion = "none" /\ smoke = "none"
  /\ process.profile # "gcp" \/ (client = NoClient /\ ~Named)
  /\ promotion' = "refused"
  /\ UNCHANGED <<dataset, packs, gate, smoke, process, quality, willing, client, changes>>

(* What changes around it: the process, the variable, the authority's mind.*)
ChangeSurroundings ==
  /\ changes < MaxChanges /\ smoke = "none"
  /\ changes' = changes + 1
  /\ \/ /\ process' \in Processes
        /\ client' = NoClient /\ promotion' = "none"
        /\ UNCHANGED <<quality, willing>>
     \/ quality' \in Addresses /\ UNCHANGED <<process, client, promotion, willing>>
     \/ willing' = ~willing /\ UNCHANGED <<process, client, promotion, quality>>
  /\ UNCHANGED <<dataset, packs, gate, smoke>>

EvalNext ==
  \/ RunSmoke
  \/ AskToEvaluate
  \/ AskForVerdict
  \/ AskAdapter
  \/ RefusePromotion
  \/ ChangeSurroundings

-----------------------------------------------------------------------------
EvalTypeOK ==
  /\ \A i \in DOMAIN dataset : dataset[i].leaks \subseteq {"pattern", "planted"}
  /\ \A i \in DOMAIN packs : packs[i].versioned \in BOOLEAN
  /\ gate \subseteq Drafts
  /\ smoke \in {"none", "no_dataset", "scored"}
  /\ process \in Processes
  /\ quality \in Addresses
  /\ willing \in BOOLEAN
  /\ client.asks \in {"nobody", "default", "one", "other"}
  /\ promotion \in {"none", "reported", "below", "promoted", "denied", "refused"}
  /\ changes \in 0..MaxChanges

Misread == {p \in Places(dataset) : ~Read(LabelAt(dataset, p))}

(* Whatever mixture of kinds, missing findings and quotations the dataset  *)
(* holds, a green run misreads at most one obligation in nineteen (one in  *)
(* twenty, but a mean is rounded before it is compared), the ones without  *)
(* a finding included, takes a wrong turn about review for at most one     *)
(* contact in 20000, and lets nothing leak.                                *)
GreenMeansAgreed ==
  Green =>
    /\ 19 * Cardinality(Misread) <= Cardinality(Places(dataset))
    /\ 20000 * Cardinality({i \in DOMAIN dataset : ~Handled(dataset[i])}) <= Len(dataset)
    /\ \A i \in DOMAIN dataset : dataset[i].leaks = {}

(* An obligation can be found by a wording of its own that is mandated and *)
(* says something, and its id is no other's.                               *)
Findable(pack) ==
  \A requirement \in ToSet(pack.requirements) :
    /\ \E step \in ToSet(requirement.steps) :
         \E wording \in ToSet(step) : wording.required /\ ~wording.blank
    /\ Cardinality({j \in DOMAIN pack.requirements : pack.requirements[j].id = requirement.id}) = 1

(* A metric without anything to score is red: a green run has read a label *)
(* of a disclosure (or of a gap), one of a script segment and a quotation, *)
(* and of its packs at most one in 20000 holds an obligation that cannot   *)
(* be found.                                                               *)
GreenIsMeasured ==
  Green =>
    /\ packs # <<>>
    /\ 20000 * Cardinality({i \in DOMAIN packs : ~Findable(packs[i])}) <= Len(packs)
    /\ \E p \in Places(dataset) :
         Read(LabelAt(dataset, p)) /\ LabelAt(dataset, p).kind \in {"disclosure", "unconfigured"}
    /\ \E p \in Places(dataset) :
         Read(LabelAt(dataset, p)) /\ LabelAt(dataset, p).kind = "script_segment"
    /\ \E p \in Places(dataset) : Cites(LabelAt(dataset, p))

(* A promotion is the answer, at that moment, of an authority that the     *)
(* operator named or left at its default when the client was made, and     *)
(* never of the default in place of an address set to nothing; the script  *)
(* promotes on no report below the bar.                                    *)
PromotionIsAuthorised ==
  [][ promotion' = "promoted" /\ promotion # "promoted" =>
        /\ willing /\ promotion # "below"
        /\ process.profile = "gcp"
        /\ client'.read \in {"unset", "one", "other"}
        /\ client'.asks = "default" <=> client'.read = "unset" ]_evalVars

(* eval/run_eval.py says of narration_groundedness that a validator that   *)
(* rejects everything does not satisfy it.                                 *)
GreenGatesTakeCleanDrafts == Green => "clean" \in gate
===============================================================================
