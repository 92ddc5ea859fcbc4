# conversation-qa-scorecard in TLA+

The service scores a recorded customer conversation against the obligations of
its market: it fetches a transcript, masks it, decides deterministically what
was said and what was not, lets a model colour the result without letting it
decide anything, hands every failing scorecard to a human reviewer, and keeps
an audit trail, a scorecard store and a warehouse row. These modules model the
parts of that where steps, failures or mixtures of inputs can go wrong in ways
a unit test hardly reaches.

Paths below are relative to `src/src/conversation_qa_scorecard/`.

## The system

| Part | State it keeps | Operations | Talks to |
|---|---|---|---|
| Surfaces: `api/app.py`, `agent/tools.py`, `cli/main.py` | none of their own; the process-wide container | score, read, list, transcript view, probes | container, catalogue, scoring path |
| Scoring path: `domain/scorecard_service.py` | none between calls | `score_contact`, `fetch`, `list_for_contact` | every port, synchronously and in a fixed order |
| Generation steps: `_advisory`, `_narrate`, `_screen`, `domain/narration.py` | none | advisory notes, narration, grounding gate | guardrail, classifier, narrator, audit |
| Scoring engine: `domain/scoring_engine.py` | none (a pure function) | `score` | the speech kit |
| Ingestion: `domain/ingestion.py` | none | span detection and masking | - |
| Score packs: `score_pack.py` | a cache of loaded packs | load, choose by market, merge sibling disclosures | files |
| Container: `config.py`, `service.py` | one lazily bound adapter per port | `build_container`, `build_service` | adapters |
| Human-review routing: `adapters/controls.py`, `*/review_router.py` | an in-memory outbox, or the console | `route`, the outcome of a request | review console |
| Scorecard store, audit sink, warehouse | a table, a hash chain, rows | put/get/list, record, export | SQLite, Firestore, Cloud Logging, BigQuery |
| Transcript sources: `*/transcription.py` | none; a directory of fixtures | fetch, the contact catalogue | speech recogniser, files |
| Identity, profiles, control switches | configuration | resolve a principal, refuse to start | environment |
| Evaluation gate: `eval/run_eval.py`, `*/evaluation.py` | a cached client | score the labelled contacts, ask for promotion | the pipeline, the promotion authority |
| Maintenance scripts: `scripts/rename_fork.py`, `lock.py`, `drop_ui.py` | the working tree | rewrite, export, remove | files, `uv` |
| UI, demo scripts, Terraform | - | presentation, deployment | - |

The API's handlers are synchronous and run in Starlette's worker threads, so
several calls share one container and one set of adapters; a deployment may
also run several processes over the same managed services. A call walks through
its ports one at a time, and there is no transaction around them: hand-off,
audit record, store and export are four independent writes.

What makes each part correct, and hard:

* **Scoring path.** Concurrency, partial failure and crashes between the four
  writes. Nothing may be readable that is not audited, no reference may lead to
  a review that does not exist, no escalation may be dropped silently, tenants
  may not see each other through either of the two reads.
* **Generation.** Two model calls guarded on both sides. Only screened text is
  used, only screened prompts are sent, refusals are on record before anything
  goes on, half a draft is never kept, and a model never fails the scoring.
* **Container.** Two caches without locks. Records in memory must not vanish
  with an adapter that a concurrent first request replaced.
* **Scoring engine.** A fail-closed roll-up over all mixtures of statuses,
  severities, kinds and cues, which must not depend on the order of a
  declaration and must move in the right direction when the call does.
* **Ingestion.** Detections of several patterns overlap; one sweep decides which
  stand. No identifier may come through untouched, and nothing else be masked.
* **Grounding.** What a narration may mention and what the composed texts do
  mention are written in two places and have to agree figure by figure, roundings
  included.
* **Score packs.** A cache without a lock, a file read every time, and a merge. A
  contact is scored by a whole pack of its own market or not at all, one process
  scores by one version, and a refusal lasts as long as its cause.
* **Profiles, switches, identity.** Configuration is read at import and again at
  the first request, from a file that may have changed, and a failure of the
  first read is swallowed. An absent choice must never act as a permissive one, and
  a caller must be able to tell the deployment's fault from his own.
* **Routing.** Two threads on one outbox, an operator who flushes it, a console
  whose answers get lost. A reference must lead to the review of its own verdict,
  and a retried delivery must not open a second one.
* **Transcripts.** Word offsets are searched for, times are spread or copied, and a
  contact and its transcript are two reads. No word may get the time of another, and
  no reader a transcript of another contact or tenant.
* **Evaluation gate.** Averages over whatever there is to average. Green must mean
  that something was measured and that it agreed.
* **Maintenance scripts.** They rewrite many files one at a time, one of them itself,
  and may stop anywhere. What a finished run leaves must be whole.

## The modules

### ScorecardService (with ScorecardLedger, ScorecardServiceProofs)

One action per port call of `score_contact`, in the code's order, for any number
of concurrent calls:

| Action | Code |
|---|---|
| `Receive`, `Reject` | the surface resolves contact and pack and reads `utcnow()`; `_authorise` |
| `FetchTranscript` | `transcripts.fetch`; the pure redaction and scoring that follow it |
| `Advise`, `Narrate` | `_advisory`, `_narrate`, as far as they write audit records |
| `Route` | `RecordingReviewRouter.route` around the bound or the disabled router |
| `Record`, `Put`, `Export`, `Respond` | `_record`, `store.put`, `warehouse.export`, the response |
| `Restart` | the process stops: calls in flight are lost, and so is what is not durable |
| `Tick` | the clock |

Every port in `Faulty` may *answer*, *refuse* (raise before any effect) or have
its *answer lost* (take effect and raise). A scorecard is `<<contact, asOf>>`,
because its id hashes exactly `as_of` besides what contact, pack and transcript
determine; `Failing` stands for the engine's verdict. A stored document is told
apart by whether it has a `review_ref`. `RoutingOn` gives the routing switch
of each process in turn, since it is read at start. `Durable` names the records
that outlive the process: all of them under the managed profile, none under the
local one with its default `:memory:` paths.

`ScorecardLedger` is the promise to those who see only the records: a failing
verdict is on record only after its hand-off was attempted, a card is readable
only after its verdict is on record, a reference only if the review is there,
and nothing is exported or answered before it is readable. The property
`KeepsTheLedger` is the refinement.

### ReviewRouting (with ReviewDesk, ReviewRoutingProofs)

The hand-off in more detail than `Route` gives it: `RecordingReviewRouter` around
each of the four routers a process may have bound. The offline router is two steps,
since `enqueue` and the count that goes into the reference come apart; the managed
one submits under a key and may be answered, refused, or accepted with the answer
lost. `Flush` is the operator's, one entry at a time, `Rotate` the credential that
is read on every call, `Restart` a process with another binding and an empty outbox.
The console is external: it holds one review per tenant and key, as the docstring of
`scorecard_to_review` relies on. `ReviewDesk` is what a caller is promised: who was
told "routed" has its card waiting or taken, waiting cards go only with the process,
and taken ones stay.

### GuardedGeneration (with GenerationStages, GuardedGenerationProofs)

The two generation steps of one call: each INPUT screen, model call and OUTPUT
screen is an action; `Refuse` puts a refusal on its way to `AuditBlocked`, which
writes the BLOCKED record and only then goes to the fallback. The answers are those
of the adapters that `bound` names: `MapResult` turns what Model Armor reports, a
match or none and which filters ran, into a verdict; `Heuristic` is the offline
screen; a deployment's own may rewrite a text or empty it; `ManagedNotes` and
`OfflineNotes` are how many notes either classifier can return. `passed` notes the
texts that a complete and clean screen left standing, which is more than that it
allowed them. A text is its origin and what the screen made of it (original,
redacted, emptied). The grounding gate asks whether the text that stands mentions
a figure the engine did not publish, or cites an instrument the findings did not.
`GenerationStages` is what `Advise` and `Narrate` of ScorecardService assume;
`KeepsTheStages` shows the detailed steps implement it.

### LazyContainer (with LazyContainerProofs)

The requests of one fresh process. `_container` is an `lru_cache`, whose first
finished builder wins; each port is a `cached_property`, whose last finished
constructor wins; neither locks while it fills. `ResolvePrincipal` models that
`get_principal` asks for the container before any handler does. Only the two
ports whose state is read back (`audit`, `scorecard_store`) are modelled; the
constructor may raise.

### ScoringEngine (with ScoringEngineProofs)

`ScoringEngine.score` as operators named after its helpers: `Findings`,
`KindScore`, `Disposition`, `Severity`, `ScorecardId`. The variables are the
inputs of an assessment (the declaration, the pack, how each obligation was
said, the cues detected, whether the call is over) and the scorecard; actions
change one input and assess anew. So what one assessment must do is an
invariant, and how two must compare is an action property. What Python's
`dict.fromkeys`, `sorted` and `sum` do is written so that it can be reasoned about:
`Distinct` goes along the declaration as a recursive function, `Sorted` is the
rearrangement that is in order, `CountIf` counts the places that pass. The speech kit's
adherence outcome (`Adherence`) is external: it is taken from how the code uses
it, the table `ADHERENCE_TO_STATUS` and the statuses' documentation. Ratios are
in ten-thousandths, which is what `round(.., 4)` keeps.

### Ingestion: TranscriptAssembly and Redaction (with IngestionProofs)

`TranscriptAssembly` is where a transcript comes from. `FetchRecording` makes turns
of the recogniser's alternatives; `Words` is its search for each listed word, one
round of the loop (`Placed`) after the other, from where the last one found ended,
over words that contain one another, repeat, are left out, or are spelled otherwise than
in the text (`Listing`): as nothing the text has, or as something it has elsewhere, which
takes the search there (`Spellings`). A character is a number, 0 the blank, and `TextUpTo` joins
the words of a turn with single blanks. `LoadFixture` takes declared words or
spreads the bounds of a turn evenly (`Spread`, with Python's rounding to even).
`FindContact`, `ReadTranscript` and `EditFixture` are the catalogue and the
transcript view: two reads of a directory, of which a file names its contact twice
(`id` and `contact`), with the tenant of the first judged before the second.

`Redaction` is `_turn_spans`, `redaction_spans` and `redact_for_scoring`. `Detect`
takes any set of matches that the rows' `finditer` can leave in a turn (those of one
row do not overlap), `Look` is one round of the loop over the sorted matches,
`NextTurn` resets the running end, `Mask` is the kernel's masking. A turn is its
character positions. `Ingestion` puts the two beside each other; neither depends on
what the other found, so a behaviour follows lookup, assembly or masking.

### NarrationGrounding (proved about in GuardedGenerationProofs)

`allowed_figures`, the gate, the composed fallback and the offline narrator's
draft. A text is the set of figures it mentions; a figure is a token as it is
written (`0.5` and `0.50` differ, a minus sign belongs to none), a name carries
the figures in it. A managed narrator writes anything or declines. A ratio half way
between two hundredths is rounded as Python's format does it: by the double that holds
it, and to the even neighbour if that is exactly half way (`Hundredths`; the sets
`HeldAbove`, `HeldBelow`, `TimesAbove` and `TimesBelow` say on which side the doubles lie).

### ScorePacks (proved about in ScoringEngineProofs)

The deployment's pack file and the sibling disclosure file are variables that are
published anew at any time (the second is `None` where none is configured). Each call
of the process goes through `pack_for_market` by itself:

| Action | Code |
|---|---|
| `Look` | `packs_for`: what `_cached_packs` holds, or a miss |
| `ReadPackFile`, `RefusePackFile` | `load_packs` returns, or raises and ends the assessment |
| `FillCache` | the `lru_cache` keeps what came first, and the caller what it loaded itself |
| `ScoreContact` | choose, merge or refuse, then the engine's `requirements_lexicon` |

The cache takes no lock while it is filled, so two calls may both miss, and the file
may be published between their reads. The lexicon is where the wordings of two
obligations with one step id meet. Ids are numbered in the order the code sorts them.
`scoredBy` and `republished` remember what this process scored by and whether its pack
file changed under a load.

### ServingPosture (with ServingPostureProofs)

One API process: `Boot` is the module scope of `api/app.py` (profile, exposure
guard), `Confine`, `AnswerWithoutContainer` and `AnswerFromContainer` are a request
by how far it gets, `EditFile` and `Redeploy` are the operator. `Contained` is the
`lru_cache` around `Settings.load`, which keeps a success and no failure. The
environment has the three-state reads of `envread.py`: unset, emptied, set.
`ResolveAssertion` judges an assertion as the adapter does: audience, header,
algorithm, library, signature, in this order, each with its own refusal: "nobody can
authenticate here", or "you did not" (`ports/identity.py:71`).

### MaintainerTools: RenameFork, LockExport, DropUi, EvalGate (with MaintainerToolsProofs)

What a maintainer runs beside the service, each tool a module of its own and
`MaintainerTools` their choice. In `RenameFork` a name is a sequence of parts, and
`Rewritten` is `str.replace`: every occurrence of the old name from the left, also
inside a longer one (the environment prefix is matched at the start of a word only, and
for that literal the model allows a doubling the code does not have);
`RewriteFile` goes file by file in path order, the script's own literals among them,
`MovePackage` comes last, and `InterruptRename` may come anywhere. `torn` remembers
the requests that left files behind under another name; `TornAfter` says what the end
of a run does to it: repeating the interrupted request mends the tree unless the
script was already rewritten or the new name holds the old one, any other
rename in between leaves it torn. `LockExport` has
`uv lock` and one export per target, each of which may fail after it replaced its
file, and the putting back. `DropUi` removes a directory and then the entry that
watches it. Two things are left out: `uv export` runs without `--frozen` and would lock
again if `pyproject.toml` were edited in mid-run, and an entry whose directory is written
in quotes, which the script's pattern misses, is not among the entries.

`EvalGate` is the smoke run: packs and labelled contacts with what the pipeline made
of them are inputs, and every metric is an operator named after its function. Where a
score is all or nothing the mean of the list is the share of the places that are right
(`Share`, over `Places`); it is rounded as in the code and held against `Thresholds`. The narration gate
under test is the set of drafts it takes, with the fallback for the others.
`AskForVerdict` and its neighbours are the promotion: the authority's address read
once and kept with the client, unset and emptied told apart.

The definitions marked "Slip" are plausible mistakes of the code. No
specification uses them; each stands before the definition it would replace, to
show that the properties notice.

## The runs

| Run | Question | Bounds |
|---|---|---|
| `service` | do the records agree with each other and with what callers were told, and does every accepted call end? | 2 calls, 3 contacts (failing, failing later, tenant left empty), 2 tenants and none, 2 instants, every port faulty, 1 restart into a process with routing off |
| `routing` | does a reference lead to its review, is a verdict reviewed once, is a promise kept? | 4 hand-offs of 3 cards (critical twice, failing, passing), any router, 1 restart |
| `first_requests` | what can the unlocked caches lose? | 3 requests, each scoring, reading or probing |
| `generation` | what reaches a model, and what of its text reaches a scorecard? | 2 notes, every adapter and everything it can answer |
| `engine` | is the roll-up fail-closed, monotone and determined by its id? | 2 obligations, declarations up to 3 long, 6 packs, 2 cues |
| `ingestion` | where do word times come from, is a transcript its contact's, and what does the sweep leave of overlapping matches? | 3 words nested in one another, turns of up to 3 of them, each listed in any spelling or not at all, 3 fixture files, 2 tenants, 1 edit; 2 turns of 3 characters, 2 rows, every set of matches |
| `narration` | is the reader shown only what the scorecard publishes, and is no right text refused? | scorecards of up to 2 findings and 2 cues, and 4 with a ratio half way between two hundredths; texts over 8 figures |
| `packs` | which pack scores a contact after any history of files, restarts and refusals? | 2 concurrent calls, 8 pack files, 6 sibling files or none, 3 contacts, 4 wordings |
| `posture` | what does a process decide about itself, whose fault is a refusal, and does it recover? | the environments and files of MCServingPosture, any edits and requests, every kind of assertion |
| `tools` | what do finished, failed and interrupted runs leave, and what does a green gate mean? | 4 files, 3 runs, 3 names; 2 exports, 2 edits; every pair of small labelled contacts, one of 20 labels, 13 unsound packs; 4 changes around a promotion |

Two calls are enough for the properties of the scoring path: each relates one
record to one call, or two calls that share an id; the second instant gives one
contact two ids. The proofs remove these bounds, and cover the local profile,
where every record dies with the process, as one more value of `Durable`. Three
requests are needed in LazyContainer, for one that neither wins nor loses but
finds a loser's adapter bound. Two hand-offs of one card show a retry and a race,
and the third card whether references of different verdicts can meet. Two obligations and a
repeated id suffice for the engine: its roll-up asks whether *some* finding has a
status or a severity, so pairs show every interplay; the six packs differ in one
thing each.

Words that are parts of one another are what a search can be misled by, and three of
them in a turn give one before, one found and one after; a spelling that is another of
the three is the one that takes the search too far. Twenty labels are the least
with which a misread one is within the tolerance of the thresholds. Three renames are
one to interrupt, one to repeat it and one to go elsewhere; of the three names one
begins with the old name, one holds it further on and one has nothing of it, and the
first two are those that an interrupted and repeated rename can double.

Three characters show every way two matches can lie to each other (equal, nested
on either side, overlapping, adjacent, apart), and the second turn what is
carried over. The files of ScorePacks follow the shipped ones, with one defect
each; two calls that load and three valid files are enough for two versions in one
process, and for a reload after it. Four ratios lie half way between two
hundredths: 0.125 and 0.625, which a double holds exactly and the format rounds down to
the even neighbour, 0.575, whose double lies below it, and 0.275, whose double lies above;
only the last is rounded as a person rounds it.

Two runs find what the repository says and the code does not do:

* `packs_shared_step` - a step id in both the pack and the sibling file is judged by
  the wording of whichever obligation sorts first. The shipped reference pack and
  the sibling fixture do share one (`recording_notice`). The trace has a contact on
  which only "we record all" was said, which the sibling disclosure lists and the native
  pack does not: the disclosure is judged by the native wording, and not met. What does
  hold is `OnlySharedStepsAreMisjudged`.
* `rejecting_gate` - `eval/run_eval.py:382` has the metric fail a narration gate that
  rejects everything. Such a gate falls back to the deterministic text, which is
  what the acceptance of a clean draft is compared with (line 403), so it passes.

Other disagreements met while modelling, which the modules show as the code has
them and no run is spent on. In the service:

* `ARCHITECTURE.md:82` puts the audit write before the hand-off; `Route` comes
  before `Record` (`domain/scorecard_service.py:177`), so a review exists before the
  record of its verdict. `OrphanReviewsHaveACause`, a part of `RecordsAgree`, bounds
  what follows from it.
* `domain/kernel.py:30` calls ESCALATED "routed to a human"; `Record` writes it for
  every failing scorecard, handed off or not (`domain/scorecard_service.py:411`).
* `config.py:653` and `docs/runbook.md:281` have a control that cannot work refuse the
  boot. The lookup at import swallows the refusal (`config.py:822`): `Boot` serves,
  and requests are answered with errors.
* `config.py:816` says nothing is lost by that; a file repaired between import and
  first request loads, and the guard stays up over a verifying adapter for life.
* `docs/runbook.md:54` has a set-and-empty audience read as an unset one; `_expand`
  refuses it (`config.py:363`), which is part of `Loads`.
* `domain/models.py:215` has a pack id and version name one pack; `Merged` keeps both
  and changes the obligations (`score_pack.py:472`). The scorecard id still tells
  the verdicts apart: `SameIdSameScorecard`.
* `domain/ingestion.py:25` has the first pattern row keep a contested run; the sweep
  keeps the match that starts first, whatever its row, and leaves the tail of the
  one it drops (`domain/ingestion.py:84`). `KeptUnlessOverrun` is the rule in force.
* `domain/narration.py:123` has the fallback pass the gate by construction; a cue
  label with a figure in it is in the fallback and not in the allowed set. The test it
  names, `tests/unit/test_narration_grounding.py`, is not there.
* `domain/narration.py:59` promises that a correct narration is not refused for the way
  it writes a ratio. The two renderings (lines 67 and 68) round a half to the even
  neighbour, or to the side the double lies on: 0.625 is published as 62 and 0.62, and a
  draft that says 63% is replaced by the composed text. `TrueDraftsAreTaken` holds of
  such a restatement wherever no ratio lies half way.
* Two first assessments with a publication between their loads score by two versions in
  one process, and the cache keeps one of them (`score_pack.py:290`).
  `OneVersionUnlessRepublished` says that it takes a publication under a load.
* `adapters/_review_payload.py:93` has a re-score that changed nothing open no second
  review. The id hashes `as_of` (`domain/scoring_engine.py:480`), which every surface
  reads from the clock (`api/app.py:330`), so it does.
* `adapters/_review_payload.py` says everything that crosses the wire is redacted
  again; `case_ref` (line 91) is the contact id as it came.
* `adapters/local/scorecard_store.py:45` counts on one process-wide container. The
  container is one, but `cached_property` (`config.py:745`) lets two first requests
  construct its store twice, and over `:memory:` a card is lost with the replaced one.
  `LostRecordsNeedARace` says when.
* `README.md:145` has `pending` mean that the conversation is still open. The managed
  source never stamps an end (`adapters/gcp/transcription.py:90`), so an obligation
  missed in a finished call stays pending for good.
* A router that hands back an empty reference is recorded as having routed, with
  nothing to follow (`adapters/controls.py:79`).
* `COMPLIANCE.md:33` has the outbox retain an escalation the console could not take;
  the managed router retains nothing and raises.
* Only a managed profile is checked for a console URL at boot (`config.py:652`); with
  any other, a managed router without one fails each hand-off.
* A word listed in a spelling the text has further on ("can" for "a", in "a can") takes
  the search with it, and a later place is timed with an earlier word's time
  (`adapters/gcp/transcription.py:105`). No time is invented, as line 92 promises, but a
  time may stand at another word's place.
* A recording without channel tags is on channel 0, which is the agent's
  (`adapters/gcp/transcription.py`): everything the customer said is then the agent's.
* A fixture names its contact in two places, and record and transcript are two reads
  (`adapters/local/transcription.py:82`, `:127`); where they differ, or the directory
  is edited in between, a contact is given another one's transcript.
* Without the Google library a caller who brings no assertion is told 401, although
  no assertion would help (`adapters/gcp/identity.py`).

In the tools:

* `scripts/rename_fork.py` rewrites its own literals on the way: a run interrupted
  after that cannot be resumed, a new name that holds the old one is doubled by
  an interrupted and repeated run (also where a complete rename to another name came
  between), and Markdown left out of one run is out of reach of
  a later `--include-docs`.
* `scripts/lock.py` puts back a file it found, not the absence of one, and a failure
  at the second target leaves `uv.lock` and the first export new.
* `scripts/drop_ui.py` calls itself one consistent step; the directory is gone before
  the entry is looked at, and a refusal comes after.
* `disclosure_presence` tolerates one misread label in twenty
  (`GreenMeansAgreed` says one in nineteen, since a mean is rounded first), and a gap
  counts in that metric only.
* Means are rounded to four places (`eval/run_eval.py:171`), so a threshold of 1.0 lets one
  unsound pack or one wrong turn about review in 20000 pass.
* `scripts/demo.py:907` asks the gate about `eval/datasets/golden_cases.jsonl`, which
  does not exist.
* The managed evaluation adapter keeps its client, so an address that is changed or
  emptied later is not seen (`adapters/gcp/evaluation.py:40`).

`CHECK_DEADLOCK FALSE` is set where all calls or requests may be over, or the one
transcript masked or scorecard narrated, or a bound on runs and changes reached; elsewhere the system can always go on.

**Fairness.** `EveryCallEnds` assumes weak fairness of each accepted call's own steps:
every port call is synchronous and returns or raises, and a worker thread once
given a call is scheduled until it ends. The repository sets a deadline on the
guardrail's calls (`model_armor.timeout_seconds`); for the other managed clients
it is their default deadlines the assumption rests on.
Nothing forces a request to arrive, the clock to advance or the process to stop.

## The proofs

`ScorecardServiceProofs` proves, for any sets of calls, contacts and tenants,
any faulty ports, any durable records and any number of restarts, the type
invariant, every safety invariant and the action property of `service`, each part
of `RecordsAgree` by itself and all together (`RecordsAreConsistent`), that the
two reads agree (`ListAndFetchAgree`), and the refinement of ScorecardLedger. The
only assumption is `ConstantAssumption`, which TLC evaluates on every run.

The invariants are not inductive by themselves: that a stored card is audited
needs to know that a call about to store has audited, that its card is the one
it audited, and that no restart happened in between. `IInv` adds what each stage
of a call has established: `CallsInOrder` (who gets past the door, and which
calls have been handed off at which stage), `TracesAreOwned` (who wrote every
event, row and review) and `WritesAreThere` (a call past a write finds what it
wrote; `Kept` accounts for restarts). The proof goes action by action, with one
frame lemma for the actions that leave the records alone. The refinement uses
`IInv` to show that each action is a step of the ledger or a stutter.

`GuardedGenerationProofs` proves every property of `generation`, the refinement of
`GenerationStages` among them, for any number of notes and any adapters, from
`GenerationAssumption`. What is to be shown of a call that ended has to be carried
through it: `GenerationInv` says that a prompt about to be sent was screened
(`StepsInOrder`), that nothing of a refused prompt was called (`CallsWereScreened`),
that a body is screened after its headline (`TextsWereScreened`), and that a refusal
waiting for its record is the last one (`Recorded`). The refinement rests on the
steps coming one after the other: no refusal of the narration before the advisory
note is done, none of the note after it.

Its second part proves both properties of `narration` for any findings, cues and
drafts. What is shown is either what passed the gate or what was composed from the
scorecard, and `validate_narration` and the composed texts have to agree on every
figure, but for those in the label of a detected cue. A person's rounding of a ratio is the
format's wherever the ratio is not half way (`RoundedAlike`). That the offline narrator's draft
always passes needs `ScorecardAssumption`: the engine detects no cue that its pack, and
so the allowed set, does not have.

`LazyContainerProofs` proves both properties of `first_requests` for any number of
requests and whichever ports are private, from `ContainerAssumption`. Neither is
inductive: that handlers share a container needs to know that nobody is past the door
while the cache is empty (`DoorFillsTheCache`), and that a lost record had a
rival needs to know who constructed each bound or held adapter and that they kept it
(`AdaptersHaveConstructors`), which in turn rests on a request looking each port up
only once (`PortsInOrder`).

`ScoringEngineProofs` proves every property of `engine` and of `packs`, for any ids,
cues, packs, pack files and lengths of a declaration. (It also proves what no run
spends a property on: a critical or high scorecard is always sent to review.) `EngineInv` says that the
scorecard rolls up one finding for each obligation declared, in the order of the sort
key, and that the key tells the findings of a contact apart: so the set of findings
determines their list and everything on the scorecard. That the order of a
declaration moves nothing follows from the two declarations having the same set;
that the same id means the same scorecard, from the id holding what the findings are
made of; that a duty met can only help and a cue heard only hurt, from comparing the
two sets finding by finding. What `dict.fromkeys` returns is shown by induction
along the declaration, what `sorted` returns by building the ordered list one finding
at a time, and the worst severity is compared by cases. `PacksInv` says that every call past
its load works with the packs of a valid file, and the latest scorecard is by one of
them, as it is or with a sibling's disclosures; that where nothing was published under a
load every such call has what the cache has or is about to have (`LoadsAgree`), and that
nothing is scored before the cache is filled (`FilledFirst`). Without them two calls that
load at once could not be told from two that load one after the other. The assumptions are that a pack has what the loader
requires of it and a step no wordings but those there are (`PackAssumption`,
`PackFileAssumption`), that what changed is published under a version of its own
(`VersionAssumption`, and the same of `PackAssumption`), and that no file is not a file
(`NoneAssumption`).

`ServingPostureProofs` proves the invariants of `posture` and `RepairNeedsNoRestart`
for any environments and files. What `last` holds has to be tied to the settings
it was answered from; `PostureInv` says so: the guard is what import computed
from `booted`, a container is one that loaded, and the latest answer is the one
this guard and this container give. `RefusalsSayWhose` compares each refusal with what
any other credential would have been given by the same process.

`IngestionProofs` proves every property of `ingestion`, from `RedactionAssumption` and
`AssemblyAssumption`. For any number and length of turns and any number of rows, the
three properties of Redaction, that spans come in order (`SpansAreInOrder`) and that
nothing else is masked (`OnlyIdentifiersAreMasked`). The sweep forgets what it
dropped, so the invariant remembers why (`AllSettled`: each passed match is kept or
overrun by a kept one) and what the frontier means (`Frontier`, `Ahead`: `last_end` is
the end of a kept span of this turn, and everything pending sorts after every kept
span). That two matches of one row cannot start together is what makes the tie-break
by row exact. `IngestionRedacts` carries this over to the specification the run
checks.

For any words and any listing of them, `WordTimes` rests on the invariant of the
search (`PlacedSoFar`): while every word found so far is spelled as it was said, the
cursor does not pass the place of a word still to come. A
word is found at or before its own place, because it is there; so the next search
starts before the next word, whatever was left out, or was listed in a spelling that is
found nowhere, in between. Once another spelling is found the invariant asks no more.
Where all words are listed (`Exact`) each search starts at the blank before its word
and, as no word holds a blank, can end nowhere else. The even spread has no gaps
because rounding is monotone (`RoundedGrows`). For any number of fixture files,
`OwnTranscripts` rests on what the index keeps: the file under an id is one that names
it, so record and transcript meet in one file unless it names two contacts.

`ReviewRoutingProofs` proves both invariants of `routing` and the refinement of
ReviewDesk, for any hand-offs, cards and citations and any number of restarts;
`RoutingAssumption` adds that the hand-offs are finite in number, since the offline
reference counts the queue. `RoutingInv` says where a review is while its hand-off
waits for a reference (`EnqueuedAreOnTheDesk`: queued, or flushed by the operator),
that queue and console hold reviews of verdicts only, and that a reference returned
still names its card.

`MaintainerToolsProofs` proves every property of `tools`: for trees, names, runs and
interruptions of any number and kind, `EndedRunsLeaveNoDamage` (the lockfiles before the
one at hand are finished, those after it as the run found them), `NoUnwatchedUi`,
`PromotionIsAuthorised` and `FinishedRenamesAgree`. The last was false as first stated: a rename to a name that
holds the old one is interrupted, then one to another name completes, and the first again
doubles it. The proof attempt showed it, and `torn` and `TornAfter` say now which
repetition mends a tree. `RenameInv` describes the tree at rest, mixed of at most two
names, and in a sweep, where the files behind it have the new name. What
`str.replace` makes of a name that holds the old one, and of one that does not, is shown
along the text (`RewrittenWhole`, `RewrittenNothing`); it needs names that are not empty
(`NoEmptyNames`).

Of EvalGate it proves `GreenMeansAgreed` and `GreenIsMeasured` for any dataset, packs and
narration gate, from `SampleAssumption` (what the loaders return are lists, and a finding
has one of three kinds or is absent). The argument is arithmetic: the two metrics that
compare statuses cover every label between them, one without a finding twice, so the
shares they leave to error bound what is misread in all. Both properties first said that
*nobody* was handled wrongly and *every* pack was sound. That is false of large inputs: a
mean is rounded to four places, so that one miss among 20000 rounds to a perfect score.
They say now what holds for every size, and for anything smaller it is the same.

**Induction.** The provers do not take an operator for a parameter, so the library's
induction theorems are out of reach; `SetInduction` says the same of a set of numbers,
from the least element of its complement. That a recursive function computes what
it says is shown by building the values up to each argument (`LoopsRun`). So what the
loops of the engine, of the word search and of the replacement yield is proved for every list.

Only model-checked: liveness (`EveryCallEnds`), and the two disagreements
(`packs_shared_step`, `rejecting_gate`), which are counterexamples.

## Not modelled

The matching of phrases and the hash chain (libraries of the same family, used
as external), evidence spans, the sentiment sum, SQL and document encodings. Of the
components:

* Tracing changes no state a property is about, and the HTTP schemas and the
  serialization are conversions field by field.
* The on-premises placeholders refuse, but for evaluation and review routing, which
  are modelled with their components.
* The demo scripts, the walkthrough and the UI drive the API and present what it
  answers; what they rely on is the service's.
* Terraform is declarative and outside the program.
* `rename_fork.py` renames the Terraform prefix by a rule of its own, left out.
* Torn lines of the local warehouse file and the audit trail's anchor are below the
  abstraction of a row that is written or not.
* The managed profile has no contact catalogue of its own (501): the managed
  instances describe a deployment that supplies one.

## Plan

1. *Done.* ScorecardService, ScorecardLedger, GuardedGeneration, GenerationStages,
   ScoringEngine, Redaction and ServingPosture with their proofs; LazyContainer,
   ScorePacks, NarrationGrounding.
2. *Done.* ReviewRouting and ReviewDesk; TranscriptAssembly and Ingestion; the
   answers of the guardrail and classifier adapters in GuardedGeneration; RenameFork,
   LockExport, DropUi and EvalGate; GuardedGenerationProofs and LazyContainerProofs.
3. *Done.* ReviewRoutingProofs, MaintainerToolsProofs, IngestionProofs; the proofs of
   NarrationGrounding, ScoringEngine, ScorePacks and EvalGate. Every invariant, action
   property and refinement that a run checks is proved.
4. Left: that GuardedGeneration and ReviewRouting, where they are more detailed, implement
   `Advise`, `Narrate` and `Route` of ScorecardService itself and not only an abstraction
   written for them.
