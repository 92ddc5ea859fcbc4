--------------------------- MODULE GuardedGeneration ---------------------------
(***************************************************************************)
(* The two generation steps of one scoring call, ScorecardService._advisory*)
(* and _narrate, with the guardrail on both sides of each model call.  The *)
(* engine has decided before the first and nothing here can change what it *)
(* decided; what can go wrong is the text: unscreened text attached, a     *)
(* prompt sent that no screen allowed, half of a refused draft kept, a     *)
(* refusal that no audit record shows, a model that fails the scoring.     *)
(*                                                                         *)
(* A text is its origin and what the screen made of it.  The wording is    *)
(* left out but for one thing the grounding gate asks of it: whether it    *)
(* mentions a figure the engine did not publish.                           *)
(***************************************************************************)
EXTENDS Integers, Sequences, SequencesExt

CONSTANTS
  MaxNotes,     \* bound on the notes a classifier returns
  AuditFaulty   \* may an audit write raise

ASSUME GenerationAssumption ==
  MaxNotes \in Nat /\ AuditFaulty \in BOOLEAN

Origins == {"signal_prompt", "narration_prompt", "note", "headline", "body"}

(* "original" as its author wrote it, "redacted" as the screen rewrote it, *)
(* "emptied" when the screen left nothing of it.                           *)
Texts == Origins \X {"original", "redacted", "emptied"}
Original(origin) == <<origin, "original">>

Refusals == {"signal_classifier", "narration"} \X {"input", "output"}

Prompt(step) == Original(IF step = "narration" THEN "narration_prompt" ELSE "signal_prompt")

(* Off is DisabledGuardrail; "client" is a deployment's own adapter.       *)
Screens     == {"off", "armor", "heuristic", "client"}
Classifiers == {"offline", "managed", "client"}

VARIABLES
  bound,      \* the adapters of this deployment, whether a model is named, and
              \* whether the customer said anything
  pc,         \* the next port call
  resume,     \* where a refusal falls back to once it is audited
  inventing,  \* the texts that mention a figure the engine did not publish
  foreign,    \* does the draft cite an instrument the findings did not
  notes,      \* how many of the classifier's notes are still to be screened
  advisory,   \* the notes attached to the scorecard, in order
  headline,   \* the draft's headline, as written and then as screened
  body,       \* the draft's body, likewise
  narration,  \* whose text stands in the scorecard as its narration
  called,     \* the steps whose model was called
  passed,     \* the texts a screen that ran to its end left standing, with the direction
  refused,    \* the refusals, in order
  blocked     \* the BLOCKED records, in order

vars == <<bound, pc, resume, inventing, foreign, notes, advisory, headline, body, narration,
          called, passed, refused, blocked>>

Stages == {"signal_prompt", "classify", "note", "narration_prompt", "narrate",
           "headline", "body", "audit", "done", "failed"}

(* "none" before the step; "fallback" is deterministic_narration, and so   *)
(* is "rejected", under the name of the model whose draft was rejected.    *)
Narrations == {"none", "fallback", "rejected", "draft"}

TypeOK ==
  /\ bound \in [screen : Screens, classifier : Classifiers, model : BOOLEAN, spoken : BOOLEAN]
  /\ pc \in Stages
  /\ resume \in Stages
  /\ inventing \subseteq Texts
  /\ foreign \in BOOLEAN
  /\ notes \in 0..MaxNotes
  /\ advisory \in Seq(Texts)
  /\ headline \in Texts
  /\ body \in Texts
  /\ narration \in Narrations
  /\ called \subseteq {"signal_classifier", "narration"}
  /\ passed \subseteq {"input", "output"} \X Texts
  /\ refused \in Seq(Refusals)
  /\ blocked \in Seq(Refusals)

(* An emptied text mentions nothing.                                       *)
Init ==
  /\ bound \in [screen : Screens, classifier : Classifiers, model : BOOLEAN, spoken : BOOLEAN]
  /\ pc = "signal_prompt"
  /\ resume = "done"
  /\ inventing \in SUBSET ({"headline", "body"} \X {"original", "redacted"})
  /\ foreign \in BOOLEAN
  /\ notes = 0
  /\ advisory = <<>>
  /\ headline = Original("headline")
  /\ body = Original("body")
  /\ narration = "none"
  /\ called = {}
  /\ passed = {}
  /\ refused = <<>>
  /\ blocked = <<>>

-----------------------------------------------------------------------------
(* ScorecardService._screen.                                               *)

(* An answer to a text: is it allowed, what is left of it, and did the     *)
(* screen look at all of it and find nothing?                              *)
Verdict(allowed, text, clean) == [allowed |-> allowed, text |-> text, clean |-> clean]

(* What Model Armor (external) reports: a match, and which filters ran.    *)
Reports == {"MATCH_FOUND", "NO_MATCH_FOUND", "absent"} \X {"SUCCESS", "PARTIAL", "absent"}
FoundClean == <<"NO_MATCH_FOUND", "SUCCESS">>

(* _map_result: a decision and no rewrite, allowed on one report of nine.  *)
MapResult(text) == {Verdict(report = FoundClean, text, report = FoundClean) : report \in Reports}

(* The local heuristic: a pattern it knows is in the text, or is not.      *)
Heuristic(text) == {Verdict(found = {}, text, found = {}) :
                      found \in SUBSET {"injection", "jailbreak"}}

(* What GuardrailPort.screen can answer.  A screen may rewrite; neither of *)
(* the shipped ones does, and DisabledGuardrail hands back the text.       *)
Verdicts(text) ==
  CASE bound.screen = "off"       -> {Verdict(TRUE, text, TRUE)}
    [] bound.screen = "armor"     -> MapResult(text)
    [] bound.screen = "heuristic" -> Heuristic(text)
    [] bound.screen = "client"    ->
         {Verdict(allowed, <<text[1], form>>, allowed) :
            allowed \in BOOLEAN, form \in {"original", "redacted", "emptied"}}

(* The verdict allows, with a text: what the screen saw clean is noted.    *)
Allow(direction, verdict) ==
  /\ verdict.allowed
  /\ passed' = IF verdict.clean THEN passed \cup {<<direction, verdict.text>>} ELSE passed

(* A block, an allowed verdict without a text, a raise, and a prompt that  *)
(* was rewritten: all are refusals, and the fallback waits for the record. *)
Refuse(step, direction, fallback) ==
  /\ bound.screen # "off"
  /\ refused' = Append(refused, <<step, direction>>)
  /\ resume' = fallback
  /\ pc' = "audit"

(* Slip: a rewritten prompt is let through, and the original sent.         *)
ScreenPromptLoosely(origin, step, send, fallback) ==
  /\ pc = origin
  /\ \/ \E verdict \in Verdicts(Original(origin)) : Allow("input", verdict)
        /\ pc' = send /\ UNCHANGED <<resume, refused>>
     \/ Refuse(step, "input", fallback) /\ UNCHANGED passed
  /\ UNCHANGED <<bound, inventing, foreign, notes, advisory, headline, body, narration, called, blocked>>

(* An INPUT screen: only a prompt that came back unchanged may be sent.    *)
ScreenPrompt(origin, step, send, fallback) ==
  /\ pc = origin
  /\ \/ \E verdict \in Verdicts(Original(origin)) :
          /\ Allow("input", verdict)
          /\ IF verdict.text = Original(origin)
             THEN pc' = send /\ UNCHANGED <<resume, refused>>
             ELSE Refuse(step, "input", fallback)
     \/ Refuse(step, "input", fallback) /\ UNCHANGED passed
  /\ UNCHANGED <<bound, inventing, foreign, notes, advisory, headline, body, narration, called, blocked>>

(* Slip: the refusal is recorded if it can be, and the step goes on.       *)
AuditBestEffort ==
  /\ pc = "audit"
  /\ blocked' \in {blocked, Append(blocked, Last(refused))}
  /\ pc' = resume
  /\ narration' = IF resume = "done" THEN "fallback" ELSE narration
  /\ UNCHANGED <<bound, resume, inventing, foreign, notes, advisory, headline, body, called, passed, refused>>

(* The BLOCKED record, and only then the fallback.  A write that raises    *)
(* fails the scoring, whether or not its record was kept.                  *)
AuditBlocked ==
  /\ pc = "audit"
  /\ \/ /\ blocked' = Append(blocked, Last(refused))
        /\ pc' = resume
        /\ narration' = IF resume = "done" THEN "fallback" ELSE narration
     \/ /\ AuditFaulty
        /\ blocked' \in {blocked, Append(blocked, Last(refused))}
        /\ pc' = "failed"
        /\ UNCHANGED narration
  /\ UNCHANGED <<bound, resume, inventing, foreign, notes, advisory, headline, body, called, passed, refused>>

-----------------------------------------------------------------------------
(* The advisory note.                                                      *)

(* Slip: a refused prompt ends the generation, not the step.               *)
ScreenSignalPromptForBoth ==
  ScreenPrompt("signal_prompt", "signal_classifier", "classify", "done")

ScreenSignalPrompt ==
  ScreenPrompt("signal_prompt", "signal_classifier", "classify", "narration_prompt")

NextNote(left) == IF left = 0 THEN "narration_prompt" ELSE "note"

(* GeminiSignalClassifier: without a model's name it raises, without an    *)
(* utterance it says nothing; else the reply holds a note or is no JSON.   *)
ManagedNotes == IF bound.model /\ bound.spoken THEN {0, 1} ELSE {0}

(* LocalSignalClassifier restates the cues, whether any was found or not.  *)
OfflineNotes == IF bound.spoken THEN {1} ELSE {0}

(* The classifier answers with some notes, or raises: then there are none. *)
Classify ==
  /\ pc = "classify"
  /\ called' = called \cup {"signal_classifier"}
  /\ \E n \in (0..MaxNotes) \cap
                CASE bound.classifier = "managed" -> ManagedNotes
                  [] bound.classifier = "offline" -> OfflineNotes
                  [] OTHER -> 0..MaxNotes : notes' = n /\ pc' = NextNote(n)
  /\ UNCHANGED <<bound, resume, inventing, foreign, advisory, headline, body, narration, passed, refused, blocked>>

(* One note: what the screen left of it is attached, unless it left        *)
(* nothing; a refused note is dropped and the next one screened.           *)
ScreenNote ==
  /\ pc = "note"
  /\ notes' = notes - 1
  /\ \/ \E verdict \in Verdicts(Original("note")) :
          /\ Allow("output", verdict)
          /\ advisory' = IF verdict.text[2] = "emptied" THEN advisory
                         ELSE Append(advisory, verdict.text)
          /\ pc' = NextNote(notes - 1)
          /\ UNCHANGED <<resume, refused>>
     \/ Refuse("signal_classifier", "output", NextNote(notes - 1)) /\ UNCHANGED <<advisory, passed>>
  /\ UNCHANGED <<bound, inventing, foreign, headline, body, narration, called, blocked>>

-----------------------------------------------------------------------------
(* The narration.                                                          *)

ScreenNarrationPrompt == ScreenPrompt("narration_prompt", "narration", "narrate", "done")

(* The narrator drafts; or it declines or raises, and the fallback stands. *)
Narrate ==
  /\ pc = "narrate"
  /\ called' = called \cup {"narration"}
  /\ \/ pc' = "headline" /\ UNCHANGED narration
     \/ pc' = "done" /\ narration' = "fallback"
  /\ UNCHANGED <<bound, resume, inventing, foreign, notes, advisory, headline, body, passed, refused, blocked>>

(* A refused headline spares the body its screen and discards the draft.   *)
ScreenHeadline ==
  /\ pc = "headline"
  /\ \/ \E verdict \in Verdicts(Original("headline")) :
          /\ Allow("output", verdict)
          /\ headline' = verdict.text
          /\ pc' = "body"
          /\ UNCHANGED <<resume, refused>>
     \/ Refuse("narration", "output", "done") /\ UNCHANGED <<headline, passed>>
  /\ UNCHANGED <<bound, inventing, foreign, notes, advisory, body, narration, called, blocked>>

(* validate_narration: no invented figure, no foreign citation.            *)
Grounded(head, text) == {head, text} \cap inventing = {} /\ ~foreign

(* Slip: the draft is validated as the model wrote it.                     *)
ValidatedUnscreened(head, text) ==
  IF Grounded(Original("headline"), Original("body")) THEN "draft" ELSE "rejected"

(* grounded_or_fallback.                                                   *)
Validated(head, text) == IF Grounded(head, text) THEN "draft" ELSE "rejected"

(* The screened body completes the draft, and the screened draft is what   *)
(* the grounding gate sees.                                                *)
ScreenBody ==
  /\ pc = "body"
  /\ \/ \E verdict \in Verdicts(Original("body")) :
          /\ Allow("output", verdict)
          /\ body' = verdict.text
          /\ narration' = Validated(headline, verdict.text)
          /\ pc' = "done"
          /\ UNCHANGED <<resume, refused>>
     \/ Refuse("narration", "output", "done") /\ UNCHANGED <<body, narration, passed>>
  /\ UNCHANGED <<bound, inventing, foreign, notes, advisory, headline, called, blocked>>

Next ==
  \/ ScreenSignalPrompt
  \/ Classify
  \/ ScreenNote
  \/ ScreenNarrationPrompt
  \/ Narrate
  \/ ScreenHeadline
  \/ ScreenBody
  \/ AuditBlocked

Spec == Init /\ [][Next]_vars

-----------------------------------------------------------------------------
(* Safety.                                                                 *)

(* What stands in the scorecard is what the OUTPUT screen handed back, to  *)
(* the letter: no note and no part of a draft stands in its original form  *)
(* unless the screen allowed that form, and an emptied note says nothing.  *)
OnlyScreenedTextIsUsed ==
  /\ \A text \in ToSet(advisory) : <<"output", text>> \in passed /\ text[2] # "emptied"
  /\ narration = "draft" => \A text \in {headline, body} : <<"output", text>> \in passed

(* A model is called only with a prompt the INPUT screen handed back as it *)
(* was: a refused or rewritten prompt is sent in no form at all.           *)
OnlyScreenedPromptsAreSent ==
  \A step \in called :
    <<"input", Prompt(step)>> \in passed /\ <<step, "input">> \notin ToSet(refused)

(* Whichever way text crosses the boundary to a model, and however a step  *)
(* before it ended, it crosses as the screen of that direction left it.    *)
OnlyScreenedTextCrosses == OnlyScreenedPromptsAreSent /\ OnlyScreenedTextIsUsed

(* Nothing happens after a refusal before it is on record: the BLOCKED     *)
(* records are the refusals, in order, but for the one being written and   *)
(* the one whose write failed the scoring.                                 *)
RefusalsAreOnRecord ==
  IF pc \in {"audit", "failed"}
  THEN blocked \in {Front(refused), refused}
  ELSE blocked = refused

(* A draft stands only if the text that stands is grounded, whatever the   *)
(* screen changed after the model wrote it.                                *)
DraftsAreGrounded ==
  narration = "draft" => headline \notin inventing /\ body \notin inventing /\ ~foreign

-----------------------------------------------------------------------------
(* Seen from the scoring path.                                             *)

StageOf ==
  IF pc \in {"done", "failed"} THEN pc
  ELSE IF \/ pc \in {"signal_prompt", "classify", "note"}
          \/ pc = "audit" /\ Last(refused)[1] = "signal_classifier"
       THEN "advise" ELSE "narrate"

(* The records of a step still under way are seen when it ends.            *)
Trail ==
  {step \in {"advise", "narrate"} :
     /\ step # StageOf
     /\ \E i \in 1..Len(blocked) :
          blocked[i][1] = IF step = "advise" THEN "signal_classifier" ELSE "narration"}

Contract == INSTANCE GenerationStages WITH stage <- StageOf, trail <- Trail

(* The two steps are the two steps ScorecardService takes them for.        *)
KeepsTheStages == Contract!Spec
===============================================================================
