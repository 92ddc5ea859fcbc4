------------------------ MODULE GuardedGenerationProofs ------------------------
(***************************************************************************)
(* Proofs about GuardedGeneration, for any number of notes, any deployment *)
(* and any answers.  The properties speak of what a call ends with; the    *)
(* invariant says what each port call of it can rely on: a prompt that is  *)
(* about to be sent was screened, a body is screened after its headline,   *)
(* and a refusal waits for its record with its fallback at hand.           *)
(***************************************************************************)
EXTENDS GuardedGeneration, NarrationGrounding, TLAPS

(* The two steps come one after the other: until the narration is at hand, *)
(* nothing of it was called or refused; and a refusal of the first step    *)
(* falls back into the generation, one of the second ends it.              *)
BeforeNarration ==
  \/ pc \in {"signal_prompt", "classify", "note", "narration_prompt"}
  \/ pc = "audit" /\ Last(refused)[1] = "signal_classifier"

StepsInOrder ==
  /\ pc = "signal_prompt" => called = {} /\ refused = <<>>
  /\ pc = "classify" =>
       /\ refused = <<>>
       /\ <<"input", Prompt("signal_classifier")>> \in passed
  /\ pc = "narrate" => <<"input", Prompt("narration")>> \in passed
  /\ pc = "narrate" => \A i \in 1..Len(refused) : refused[i] # <<"narration", "input">>
  /\ BeforeNarration =>
       /\ "narration" \notin called
       /\ \A i \in 1..Len(refused) : refused[i][1] = "signal_classifier"
  /\ pc = "audit" =>
       /\ refused # <<>>
       /\ IF Last(refused)[1] = "signal_classifier"
          THEN resume \in {"note", "narration_prompt"}
          ELSE resume = "done"
  /\ pc = "note" \/ (pc = "audit" /\ resume = "note") => notes # 0

(* Nothing of a refused prompt reached its model.                          *)
CallsWereScreened ==
  \A step \in called :
    /\ <<"input", Prompt(step)>> \in passed
    /\ \A i \in 1..Len(refused) : refused[i] # <<step, "input">>

(* What is attached or held of a draft is as its screen left it, and what  *)
(* stands as a draft was screened whole and found grounded.                *)
TextsWereScreened ==
  /\ \A i \in 1..Len(advisory) : <<"output", advisory[i]>> \in passed /\ advisory[i][2] # "emptied"
  /\ pc = "body" => <<"output", headline>> \in passed
  /\ narration = "draft" =>
       /\ pc = "done"
       /\ <<"output", headline>> \in passed
       /\ <<"output", body>> \in passed
       /\ Grounded(headline, body)

(* The record of the last refusal is being written, was lost with the      *)
(* scoring, or is there.                                                   *)
Recorded ==
  /\ pc = "audit" => blocked = Front(refused)
  /\ pc = "failed" => blocked \in {Front(refused), refused}
  /\ pc \notin {"audit", "failed"} => blocked = refused

GenerationInv ==
  TypeOK /\ StepsInOrder /\ CallsWereScreened /\ TextsWereScreened /\ Recorded

-----------------------------------------------------------------------------
(* Appending to a sequence and taking the last apart again.                *)
LEMMA AppendParts ==
  ASSUME NEW S, NEW s \in Seq(S), NEW x \in S
  PROVE  /\ Append(s, x) \in Seq(S)
         /\ Append(s, x) # <<>>
         /\ Len(Append(s, x)) = Len(s) + 1
         /\ Front(Append(s, x)) = s
         /\ Last(Append(s, x)) = x
         /\ \A i \in 1..Len(s) : Append(s, x)[i] = s[i]
  BY DEF Front, Last

LEMMA PartsAppend ==
  ASSUME NEW S, NEW s \in Seq(S), s # <<>>
  PROVE  /\ Len(s) \in Nat \ {0}
         /\ Front(s) \in Seq(S)
         /\ Last(s) \in S
         /\ Append(Front(s), Last(s)) = s
  BY DEF Front, Last

(* Whatever is bound, an allowed verdict is one of a screen that ran to    *)
(* its end and found nothing, and what it leaves is a form of what it was  *)
(* given.                                                                  *)
LEMMA AllowedIsClean ==
  ASSUME TypeOK, NEW origin \in Origins, NEW verdict \in Verdicts(Original(origin))
  PROVE  /\ verdict.text \in Texts
         /\ verdict.allowed => verdict.clean
  <1>1. Original(origin) \in Texts
    BY DEF Original, Texts
  <1>2. CASE bound.screen = "off"
    BY <1>1, <1>2 DEF Verdicts, Verdict
  <1>3. CASE bound.screen = "armor"
    BY <1>1, <1>3 DEF Verdicts, Verdict, MapResult
  <1>4. CASE bound.screen = "heuristic"
    BY <1>1, <1>4 DEF Verdicts, Verdict, Heuristic
  <1>5. CASE bound.screen = "client"
    BY <1>1, <1>5 DEF Verdicts, Verdict, Original, Texts
  <1> QED
    BY <1>2, <1>3, <1>4, <1>5 DEF TypeOK, Screens

(* What an allowed verdict leaves is noted as passed.                      *)
LEMMA AllowNotes ==
  ASSUME TypeOK, NEW direction \in {"input", "output"}, NEW origin \in Origins,
         NEW verdict \in Verdicts(Original(origin)), Allow(direction, verdict)
  PROVE  /\ passed' = passed \cup {<<direction, verdict.text>>}
         /\ passed' \subseteq {"input", "output"} \X Texts
  BY AllowedIsClean DEF Allow, TypeOK

(* A refusal is the last of the refusals, and waits for its record.        *)
LEMMA RefuseAppends ==
  ASSUME TypeOK, NEW step \in {"signal_classifier", "narration"},
         NEW direction \in {"input", "output"}, NEW fallback,
         Refuse(step, direction, fallback)
  PROVE  /\ refused' \in Seq(Refusals)
         /\ refused' # <<>>
         /\ Front(refused') = refused
         /\ Last(refused') = <<step, direction>>
         /\ \A i \in 1..Len(refused') :
              refused'[i] = <<step, direction>> \/ (i \in 1..Len(refused) /\ refused'[i] = refused[i])
         /\ resume' = fallback
         /\ pc' = "audit"
  <1>1. <<step, direction>> \in Refusals /\ refused \in Seq(Refusals)
    BY DEF Refusals, TypeOK
  <1>2. refused' = Append(refused, <<step, direction>>)
    BY DEF Refuse
  <1>3. Len(refused) \in Nat
    BY <1>1
  <1>4. \A i \in 1..Len(refused') :
          refused'[i] = <<step, direction>> \/ (i \in 1..Len(refused) /\ refused'[i] = refused[i])
    BY <1>1, <1>2
  <1> QED
    BY <1>1, <1>2, <1>4, AppendParts DEF Refuse

(* One INPUT screen, of either step: it sends what came back as it was, or *)
(* refuses.                                                                *)
LEMMA PromptScreened ==
  ASSUME GenerationInv,
         NEW origin \in {"signal_prompt", "narration_prompt"},
         NEW step \in {"signal_classifier", "narration"},
         NEW send, NEW fallback,
         ScreenPrompt(origin, step, send, fallback)
  PROVE  /\ pc = origin
         /\ passed \subseteq passed' /\ passed' \subseteq {"input", "output"} \X Texts
         /\ \/ pc' = send /\ <<"input", Original(origin)>> \in passed' /\ UNCHANGED <<resume, refused>>
            \/ Refuse(step, "input", fallback)
  <1>1. TypeOK /\ origin \in Origins
    BY DEF GenerationInv, Origins
  <1>2. CASE Refuse(step, "input", fallback) /\ UNCHANGED passed
    BY <1>1, <1>2 DEF ScreenPrompt, TypeOK
  <1>3. ASSUME NEW verdict \in Verdicts(Original(origin)),
               Allow("input", verdict),
               IF verdict.text = Original(origin)
               THEN pc' = send /\ UNCHANGED <<resume, refused>>
               ELSE Refuse(step, "input", fallback)
        PROVE  /\ passed \subseteq passed' /\ passed' \subseteq {"input", "output"} \X Texts
               /\ \/ /\ pc' = send /\ <<"input", Original(origin)>> \in passed'
                     /\ UNCHANGED <<resume, refused>>
                  \/ Refuse(step, "input", fallback)
    <2>1. /\ passed' = passed \cup {<<"input", verdict.text>>}
          /\ passed' \subseteq {"input", "output"} \X Texts
      BY <1>1, <1>3, AllowNotes
    <2> QED
      BY <1>3, <2>1
  <1> QED
    BY <1>2, <1>3 DEF ScreenPrompt

-----------------------------------------------------------------------------
(* The step half of the invariant, action by action.                       *)
LEMMA SignalPromptStep == GenerationInv /\ ScreenSignalPrompt => GenerationInv'
  <1> SUFFICES ASSUME GenerationInv, ScreenSignalPrompt
               PROVE  GenerationInv'
    OBVIOUS
  <1>1. ScreenPrompt("signal_prompt", "signal_classifier", "classify", "narration_prompt")
    BY DEF ScreenSignalPrompt
  <1>2. /\ UNCHANGED <<bound, inventing, foreign, notes, advisory, headline, body, narration,
                       called, blocked>>
    BY <1>1 DEF ScreenPrompt
  <1>3. /\ pc = "signal_prompt"
        /\ passed \subseteq passed' /\ passed' \subseteq {"input", "output"} \X Texts
        /\ \/ /\ pc' = "classify" /\ <<"input", Original("signal_prompt")>> \in passed'
              /\ UNCHANGED <<resume, refused>>
           \/ Refuse("signal_classifier", "input", "narration_prompt")
    BY <1>1, PromptScreened
  <1>4. called = {} /\ refused = <<>> /\ blocked = refused /\ narration # "draft"
    BY <1>3 DEF GenerationInv, StepsInOrder, Recorded, TextsWereScreened
  <1>5. CASE Refuse("signal_classifier", "input", "narration_prompt")
    <2>1. /\ refused' \in Seq(Refusals)
          /\ refused' # <<>>
          /\ Front(refused') = refused
          /\ Last(refused') = <<"signal_classifier", "input">>
          /\ \A i \in 1..Len(refused') :
               \/ refused'[i] = <<"signal_classifier", "input">>
               \/ i \in 1..Len(refused) /\ refused'[i] = refused[i]
          /\ resume' = "narration_prompt"
          /\ pc' = "audit"
      BY <1>5, RefuseAppends DEF GenerationInv
    <2>2. TypeOK'
      BY <1>2, <1>3, <2>1 DEF GenerationInv, TypeOK, Stages
    <2>3. StepsInOrder'
      BY <1>2, <1>4, <2>1 DEF StepsInOrder, BeforeNarration
    <2>4. CallsWereScreened' /\ Recorded'
      BY <1>2, <1>4, <2>1 DEF CallsWereScreened, Recorded
    <2>5. TextsWereScreened'
      BY <1>2, <1>3, <1>4, <2>1 DEF GenerationInv, TextsWereScreened
    <2> QED
      BY <2>2, <2>3, <2>4, <2>5 DEF GenerationInv
  <1>6. CASE /\ pc' = "classify" /\ <<"input", Original("signal_prompt")>> \in passed'
             /\ UNCHANGED <<resume, refused>>
    <2>1. TypeOK'
      BY <1>2, <1>3, <1>6 DEF GenerationInv, TypeOK, Stages
    <2>2. StepsInOrder'
      BY <1>2, <1>4, <1>6 DEF StepsInOrder, BeforeNarration, Prompt
    <2>3. CallsWereScreened' /\ Recorded'
      BY <1>2, <1>4, <1>6 DEF CallsWereScreened, Recorded
    <2>4. TextsWereScreened'
      BY <1>2, <1>3, <1>4, <1>6 DEF GenerationInv, TextsWereScreened
    <2> QED
      BY <2>1, <2>2, <2>3, <2>4 DEF GenerationInv
  <1> QED
    BY <1>3, <1>5, <1>6

LEMMA ClassifyStep == GenerationInv /\ Classify => GenerationInv'
  <1> SUFFICES ASSUME GenerationInv, Classify
               PROVE  GenerationInv'
    OBVIOUS
  <1>1. PICK n \in 0..MaxNotes : notes' = n /\ pc' = NextNote(n)
    BY DEF Classify
  <1>2. pc' \in {"note", "narration_prompt"} /\ (pc' = "note" => notes' # 0)
    BY <1>1 DEF NextNote
  <1>3. /\ pc = "classify" /\ called' = called \cup {"signal_classifier"}
        /\ UNCHANGED <<bound, resume, inventing, foreign, advisory, headline, body, narration,
                       passed, refused, blocked>>
    BY DEF Classify
  <1>4. /\ refused = <<>> /\ <<"input", Prompt("signal_classifier")>> \in passed
        /\ "narration" \notin called /\ blocked = refused /\ narration # "draft"
    BY <1>3 DEF GenerationInv, StepsInOrder, BeforeNarration, Recorded, TextsWereScreened
  <1>5. TypeOK'
    BY <1>1, <1>2, <1>3, GenerationAssumption DEF GenerationInv, TypeOK, Stages
  <1>6. StepsInOrder'
    BY <1>2, <1>3, <1>4 DEF StepsInOrder, BeforeNarration
  <1>7. CallsWereScreened'
    <2>1. \A step \in called' : step \in called \/ step = "signal_classifier"
      BY <1>3
    <2>2. \A i \in 1..Len(refused) : FALSE
      BY <1>4
    <2> QED
      BY <1>3, <1>4, <2>1, <2>2 DEF GenerationInv, CallsWereScreened, Prompt
  <1>8. TextsWereScreened' /\ Recorded'
    BY <1>2, <1>3, <1>4 DEF GenerationInv, TextsWereScreened, Recorded
  <1> QED
    BY <1>5, <1>6, <1>7, <1>8 DEF GenerationInv

LEMMA NoteStep == GenerationInv /\ ScreenNote => GenerationInv'
  <1> SUFFICES ASSUME GenerationInv, ScreenNote
               PROVE  GenerationInv'
    OBVIOUS
  <1>1. /\ pc = "note" /\ notes' = notes - 1
        /\ UNCHANGED <<bound, inventing, foreign, headline, body, narration, called, blocked>>
    BY DEF ScreenNote
  <1>2. /\ "narration" \notin called /\ blocked = refused /\ narration # "draft"
        /\ \A i \in 1..Len(refused) : refused[i][1] = "signal_classifier"
    BY <1>1 DEF GenerationInv, StepsInOrder, BeforeNarration, Recorded, TextsWereScreened
  <1>3. /\ NextNote(notes - 1) \in {"note", "narration_prompt"}
        /\ NextNote(notes - 1) = "note" => notes' # 0
    BY <1>1 DEF NextNote
  <1>4. ASSUME Refuse("signal_classifier", "output", NextNote(notes - 1)),
               UNCHANGED <<advisory, passed>>, notes' \in 0..MaxNotes
        PROVE  GenerationInv'
    <2>1. /\ refused' \in Seq(Refusals)
          /\ refused' # <<>>
          /\ Front(refused') = refused
          /\ Last(refused') = <<"signal_classifier", "output">>
          /\ \A i \in 1..Len(refused') :
               \/ refused'[i] = <<"signal_classifier", "output">>
               \/ i \in 1..Len(refused) /\ refused'[i] = refused[i]
          /\ resume' \in {"note", "narration_prompt"}
          /\ resume' = "note" => notes' # 0
          /\ pc' = "audit"
      BY <1>3, <1>4, RefuseAppends DEF GenerationInv
    <2>2. TypeOK'
      BY <1>1, <1>4, <2>1 DEF GenerationInv, TypeOK, Stages
    <2>3. StepsInOrder'
      BY <1>1, <1>2, <2>1 DEF StepsInOrder, BeforeNarration
    <2>4. CallsWereScreened' /\ Recorded'
      BY <1>1, <1>2, <1>4, <2>1 DEF GenerationInv, CallsWereScreened, Recorded
    <2>5. TextsWereScreened'
      BY <1>1, <1>2, <1>4, <2>1 DEF GenerationInv, TextsWereScreened
    <2> QED
      BY <2>2, <2>3, <2>4, <2>5 DEF GenerationInv
  <1>5. ASSUME NEW verdict \in Verdicts(Original("note")), Allow("output", verdict),
               advisory' = IF verdict.text[2] = "emptied" THEN advisory
                           ELSE Append(advisory, verdict.text),
               pc' = NextNote(notes - 1), UNCHANGED <<resume, refused>>,
               notes' \in 0..MaxNotes
        PROVE  GenerationInv'
    <2>1. /\ passed' = passed \cup {<<"output", verdict.text>>}
          /\ passed' \subseteq {"input", "output"} \X Texts
          /\ verdict.text \in Texts
      BY <1>5, AllowNotes, AllowedIsClean DEF GenerationInv, Origins
    <2>2. /\ advisory' \in Seq(Texts)
          /\ \A i \in 1..Len(advisory') :
               \/ i \in 1..Len(advisory) /\ advisory'[i] = advisory[i]
               \/ advisory'[i] = verdict.text /\ verdict.text[2] # "emptied"
      <3>1. advisory \in Seq(Texts)
        BY DEF GenerationInv, TypeOK
      <3> QED
        BY <1>5, <2>1, <3>1
    <2>3. TypeOK'
      BY <1>1, <1>3, <1>5, <2>1, <2>2 DEF GenerationInv, TypeOK, Stages
    <2>4. StepsInOrder'
      BY <1>1, <1>2, <1>3, <1>5, <2>1 DEF GenerationInv, StepsInOrder, BeforeNarration
    <2>5. CallsWereScreened' /\ Recorded'
      BY <1>1, <1>2, <1>3, <1>5, <2>1 DEF GenerationInv, CallsWereScreened, Recorded
    <2>6. TextsWereScreened'
      BY <1>1, <1>2, <1>3, <1>5, <2>1, <2>2 DEF GenerationInv, TextsWereScreened
    <2> QED
      BY <2>3, <2>4, <2>5, <2>6 DEF GenerationInv
  <1>6. notes' \in 0..MaxNotes
    BY <1>1, GenerationAssumption DEF GenerationInv, TypeOK, StepsInOrder
  <1> QED
    BY <1>4, <1>5, <1>6 DEF ScreenNote

LEMMA NarrationPromptStep == GenerationInv /\ ScreenNarrationPrompt => GenerationInv'
  <1> SUFFICES ASSUME GenerationInv, ScreenNarrationPrompt
               PROVE  GenerationInv'
    OBVIOUS
  <1>1. ScreenPrompt("narration_prompt", "narration", "narrate", "done")
    BY DEF ScreenNarrationPrompt
  <1>2. UNCHANGED <<bound, inventing, foreign, notes, advisory, headline, body, narration,
                    called, blocked>>
    BY <1>1 DEF ScreenPrompt
  <1>3. /\ pc = "narration_prompt"
        /\ passed \subseteq passed' /\ passed' \subseteq {"input", "output"} \X Texts
        /\ \/ /\ pc' = "narrate" /\ <<"input", Original("narration_prompt")>> \in passed'
              /\ UNCHANGED <<resume, refused>>
           \/ Refuse("narration", "input", "done")
    BY <1>1, PromptScreened
  <1>4. /\ "narration" \notin called /\ blocked = refused /\ narration # "draft"
        /\ \A i \in 1..Len(refused) : refused[i][1] = "signal_classifier"
    BY <1>3 DEF GenerationInv, StepsInOrder, BeforeNarration, Recorded, TextsWereScreened
  <1>5. CASE Refuse("narration", "input", "done")
    <2>1. /\ refused' \in Seq(Refusals)
          /\ refused' # <<>>
          /\ Front(refused') = refused
          /\ Last(refused') = <<"narration", "input">>
          /\ \A i \in 1..Len(refused') :
               \/ refused'[i] = <<"narration", "input">>
               \/ i \in 1..Len(refused) /\ refused'[i] = refused[i]
          /\ resume' = "done"
          /\ pc' = "audit"
      BY <1>5, RefuseAppends DEF GenerationInv
    <2>2. TypeOK'
      BY <1>2, <1>3, <2>1 DEF GenerationInv, TypeOK, Stages
    <2>3. StepsInOrder'
      BY <1>2, <2>1 DEF StepsInOrder, BeforeNarration
    <2>4. CallsWereScreened'
      <3>1. ASSUME NEW step \in called'
            PROVE  /\ <<"input", Prompt(step)>> \in passed'
                   /\ \A i \in 1..Len(refused') : refused'[i] # <<step, "input">>
        <4>1. step # "narration" /\ step \in called
          BY <1>2, <1>4
        <4> QED
          BY <1>2, <1>3, <2>1, <4>1 DEF GenerationInv, CallsWereScreened
      <3> QED
        BY <3>1 DEF CallsWereScreened
    <2>5. TextsWereScreened' /\ Recorded'
      BY <1>2, <1>3, <1>4, <2>1 DEF GenerationInv, TextsWereScreened, Recorded
    <2> QED
      BY <2>2, <2>3, <2>4, <2>5 DEF GenerationInv
  <1>6. CASE /\ pc' = "narrate" /\ <<"input", Original("narration_prompt")>> \in passed'
             /\ UNCHANGED <<resume, refused>>
    <2>1. TypeOK'
      BY <1>2, <1>3, <1>6 DEF GenerationInv, TypeOK, Stages
    <2>2. StepsInOrder'
      BY <1>2, <1>4, <1>6 DEF StepsInOrder, BeforeNarration, Prompt
    <2>3. CallsWereScreened' /\ Recorded'
      BY <1>2, <1>3, <1>4, <1>6 DEF GenerationInv, CallsWereScreened, Recorded
    <2>4. TextsWereScreened'
      BY <1>2, <1>3, <1>4, <1>6 DEF GenerationInv, TextsWereScreened
    <2> QED
      BY <2>1, <2>2, <2>3, <2>4 DEF GenerationInv
  <1> QED
    BY <1>3, <1>5, <1>6

LEMMA NarrateStep == GenerationInv /\ Narrate => GenerationInv'
  <1> SUFFICES ASSUME GenerationInv, Narrate
               PROVE  GenerationInv'
    OBVIOUS
  <1>1. /\ pc = "narrate" /\ called' = called \cup {"narration"}
        /\ pc' \in {"headline", "done"} /\ narration' \in {narration, "fallback"}
        /\ UNCHANGED <<bound, resume, inventing, foreign, notes, advisory, headline, body,
                       passed, refused, blocked>>
    BY DEF Narrate
  <1>2. /\ blocked = refused /\ narration # "draft"
        /\ <<"input", Prompt("narration")>> \in passed
        /\ \A i \in 1..Len(refused) : refused[i] # <<"narration", "input">>
    BY <1>1 DEF GenerationInv, StepsInOrder, Recorded, TextsWereScreened
  <1>3. TypeOK'
    BY <1>1 DEF GenerationInv, TypeOK, Stages, Narrations
  <1>4. StepsInOrder' /\ Recorded'
    BY <1>1, <1>2 DEF StepsInOrder, BeforeNarration, Recorded
  <1>5. CallsWereScreened'
    BY <1>1, <1>2 DEF GenerationInv, CallsWereScreened, Prompt
  <1>6. TextsWereScreened'
    BY <1>1, <1>2 DEF GenerationInv, TextsWereScreened
  <1> QED
    BY <1>3, <1>4, <1>5, <1>6 DEF GenerationInv

(* Refusing either half of a draft leaves the draft behind.                *)
LEMMA DraftRefused ==
  ASSUME GenerationInv, pc \in {"headline", "body"}, Refuse("narration", "output", "done"),
         UNCHANGED <<bound, inventing, foreign, notes, advisory, headline, body, narration,
                     called, passed, blocked>>
  PROVE  GenerationInv'
  <1>1. /\ refused' \in Seq(Refusals)
        /\ refused' # <<>>
        /\ Front(refused') = refused
        /\ Last(refused') = <<"narration", "output">>
        /\ \A i \in 1..Len(refused') :
             \/ refused'[i] = <<"narration", "output">>
             \/ i \in 1..Len(refused) /\ refused'[i] = refused[i]
        /\ resume' = "done"
        /\ pc' = "audit"
    BY RefuseAppends DEF GenerationInv
  <1>2. blocked = refused /\ narration # "draft"
    BY DEF GenerationInv, Recorded, TextsWereScreened
  <1>3. TypeOK'
    BY <1>1 DEF GenerationInv, TypeOK, Stages
  <1>4. StepsInOrder' /\ Recorded'
    BY <1>1, <1>2 DEF StepsInOrder, BeforeNarration, Recorded
  <1>5. CallsWereScreened'
    BY <1>1 DEF GenerationInv, CallsWereScreened
  <1>6. TextsWereScreened'
    BY <1>1, <1>2 DEF GenerationInv, TextsWereScreened
  <1> QED
    BY <1>3, <1>4, <1>5, <1>6 DEF GenerationInv

LEMMA HeadlineStep == GenerationInv /\ ScreenHeadline => GenerationInv'
  <1> SUFFICES ASSUME GenerationInv, ScreenHeadline
               PROVE  GenerationInv'
    OBVIOUS
  <1>1. CASE Refuse("narration", "output", "done") /\ UNCHANGED <<headline, passed>>
    BY <1>1, DraftRefused DEF ScreenHeadline
  <1>2. ASSUME NEW verdict \in Verdicts(Original("headline")), Allow("output", verdict),
               headline' = verdict.text, pc' = "body", UNCHANGED <<resume, refused>>
        PROVE  GenerationInv'
    <2>1. /\ pc = "headline"
          /\ UNCHANGED <<bound, inventing, foreign, notes, advisory, body, narration,
                         called, blocked>>
      BY DEF ScreenHeadline
    <2>2. /\ passed' = passed \cup {<<"output", verdict.text>>}
          /\ passed' \subseteq {"input", "output"} \X Texts
          /\ verdict.text \in Texts
      BY <1>2, AllowNotes, AllowedIsClean DEF GenerationInv, Origins
    <2>3. blocked = refused /\ narration # "draft"
      BY <2>1 DEF GenerationInv, Recorded, TextsWereScreened
    <2>4. TypeOK'
      BY <1>2, <2>1, <2>2 DEF GenerationInv, TypeOK, Stages
    <2>5. StepsInOrder' /\ Recorded'
      BY <1>2, <2>3, <2>1 DEF StepsInOrder, BeforeNarration, Recorded
    <2>6. CallsWereScreened'
      BY <1>2, <2>1, <2>2 DEF GenerationInv, CallsWereScreened
    <2>7. TextsWereScreened'
      BY <1>2, <2>1, <2>2, <2>3 DEF GenerationInv, TextsWereScreened
    <2> QED
      BY <2>4, <2>5, <2>6, <2>7 DEF GenerationInv
  <1> QED
    BY <1>1, <1>2 DEF ScreenHeadline

LEMMA BodyStep == GenerationInv /\ ScreenBody => GenerationInv'
  <1> SUFFICES ASSUME GenerationInv, ScreenBody
               PROVE  GenerationInv'
    OBVIOUS
  <1>1. CASE Refuse("narration", "output", "done") /\ UNCHANGED <<body, narration, passed>>
    BY <1>1, DraftRefused DEF ScreenBody
  <1>2. ASSUME NEW verdict \in Verdicts(Original("body")), Allow("output", verdict),
               body' = verdict.text, narration' = Validated(headline, verdict.text),
               pc' = "done", UNCHANGED <<resume, refused>>
        PROVE  GenerationInv'
    <2>1. /\ pc = "body"
          /\ UNCHANGED <<bound, inventing, foreign, notes, advisory, headline, called, blocked>>
      BY DEF ScreenBody
    <2>2. /\ passed' = passed \cup {<<"output", verdict.text>>}
          /\ passed' \subseteq {"input", "output"} \X Texts
          /\ verdict.text \in Texts
      BY <1>2, AllowNotes, AllowedIsClean DEF GenerationInv, Origins
    <2>3. blocked = refused /\ <<"output", headline>> \in passed
      BY <2>1 DEF GenerationInv, Recorded, TextsWereScreened
    <2>4. /\ narration' \in {"draft", "rejected"}
          /\ narration' = "draft" => Grounded(headline, body)'
      BY <1>2, <2>1 DEF Validated, Grounded
    <2>5. TypeOK'
      BY <1>2, <2>1, <2>2, <2>4 DEF GenerationInv, TypeOK, Stages, Narrations
    <2>6. StepsInOrder' /\ Recorded'
      BY <1>2, <2>3, <2>1 DEF StepsInOrder, BeforeNarration, Recorded
    <2>7. CallsWereScreened'
      BY <1>2, <2>1, <2>2 DEF GenerationInv, CallsWereScreened
    <2>8. TextsWereScreened'
      BY <1>2, <2>1, <2>2, <2>3, <2>4 DEF GenerationInv, TextsWereScreened
    <2> QED
      BY <2>5, <2>6, <2>7, <2>8 DEF GenerationInv
  <1> QED
    BY <1>1, <1>2 DEF ScreenBody

LEMMA AuditStep == GenerationInv /\ AuditBlocked => GenerationInv'
  <1> SUFFICES ASSUME GenerationInv, AuditBlocked
               PROVE  GenerationInv'
    OBVIOUS
  <1>1. /\ pc = "audit"
        /\ UNCHANGED <<bound, resume, inventing, foreign, notes, advisory, headline, body,
                       called, passed, refused>>
        /\ blocked' \in {blocked, Append(blocked, Last(refused))}
        /\ \/ pc' = resume /\ blocked' = Append(blocked, Last(refused))
           \/ pc' = "failed"
        /\ narration' \in {narration, "fallback"}
    BY DEF AuditBlocked
  <1>2. /\ refused \in Seq(Refusals) /\ refused # <<>> /\ blocked = Front(refused)
        /\ narration # "draft"
        /\ resume \in {"note", "narration_prompt", "done"}
        /\ Last(refused)[1] = "signal_classifier" \/ resume = "done"
    BY <1>1 DEF GenerationInv, TypeOK, StepsInOrder, Recorded, TextsWereScreened
  <1>3. Append(blocked, Last(refused)) = refused /\ blocked \in Seq(Refusals)
    BY <1>2, PartsAppend
  <1>4. TypeOK'
    BY <1>1, <1>2, <1>3 DEF GenerationInv, TypeOK, Stages, Narrations
  <1>5. StepsInOrder'
    BY <1>1, <1>2 DEF GenerationInv, StepsInOrder, BeforeNarration
  <1>6. CallsWereScreened' /\ TextsWereScreened'
    BY <1>1, <1>2 DEF GenerationInv, CallsWereScreened, TextsWereScreened
  <1>7. Recorded'
    BY <1>1, <1>2, <1>3 DEF Recorded
  <1> QED
    BY <1>4, <1>5, <1>6, <1>7 DEF GenerationInv

(* The invariant holds throughout, whatever the adapters answer.           *)
THEOREM GenerationInvariance == Spec => []GenerationInv
  <1>1. Init => GenerationInv
    BY GenerationAssumption
       DEF Init, GenerationInv, TypeOK, StepsInOrder, BeforeNarration, CallsWereScreened,
           TextsWereScreened, Recorded, Stages, Narrations, Original, Texts, Origins
  <1>2. GenerationInv /\ [Next]_vars => GenerationInv'
    <2>1. GenerationInv /\ UNCHANGED vars => GenerationInv'
      BY DEF vars, GenerationInv, TypeOK, StepsInOrder, BeforeNarration, CallsWereScreened,
             TextsWereScreened, Recorded, Grounded
    <2> QED
      BY <2>1, SignalPromptStep, ClassifyStep, NoteStep, NarrationPromptStep, NarrateStep,
         HeadlineStep, BodyStep, AuditStep DEF Next
  <1> QED
    BY <1>1, <1>2, PTL DEF Spec

-----------------------------------------------------------------------------
(* For any number of notes and any deployment: text crosses the boundary   *)
(* to a model, either way, only as a screen left it.                       *)
THEOREM ScreenedOnly == Spec => []OnlyScreenedTextCrosses
  <1>1. GenerationInv => OnlyScreenedTextCrosses
    <2> SUFFICES ASSUME GenerationInv
                 PROVE  OnlyScreenedPromptsAreSent /\ OnlyScreenedTextIsUsed
      BY DEF OnlyScreenedTextCrosses
    <2>1. /\ DOMAIN advisory = 1..Len(advisory)
          /\ DOMAIN refused = 1..Len(refused)
      BY DEF GenerationInv, TypeOK
    <2>2. OnlyScreenedPromptsAreSent
      BY <2>1 DEF GenerationInv, CallsWereScreened, OnlyScreenedPromptsAreSent, ToSet
    <2>3. OnlyScreenedTextIsUsed
      BY <2>1 DEF GenerationInv, TextsWereScreened, OnlyScreenedTextIsUsed, ToSet
    <2> QED
      BY <2>2, <2>3
  <1> QED
    BY <1>1, GenerationInvariance, PTL

(* No refusal goes unrecorded, but for one whose record failed the scoring.*)
THEOREM RefusalsRecorded == Spec => []RefusalsAreOnRecord
  <1>1. GenerationInv => RefusalsAreOnRecord
    BY DEF GenerationInv, Recorded, RefusalsAreOnRecord
  <1> QED
    BY <1>1, GenerationInvariance, PTL

(* What stands as a draft was validated as it stands.                      *)
THEOREM DraftsGrounded == Spec => []DraftsAreGrounded
  <1>1. GenerationInv => DraftsAreGrounded
    BY DEF GenerationInv, TextsWereScreened, DraftsAreGrounded, Grounded
  <1> QED
    BY <1>1, GenerationInvariance, PTL

-----------------------------------------------------------------------------
(* The two stages.                                                         *)

HasRecord(records, who) == \E i \in 1..Len(records) : records[i][1] = who

LEMMA RecordAppended ==
  ASSUME NEW records \in Seq(Refusals), NEW refusal \in Refusals, NEW who
  PROVE  HasRecord(Append(records, refusal), who) <=> HasRecord(records, who) \/ refusal[1] = who
  <1>1. /\ Len(Append(records, refusal)) = Len(records) + 1
        /\ Append(records, refusal)[Len(records) + 1] = refusal
        /\ \A i \in 1..Len(records) : Append(records, refusal)[i] = records[i]
        /\ Len(records) \in Nat
    OBVIOUS
  <1>2. \A i \in 1..(Len(records) + 1) : i \in 1..Len(records) \/ i = Len(records) + 1
    BY <1>1
  <1>3. \A i \in 1..Len(records) : i \in 1..(Len(records) + 1)
    BY <1>1
  <1>4. Len(records) + 1 \in 1..(Len(records) + 1)
    BY <1>1
  <1> QED
    BY <1>1, <1>2, <1>3, <1>4 DEF HasRecord

LEMMA TrailIs ==
  ASSUME NEW step \in {"advise", "narrate"}
  PROVE  step \in Trail <=>
           /\ step # StageOf
           /\ HasRecord(blocked, IF step = "advise" THEN "signal_classifier" ELSE "narration")
  BY DEF Trail, HasRecord

LEMMA SameSteps ==
  ASSUME NEW S, NEW T, S \subseteq {"advise", "narrate"}, T \subseteq {"advise", "narrate"},
         "advise" \in S <=> "advise" \in T,
         "narrate" \in S <=> "narrate" \in T
  PROVE  S = T
  <1>1. \A step : step \in S => step \in T
    OBVIOUS
  <1>2. \A step : step \in T => step \in S
    OBVIOUS
  <1> QED
    BY <1>1, <1>2

(* A step that keeps or advances the stage, and writes no record but that  *)
(* of the last refusal, is a step of the contract or a stutter.            *)
LEMMA StageStep ==
  ASSUME GenerationInv,
         StageOf \in {"advise", "narrate"},
         \/ blocked' = blocked
         \/ pc = "audit" /\ blocked' = Append(blocked, Last(refused)),
         \/ StageOf' = StageOf
         \/ StageOf = "advise" /\ StageOf' = "narrate"
         \/ StageOf = "narrate" /\ StageOf' = "done"
         \/ AuditFaulty /\ StageOf' = "failed"
  PROVE  [Contract!Next]_(Contract!vars)
  <1>1. blocked \in Seq(Refusals) /\ refused \in Seq(Refusals)
    BY DEF GenerationInv, TypeOK
  <1>2. pc = "audit" => Last(refused) \in Refusals
    BY <1>1, PartsAppend DEF GenerationInv, StepsInOrder
  <1>3. pc \notin {"audit", "failed"} => blocked = refused
    BY DEF GenerationInv, Recorded
  <1>4. StageOf = "advise" => BeforeNarration
    BY DEF StageOf, BeforeNarration
  <1>5. pc = "audit" => \A i \in 1..Len(blocked) : i \in 1..Len(refused) /\ blocked[i] = refused[i]
    BY <1>1 DEF GenerationInv, StepsInOrder, Recorded, Front
  <1>6. StageOf = "advise" => ~HasRecord(blocked, "narration")
    <2>1. StageOf = "advise" => pc # "failed"
      BY DEF StageOf
    <2>2. StageOf = "advise" => \A i \in 1..Len(blocked) : blocked[i][1] = "signal_classifier"
      BY <1>3, <1>4, <1>5, <2>1 DEF GenerationInv, StepsInOrder
    <2> QED
      BY <2>2 DEF HasRecord
  <1>7. pc = "audit" => (StageOf = "advise" <=> Last(refused)[1] = "signal_classifier")
    BY DEF StageOf
  <1>8. pc = "audit" => Last(refused)[1] \in {"signal_classifier", "narration"}
    BY <1>2 DEF Refusals
  <1>9. StageOf = "advise" => ~HasRecord(blocked', "narration")
    BY <1>1, <1>2, <1>6, <1>7, RecordAppended
  <1>10. StageOf = "narrate" =>
           (HasRecord(blocked', "signal_classifier") <=> HasRecord(blocked, "signal_classifier"))
    <2>1. CASE blocked' = blocked
      BY <2>1
    <2>2. CASE pc = "audit" /\ blocked' = Append(blocked, Last(refused))
      <3>1. HasRecord(blocked', "signal_classifier")
              <=> HasRecord(blocked, "signal_classifier") \/ Last(refused)[1] = "signal_classifier"
        BY <1>1, <1>2, <2>2, RecordAppended
      <3> QED
        BY <1>7, <2>2, <3>1
    <2> QED
      BY <2>1, <2>2
  <1>11. Trail \subseteq {"advise", "narrate"} /\ Trail' \subseteq {"advise", "narrate"}
    BY DEF Trail
  <1>12. /\ "advise" \in Trail <=> "advise" # StageOf /\ HasRecord(blocked, "signal_classifier")
         /\ "narrate" \in Trail <=> "narrate" # StageOf /\ HasRecord(blocked, "narration")
    BY TrailIs
  <1>13. /\ "advise" \in Trail' <=> "advise" # StageOf' /\ HasRecord(blocked', "signal_classifier")
         /\ "narrate" \in Trail' <=> "narrate" # StageOf' /\ HasRecord(blocked', "narration")
    BY DEF Trail, HasRecord
  <1>14. CASE StageOf' = StageOf
    <2>1. /\ "advise" \in Trail' <=> "advise" \in Trail
          /\ "narrate" \in Trail' <=> "narrate" \in Trail
      BY <1>6, <1>9, <1>10, <1>12, <1>13, <1>14
    <2>2. Trail' = Trail
      BY <1>11, <2>1, SameSteps
    <2> QED
      BY <1>14, <2>2 DEF Contract!vars
  <1>15. CASE StageOf' # StageOf
    <2>1. ASSUME StageOf = "advise"
          PROVE  Trail' \in {Trail, Trail \cup {StageOf}}
      <3>1. "advise" \notin Trail /\ "narrate" \notin Trail /\ "narrate" \notin Trail'
        BY <1>6, <1>9, <1>12, <1>13, <2>1
      <3>2. CASE "advise" \in Trail'
        <4>1. Trail \cup {"advise"} \subseteq {"advise", "narrate"}
          BY <1>11
        <4>2. Trail' = Trail \cup {"advise"}
          BY <1>11, <3>1, <3>2, <4>1, SameSteps
        <4> QED
          BY <2>1, <4>2
      <3>3. CASE "advise" \notin Trail'
        BY <1>11, <3>1, <3>3, SameSteps
      <3> QED
        BY <3>2, <3>3
    <2>2. ASSUME StageOf = "narrate"
          PROVE  Trail' \in {Trail, Trail \cup {StageOf}}
      <3>1. "narrate" \notin Trail /\ ("advise" \in Trail' <=> "advise" \in Trail)
        BY <1>10, <1>12, <1>13, <1>15, <2>2
      <3>2. CASE "narrate" \in Trail'
        <4>1. Trail \cup {"narrate"} \subseteq {"advise", "narrate"}
          BY <1>11
        <4>2. "advise" \in Trail' <=> "advise" \in Trail \cup {"narrate"}
          BY <3>1
        <4>3. Trail' = Trail \cup {"narrate"}
          BY <1>11, <3>2, <4>1, <4>2, SameSteps
        <4> QED
          BY <2>2, <4>3
      <3>3. CASE "narrate" \notin Trail'
        BY <1>11, <3>1, <3>3, SameSteps
      <3> QED
        BY <3>2, <3>3
    <2>3. Trail' \in {Trail, Trail \cup {StageOf}}
      BY <2>1, <2>2
    <2> QED
      BY <1>15, <2>3 DEF Contract!Next, Contract!Quiet, Contract!Blocked, Contract!Failed,
                         Contract!After
  <1> QED
    BY <1>14, <1>15

LEMMA ContractStep ==
  ASSUME GenerationInv, [Next]_vars
  PROVE  [Contract!Next]_(Contract!vars)
  <1> DEFINE Advances ==
        /\ StageOf \in {"advise", "narrate"}
        /\ \/ blocked' = blocked
           \/ pc = "audit" /\ blocked' = Append(blocked, Last(refused))
        /\ \/ StageOf' = StageOf
           \/ StageOf = "advise" /\ StageOf' = "narrate"
           \/ StageOf = "narrate" /\ StageOf' = "done"
           \/ AuditFaulty /\ StageOf' = "failed"
  <1>1. Advances => [Contract!Next]_(Contract!vars)
    BY StageStep
  <1>2. ASSUME NEW step \in {"signal_classifier", "narration"},
               NEW direction \in {"input", "output"}, NEW fallback,
               Refuse(step, direction, fallback)
        PROVE  StageOf' = IF step = "signal_classifier" THEN "advise" ELSE "narrate"
    <2>1. pc' = "audit" /\ Last(refused')[1] = step
      BY <1>2, RefuseAppends DEF GenerationInv
    <2> QED
      BY <2>1 DEF StageOf
  <1>3. ScreenSignalPrompt => Advances
    BY <1>2 DEF ScreenSignalPrompt, ScreenPrompt, StageOf
  <1>4. Classify => Advances
    BY DEF Classify, NextNote, StageOf
  <1>5. ScreenNote => Advances
    BY <1>2 DEF ScreenNote, NextNote, StageOf
  <1>6. ScreenNarrationPrompt => Advances
    BY <1>2 DEF ScreenNarrationPrompt, ScreenPrompt, StageOf
  <1>7. Narrate => Advances
    BY DEF Narrate, StageOf
  <1>8. ScreenHeadline => Advances
    BY <1>2 DEF ScreenHeadline, StageOf
  <1>9. ScreenBody => Advances
    BY <1>2 DEF ScreenBody, StageOf
  <1>10. AuditBlocked => Advances
    BY DEF AuditBlocked, StageOf, GenerationInv, StepsInOrder
  <1>11. UNCHANGED vars => UNCHANGED Contract!vars
    BY DEF vars, Contract!vars, StageOf, Trail
  <1> QED
    BY <1>1, <1>3, <1>4, <1>5, <1>6, <1>7, <1>8, <1>9, <1>10, <1>11 DEF Next

(* The two generation steps are the two stages that the scoring path takes *)
(* them for, whatever is bound and however many notes there are.           *)
THEOREM StagesKept == Spec => KeepsTheStages
  <1>1. Init => Contract!Init
    BY DEF Init, Contract!Init, StageOf, Trail
  <1>2. GenerationInv /\ [Next]_vars => [Contract!Next]_(Contract!vars)
    BY ContractStep
  <1> QED
    BY <1>1, <1>2, GenerationInvariance, PTL DEF Spec, KeepsTheStages, Contract!Spec

-----------------------------------------------------------------------------
(* The gate behind the narrator, for any scorecards, figures and drafts:   *)
(* what a reader gets in place of the text the steps above let through.    *)

(* Nothing is drafted before the narrator is asked, a draft is one of the  *)
(* two narrators', and what the reader gets is what the gate made of it.   *)
GateInv ==
  /\ card \in Scorecards
  /\ ~drafted => draft = None /\ shown = None
  /\ draft # None => draft = OfflineDraft(card) \/ draft.model = "model"
  /\ shown # None => shown = grounded_or_fallback(draft, card)

LEMMA GateKeeps == GateInv /\ [GroundingNext]_groundingVars => GateInv'
  <1> SUFFICES ASSUME GateInv, [GroundingNext]_groundingVars
               PROVE  GateInv'
    OBVIOUS
  <1>1. CASE DraftOffline
    BY <1>1 DEF GateInv, DraftOffline
  <1>2. CASE DraftByModel
    BY <1>2 DEF GateInv, DraftByModel, Narration
  <1>3. CASE Decline
    BY <1>3 DEF GateInv, Decline
  <1>4. CASE Settle
    BY <1>4 DEF GateInv, Settle
  <1>5. CASE UNCHANGED groundingVars
    BY <1>5 DEF GateInv, groundingVars
  <1> QED
    BY <1>1, <1>2, <1>3, <1>4, <1>5 DEF GroundingNext

(* The fallback is composed of what the scorecard publishes.               *)
LEMMA FallbackIsPublished ==
  ASSUME NEW s
  PROVE  /\ deterministic_narration(s).figures
              \subseteq Published(s) \cup LabelFigures(s)
         /\ deterministic_narration(s).citations = s.citations
  <1>1. Failing(s) \subseteq DOMAIN s.findings
    BY DEF Failing
  <1>2. Names(Failing(s) \cup {LabelOf[cue] : cue \in Distressed(s)} \cup {s.contact_id})
          \subseteq Names(DOMAIN s.findings \cup s.cues \cup {s.contact_id, s.pack, s.stamp})
                    \cup LabelFigures(s)
    BY <1>1 DEF Names, LabelFigures
  <1> QED
    BY <1>2 DEF deterministic_narration, Narration, Published, Counts

(* Whatever a model writes, declines or cites, what the reader is shown is *)
(* on the scorecard, or in the label of a detected cue.                    *)
THEOREM ReadersSeeTheScorecard == GroundingSpec => []ReadersSeePublishedFigures
  <1>1. GroundingInit => GateInv
    BY DEF GroundingInit, GateInv
  <1>2. GateInv => ReadersSeePublishedFigures
    <2> SUFFICES ASSUME GateInv, shown # None
                 PROVE  /\ shown.figures \subseteq Published(card) \cup LabelFigures(card)
                        /\ shown.citations \subseteq card.citations
      BY DEF ReadersSeePublishedFigures
    <2>1. CASE draft # None /\ validate_narration(draft, card)
      BY <2>1 DEF GateInv, grounded_or_fallback, validate_narration, allowed_figures, Published
    <2>2. CASE ~(draft # None /\ validate_narration(draft, card))
      BY <2>2, FallbackIsPublished DEF GateInv, grounded_or_fallback
    <2> QED
      BY <2>1, <2>2
  <1> QED
    BY <1>1, <1>2, GateKeeps, PTL DEF GroundingSpec

(* Off the halves, a person and the format round alike.                    *)
LEMMA RoundedAlike ==
  ASSUME NEW ratio \in Nat, ~Halfway(ratio), NEW above, NEW below
  PROVE  Hundredths(ratio, above, below) = ByHand(ratio)
  <1> DEFINE q == ratio \div 100
             r == ratio % 100
  <1>1. q \in Nat /\ r \in 0..99 /\ ratio = 100 * q + r
    OBVIOUS
  <1>2. r # 50
    BY DEF Halfway
  <1>3. Hundredths(ratio, above, below) = q + IF r > 50 THEN 1 ELSE 0
    BY <1>2 DEF Hundredths
  <1> HIDE DEF q, r
  <1>4. (ratio + 50) \div 100 = q + IF r > 50 THEN 1 ELSE 0
    BY <1>1, <1>2
  <1> QED
    BY <1>3, <1>4 DEF ByHand

LEMMA RatiosAreNaturals == \A s \in Scorecards : \A r \in Ratios(s) : r \in Nat
  BY ScorecardAssumption DEF Ratios

(* The gate takes every draft of the offline narrator, whatever is rounded *)
(* how, and every true restatement of ratios that are not half way, if     *)
(* what was detected is what is published.                                 *)
THEOREM TrueDraftsTaken == GroundingSpec => []TrueDraftsAreTaken
  <1>1. GroundingInit => GateInv
    BY DEF GroundingInit, GateInv
  <1>2. ASSUME NEW s \in Scorecards, NEW d,
               \/ d = OfflineDraft(s)
               \/ Restates(d, s) /\ \A r \in Ratios(s) : ~Halfway(r)
        PROVE  validate_narration(d, s)
    <2>1. Failing(s) \subseteq DOMAIN s.findings /\ s.detected \subseteq s.cues
      BY ScorecardAssumption DEF Failing
    <2>2. Names(Failing(s) \cup s.detected)
            \subseteq Names(DOMAIN s.findings \cup s.cues \cup {s.contact_id, s.pack, s.stamp})
      BY <2>1 DEF Names
    <2>3. Names(Failing(s) \cup s.detected \cup {s.contact_id})
            \subseteq Names(DOMAIN s.findings \cup s.cues \cup {s.contact_id, s.pack, s.stamp})
      BY <2>1 DEF Names
    <2>4. CASE d = OfflineDraft(s)
      BY <2>3, <2>4 DEF OfflineDraft, Narration, validate_narration, allowed_figures
    <2>5. CASE Restates(d, s) /\ \A r \in Ratios(s) : ~Halfway(r)
      <3>1. \A r \in Ratios(s) : r \in Nat /\ ~Halfway(r)
        BY <2>5, RatiosAreNaturals
      <3>2. \A r \in Ratios(s) : /\ Whole(ByHand(r)) = Percent(r)
                                 /\ TwoPlacesOf(ByHand(r)) = TwoPlaces(r)
        BY <3>1, RoundedAlike DEF Percent, TwoPlaces
      <3>3. {Whole(ByHand(r)) : r \in Ratios(s)} \cup {TwoPlacesOf(ByHand(r)) : r \in Ratios(s)}
              = {Percent(r) : r \in Ratios(s)} \cup {TwoPlaces(r) : r \in Ratios(s)}
        BY <3>2
      <3> QED
        BY <2>2, <2>5, <3>3 DEF Restates, validate_narration, allowed_figures, Counts
    <2> QED
      BY <1>2, <2>4, <2>5
  <1>3. GateInv => TrueDraftsAreTaken
    <2> SUFFICES ASSUME GateInv, shown # None, draft # None,
                        \/ draft.model = "offline"
                        \/ Restates(draft, card) /\ \A r \in Ratios(card) : ~Halfway(r)
                 PROVE  shown = draft
      BY DEF TrueDraftsAreTaken
    <2>1. draft.model = "offline" => draft = OfflineDraft(card)
      BY DEF GateInv
    <2>2. validate_narration(draft, card)
      BY <1>2, <2>1 DEF GateInv
    <2> QED
      BY <2>2 DEF GateInv, grounded_or_fallback
  <1> QED
    BY <1>1, <1>3, GateKeeps, PTL DEF GroundingSpec
===============================================================================
