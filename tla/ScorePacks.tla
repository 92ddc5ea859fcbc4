------------------------------ MODULE ScorePacks ------------------------------
(***************************************************************************)
(* Where an assessment gets its score pack.  The deployment's pack file is *)
(* validated as a whole and cached by path for the life of the process; a  *)
(* sibling disclosure file, when one is configured, is read anew for every *)
(* assessment and merged into the pack of the contact's market.  The       *)
(* engine then compiles one lexicon of all the obligations' steps.         *)
(*                                                                         *)
(* The cache is an lru_cache, which takes no lock while it is filled: the  *)
(* calls of a process look at it, read the file and fill it in any order.  *)
(*                                                                         *)
(* Wordings are what can be said; an id is its place in the order of ids,  *)
(* a pack id its place in the order of pack ids.  What only validity is    *)
(* about (citations, severities, windows, cues, locale, labels) is one     *)
(* flag, sound.                                                            *)
(***************************************************************************)
EXTENDS Integers, Sequences

CONSTANTS
  PackFiles,     \* what the pack file may hold
  SiblingFiles,  \* what the sibling file may hold
  Contacts,      \* the markets and products contacts come from
  Calls,         \* the threads that assess contacts
  Wordings,      \* what an agent can say
  None           \* nothing cached, no answer yet, a refusal

(* The speakers an obligation may bind; "unknown" parses and is refused.   *)
AllowedRoles == {"agent", "customer", "system"}

(* A file's version is 0 where it declares none; its packs are a function  *)
(* of their ids, their phrases one of the steps they define, and their     *)
(* requirements a list that may repeat an id.                              *)
ASSUME PackFileAssumption ==
  /\ \A f \in PackFiles :
       /\ f.version \in Nat
       /\ f.sound \in BOOLEAN
       /\ DOMAIN f.packs \subseteq Nat
       /\ \A p \in DOMAIN f.packs :
            /\ \A e \in DOMAIN f.packs[p].phrases : f.packs[p].phrases[e] \subseteq Wordings
            /\ \A i \in DOMAIN f.packs[p].requirements :
                 f.packs[p].requirements[i].id \in Nat
  /\ \A s \in SiblingFiles : \A i \in DOMAIN s.disclosures :
       s.disclosures[i].id \in Nat /\ s.disclosures[i].wordings \subseteq Wordings

VARIABLES
  packFile,     \* the pack file as it is now
  siblingFile,  \* the sibling file as it is now; None where none is configured
  cached,       \* what _cached_packs holds for the pack file's path
  calls,        \* how far each call is, and the packs it works with
  answer,       \* the assessment that this step ended: contact, packs, pack, said, met
  scoredBy,     \* the versions this process has scored by
  republished   \* was the pack file published while a call of it was loading?

packVars == <<packFile, siblingFile, cached, calls, answer, scoredBy, republished>>

-----------------------------------------------------------------------------
(* The native loader.                                                      *)

DistinctIds(ids) == \A i, j \in DOMAIN ids : ids[i] = ids[j] => i = j

(* A step needs its mandated wording, and no paraphrase may be empty.      *)
ValidPhrases(phrases) ==
  DOMAIN phrases # {} /\ \A e \in DOMAIN phrases : phrases[e] # {}

ValidRequirement(requirement, phrases) ==
  /\ requirement.steps # <<>>
  /\ \A i \in DOMAIN requirement.steps : requirement.steps[i] \in DOMAIN phrases
  /\ requirement.role \in AllowedRoles

ValidPack(p) ==
  /\ ValidPhrases(p.phrases)
  /\ p.requirements # <<>>
  /\ DistinctIds([i \in DOMAIN p.requirements |-> p.requirements[i].id])
  /\ \A i \in DOMAIN p.requirements : ValidRequirement(p.requirements[i], p.phrases)

(* One invalid pack refuses the whole file.                                *)
ValidFile(f) ==
  /\ f.sound
  /\ f.version # 0
  /\ DOMAIN f.packs # {}
  /\ \A p \in DOMAIN f.packs : ValidPack(f.packs[p])

(* A pack file that changed is published under a version of its own.        *)
ASSUME VersionAssumption ==
  \A f, g \in PackFiles :
    ValidFile(f) /\ ValidFile(g) /\ f.version = g.version => f.packs = g.packs

Step(entry, wordings) == [entry |-> entry, wordings |-> wordings]

(* A list of documents, as a function of their ids.                        *)
ById(list) ==
  [id \in {list[i].id : i \in DOMAIN list} |->
     list[CHOOSE i \in DOMAIN list : list[i].id = id]]

NativeObligations(p) ==
  LET documents == ById(p.requirements) IN
  [id \in DOMAIN documents |->
     LET steps == documents[id].steps IN
     [role  |-> documents[id].role,
      steps |-> [i \in DOMAIN steps |-> Step(steps[i], p.phrases[steps[i]])]]]

(* load_packs.                                                             *)
Load(f) ==
  [p \in DOMAIN f.packs |->
     [pack_id |-> p, version |-> f.version, market |-> f.packs[p].market,
      product |-> f.packs[p].product, requirements |-> NativeObligations(f.packs[p])]]

-----------------------------------------------------------------------------
(* The sibling reader and the merge.                                       *)

UsesSibling == siblingFile # None

ValidDisclosure(d) == d.wordings # {} /\ d.role \in AllowedRoles

ValidSibling(s) ==
  /\ s.sound
  /\ s.kind = "disclosure"
  /\ s.disclosures # <<>>
  /\ DistinctIds([i \in DOMAIN s.disclosures |-> s.disclosures[i].id])
  /\ \A i \in DOMAIN s.disclosures : ValidDisclosure(s.disclosures[i])

SiblingObligations(s) ==
  LET documents == ById(s.disclosures) IN
  [id \in DOMAIN documents |->
     [role  |-> documents[id].role,
      steps |-> <<Step(documents[id].entry, documents[id].wordings)>>]]

(* Slip: a disclosure of the sibling takes the place of the pack's.        *)
NoClash(ours, theirs) == TRUE

Disjoint(ours, theirs) == DOMAIN ours \cap DOMAIN theirs = {}

(* with_sibling_disclosures, which raises where it is not defined.         *)
Mergeable(p, s) ==
  /\ ValidSibling(s)
  /\ Disjoint(p.requirements, SiblingObligations(s))

Merged(p, s) ==
  LET theirs == SiblingObligations(s) IN
  [p EXCEPT !.requirements =
     [id \in DOMAIN @ \cup DOMAIN theirs |-> IF id \in DOMAIN theirs THEN theirs[id] ELSE @[id]]]

(* None is no file, and nothing that is read from one.                     *)
ASSUME NoneAssumption ==
  /\ None \notin PackFiles \cup SiblingFiles
  /\ \A f \in PackFiles : ValidFile(f) =>
       /\ Load(f) # None
       /\ \A p \in DOMAIN f.packs :
            /\ Load(f)[p] # None
            /\ \A s \in SiblingFiles : Mergeable(Load(f)[p], s) => Merged(Load(f)[p], s) # None

-----------------------------------------------------------------------------
(* pack_for_market.                                                        *)

(* Slip: a market with no pack of its own takes what there is.             *)
CandidatesOfAny(packs, c) == DOMAIN packs

Candidates(packs, c) ==
  {p \in DOMAIN packs :
     packs[p].market = c.market /\ (c.product = "" \/ packs[p].product = c.product)}

First(ids) == CHOOSE id \in ids : \A other \in ids : id <= other

PackFor(packs, c) ==
  IF packs = None \/ Candidates(packs, c) = {} THEN None
  ELSE LET chosen == packs[First(Candidates(packs, c))] IN
       IF ~UsesSibling THEN chosen
       ELSE IF Mergeable(chosen, siblingFile) THEN Merged(chosen, siblingFile) ELSE None

-----------------------------------------------------------------------------
(* The engine's lexicon: one entry per step, worded as the first obligation *)
(* in the order of ids that has it.                                         *)

Entries(obligation) == {obligation.steps[i].entry : i \in DOMAIN obligation.steps}

WordingIn(obligation, entry) ==
  (CHOOSE i \in DOMAIN obligation.steps : obligation.steps[i].entry = entry)

(* Slip: only the first step of each obligation is compiled.               *)
LexiconOfFirstSteps(requirements) ==
  [entry \in {requirements[id].steps[1].entry : id \in DOMAIN requirements} |->
     LET owner == First({id \in DOMAIN requirements : requirements[id].steps[1].entry = entry})
     IN  requirements[owner].steps[1].wordings]

Lexicon(requirements) ==
  [entry \in UNION {Entries(requirements[id]) : id \in DOMAIN requirements} |->
     LET owner == First({id \in DOMAIN requirements : entry \in Entries(requirements[id])})
     IN  requirements[owner].steps[WordingIn(requirements[owner], entry)].wordings]

(* An obligation is met if a wording of each of its steps was said; order  *)
(* and timing are ScoringEngine's.                                         *)
Met(p, id, said) ==
  LET lexicon == Lexicon(p.requirements) IN
  \A entry \in Entries(p.requirements[id]) :
    entry \in DOMAIN lexicon /\ lexicon[entry] \cap said # {}

MetByItsOwnWording(p, id, said) ==
  \A i \in DOMAIN p.requirements[id].steps : p.requirements[id].steps[i].wordings \cap said # {}

Answer(c, packs, p, said) ==
  [contact |-> c, packs |-> packs, pack |-> p, said |-> said,
   met |-> IF p = None THEN {} ELSE {id \in DOMAIN p.requirements : Met(p, id, said)}]

-----------------------------------------------------------------------------
Idle == [stage |-> "idle", packs |-> None]

PackInit ==
  /\ packFile \in PackFiles
  /\ siblingFile \in SiblingFiles \cup {None}
  /\ cached = None
  /\ calls = [call \in Calls |-> Idle]
  /\ answer = None
  /\ scoredBy = {}
  /\ republished = FALSE

(* Between a look that found nothing and the end of its load.              *)
Loading(call) == calls[call].stage \in {"missed", "read"}

Publish(f) ==
  /\ f # packFile
  /\ packFile' = f
  /\ answer' = None
  /\ republished' = (republished \/ \E call \in Calls : Loading(call))
  /\ UNCHANGED <<siblingFile, cached, calls, scoredBy>>

PublishSibling(s) ==
  /\ UsesSibling
  /\ siblingFile' = s
  /\ answer' = None
  /\ UNCHANGED <<packFile, cached, calls, scoredBy, republished>>

(* Slip: _cached_packs has lost its decorator.                             *)
LookWithoutCache(call) ==
  /\ calls[call].stage = "idle"
  /\ calls' = [calls EXCEPT ![call].stage = "missed"]
  /\ answer' = None
  /\ UNCHANGED <<packFile, siblingFile, cached, scoredBy, republished>>

(* packs_for: what the cache holds, or a load.                             *)
Look(call) ==
  /\ calls[call].stage = "idle"
  /\ calls' = [calls EXCEPT ![call] = IF cached = None THEN [@ EXCEPT !.stage = "missed"]
                                      ELSE [stage |-> "loaded", packs |-> cached]]
  /\ answer' = None
  /\ UNCHANGED <<packFile, siblingFile, cached, scoredBy, republished>>

(* load_packs returns.                                                     *)
ReadPackFile(call) ==
  /\ calls[call].stage = "missed"
  /\ ValidFile(packFile)
  /\ calls' = [calls EXCEPT ![call] = [stage |-> "read", packs |-> Load(packFile)]]
  /\ answer' = None
  /\ UNCHANGED <<packFile, siblingFile, cached, scoredBy, republished>>

(* Slip: a refusal is cached like a pack.                                  *)
RefusePackFileForGood(call, c) ==
  /\ calls[call].stage = "missed"
  /\ ~ValidFile(packFile)
  /\ calls' = [calls EXCEPT ![call] = Idle]
  /\ cached' = IF cached = None THEN <<>> ELSE cached
  /\ answer' = Answer(c, None, None, {})
  /\ UNCHANGED <<packFile, siblingFile, scoredBy, republished>>

(* load_packs raises, which ends the assessment and leaves the cache alone.*)
RefusePackFile(call, c) ==
  /\ calls[call].stage = "missed"
  /\ ~ValidFile(packFile)
  /\ calls' = [calls EXCEPT ![call] = Idle]
  /\ answer' = Answer(c, None, None, {})
  /\ UNCHANGED <<packFile, siblingFile, cached, scoredBy, republished>>

(* What is in the cache by now stays there; a call that loaded goes on with*)
(* what it loaded all the same.                                            *)
FillCache(call) ==
  /\ calls[call].stage = "read"
  /\ calls' = [calls EXCEPT ![call].stage = "loaded"]
  /\ cached' = IF cached = None THEN calls[call].packs ELSE cached
  /\ answer' = None
  /\ UNCHANGED <<packFile, siblingFile, scoredBy, republished>>

(* The rest of pack_for_market, and the engine.                            *)
ScoreContact(call, c, said) ==
  LET packs == calls[call].packs
      p     == PackFor(packs, c)
  IN  /\ calls[call].stage = "loaded"
      /\ calls' = [calls EXCEPT ![call] = Idle]
      /\ answer' = Answer(c, packs, p, said)
      /\ scoredBy' = IF p = None THEN scoredBy ELSE scoredBy \cup {p.version}
      /\ UNCHANGED <<packFile, siblingFile, cached, republished>>

Restart ==
  /\ cached' = None
  /\ calls' = [call \in Calls |-> Idle]
  /\ answer' = None
  /\ scoredBy' = {}
  /\ republished' = FALSE
  /\ UNCHANGED <<packFile, siblingFile>>

PackNext ==
  \/ \E f \in PackFiles : Publish(f)
  \/ \E s \in SiblingFiles : PublishSibling(s)
  \/ \E call \in Calls :
       \/ Look(call)
       \/ ReadPackFile(call)
       \/ \E c \in Contacts : RefusePackFile(call, c)
       \/ FillCache(call)
       \/ \E c \in Contacts, said \in SUBSET Wordings : ScoreContact(call, c, said)
  \/ Restart

PackSpec == PackInit /\ [][PackNext]_packVars

-----------------------------------------------------------------------------
Loaded == {Load(f) : f \in {g \in PackFiles : ValidFile(g)}}

PackTypeOK ==
  /\ packFile \in PackFiles
  /\ siblingFile \in SiblingFiles \cup {None}
  /\ cached \in Loaded \cup {None}
  /\ calls \in [Calls -> [stage : {"idle", "missed"}, packs : {None}]
                           \cup [stage : {"read", "loaded"}, packs : Loaded]]
  /\ answer # None =>
       /\ answer.contact \in Contacts
       /\ answer.said \subseteq Wordings
       /\ answer.pack # None => answer.met \subseteq DOMAIN answer.pack.requirements
  /\ scoredBy \subseteq Nat
  /\ republished \in BOOLEAN

Scored == answer # None /\ answer.pack # None

(* A contact is scored by a pack of its own market, and of its product if  *)
(* it names one, whatever was published and cached before.                 *)
NoBorrowedPack ==
  Scored =>
    /\ answer.pack.market = answer.contact.market
    /\ answer.contact.product \in {"", answer.pack.product}

(* A sibling file only ever adds: every obligation of the pack it is merged*)
(* into is in the pack that scores, word for word, and so is every         *)
(* disclosure the sibling file holds at that moment.                       *)
SupplementNeverReplaces ==
  Scored =>
    LET scored == answer.pack.requirements
        ours   == answer.packs[answer.pack.pack_id].requirements
    IN  /\ \A id \in DOMAIN ours : id \in DOMAIN scored /\ scored[id] = ours[id]
        /\ UsesSibling =>
             \A i \in DOMAIN siblingFile.disclosures :
               \E id \in DOMAIN scored :
                 scored[id].steps = <<Step(siblingFile.disclosures[i].entry,
                                           siblingFile.disclosures[i].wordings)>>

(* One process scores by one version of the pack file, whatever is         *)
(* published while it runs and however its calls interleave, unless it was *)
(* published while a call was loading: two calls that both found the cache *)
(* empty may then score by what each of them read.                         *)
OneVersionUnlessRepublished ==
  (\E v, w \in scoredBy : v # w) => republished

(* An assessment that refuses although the pack file is valid does so for  *)
(* a reason of this moment: its packs, those of a valid file, have none for*)
(* the contact, or the sibling file cannot be merged into the one they     *)
(* have.  What was refused once is never refused for good.                 *)
RefusesForNow ==
  (answer # None /\ answer.pack = None /\ ValidFile(packFile)) =>
    /\ \E f \in PackFiles : ValidFile(f) /\ answer.packs = Load(f)
    /\ \/ Candidates(answer.packs, answer.contact) = {}
       \/ /\ UsesSibling
          /\ \E p \in Candidates(answer.packs, answer.contact) :
               ~Mergeable(answer.packs[p], siblingFile)

(* An obligation is judged by other wordings than its own only where an    *)
(* obligation earlier in the order of ids words one of its steps           *)
(* differently; every other step of every pack is judged as it is written. *)
OnlySharedStepsAreMisjudged ==
  Scored =>
    \A id \in DOMAIN answer.pack.requirements :
      (id \in answer.met) # MetByItsOwnWording(answer.pack, id, answer.said)
        => \E earlier \in DOMAIN answer.pack.requirements :
             /\ earlier < id
             /\ \E i \in DOMAIN answer.pack.requirements[id].steps,
                  j \in DOMAIN answer.pack.requirements[earlier].steps :
                  LET mine   == answer.pack.requirements[id].steps[i]
                      theirs == answer.pack.requirements[earlier].steps[j]
                  IN  mine.entry = theirs.entry /\ mine.wordings # theirs.wordings

(* "This scorecard grades against exactly that wording set" (README.md):   *)
(* an obligation is met if, and only if, a wording it lists was said for   *)
(* each of its steps.                                                      *)
MetByOwnWordings ==
  Scored =>
    \A id \in DOMAIN answer.pack.requirements :
      (id \in answer.met) = MetByItsOwnWording(answer.pack, id, answer.said)

=============================================================================
