-------------------------- MODULE NarrationGrounding --------------------------
(***************************************************************************)
(* The gate between a narrator and a reader (domain/narration.py).  A      *)
(* scorecard publishes a closed set of figures; a draft that mentions any  *)
(* other, or cites what the findings did not, is replaced by a text that   *)
(* is composed from the scorecard alone.                                   *)
(*                                                                         *)
(* A text is the set of figures it mentions.  A figure is a run of digits  *)
(* as it is written, with the digits after its point if it has any: 0.5    *)
(* and 0.50 are two figures, and a minus sign is part of none.  An id or a *)
(* label is a name with figures in it; a verdict has none.                 *)
(***************************************************************************)
EXTENDS Integers, FiniteSets

CONSTANTS
  Scorecards,   \* the scorecards to be narrated
  DraftTexts,   \* the sets of figures a model may write
  Citations,    \* the instruments there are
  FiguresOf,    \* the figures in each name
  LabelOf,      \* the label of each cue
  Vulnerable,   \* the cues of kind vulnerability
  HeldAbove,    \* the ratios half way between two hundredths whose double is
  HeldBelow,    \*   more than the ratio, and less
  TimesAbove,   \* those of which a hundred times the double is more than the
  TimesBelow,   \*   half, and less
  None          \* nothing drafted or narrated yet

(* The engine detects cues of the pack alone, and the pack's are published;*)
(* no ratio is negative.                                                   *)
ASSUME ScorecardAssumption ==
  \A s \in Scorecards :
    s.detected \subseteq s.cues /\ s.disclosure \in Nat /\ s.adherence \in Nat

Figure(whole, places, digits) == [whole |-> whole, places |-> places, digits |-> digits]

Whole(n) == Figure(n, 0, 0)

VARIABLES
  card,       \* the decided scorecard
  drafted,    \* has the narrator been asked?
  draft,      \* what it answered, None if it declined
  shown       \* what the reader gets

groundingVars == <<card, drafted, draft, shown>>

-----------------------------------------------------------------------------
(* A ratio is held in ten-thousandths, as _ratio rounds it: as the engine   *)
(* holds it, with two places, and as a percentage.                          *)

AsHeld(ratio) ==
  LET places == CASE ratio % 1000 = 0 -> 1
                  [] ratio % 1000 # 0 /\ ratio % 100 = 0 -> 2
                  [] ratio % 100 # 0 /\ ratio % 10 = 0 -> 3
                  [] OTHER -> 4
  IN  Figure(ratio \div 10000, places, (ratio % 10000) \div 10^(4 - places))

(* The format rounds what the double holds: to the nearest hundredth, and  *)
(* to the even one where the double is exactly half way.                   *)
Hundredths(ratio, above, below) ==
  ratio \div 100 +
    IF \/ ratio % 100 > 50
       \/ ratio % 100 = 50 /\ ratio \in above
       \/ ratio % 100 = 50 /\ ratio \notin below /\ (ratio \div 100) % 2 = 1
    THEN 1 ELSE 0

TwoPlacesOf(hundredths) == Figure(hundredths \div 100, 2, hundredths % 100)

TwoPlaces(ratio) == TwoPlacesOf(Hundredths(ratio, HeldAbove, HeldBelow))

Percent(ratio) == Whole(Hundredths(ratio, TimesAbove, TimesBelow))

Ratios(s) == {s.disclosure, s.adherence}

Names(names) == UNION {FiguresOf[name] : name \in names}

Failing(s) == {id \in DOMAIN s.findings : ~s.findings[id].satisfied}

Distressed(s) == s.detected \cap Vulnerable

(* The sentiment as it is mentioned: its sign is no part of a figure.      *)
Magnitude(n) == IF n < 0 THEN -n ELSE n

Counts(s) ==
  {Cardinality(DOMAIN s.findings), Cardinality(Failing(s)), Cardinality(Distressed(s)),
   s.turn_count, s.redaction_count}

Measured(s) ==
  UNION {s.findings[id].turns : id \in DOMAIN s.findings}
    \cup {s.findings[id].elapsed : id \in {f \in DOMAIN s.findings : s.findings[f].elapsed # None}}

(* Slip: the cue ids are left out.                                         *)
allowed_figures_without_cues(s) ==
  {AsHeld(r) : r \in Ratios(s)} \cup {TwoPlaces(r) : r \in Ratios(s)}
    \cup {Percent(r) : r \in Ratios(s)}
    \cup {Whole(n) : n \in Counts(s) \cup Measured(s) \cup {Magnitude(s.sentiment)}}
    \cup Names(DOMAIN s.findings \cup {s.contact_id, s.pack, s.stamp})

(* stamp: the pack's version, the assessment time and the engine's version. *)
allowed_figures(s) ==
  {AsHeld(r) : r \in Ratios(s)} \cup {TwoPlaces(r) : r \in Ratios(s)}
    \cup {Percent(r) : r \in Ratios(s)}
    \cup {Whole(n) : n \in Counts(s) \cup Measured(s) \cup {Magnitude(s.sentiment)}}
    \cup Names(DOMAIN s.findings \cup s.cues \cup {s.contact_id, s.pack, s.stamp})

Narration(figures, citations, model) ==
  [figures |-> figures, citations |-> citations, model |-> model]

deterministic_narration(s) ==
  Narration({Whole(Cardinality(DOMAIN s.findings)), Whole(Cardinality(Failing(s)))}
              \cup {TwoPlaces(r) : r \in Ratios(s)}
              \cup Names(Failing(s) \cup {LabelOf[cue] : cue \in Distressed(s)} \cup {s.contact_id}),
            s.citations, "deterministic")

(* LocalNarrator.narrate.                                                  *)
OfflineDraft(s) ==
  Narration({TwoPlaces(r) : r \in Ratios(s)}
              \cup Names(Failing(s) \cup s.detected \cup {s.contact_id}),
            {}, "offline")

(* validate_narration, where it does not raise.                            *)
validate_narration(d, s) == d.figures \subseteq allowed_figures(s) /\ d.citations \subseteq s.citations

(* Slip: a draft that cites nothing is taken as it is.                     *)
grounded_or_fallback_if_cited(d, s) ==
  IF d # None /\ (d.citations = {} \/ validate_narration(d, s)) THEN d ELSE deterministic_narration(s)

grounded_or_fallback(d, s) ==
  IF d # None /\ validate_narration(d, s) THEN d ELSE deterministic_narration(s)

-----------------------------------------------------------------------------
GroundingInit ==
  /\ card \in Scorecards
  /\ drafted = FALSE
  /\ draft = None
  /\ shown = None

(* The offline narrator, and a managed one that writes anything or declines. *)
DraftOffline ==
  /\ ~drafted
  /\ drafted' = TRUE
  /\ draft' = OfflineDraft(card)
  /\ UNCHANGED <<card, shown>>

DraftByModel ==
  /\ ~drafted
  /\ drafted' = TRUE
  /\ \E figures \in DraftTexts, citations \in SUBSET Citations :
       draft' = Narration(figures, citations, "model")
  /\ UNCHANGED <<card, shown>>

Decline ==
  /\ ~drafted
  /\ drafted' = TRUE
  /\ UNCHANGED <<card, draft, shown>>

Settle ==
  /\ drafted
  /\ shown = None
  /\ shown' = grounded_or_fallback(draft, card)
  /\ UNCHANGED <<card, drafted, draft>>

GroundingNext ==
  \/ DraftOffline
  \/ DraftByModel
  \/ Decline
  \/ Settle

GroundingSpec == GroundingInit /\ [][GroundingNext]_groundingVars

-----------------------------------------------------------------------------
(* What a reader finds on the scorecard itself: its figures as it prints    *)
(* them, its ids, and what can be counted on it.                            *)
Published(s) ==
  {TwoPlaces(r) : r \in Ratios(s)} \cup {Percent(r) : r \in Ratios(s)}
    \cup {AsHeld(r) : r \in Ratios(s)}
    \cup {Whole(n) : n \in Counts(s) \cup Measured(s) \cup {Magnitude(s.sentiment)}}
    \cup Names(DOMAIN s.findings \cup s.cues \cup {s.contact_id, s.pack, s.stamp})

LabelFigures(s) == Names({LabelOf[cue] : cue \in Distressed(s)})

(* Whatever a model writes, a reader is shown no figure that is not on the  *)
(* scorecard and no instrument its findings do not cite; the one exception  *)
(* is a figure in the label of a detected vulnerability cue.                *)
ReadersSeePublishedFigures ==
  shown # None =>
    /\ shown.figures \subseteq Published(card) \cup LabelFigures(card)
    /\ shown.citations \subseteq card.citations

(* The hundredths of a ratio as a person rounds them, a half up.           *)
ByHand(ratio) == (ratio + 50) \div 100

(* What a person would write of a scorecard: a ratio as a percentage or     *)
(* with two places, a count of what is open, a sentiment below zero, an id. *)
Restates(d, s) ==
  /\ d.citations \subseteq s.citations
  /\ d.figures \subseteq
       {Whole(ByHand(r)) : r \in Ratios(s)} \cup {TwoPlacesOf(ByHand(r)) : r \in Ratios(s)}
         \cup {Whole(n) : n \in {Cardinality(Failing(s)), Magnitude(s.sentiment)}}
         \cup Names(Failing(s) \cup s.detected)

Halfway(ratio) == ratio % 100 = 50

(* The gate turns down no true draft: neither the offline narrator's,       *)
(* whatever the ids and the measured figures are, nor a restatement in a    *)
(* form the engine itself never prints, as long as no ratio lies half way   *)
(* between two hundredths, where a person's rounding is not the format's.   *)
TrueDraftsAreTaken ==
  ( /\ shown # None /\ draft # None
    /\ \/ draft.model = "offline"
       \/ Restates(draft, card) /\ \A r \in Ratios(card) : ~Halfway(r) )
  => shown = draft

===============================================================================
