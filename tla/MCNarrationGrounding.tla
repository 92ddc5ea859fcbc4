------------------------- MODULE MCNarrationGrounding -------------------------
(***************************************************************************)
(* NarrationGrounding for TLC: scorecards of up to two findings and two     *)
(* cues, some of eight and of forty findings whose ratios lie half way      *)
(* between two hundredths, and every text over a handful of figures, some   *)
(* of them right on some scorecards only.                                   *)
(***************************************************************************)
EXTENDS NarrationGrounding, Sequences

Finding == [satisfied : BOOLEAN, elapsed : {None, 45000}, turns : {{}, {7}}]

(* A matched finding has its turn; an unmatched one has neither.            *)
Findings == {f \in Finding : (f.turns = {} => f.elapsed = None) /\ (f.satisfied => f.turns # {})}

Ids == {"sg_1", "fees"}

Distress == "cue_2"
Anger    == "cue_anger"

(* Forty more ids, none with a digit.                                       *)
Letters == <<"a", "b", "c", "d", "e", "f", "g", "h">>
Many == [i \in 1..40 |-> Letters[((i - 1) % 8) + 1] \o Letters[((i - 1) \div 8) + 1]]

MCFiguresOf ==
  [name \in Ids \cup {Many[i] : i \in 1..40} \cup {Distress, Anger, "Over 75", "Angry", "C-9", "sg", "2026"} |->
     CASE name = "sg_1"    -> {Whole(1)}
       [] name = "cue_2"   -> {Whole(2)}
       [] name = "Over 75" -> {Whole(75)}
       [] name = "C-9"     -> {Whole(9)}
       [] name = "2026"    -> {Whole(2026)}
       [] OTHER            -> {}]

MCLabelOf == [cue \in {Distress, Anger} |-> IF cue = Distress THEN "Over 75" ELSE "Angry"]

MCVulnerable == {Distress}

Instruments == {"MAS", "HKMA"}

Ratio(satisfied, all) == IF all = 0 THEN 0 ELSE (10000 * satisfied + all \div 2) \div all

Scored(findings, detected, sentiment) ==
  LET satisfied == Cardinality({id \in DOMAIN findings : findings[id].satisfied})
  IN  [contact_id |-> "C-9", pack |-> "sg", stamp |-> "2026",
       findings |-> findings, cues |-> {Distress, Anger}, detected |-> detected,
       disclosure |-> Ratio(satisfied, 3), adherence |-> Ratio(satisfied, Cardinality(DOMAIN findings)),
       sentiment |-> sentiment, turn_count |-> 12, redaction_count |-> 4, citations |-> {"MAS"}]

(* So many findings, the first of them satisfied.                           *)
Tied(satisfied, all) ==
  LET ratio    == Ratio(satisfied, all)
      findings == [id \in {Many[i] : i \in 1..all} |->
                     IF \E i \in 1..satisfied : id = Many[i]
                       THEN [satisfied |-> TRUE, elapsed |-> None, turns |-> {7}]
                       ELSE [satisfied |-> FALSE, elapsed |-> None, turns |-> {}]]
  IN  [Scored(findings, {}, 0) EXCEPT !.disclosure = ratio, !.adherence = ratio]

(* 0.125 and 0.625 are held exactly, 0.575 below itself and 0.275 above.    *)
MCScorecards ==
  {Scored(findings, detected, sentiment) :
     findings \in UNION {[ids -> Findings] : ids \in SUBSET Ids},
     detected \in SUBSET {Distress, Anger}, sentiment \in {-3, 0}}
    \cup {Tied(1, 8), Tied(5, 8), Tied(23, 40), Tied(11, 40)}

MCDraftTexts ==
  SUBSET {Whole(33), Figure(0, 2, 33), Figure(0, 1, 5), Whole(97), Whole(3), Whole(2),
          Whole(63), Figure(0, 2, 28)}

(* Of the hundred ratios half way between two hundredths, on which side of  *)
(* it the nearest double lies, and on which a hundred times that double.    *)
MCHeldAbove ==
  {50, 250, 350, 550, 650, 850, 950, 1150, 1350, 1650, 1950, 2250, 2550,
   2650, 2750, 3150, 3250, 3350, 3850, 3950, 4050, 4450, 4550, 4650, 5050,
   5150, 5250, 5350, 5450, 5550, 6350, 6450, 6550, 6650, 6750, 6850, 7550,
   7650, 7750, 7850, 7950, 8050, 8850, 8950, 9050, 9150, 9250, 9350}

MCHeldBelow ==
  {150, 450, 750, 1050, 1450, 1550, 1750, 1850, 2050, 2150, 2350, 2450,
   2850, 2950, 3050, 3450, 3550, 3650, 4150, 4250, 4350, 4750, 4850, 4950,
   5650, 5750, 5850, 5950, 6050, 6150, 6950, 7050, 7150, 7250, 7350, 7450,
   8150, 8250, 8350, 8450, 8550, 8650, 9450, 9550, 9650, 9750, 9850, 9950}

MCTimesAbove == {350, 2750, 5450, 5550}

MCTimesBelow == {1450, 2850, 5650, 5750}
===============================================================================
