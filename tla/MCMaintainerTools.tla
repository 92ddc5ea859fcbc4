-------------------------- MODULE MCMaintainerTools ---------------------------
(***************************************************************************)
(* MaintainerTools for TLC.  The tree: four files, the script among them,  *)
(* Markdown before it; a name that shares nothing with the original, one   *)
(* that begins with it and one that holds it further on.  The datasets:    *)
(* every pair of contacts, each with two obligations of which the first is *)
(* read in any way at all, or with any mixture of cues, review and leaks,  *)
(* and one contact with twenty obligations or nineteen, one of them        *)
(* misread; each with one sound pack.  The packs: each way of being        *)
(* unsound, with one contact read rightly.                                 *)
(***************************************************************************)
EXTENDS MaintainerTools

MCOriginal == <<"qa">>
MCTargets  == {<<"acme">>, <<"acme", "qa">>, <<"qa", "acme">>}

Right(kind) ==
  [kind |-> kind, expected |-> "present", status |-> "present",
   quote |-> "in_turn", evidence |-> {"span", "wording"}]

AnyLabel ==
  [kind : {"disclosure", "script_segment", "unconfigured", "absent"}, expected : {"present"},
   status : {"present", "missing"}, quote : {"none", "in_turn", "not_in_turn"},
   evidence : {{}, {"span"}, {"wording"}, {"span", "wording"}}]

Fine(labels) ==
  [labels |-> labels, cues |-> {}, found |-> {}, review |-> TRUE,
   flagged |-> TRUE, referenced |-> TRUE, leaks |-> {}]

OddLabels == {Fine(<<label, Right(kind)>>) :
                label \in AnyLabel, kind \in {"disclosure", "script_segment"}}

OddContacts ==
  {[row EXCEPT !.cues = cues, !.found = found] :
     row \in {Fine(<<Right("script_segment"), Right("disclosure")>>)},
     cues \in SUBSET {"hardship", "illness"}, found \in SUBSET {"hardship", "illness"}}
  \cup [labels : {<<Right("script_segment")>>}, cues : {{}}, found : {{}}, review : BOOLEAN,
        flagged : BOOLEAN, referenced : BOOLEAN, leaks : {{}, {"pattern"}, {"planted"}}]

Long(n) ==
  Fine(<<Right("script_segment")>> \o
       [i \in 1..n |-> [Right("disclosure") EXCEPT !.status = IF i = n THEN "missing" ELSE @]])

MCDatasets ==
  {<<>>, <<Long(20)>>, <<Long(19)>>}
  \cup {<<row, other>> : row \in OddLabels, other \in OddContacts \cup {Fine(<<>>)}}
  \cup {<<row>> : row \in OddLabels}

Wording(required, blank) == [required |-> required, blank |-> blank]

Obligation ==
  [id |-> "recording", role |-> TRUE, cited |-> TRUE, window |-> "none",
   steps |-> <<<<Wording(TRUE, FALSE), Wording(FALSE, FALSE)>>>>]

Pack(requirements) ==
  [requirements |-> requirements, versioned |-> TRUE,
   cues |-> <<[phrases |-> TRUE, polarity |-> -1]>>]

Other(steps) == [Obligation EXCEPT !.id = "advice", !.steps = steps]

Sound == Pack(<<Obligation, Other(<<<<Wording(TRUE, FALSE)>>>>)>>)

(* Packs that are each wrong in one way, beside a sound one.               *)
MCPackLists ==
  {<<>>} \cup {<<Pack(<<Obligation>>), pack>> : pack \in
         {Pack(<<>>), Pack(<<Obligation, Obligation>>), Pack(<<Other(<<>>)>>),
          Pack(<<Other(<<<<>>>>)>>), Pack(<<Other(<<<<Wording(FALSE, FALSE)>>>>)>>),
          Pack(<<Other(<<<<Wording(TRUE, FALSE), Wording(FALSE, TRUE)>>>>)>>),
          Pack(<<[Obligation EXCEPT !.role = FALSE]>>),
          Pack(<<[Obligation EXCEPT !.cited = FALSE]>>),
          Pack(<<[Obligation EXCEPT !.window = "never"]>>),
          [Pack(<<Obligation>>) EXCEPT !.cues = <<>>],
          [Pack(<<Obligation>>) EXCEPT !.versioned = FALSE],
          [Pack(<<Obligation>>) EXCEPT !.cues[1].phrases = FALSE],
          [Pack(<<Obligation>>) EXCEPT !.cues[1].polarity = 2]}}

MCSamples ==
  [packs : {<<Sound>>}, dataset : MCDatasets]
  \cup [packs : MCPackLists, dataset : {<<Fine(<<Right("disclosure"), Right("script_segment")>>)>>}]
===============================================================================
