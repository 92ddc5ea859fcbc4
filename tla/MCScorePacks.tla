------------------------------ MODULE MCScorePacks ------------------------------
(***************************************************************************)
(* ScorePacks for TLC: the shape of the shipped files.  Ids 1 to 4 are the *)
(* reference pack's, 5 and 6 the shared disclosure pack's; both word the   *)
(* step "recording", as the shipped files do.                              *)
(***************************************************************************)
EXTENDS ScorePacks, TLC

Alike == Permutations(Calls)

(* The native pack accepts both recording wordings, the shared one the     *)
(* second.                                                                 *)
MCWordings == {"may be recorded", "being recorded", "at risk", "data use"}

Obligation(id, steps) == [id |-> id, steps |-> steps, role |-> "agent"]

Reference ==
  [market |-> "SG", product |-> "advice",
   phrases |-> [recording |-> {"may be recorded", "being recorded"}, risk |-> {"at risk"}],
   requirements |-> <<Obligation(1, <<"recording">>), Obligation(2, <<"recording", "risk">>)>>]

Foreign ==
  [Reference EXCEPT !.market = "JP", !.product = "solicitation",
     !.requirements = <<Obligation(3, <<"risk">>), Obligation(4, <<"recording">>)>>]

File(version, packs) == [version |-> version, sound |-> TRUE, packs |-> packs]

Tightened == [Reference EXCEPT !.phrases["recording"] = {"may be recorded"}]

MCPackFiles ==
  {File(1, <<Reference, Foreign>>),
   File(2, <<Tightened, Foreign>>),
   File(3, <<Foreign>>),
   File(0, <<Reference>>),
   [File(4, <<Reference>>) EXCEPT !.sound = FALSE],
   File(4, <<[Reference EXCEPT !.requirements[1].role = "unknown"]>>),
   File(4, <<Foreign, [Reference EXCEPT !.requirements[2].steps = <<"fees">>]>>),
   File(4, <<[Reference EXCEPT !.requirements[2].id = 1]>>)}

Disclosure(id, entry, wordings) ==
  [id |-> id, entry |-> entry, wordings |-> wordings, role |-> "agent"]

Recording == Disclosure(5, "recording", {"being recorded"})
DataUse   == Disclosure(6, "data_use", {"data use"})

Sibling(disclosures) == [sound |-> TRUE, kind |-> "disclosure", disclosures |-> disclosures]

MCSiblingFiles ==
  {Sibling(<<DataUse>>),
   Sibling(<<Recording, DataUse>>),
   Sibling(<<Disclosure(1, "recording", {"being recorded"})>>),
   Sibling(<<DataUse, DataUse>>),
   Sibling(<<[DataUse EXCEPT !.wordings = {}]>>),
   [Sibling(<<DataUse>>) EXCEPT !.kind = "procedure"]}

Contact(market, product) == [market |-> market, product |-> product]

MCContacts == {Contact("SG", "advice"), Contact("SG", "loans"), Contact("JP", "")}

(* The shipped recording notices: the shared one lists what the reference  *)
(* pack lists, and a wording more.                                         *)
ShippedWordings == {"may be recorded", "being recorded", "we record all", "at risk"}

ShippedPackFiles == {File(1, <<Reference>>)}

ShippedSiblingFiles ==
  {Sibling(<<[Recording EXCEPT !.wordings = {"may be recorded", "being recorded", "we record all"}]>>)}
===============================================================================
