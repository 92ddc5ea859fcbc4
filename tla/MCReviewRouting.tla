---------------------------- MODULE MCReviewRouting ----------------------------
(***************************************************************************)
(* ReviewRouting for TLC: a critical card handed off twice, a card that    *)
(* fails without being critical, and a passing one.  The critical card     *)
(* cites more sources than the cap admits, one of them twice.              *)
(***************************************************************************)
EXTENDS ReviewRouting

MCCards == {"critical", "review", "pass"}
MCHandoffs == 1..4
MCCardOf == <<"critical", "critical", "review", "pass">>
MCGiven == <<"sg", "sg", "none", "sg">>
MCFailing == {"critical", "review"}
MCCritical == {"critical"}
MCTenantOf == [card \in MCCards |-> "sg"]
MCCited == [card \in MCCards |->
              IF card = "critical" THEN <<"act", "act", "code", "guide">> ELSE <<"act">>]
===============================================================================
