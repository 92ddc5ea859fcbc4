--------------------------- MODULE MCScoringEngine ----------------------------
(* Two obligations, two cues and six packs: everything configured, one     *)
(* kind only, nothing configured, two revisions that differ in a cue's     *)
(* severity or a requirement's kind alone, and the first one before its    *)
(* sibling's disclosure is merged in.                                      *)
EXTENDS ScoringEngine

MCIds == 1..2
MCCues == {"hardship", "praise"}

Duty(kind, severity) == [kind |-> kind, severity |-> severity]
Fee == Duty("disclosure", "high")
Greeting == Duty("script_segment", "medium")
Hardship(severity) ==
  [cue \in MCCues |-> IF cue = "hardship" THEN [kind |-> "vulnerability", severity |-> severity]
                      ELSE [kind |-> "sentiment", severity |-> "high"]]
Publish(version, requirements, severity) ==
  [version |-> version, requirements |-> requirements, cues |-> Hardship(severity)]

MCPacks ==
  {Publish(1, <<Greeting, Fee>>, "high"),
   Publish(2, <<Greeting, Fee>>, "medium"),
   Publish(3, <<Duty("disclosure", "medium"), Fee>>, "medium"),
   Publish(4, <<Duty("disclosure", "critical"), Duty("disclosure", "low")>>, "critical"),
   Publish(1, <<Greeting>>, "high"),
   Publish(6, <<>>, "low")}
===============================================================================
