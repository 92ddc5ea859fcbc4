--------------------------- MODULE MCServingPosture ---------------------------
(***************************************************************************)
(* ServingPosture for TLC: environments that vary the profile with one     *)
(* other reading at a time, and a handful of files: the shipped bindings,  *)
(* the ways a file fails to load, and bindings that disagree with the      *)
(* profile.                                                                *)
(***************************************************************************)
EXTENDS ServingPosture

Reference(profile) ==
  [profile |-> profile, routing |-> "unset", guardrail |-> "unset",
   audience |-> "set", sdk |-> TRUE, token |-> TRUE, insecure |-> FALSE]

MCEnvironments ==
  {Reference(p) : p \in KnownProfiles \cup {"unset", "emptied", "unknown"}}
    \cup {[Reference(p) EXCEPT !.token = FALSE, !.insecure = i] :
            p \in {"local", "unset"}, i \in BOOLEAN}
    \cup {[Reference("gcp") EXCEPT !.routing = r] : r \in SwitchReadings}
    \cup {[Reference("gcp") EXCEPT !.guardrail = g] : g \in SwitchReadings}
    \cup {[Reference("gcp") EXCEPT !.sdk = FALSE]}
    \cup {[Reference("gcp") EXCEPT !.audience = a] : a \in {"unset", "emptied"}}

Shipped(identity) ==
  [parses |-> TRUE, identity |-> identity, console |-> TRUE, screen |-> "armor"]

MCFiles ==
  {Shipped(i) : i \in IdentityAdapters}
    \cup {[Shipped("iap") EXCEPT !.parses = FALSE],
          [Shipped("iap") EXCEPT !.console = FALSE],
          [Shipped("iap") EXCEPT !.screen = "armor_unnamed"],
          [Shipped("placeholder") EXCEPT !.screen = "other"]}

=============================================================================
