--------------------------- MODULE ScorecardLedger ----------------------------
(***************************************************************************)
(* What the scoring service promises to those who see only its records:    *)
(* the auditor (trail), the reviewer (inbox), the reader (shelf), the      *)
(* analyst (exported) and the caller (answers).  There are no calls, no    *)
(* order of ports and no failures here, only what must be true of a card   *)
(* before each of the five may learn of it:                                *)
(*                                                                         *)
(*   - a failing verdict is put on record only once its hand-off to a      *)
(*     human was attempted;                                                *)
(*   - nothing is readable before its verdict is on record, and a review   *)
(*     reference is readable only if the review is there;                  *)
(*   - nothing is exported or answered before it is readable.              *)
(***************************************************************************)
CONSTANTS Calls, Cards, Failing, WarehouseBound, Durable

VARIABLES
  attempted,  \* cards whose hand-off was concluded, one way or another
  inbox,      \* cards with an open review
  trail,      \* cards whose verdict is in the audit trail
  shelf,      \* what a reader finds under each card's id
  exported,   \* cards with a warehouse row
  answers     \* the responses callers hold, <<call, card>>

vars == <<attempted, inbox, trail, shelf, exported, answers>>

Readable(card) == shelf[card] # "absent"

Init ==
  /\ attempted = {}
  /\ inbox = {}
  /\ trail = {}
  /\ shelf = [card \in Cards |-> "absent"]
  /\ exported = {}
  /\ answers = {}

(* A failing card is handed off; the review may or may not come to exist.  *)
HandOff(card) ==
  /\ card \in Failing
  /\ attempted' = attempted \cup {card}
  /\ inbox' \in {inbox, inbox \cup {card}}
  /\ UNCHANGED <<trail, shelf, exported, answers>>

LogVerdict(card) ==
  /\ card \in Failing => card \in attempted
  /\ trail' = trail \cup {card}
  /\ UNCHANGED <<attempted, inbox, shelf, exported, answers>>

Shelve(card, document) ==
  /\ card \in trail
  /\ document = "with_ref" => card \in inbox
  /\ shelf' = [shelf EXCEPT ![card] = document]
  /\ UNCHANGED <<attempted, inbox, trail, exported, answers>>

ExportRow(card) ==
  /\ Readable(card)
  /\ exported' = exported \cup {card}
  /\ UNCHANGED <<attempted, inbox, trail, shelf, answers>>

Answer(call, card) ==
  /\ Readable(card)
  /\ WarehouseBound => card \in exported
  /\ answers' = answers \cup {<<call, card>>}
  /\ UNCHANGED <<attempted, inbox, trail, shelf, exported>>

(* The process stops and takes with it the records it kept in memory.      *)
Forget ==
  /\ inbox' = IF "console" \in Durable THEN inbox ELSE {}
  /\ trail' = IF "audit" \in Durable THEN trail ELSE {}
  /\ shelf' = IF "store" \in Durable THEN shelf ELSE [card \in Cards |-> "absent"]
  /\ exported' = IF "warehouse" \in Durable THEN exported ELSE {}
  /\ UNCHANGED <<attempted, answers>>

Next ==
  \/ Forget
  \/ \E card \in Cards :
       \/ HandOff(card)
       \/ LogVerdict(card)
       \/ \E document \in {"with_ref", "without_ref"} : Shelve(card, document)
       \/ ExportRow(card)
       \/ \E call \in Calls : Answer(call, card)

Spec == Init /\ [][Next]_vars
===============================================================================
