------------------------------ MODULE ReviewDesk ------------------------------
(***************************************************************************)
(* What a hand-off promises: a caller that was told "routed", and given a  *)
(* reference, has its card where a reviewer will find it, waiting or in    *)
(* the console.  Cards that wait are lost with the process, and only so;   *)
(* what the console has taken stays.                                       *)
(***************************************************************************)
CONSTANTS Callers, Cards

VARIABLES
  waiting,   \* cards kept for a console that has not been asked yet
  taken,     \* cards the console has a review of
  promises   \* who was told that its card is on the desk: <<caller, card>>

vars == <<waiting, taken, promises>>

Init == waiting = {} /\ taken = {} /\ promises = {}

Keep(card) ==
  /\ waiting' = waiting \cup {card}
  /\ UNCHANGED <<taken, promises>>

(* Straight to the console, or out of the queue.                           *)
Take(card) ==
  /\ taken' = taken \cup {card}
  /\ waiting' \in {waiting, waiting \ {card}}
  /\ UNCHANGED promises

(* A second copy of what the console already has leaves the queue.         *)
Settle(card) ==
  /\ card \in taken
  /\ waiting' = waiting \ {card}
  /\ UNCHANGED <<taken, promises>>

Promise(caller, card) ==
  /\ card \in taken \cup waiting
  /\ promises' = promises \cup {<<caller, card>>}
  /\ UNCHANGED <<waiting, taken>>

(* The console takes the card and the caller is told so at once.           *)
TakeAndPromise(caller, card) ==
  /\ taken' = taken \cup {card}
  /\ promises' = promises \cup {<<caller, card>>}
  /\ UNCHANGED waiting

Stop ==
  /\ waiting' = {}
  /\ UNCHANGED <<taken, promises>>

Next ==
  \/ Stop
  \/ \E card \in Cards :
       \/ Keep(card)
       \/ Take(card)
       \/ Settle(card)
       \/ \E caller \in Callers : Promise(caller, card) \/ TakeAndPromise(caller, card)

Spec == Init /\ [][Next]_vars
===============================================================================
