--------------------------- MODULE MaintainerTools ----------------------------
(***************************************************************************)
(* The tools a maintainer runs beside the service, any number of times and *)
(* with any arguments: the scripts that rewrite the working tree, stopped  *)
(* at any moment, and the evaluation gate.  They touch different things,   *)
(* so a behaviour follows one of them.                                     *)
(***************************************************************************)
EXTENDS RenameFork, LockExport, DropUi, EvalGate

VARIABLE tool  \* the one this behaviour follows

vars == <<tool, renameVars, lockVars, dropVars, evalVars>>

Tools == {"rename_fork", "lock", "drop_ui", "run_eval"}

TypeOK ==
  /\ tool \in Tools
  /\ RenameTypeOK
  /\ LockTypeOK
  /\ DropTypeOK
  /\ EvalTypeOK

(* What a behaviour does not follow is as the repository ships it.         *)
Init ==
  /\ RenameInit
  /\ LockInit
  /\ DropInit
  /\ EvalInit
  /\ tool \in Tools
  /\ tool # "lock" => \A t \in 1..Exports : exports[t].present
  /\ tool # "drop_ui" => ui /\ watcher = "entry"

Renaming ==
  /\ tool = "rename_fork" /\ RenameNext
  /\ UNCHANGED <<tool, lockVars, dropVars, evalVars>>

Locking ==
  /\ tool = "lock" /\ LockNext
  /\ UNCHANGED <<tool, renameVars, dropVars, evalVars>>

DroppingUi ==
  /\ tool = "drop_ui" /\ DropNext
  /\ UNCHANGED <<tool, renameVars, lockVars, evalVars>>

Evaluating ==
  /\ tool = "run_eval" /\ EvalNext
  /\ UNCHANGED <<tool, renameVars, lockVars, dropVars>>

Next ==
  \/ Renaming
  \/ Locking
  \/ DroppingUi
  \/ Evaluating

Spec == Init /\ [][Next]_vars
===============================================================================
