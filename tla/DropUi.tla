-------------------------------- MODULE DropUi --------------------------------
(***************************************************************************)
(* scripts/drop_ui.py: the ui/ directory goes first and the dependabot     *)
(* entry that watches it after, so a run that stops in between leaves an   *)
(* entry without a directory and never a directory nobody watches.         *)
(***************************************************************************)

VARIABLES
  ui,       \* is the ui/ directory there?
  watcher,  \* what dependabot.yml has about it
  drop      \* the run under way or the last one, and whether it is a dry run

dropVars == <<ui, watcher, drop>>

(* "entry" is an npm block the script knows how to strip, "foreign" a      *)
(* mention of /ui it finds and cannot, "no_file" a file it cannot read.    *)
DropTypeOK ==
  /\ ui \in BOOLEAN
  /\ watcher \in {"none", "entry", "foreign", "no_file"}
  /\ drop \in [dry : BOOLEAN,
               state : {"none", "directory", "entry", "ok", "refused", "raised", "interrupted"}]

DropInit ==
  /\ ui \in BOOLEAN
  /\ watcher \in IF ui THEN {"entry", "foreign", "no_file"} ELSE {"none", "entry"}
  /\ drop = [dry |-> FALSE, state |-> "none"]

Dropping == drop.state \in {"directory", "entry"}

StartDrop ==
  /\ ~Dropping
  /\ \E dry \in BOOLEAN : drop' = [dry |-> dry, state |-> "directory"]
  /\ UNCHANGED <<ui, watcher>>

(* rmtree, unless this is a dry run.                                       *)
RemoveDirectory ==
  /\ drop.state = "directory"
  /\ ui' = (ui /\ drop.dry)
  /\ drop' = [drop EXCEPT !.state = "entry"]
  /\ UNCHANGED watcher

(* _strip_npm_ecosystem: the npm block goes, if it is one it knows.        *)
Stripped(entries) == IF entries = "entry" THEN "none" ELSE entries

(* Slip: the entry is stripped when the directory is still there.          *)
StripEntryFirst ==
  /\ drop.state \in {"directory", "entry"}
  /\ drop' = [drop EXCEPT !.state = IF watcher = "foreign" THEN "refused" ELSE @]
  /\ watcher' = IF drop.dry THEN watcher ELSE Stripped(watcher)
  /\ UNCHANGED ui

(* What is left of the file is looked at before it is written.             *)
StripEntry ==
  /\ drop.state = "entry"
  /\ drop' = [drop EXCEPT !.state = CASE watcher = "foreign" -> "refused"
                                      [] watcher = "no_file" -> "raised"
                                      [] OTHER               -> "ok"]
  /\ watcher' = IF drop.dry THEN watcher ELSE Stripped(watcher)
  /\ UNCHANGED ui

InterruptDrop ==
  /\ Dropping
  /\ drop' = [drop EXCEPT !.state = "interrupted"]
  /\ UNCHANGED <<ui, watcher>>

DropNext ==
  \/ StartDrop
  \/ RemoveDirectory
  \/ StripEntry
  \/ InterruptDrop

-----------------------------------------------------------------------------
(* Wherever a run stops and however often it is repeated, no step of it    *)
(* leaves a directory that nobody watches, and a run that reports success  *)
(* leaves neither the directory nor the entry.                             *)
NoUnwatchedUi ==
  /\ ui => watcher # "none"
  /\ drop.state = "ok" /\ ~drop.dry => ~ui /\ watcher = "none"
===============================================================================
