------------------------------ MODULE RenameFork ------------------------------
(***************************************************************************)
(* scripts/rename_fork.py: rebranding a fork in one pass over its files.   *)
(* The names to look for are literals of the script, and the script is one *)
(* of the files it rewrites: a run that got that far has changed what the  *)
(* next run will look for.  Files are written one at a time, in the order  *)
(* of their paths, and the package directory is moved last.                *)
(*                                                                         *)
(* The three literals are renamed alike, so one name stands for them: a    *)
(* sequence of parts, in which another name is found wherever its parts    *)
(* follow one another.  (The environment prefix is matched at the start of *)
(* a word only: a new prefix that holds the old one behind an underscore,  *)
(* which for the other two is found again, is not.)  The Terraform prefix  *)
(* has a rule of its own and is left out.                                  *)
(***************************************************************************)
EXTENDS Naturals, Sequences

CONSTANTS
  Files,     \* the files that carry the name, numbered in the order of their paths
  Script,    \* which of them is the script itself
  Docs,      \* which of them are Markdown, swept on request only
  Original,  \* the name everything carries at first
  Targets,   \* the names a maintainer asks for
  MaxRuns    \* bound on the runs of the script

ASSUME RenameAssumption ==
  /\ Files \in Nat
  /\ Script \in 1..Files
  /\ Docs \subseteq (1..Files) \ {Script}
  /\ Original \in Seq(STRING) /\ Original # <<>>
  /\ Targets \subseteq Seq(STRING) /\ <<>> \notin Targets
  /\ MaxRuns \in Nat

VARIABLES
  names,    \* the name each file carries
  package,  \* the name of the package directory
  sweep,    \* the run under way, or the last one: what it looks for, asks for, and where it is
  runs,     \* how many runs there were
  torn      \* the requests that left files behind under another name, and not mended since

renameVars == <<names, package, sweep, runs, torn>>

(* at: the file the run comes to next.                                     *)
Sweep ==
  [old : Seq(STRING), new : Seq(STRING), docs : BOOLEAN, apply : BOOLEAN,
   at : 1..(Files + 1), state : {"none", "running", "done", "interrupted"}]

RenameInit ==
  /\ names = [f \in 1..Files |-> Original]
  /\ package = Original
  /\ sweep = [old |-> Original, new |-> Original, docs |-> FALSE, apply |-> FALSE,
              at |-> 1, state |-> "none"]
  /\ runs = 0
  /\ torn = {}

FoundAt(old, text, i) ==
  /\ i + Len(old) <= Len(text) + 1
  /\ \A k \in 1..Len(old) : text[i + k - 1] = old[k]

Found(old, text) == \E i \in 1..Len(text) : FoundAt(old, text, i)

(* str.replace comes to the i-th part: it writes the new name where it     *)
(* finds the old one and goes on behind it (left parts of it are skipped), *)
(* and what it finds nothing at it keeps.                                  *)
Replacing(text, old, new, i, before) ==
  IF before.left > 0 THEN [out |-> before.out, left |-> before.left - 1]
  ELSE IF FoundAt(old, text, i) THEN [out |-> before.out \o new, left |-> Len(old) - 1]
  ELSE [out |-> Append(before.out, text[i]), left |-> 0]

(* _rewrite_text: every occurrence of the old name, from the left, whether *)
(* or not it is part of a longer one.                                      *)
Rewritten(text, old, new) ==
  LET done[i \in 0..Len(text)] ==
        IF i = 0 THEN [out |-> <<>>, left |-> 0]
        ELSE Replacing(text, old, new, i, done[i - 1])
  IN  done[Len(text)].out

(* The arguments, and the script as it stands: a preview unless --yes.     *)
StartRename(new, docs, apply) ==
  /\ sweep.state # "running"
  /\ runs < MaxRuns
  /\ runs' = runs + 1
  /\ sweep' = [old |-> names[Script], new |-> new, docs |-> docs, apply |-> apply,
               at |-> 1, state |-> "running"]
  /\ UNCHANGED <<names, package, torn>>

(* _iter_files: Markdown only with --include-docs.                         *)
Swept(f) == f \notin Docs \/ sweep.docs

(* One file of the walk.                                                   *)
RewriteFile ==
  /\ sweep.state = "running"
  /\ sweep.at <= Files
  /\ sweep' = [sweep EXCEPT !.at = @ + 1]
  /\ names' = IF sweep.apply /\ Swept(sweep.at)
                THEN [names EXCEPT ![sweep.at] = Rewritten(@, sweep.old, sweep.new)]
                ELSE names
  /\ UNCHANGED <<package, runs, torn>>

(* Repeating the request mends what its own interruption left, if the      *)
(* script was not rewritten yet and the new name does not hold the old     *)
(* one, which would be found again in what was written.                    *)
Mends(run) ==
  \A t \in torn : t.new = run.new /\ ~t.late /\ ~Found(t.old, t.new)

(* Any other rename of a torn tree rewrites the script, and what it leaves *)
(* no request mends.                                                       *)
TornAfter(run) ==
  IF ~run.apply THEN torn
  ELSE IF Mends(run) THEN {}
  ELSE torn \cup {[old |-> run.old, new |-> run.new, late |-> TRUE]}

(* Slip: the directory is moved from the name every fork starts with.      *)
MovePackageFromOriginal ==
  /\ sweep.state = "running"
  /\ sweep.at > Files
  /\ sweep' = [sweep EXCEPT !.state = "done"]
  /\ package' = IF sweep.apply /\ package = Original THEN sweep.new ELSE package
  /\ torn' = TornAfter(sweep)
  /\ UNCHANGED <<names, runs>>

(* The directory is moved if it is there under the old name.               *)
MovePackage ==
  /\ sweep.state = "running"
  /\ sweep.at > Files
  /\ sweep' = [sweep EXCEPT !.state = "done"]
  /\ package' = IF sweep.apply /\ package = sweep.old THEN sweep.new ELSE package
  /\ torn' = TornAfter(sweep)
  /\ UNCHANGED <<names, runs>>

(* The process is stopped, or a write raises, between two writes.          *)
InterruptRename ==
  /\ sweep.state = "running"
  /\ sweep' = [sweep EXCEPT !.state = "interrupted"]
  /\ torn' = IF sweep.apply /\ sweep.at > 1
               THEN torn \cup {[old |-> sweep.old, new |-> sweep.new, late |-> sweep.at > Script]}
               ELSE torn
  /\ UNCHANGED <<names, package, runs>>

RenameNext ==
  \/ \E new \in Targets, docs, apply \in BOOLEAN : StartRename(new, docs, apply)
  \/ RewriteFile
  \/ MovePackage
  \/ InterruptRename

-----------------------------------------------------------------------------
RenameTypeOK ==
  /\ names \in [1..Files -> Seq(STRING)]
  /\ package \in Seq(STRING)
  /\ sweep \in Sweep
  /\ runs \in 0..MaxRuns

Agrees(name) == package = name /\ \A f \in (1..Files) \ Docs : names[f] = name

(* A run that reports "Done" has renamed the tree as a whole, however many *)
(* renames and previews came before it: every file but the Markdown and    *)
(* the package directory carry the name it was asked for, so the imports   *)
(* resolve.  The one exception is a tree torn by an interrupted run, until *)
(* the same request mends it, with no other in between.                    *)
FinishedRenamesAgree ==
  sweep.state = "done" /\ sweep.apply /\ torn = {} => Agrees(sweep.new)
===============================================================================
