------------------------------ MODULE LockExport ------------------------------
(***************************************************************************)
(* scripts/lock.py: one resolution in uv.lock, one exported lockfile per   *)
(* profile, and the header uv's export destroys put back on each.  uv is   *)
(* external: it may fail, having written or not, and what it exports may   *)
(* lack the commit of a commons package that pyproject.toml declares.      *)
(***************************************************************************)
EXTENDS Naturals

CONSTANTS
  Exports,   \* the lockfiles of _TARGETS, numbered in its order
  MaxEdits   \* bound on the edits of pyproject.toml

ASSUME LockAssumption == Exports \in Nat /\ MaxEdits \in Nat

VARIABLES
  declared,  \* how often pyproject.toml was edited
  resolved,  \* the edit uv.lock was resolved at
  exports,   \* each lockfile: the resolution it was exported from, and its header
  previous,  \* each lockfile as the run found it
  locking    \* the run under way: its state, and the lockfile it is at

lockVars == <<declared, resolved, exports, previous, locking>>

Absent == [of |-> 0, header |-> FALSE, present |-> FALSE]

Lockfile == [of : 0..MaxEdits, header : BOOLEAN, present : BOOLEAN]

LockTypeOK ==
  /\ declared \in 0..MaxEdits
  /\ resolved \in 0..declared
  /\ exports \in [1..Exports -> Lockfile]
  /\ previous \in [1..Exports -> Lockfile]
  /\ locking \in [state : {"none", "export", "check", "restore", "ok", "failed", "interrupted"},
                  at : 1..(Exports + 1)]

(* A repository as shipped, or one that has not exported some profile yet. *)
LockInit ==
  /\ declared = 0
  /\ resolved = 0
  /\ exports \in [1..Exports -> {Absent, [of |-> 0, header |-> TRUE, present |-> TRUE]}]
  /\ previous = exports
  /\ locking = [state |-> "none", at |-> 1]

Running == locking.state \in {"export", "check", "restore"}

At(state) == locking' = [locking EXCEPT !.state = state]

Write(of, header) ==
  exports' = [exports EXCEPT ![locking.at] = [of |-> of, header |-> header, present |-> TRUE]]

EditPyproject ==
  /\ declared < MaxEdits
  /\ declared' = declared + 1
  /\ UNCHANGED <<resolved, exports, previous, locking>>

(* uv lock: it resolves what is declared, or fails and ends the run.       *)
Resolve ==
  /\ ~Running
  /\ previous' = exports
  /\ \/ /\ resolved' = declared
        /\ locking' = [state |-> "export", at |-> 1]
     \/ /\ locking' = [state |-> "failed", at |-> 1]
        /\ UNCHANGED resolved
  /\ UNCHANGED <<declared, exports>>

(* uv export replaces the lockfile, its header gone; one that fails may    *)
(* have.                                                                   *)
ExportProfile ==
  /\ locking.state = "export"
  /\ locking.at <= Exports
  /\ \/ Write(resolved, FALSE) /\ At("check")
     \/ /\ Write(resolved, FALSE) \/ UNCHANGED exports
        /\ At("restore")
  /\ UNCHANGED <<declared, resolved, previous>>

(* Slip: an incomplete map ends the run where it stands.                   *)
CheckWithoutRestore ==
  /\ locking.state = "check"
  /\ \/ /\ Write(exports[locking.at].of, TRUE)
        /\ locking' = [state |-> "export", at |-> locking.at + 1]
     \/ At("failed") /\ UNCHANGED exports
  /\ UNCHANGED <<declared, resolved, previous>>

(* Every declared commons is pinned by commit and the header goes back on, *)
(* or the lockfile is put back as it was.                                  *)
CheckAndHead ==
  /\ locking.state = "check"
  /\ \/ /\ Write(exports[locking.at].of, TRUE)
        /\ locking' = [state |-> "export", at |-> locking.at + 1]
     \/ At("restore") /\ UNCHANGED exports
  /\ UNCHANGED <<declared, resolved, previous>>

(* _restore: a lockfile that was not there stays as uv left it.            *)
Restore ==
  /\ locking.state = "restore"
  /\ exports' = IF previous[locking.at].present
                  THEN [exports EXCEPT ![locking.at] = previous[locking.at]]
                  ELSE exports
  /\ At("failed")
  /\ UNCHANGED <<declared, resolved, previous>>

FinishLock ==
  /\ locking.state = "export"
  /\ locking.at = Exports + 1
  /\ At("ok")
  /\ UNCHANGED <<declared, resolved, exports, previous>>

(* At any moment; ExportProfile and CheckAndHead are what may lie behind.  *)
InterruptLock ==
  /\ Running
  /\ At("interrupted")
  /\ UNCHANGED <<declared, resolved, exports, previous>>

LockNext ==
  \/ EditPyproject
  \/ Resolve
  \/ ExportProfile
  \/ CheckAndHead
  \/ Restore
  \/ FinishLock
  \/ InterruptLock

-----------------------------------------------------------------------------
Headerless(file) == file.present /\ ~file.header

(* A run that ends by itself, however it ends and whatever earlier runs     *)
(* left, damages nothing: when it succeeds every lockfile has its header   *)
(* and all are exports of one resolution; when it fails a lockfile is      *)
(* headerless only if it was before, or was not there at all.              *)
EndedRunsLeaveNoDamage ==
  /\ locking.state = "ok" =>
       \A t \in 1..Exports : exports[t].header /\ exports[t].of = resolved
  /\ locking.state = "failed" =>
       \A t \in 1..Exports :
         Headerless(exports[t]) => ~previous[t].present \/ Headerless(previous[t])
===============================================================================
