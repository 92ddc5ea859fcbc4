-------------------------- MODULE MaintainerToolsProofs -------------------------
(***************************************************************************)
(* Proofs about the maintainer's tools, for a tree of any size, any names, *)
(* any number of runs, lockfiles and edits, interruptions at any step, and *)
(* an evaluation over any dataset and packs.                               *)
(***************************************************************************)
EXTENDS MaintainerTools, FiniteSetTheorems, SequenceTheorems, WellFoundedInduction, TLAPS

-----------------------------------------------------------------------------
(* scripts/drop_ui.py: between its two steps a real run has no directory.  *)

DropInv ==
  /\ DropTypeOK
  /\ drop.state = "entry" /\ ~drop.dry => ~ui
  /\ NoUnwatchedUi

LEMMA DropKeeps ==
  ASSUME DropInv, DropNext
  PROVE  DropInv'
  <1>1. CASE StartDrop
    BY <1>1 DEF DropInv, DropTypeOK, NoUnwatchedUi, StartDrop
  <1>2. CASE RemoveDirectory
    BY <1>2 DEF DropInv, DropTypeOK, NoUnwatchedUi, RemoveDirectory
  <1>3. CASE StripEntry
    BY <1>3 DEF DropInv, DropTypeOK, NoUnwatchedUi, StripEntry, Stripped
  <1>4. CASE InterruptDrop
    BY <1>4 DEF DropInv, DropTypeOK, NoUnwatchedUi, InterruptDrop
  <1> QED
    BY <1>1, <1>2, <1>3, <1>4 DEF DropNext

(* No step of any run leaves a directory that nobody watches, and a run    *)
(* that reports success has removed both.                                  *)
THEOREM UiIsWatched == Spec => []NoUnwatchedUi
  <1>1. Init => DropInv
    BY DEF Init, DropInit, DropInv, DropTypeOK, NoUnwatchedUi
  <1>2. DropInv /\ [Next]_vars => DropInv'
    <2> SUFFICES ASSUME DropInv, [Next]_vars
                 PROVE  DropInv'
      OBVIOUS
    <2>1. CASE DropNext
      BY <2>1, DropKeeps
    <2>2. CASE UNCHANGED dropVars
      BY <2>2 DEF DropInv, DropTypeOK, NoUnwatchedUi, dropVars
    <2> QED
      BY <2>1, <2>2 DEF Next, vars, Renaming, Locking, DroppingUi, Evaluating
  <1>3. DropInv => NoUnwatchedUi
    BY DEF DropInv
  <1> QED
    BY <1>1, <1>2, <1>3, PTL DEF Spec

-----------------------------------------------------------------------------
(* scripts/lock.py: the lockfiles before the one at hand are finished, the *)
(* ones after it are as the run found them.                                *)

LockInv ==
  /\ LockTypeOK
  /\ locking.state \in {"export", "check", "restore"} =>
       /\ \A t \in 1..Exports : t < locking.at => exports[t].header /\ exports[t].of = resolved
       /\ \A t \in 1..Exports : t > locking.at => exports[t] = previous[t]
  /\ locking.state = "export" => \A t \in 1..Exports : t = locking.at => exports[t] = previous[t]
  /\ locking.state \in {"check", "restore"} => locking.at <= Exports
  /\ locking.state = "check" => exports[locking.at].of = resolved
  /\ EndedRunsLeaveNoDamage

LEMMA WriteFields ==
  ASSUME LockTypeOK, locking.at <= Exports,
         NEW of \in 0..MaxEdits, NEW header \in BOOLEAN, Write(of, header)
  PROVE  /\ exports' \in [1..Exports -> Lockfile]
         /\ \A t \in 1..Exports :
              exports'[t] = IF t = locking.at THEN [of |-> of, header |-> header, present |-> TRUE]
                            ELSE exports[t]
  <1>1. [of |-> of, header |-> header, present |-> TRUE] \in Lockfile
    BY DEF Lockfile
  <1> QED
    BY <1>1 DEF LockTypeOK, Write

LEMMA AtFields ==
  ASSUME LockTypeOK, NEW state, At(state)
  PROVE  locking'.state = state /\ locking'.at = locking.at /\ locking' = [state |-> state, at |-> locking.at]
  BY DEF LockTypeOK, At

LEMMA LockKeeps ==
  ASSUME LockInv, LockNext
  PROVE  LockInv'
  <1> USE LockAssumption
  <1>1. /\ Exports \in Nat /\ locking.at \in 1..(Exports + 1)
        /\ resolved \in 0..MaxEdits /\ declared \in 0..MaxEdits
        /\ \A t \in 1..Exports : exports[t].of \in 0..MaxEdits
    BY DEF LockInv, LockTypeOK, Lockfile
  <1>2. CASE EditPyproject
    BY <1>2 DEF LockInv, LockTypeOK, EndedRunsLeaveNoDamage, EditPyproject, Headerless
  <1>3. CASE Resolve
    BY <1>3 DEF LockInv, LockTypeOK, EndedRunsLeaveNoDamage, Resolve, Running, Headerless
  <1>4. CASE ExportProfile
    <2>1. \/ Write(resolved, FALSE) /\ At("check")
          \/ Write(resolved, FALSE) /\ At("restore")
          \/ UNCHANGED exports /\ At("restore")
      BY <1>4 DEF ExportProfile
    <2>2. CASE Write(resolved, FALSE)
      <3>1. /\ locking'.state \in {"check", "restore"} /\ locking'.at = locking.at
            /\ locking' = [state |-> locking'.state, at |-> locking'.at]
        BY <1>4, AtFields DEF ExportProfile, LockInv
      <3>2. \A t \in 1..Exports :
              exports'[t] = IF t = locking.at
                              THEN [of |-> resolved, header |-> FALSE, present |-> TRUE]
                              ELSE exports[t]
        BY <1>1, <1>4, <2>2, WriteFields DEF LockInv, ExportProfile
      <3>3. exports' \in [1..Exports -> Lockfile]
        BY <1>1, <1>4, <2>2, WriteFields DEF LockInv, ExportProfile
      <3>4. LockTypeOK'
        BY <1>1, <1>4, <3>1, <3>3 DEF LockInv, LockTypeOK, ExportProfile
      <3> QED
        BY <1>1, <1>4, <3>1, <3>2, <3>4 DEF LockInv, EndedRunsLeaveNoDamage, ExportProfile
    <2>3. CASE UNCHANGED exports /\ At("restore")
      BY <1>1, <1>4, <2>3, AtFields
         DEF LockInv, LockTypeOK, EndedRunsLeaveNoDamage, ExportProfile
    <2> QED
      BY <2>1, <2>2, <2>3
  <1>5. CASE CheckAndHead
    <2>1. CASE /\ Write(exports[locking.at].of, TRUE)
               /\ locking' = [state |-> "export", at |-> locking.at + 1]
      <3>1. locking.at \in 1..Exports
        BY <1>1, <1>5 DEF LockInv, CheckAndHead
      <3>2. exports[locking.at].of = resolved /\ resolved \in 0..MaxEdits
        BY <1>1, <1>5 DEF LockInv, CheckAndHead
      <3>3. /\ exports' \in [1..Exports -> Lockfile]
            /\ \A t \in 1..Exports :
                 exports'[t] = IF t = locking.at
                                 THEN [of |-> resolved, header |-> TRUE, present |-> TRUE]
                                 ELSE exports[t]
        <4>1. [of |-> resolved, header |-> TRUE, present |-> TRUE] \in Lockfile
          BY <3>2 DEF Lockfile
        <4> QED
          BY <2>1, <3>1, <3>2, <4>1 DEF LockInv, LockTypeOK, Write
      <3>4. /\ LockTypeOK'
            /\ locking'.state = "export" /\ locking'.at = locking.at + 1
        BY <1>1, <1>5, <2>1, <3>1, <3>3 DEF LockInv, LockTypeOK, CheckAndHead
      <3> QED
        BY <1>1, <1>5, <3>1, <3>3, <3>4 DEF LockInv, EndedRunsLeaveNoDamage, CheckAndHead
    <2>2. CASE At("restore") /\ UNCHANGED exports
      BY <1>1, <1>5, <2>2, AtFields
         DEF LockInv, LockTypeOK, EndedRunsLeaveNoDamage, CheckAndHead
    <2> QED
      BY <1>5, <2>1, <2>2 DEF CheckAndHead
  <1>6. CASE Restore
    <2>1. /\ locking.at \in 1..Exports
          /\ locking' = [state |-> "failed", at |-> locking.at]
          /\ UNCHANGED <<declared, resolved, previous>>
      BY <1>1, <1>6, AtFields DEF LockInv, Restore
    <2>2. /\ exports' \in [1..Exports -> Lockfile]
          /\ \A t \in 1..Exports : exports'[t] =
               IF t = locking.at /\ previous[t].present THEN previous[t] ELSE exports[t]
      BY <1>6, <2>1 DEF LockInv, LockTypeOK, Restore
    <2>3. \A t \in 1..Exports :
            Headerless(exports[t])' => ~previous[t].present \/ Headerless(previous[t])
      BY <1>1, <1>6, <2>1, <2>2 DEF LockInv, Restore, Headerless
    <2> QED
      BY <1>1, <2>1, <2>2, <2>3 DEF LockInv, LockTypeOK, EndedRunsLeaveNoDamage
  <1>7. CASE FinishLock
    BY <1>1, <1>7, AtFields
       DEF LockInv, LockTypeOK, EndedRunsLeaveNoDamage, FinishLock
  <1>8. CASE InterruptLock
    BY <1>1, <1>8, AtFields
       DEF LockInv, LockTypeOK, EndedRunsLeaveNoDamage, InterruptLock, Running
  <1> QED
    BY <1>2, <1>3, <1>4, <1>5, <1>6, <1>7, <1>8 DEF LockNext

(* Whatever uv does and however often the run was stopped before, a run    *)
(* that ends by itself leaves finished lockfiles of one resolution, or the *)
(* headers that were there.                                                *)
THEOREM LockfilesAreSound == Spec => []EndedRunsLeaveNoDamage
  <1>1. Init => LockInv
    <2> SUFFICES ASSUME LockInit
                 PROVE  LockInv
      BY DEF Init
    <2>1. {Absent, [of |-> 0, header |-> TRUE, present |-> TRUE]} \subseteq Lockfile
      BY LockAssumption DEF Lockfile, Absent
    <2>2. exports \in [1..Exports -> Lockfile]
      BY <2>1 DEF LockInit
    <2> QED
      BY LockAssumption, <2>2 DEF LockInit, LockInv, LockTypeOK, EndedRunsLeaveNoDamage
  <1>2. LockInv /\ [Next]_vars => LockInv'
    <2> SUFFICES ASSUME LockInv, [Next]_vars
                 PROVE  LockInv'
      OBVIOUS
    <2>1. CASE LockNext
      BY <2>1, LockKeeps
    <2>2. CASE UNCHANGED lockVars
      BY <2>2 DEF LockInv, LockTypeOK, EndedRunsLeaveNoDamage, lockVars, Headerless
    <2> QED
      BY <2>1, <2>2 DEF Next, vars, Renaming, Locking, DroppingUi, Evaluating
  <1>3. LockInv => EndedRunsLeaveNoDamage
    BY DEF LockInv
  <1> QED
    BY <1>1, <1>2, <1>3, PTL DEF Spec

-----------------------------------------------------------------------------
(* The promotion: whom the cached client asks was read from a variable     *)
(* that named somebody, and only the script asks twice.                    *)

PromotionInv ==
  /\ quality \in Addresses
  /\ promotion = "reported" \/ promotion = "below" => process.caller = "script"
  /\ client # NoClient =>
       /\ client.read \in {"unset", "one", "other"}
       /\ client.asks = "default" <=> client.read = "unset"
LEMMA PromotionKeeps ==
  ASSUME PromotionInv, EvalNext
  PROVE  PromotionInv'
  <1> USE DEF PromotionInv
  <1>1. CASE RunSmoke
    BY <1>1 DEF RunSmoke, promotionVars
  <1>2. CASE AskToEvaluate
    BY <1>2 DEF AskToEvaluate, Asked, GateClient, Named, Addresses
  <1>3. CASE AskForVerdict
    BY <1>3 DEF AskForVerdict, Asked, GateClient, Named, Addresses
  <1>4. CASE AskAdapter
    BY <1>4 DEF AskAdapter, Asked, GateClient, Named, Addresses
  <1>5. CASE RefusePromotion
    BY <1>5 DEF RefusePromotion
  <1>6. CASE ChangeSurroundings
    BY <1>6 DEF ChangeSurroundings
  <1> QED
    BY <1>1, <1>2, <1>3, <1>4, <1>5, <1>6 DEF EvalNext

LEMMA PromotionStep ==
  ASSUME PromotionInv, EvalNext, promotion' = "promoted", promotion # "promoted"
  PROVE  /\ willing /\ promotion # "below"
         /\ process.profile = "gcp"
         /\ client'.read \in {"unset", "one", "other"}
         /\ client'.asks = "default" <=> client'.read = "unset"
  <1>1. ~RunSmoke /\ ~AskToEvaluate /\ ~RefusePromotion /\ ~ChangeSurroundings
    BY DEF RunSmoke, promotionVars, AskToEvaluate, RefusePromotion, ChangeSurroundings
  <1>2. CASE AskForVerdict
    BY <1>2 DEF PromotionInv, AskForVerdict, Asked, GateClient, Named, Addresses
  <1>3. CASE AskAdapter
    BY <1>3 DEF PromotionInv, AskAdapter, Asked, GateClient, Named, Addresses
  <1> QED
    BY <1>1, <1>2, <1>3 DEF EvalNext

(* However the surroundings change between the two calls, a promotion is   *)
(* the verdict of an authority the operator named or left at its default,  *)
(* and of a report that is not below the bar.                              *)
THEOREM PromotionsAreAuthorised == Spec => PromotionIsAuthorised
  <1>1. Init => PromotionInv
    BY DEF Init, EvalInit, PromotionInv, Addresses
  <1>2. PromotionInv /\ [Next]_vars => PromotionInv'
    <2> SUFFICES ASSUME PromotionInv, [Next]_vars
                 PROVE  PromotionInv'
      OBVIOUS
    <2>1. CASE EvalNext
      BY <2>1, PromotionKeeps
    <2>2. CASE UNCHANGED evalVars
      BY <2>2 DEF PromotionInv, evalVars
    <2> QED
      BY <2>1, <2>2 DEF Next, vars, Renaming, Locking, DroppingUi, Evaluating
  <1>3. PromotionInv /\ [Next]_vars =>
          [promotion' = "promoted" /\ promotion # "promoted" =>
             /\ willing /\ promotion # "below"
             /\ process.profile = "gcp"
             /\ client'.read \in {"unset", "one", "other"}
             /\ client'.asks = "default" <=> client'.read = "unset"]_evalVars
    BY PromotionStep DEF Next, vars, Renaming, Locking, DroppingUi, Evaluating, evalVars
  <1> QED
    BY <1>1, <1>2, <1>3, PTL DEF Spec, PromotionIsAuthorised

-----------------------------------------------------------------------------
(* scripts/rename_fork.py: the tree between and during the runs.           *)

Sweeping == sweep.state = "running" /\ sweep.apply

(* A request that would mend the tree finds it as it was before the first  *)
(* interruption, but for files that already carry the name it asks for.    *)
Mendable(name) == \A t \in torn : t.new = name /\ ~t.late /\ ~Found(t.old, name)

TornFrom(old) == \A t \in torn : t.old = old

Mixed(old, new) ==
  /\ TornFrom(old)
  /\ package = old
  /\ \A f \in (1..Files) \ Docs : names[f] = old \/ (torn # {} /\ f # Script /\ names[f] = new)

RestingTree ==
  ~Sweeping \/ sweep.at = 1 => \A t \in Targets : Mendable(t) => Mixed(names[Script], t)

SweptTree ==
  sweep.state = "running" =>
    /\ sweep.at = 1 => sweep.old = names[Script]
    /\ sweep.apply /\ Mends(sweep) =>
         /\ TornFrom(sweep.old)
         /\ package = sweep.old
         /\ \A f \in (1..Files) \ Docs :
              IF f < sweep.at THEN names[f] = sweep.new
              ELSE names[f] = sweep.old \/ (torn # {} /\ f # Script /\ names[f] = sweep.new)

(* No file, and no request, carries an empty name.                         *)
NoEmptyNames ==
  /\ \A f \in 1..Files : names[f] # <<>>
  /\ sweep.old # <<>> /\ sweep.new # <<>>

RenameInv ==
  /\ RenameTypeOK
  /\ NoEmptyNames
  /\ sweep.state = "running" => sweep.new \in Targets
  /\ RestingTree
  /\ SweptTree
  /\ FinishedRenamesAgree

(* Every set of numbers has a least one.                                   *)
LEMMA LeastExists ==
  ASSUME NEW S \in SUBSET Nat, S # {}
  PROVE  \E least \in S : \A other \in S : least <= other
  <1>1. PICK least \in S : \A other \in S : <<other, least>> \notin OpToRel(<, Nat)
    BY NatLessThanWellFounded, WFMin
  <1>2. \A other \in S : ~(other < least)
    BY <1>1 DEF OpToRel
  <1> QED
    BY <1>2

(* Induction over a set, which needs no operator for a parameter.          *)
LEMMA SetInduction ==
  ASSUME NEW S, 0 \in S, \A n \in Nat : n \in S => n + 1 \in S
  PROVE  \A n \in Nat : n \in S
  <1> DEFINE rest == {n \in Nat : n \notin S}
  <1>1. ASSUME rest # {} PROVE FALSE
    <2>1. PICK least \in rest : \A other \in rest : least <= other
      BY <1>1, LeastExists
    <2>2. least # 0 /\ least - 1 \in Nat
      BY <2>1
    <2>3. least - 1 \in S
      BY <2>1, <2>2
    <2> QED
      BY <2>1, <2>2, <2>3
  <1> QED
    BY <1>1

(* What a loop of N rounds has done after each: step gives, for a round    *)
(* and what was done before it, what is done after it.                     *)
Runs(done, N, V, begin, step) ==
  /\ done \in [0..N -> V]
  /\ done[0] = begin
  /\ \A n \in 1..N : done[n] = step[<<n, done[n - 1]>>]

LEMMA LoopsRun ==
  ASSUME NEW N \in Nat, NEW V, NEW begin \in V, NEW step \in [(1..N) \X V -> V]
  PROVE  \E done : Runs(done, N, V, begin, step)
  <1> DEFINE S == {n \in Nat : n <= N => \E done : Runs(done, n, V, begin, step)}
  <1>1. 0 \in S
    <2>1. Runs([n \in 0..0 |-> begin], 0, V, begin, step)
      BY DEF Runs
    <2> QED
      BY <2>1
  <1>2. ASSUME NEW n \in Nat, n \in S PROVE n + 1 \in S
    <2> SUFFICES ASSUME n + 1 <= N PROVE \E done : Runs(done, n + 1, V, begin, step)
      OBVIOUS
    <2>1. PICK old : Runs(old, n, V, begin, step)
      BY <1>2
    <2> DEFINE last == step[<<n + 1, old[n]>>]
               new == [m \in 0..(n + 1) |-> IF m = n + 1 THEN last ELSE old[m]]
    <2>2. last \in V
      <3>1. old[n] \in V /\ n + 1 \in 1..N
        BY <2>1 DEF Runs
      <3>2. <<n + 1, old[n]>> \in (1..N) \X V
        BY <3>1
      <3> QED
        BY <3>2
    <2>3. \A m \in 0..(n + 1) : m # n + 1 => m \in 0..n /\ old[m] \in V
      BY <2>1 DEF Runs
    <2>4. new \in [0..(n + 1) -> V]
      BY <2>2, <2>3
    <2>5. new[0] = begin
      BY <2>1 DEF Runs
    <2>6. ASSUME NEW m \in 1..(n + 1) PROVE new[m] = step[<<m, new[m - 1]>>]
      <3>1. CASE m = n + 1
        <4>1. new[m] = last /\ new[m - 1] = old[n]
          BY <3>1
        <4> QED
          BY <3>1, <4>1
      <3>2. CASE m # n + 1
        <4>1. m \in 1..n /\ new[m] = old[m] /\ new[m - 1] = old[m - 1]
          BY <3>2
        <4> QED
          BY <2>1, <4>1 DEF Runs
      <3> QED
        BY <3>1, <3>2
    <2> HIDE DEF new
    <2>7. Runs(new, n + 1, V, begin, step)
      BY <2>4, <2>5, <2>6 DEF Runs
    <2> QED
      BY <2>7
  <1> HIDE DEF S
  <1>3. N \in S
    BY <1>1, <1>2, SetInduction
  <1> QED
    BY <1>3 DEF S

(* What str.replace has written when it has passed so many parts.          *)
Written == [out : Seq(STRING), left : Nat]

PassesOver(done, text, old, new) ==
  /\ done \in [0..Len(text) -> Written]
  /\ done[0] = [out |-> <<>>, left |-> 0]
  /\ \A i \in 1..Len(text) : done[i] = Replacing(text, old, new, i, done[i - 1])
  /\ Rewritten(text, old, new) = done[Len(text)].out

LEMMA ReplacingType ==
  ASSUME NEW text \in Seq(STRING), NEW old \in Seq(STRING), old # <<>>, NEW new \in Seq(STRING),
         NEW i \in 1..Len(text), NEW before \in Written
  PROVE  Replacing(text, old, new, i, before) \in Written
  <1>1. before.out \in Seq(STRING) /\ before.left \in Nat
    BY DEF Written
  <1>2. before.left > 0 => before.left - 1 \in Nat
    BY <1>1
  <1>3. Len(old) - 1 \in Nat
    BY EmptySeq, LenProperties
  <1>4. before.out \o new \in Seq(STRING)
    BY <1>1, ConcatProperties
  <1>5. Append(before.out, text[i]) \in Seq(STRING)
    BY <1>1, AppendProperties
  <1> QED
    BY <1>1, <1>2, <1>3, <1>4, <1>5 DEF Replacing, Written

LEMMA PassesExist ==
  ASSUME NEW text \in Seq(STRING), NEW old \in Seq(STRING), old # <<>>, NEW new \in Seq(STRING)
  PROVE  \E done : PassesOver(done, text, old, new)
  <1> DEFINE N == Len(text)
             begin == [out |-> <<>>, left |-> 0]
             step == [c \in (1..N) \X Written |-> Replacing(text, old, new, c[1], c[2])]
             Round(done, i) == IF i = 0 THEN begin ELSE Replacing(text, old, new, i, done[i - 1])
             Is(done) == done = [i \in 0..N |-> Round(done, i)]
  <1>1. N \in Nat
    OBVIOUS
  <1>2. begin \in Written
    BY DEF Written
  <1> HIDE DEF begin
  <1>3. step \in [(1..N) \X Written -> Written]
    <2>1. ASSUME NEW c \in (1..N) \X Written
          PROVE  Replacing(text, old, new, c[1], c[2]) \in Written
      <3>1. c[1] \in 1..N /\ c[2] \in Written
        OBVIOUS
      <3> QED
        BY <3>1, ReplacingType
    <2> QED
      BY <2>1
  <1>4. \A i \in 1..N, v \in Written : step[<<i, v>>] = Replacing(text, old, new, i, v)
    OBVIOUS
  <1> HIDE DEF step, N
  <1>5. PICK run : Runs(run, N, Written, begin, step)
    BY <1>1, <1>2, <1>3, LoopsRun
  <1>6. /\ run \in [0..N -> Written] /\ run[0] = begin
        /\ \A i \in 1..N : run[i] = Replacing(text, old, new, i, run[i - 1])
    <2>1. \A i \in 1..N : i - 1 \in 0..N
      BY <1>1
    <2> QED
      BY <1>4, <1>5, <2>1 DEF Runs
  <1>7. Is(run)
    <2>1. \A i \in 0..N : run[i] = Round(run, i)
      BY <1>1, <1>6
    <2> QED
      BY <1>6, <2>1
  <1>8. Is(CHOOSE done : Is(done))
    BY <1>7
  <1> DEFINE chosen == CHOOSE done : Is(done)
  <1>9. Rewritten(text, old, new) = chosen[N].out
    BY DEF Rewritten, N, begin
  <1>10. chosen = [i \in 0..N |-> Round(chosen, i)]
    BY <1>8
  <1> HIDE DEF chosen, Is
  <1>11. DOMAIN chosen = 0..N /\ \A i \in 0..N : chosen[i] = Round(chosen, i)
    BY <1>10
  <1>12. /\ chosen[0] = begin
         /\ \A i \in 1..N : chosen[i] = Replacing(text, old, new, i, chosen[i - 1])
    <2>1. 0 \in 0..N /\ \A i \in 1..N : i \in 0..N /\ i # 0
      BY <1>1
    <2> QED
      BY <1>11, <2>1
  <1> HIDE DEF Round
  <1> DEFINE S == {i \in Nat : i <= N => chosen[i] \in Written}
  <1>13. 0 \in S
    BY <1>2, <1>12
  <1>14. ASSUME NEW i \in Nat, i \in S PROVE i + 1 \in S
    <2> SUFFICES ASSUME i + 1 <= N PROVE chosen[i + 1] \in Written
      OBVIOUS
    <2>1. chosen[i] \in Written /\ i + 1 \in 1..N /\ (i + 1) - 1 = i
      BY <1>1, <1>14
    <2>2. chosen[i + 1] = Replacing(text, old, new, i + 1, chosen[i])
      BY <1>12, <2>1
    <2> QED
      BY <2>1, <2>2, ReplacingType DEF N
  <1> HIDE DEF S
  <1>15. \A i \in Nat : i \in S
    BY <1>13, <1>14, SetInduction
  <1>16. \A i \in 0..N : chosen[i] \in Written
    BY <1>15 DEF S
  <1>17. chosen \in [0..N -> Written]
    <2>1. chosen = [i \in 0..N |-> chosen[i]]
      BY <1>10, <1>11
    <2> QED
      BY <1>16, <2>1
  <1> QED
    BY <1>9, <1>12, <1>17 DEF PassesOver, N, begin

(* A name is never emptied: what a file carries stays a name.              *)
LEMMA RewrittenType ==
  ASSUME NEW text \in Seq(STRING), text # <<>>, NEW old \in Seq(STRING), old # <<>>,
         NEW new \in Seq(STRING), new # <<>>
  PROVE  Rewritten(text, old, new) \in Seq(STRING) /\ Rewritten(text, old, new) # <<>>
  <1>1. PICK done : PassesOver(done, text, old, new)
    BY PassesExist
  <1> DEFINE N == Len(text)
  <1>2. N \in Nat /\ N >= 1
    BY EmptySeq
  <1> HIDE DEF N
  <1>3. /\ done \in [0..N -> Written] /\ done[0] = [out |-> <<>>, left |-> 0]
        /\ \A i \in 1..N : done[i] = Replacing(text, old, new, i, done[i - 1])
        /\ Rewritten(text, old, new) = done[N].out
    BY <1>1 DEF PassesOver, N
  <1> DEFINE S == {i \in Nat : 1 <= i /\ i <= N => done[i].out # <<>>}
  <1>4. 0 \in S
    OBVIOUS
  <1>5. ASSUME NEW i \in Nat, i \in S PROVE i + 1 \in S
    <2> SUFFICES ASSUME i + 1 <= N PROVE done[i + 1].out # <<>>
      OBVIOUS
    <2>1. i \in 0..N /\ i + 1 \in 1..N /\ (i + 1) - 1 = i
      BY <1>2
    <2>2. done[i + 1] = Replacing(text, old, new, i + 1, done[i])
      BY <1>3, <2>1
    <2> DEFINE before == done[i]
    <2>3. before.out \in Seq(STRING) /\ before.left \in Nat
      BY <1>3, <2>1 DEF Written
    <2>4. before.left > 0 => before.out # <<>>
      BY <1>3, <1>5, <2>1
    <2>5. before.out \o new # <<>>
      <3>1. Len(new) \in Nat /\ Len(new) >= 1 /\ Len(before.out) \in Nat
        BY <2>3, EmptySeq
      <3>2. Len(before.out \o new) = Len(before.out) + Len(new)
        BY <2>3, ConcatProperties
      <3> QED
        BY <3>1, <3>2
    <2>6. Append(before.out, text[i + 1]) # <<>>
      <3>1. text[i + 1] \in STRING
        BY <2>1 DEF N
      <3> HIDE DEF before
      <3> QED
        BY <2>3, <3>1, AppendProperties
    <2> HIDE DEF before
    <2>7. Replacing(text, old, new, i + 1, before).out # <<>>
      BY <2>4, <2>5, <2>6 DEF Replacing
    <2> QED
      BY <2>2, <2>7 DEF before
  <1> HIDE DEF S
  <1>6. N \in S
    BY <1>2, <1>4, <1>5, SetInduction
  <1>7. done[N].out # <<>> /\ done[N].out \in Seq(STRING)
    BY <1>2, <1>3, <1>6 DEF S, Written
  <1> QED
    BY <1>3, <1>7

LEMMA RewrittenWhole ==
  ASSUME NEW old \in Seq(STRING), old # <<>>, NEW new \in Seq(STRING)
  PROVE  Rewritten(old, old, new) = new
  <1>1. PICK done : PassesOver(done, old, old, new)
    BY PassesExist
  <1> DEFINE N == Len(old)
  <1>2. N \in Nat /\ N >= 1
    BY EmptySeq
  <1>3. FoundAt(old, old, 1)
    BY <1>2 DEF FoundAt
  <1>4. /\ done[0] = [out |-> <<>>, left |-> 0]
        /\ \A i \in 1..N : done[i] = Replacing(old, old, new, i, done[i - 1])
        /\ Rewritten(old, old, new) = done[N].out
    BY <1>1 DEF PassesOver
  <1> HIDE DEF N
  <1>5. done[1] = [out |-> new, left |-> N - 1]
    <2>1. done[1] = Replacing(old, old, new, 1, done[0])
      BY <1>2, <1>4
    <2>2. <<>> \o new = new
      BY ConcatEmptySeq
    <2> QED
      BY <1>3, <1>4, <2>1, <2>2 DEF Replacing, N
  <1> DEFINE S == {i \in Nat : 1 <= i /\ i <= N => done[i] = [out |-> new, left |-> N - i]}
  <1>6. 0 \in S
    OBVIOUS
  <1>7. ASSUME NEW i \in Nat, i \in S PROVE i + 1 \in S
    <2> SUFFICES ASSUME i + 1 <= N PROVE done[i + 1] = [out |-> new, left |-> N - (i + 1)]
      OBVIOUS
    <2>1. CASE i = 0
      BY <1>5, <2>1
    <2>2. CASE i # 0
      <3>1. done[i] = [out |-> new, left |-> N - i]
        BY <1>2, <1>7, <2>2
      <3>2. i + 1 \in 1..N /\ (i + 1) - 1 = i
        BY <1>2
      <3>3. done[i + 1] = Replacing(old, old, new, i + 1, done[i])
        BY <1>4, <3>2
      <3>4. N - i > 0 /\ (N - i) - 1 = N - (i + 1)
        BY <1>2
      <3> QED
        BY <3>1, <3>3, <3>4 DEF Replacing
    <2> QED
      BY <2>1, <2>2
  <1> HIDE DEF S
  <1>8. N \in S
    BY <1>2, <1>6, <1>7, SetInduction
  <1>9. done[N] = [out |-> new, left |-> N - N]
    BY <1>2, <1>8 DEF S
  <1> QED
    BY <1>4, <1>9

(* What does not hold the old name stays as it is.                         *)
LEMMA RewrittenNothing ==
  ASSUME NEW text \in Seq(STRING), NEW old \in Seq(STRING), old # <<>>, NEW new \in Seq(STRING),
         ~Found(old, text)
  PROVE  Rewritten(text, old, new) = text
  <1>1. PICK done : PassesOver(done, text, old, new)
    BY PassesExist
  <1> DEFINE N == Len(text)
  <1>2. N \in Nat
    OBVIOUS
  <1>3. /\ done[0] = [out |-> <<>>, left |-> 0]
        /\ \A i \in 1..N : done[i] = Replacing(text, old, new, i, done[i - 1])
        /\ Rewritten(text, old, new) = done[N].out
    BY <1>1 DEF PassesOver
  <1>4. \A i \in 1..N : ~FoundAt(old, text, i)
    BY DEF Found
  <1>5. \A i \in 1..N : Append(SubSeq(text, 1, i - 1), text[i]) = SubSeq(text, 1, i)
    <2> TAKE i \in 1..N
    <2>1. SubSeq(text, 1, i) = SubSeq(text, 1, i - 1) \o <<text[i]>>
      BY SubSeqRecursiveSecond
    <2>2. SubSeq(text, 1, i - 1) \in Seq(STRING)
      BY SubSeqProperties
    <2> QED
      BY <2>1, <2>2, AppendIsConcat
  <1>6. SubSeq(text, 1, 0) = <<>> /\ SubSeq(text, 1, N) = text
    BY SubSeqEmpty, SubSeqFull
  <1> HIDE DEF N
  <1> DEFINE S == {i \in Nat : i <= N => done[i] = [out |-> SubSeq(text, 1, i), left |-> 0]}
  <1>7. 0 \in S
    BY <1>3, <1>6
  <1>8. ASSUME NEW i \in Nat, i \in S PROVE i + 1 \in S
    <2> SUFFICES ASSUME i + 1 <= N PROVE done[i + 1] = [out |-> SubSeq(text, 1, i + 1), left |-> 0]
      OBVIOUS
    <2>1. done[i] = [out |-> SubSeq(text, 1, i), left |-> 0] /\ i + 1 \in 1..N /\ (i + 1) - 1 = i
      BY <1>2, <1>8
    <2>2. done[i + 1] = Replacing(text, old, new, i + 1, done[i])
      BY <1>3, <2>1
    <2>3. Append(SubSeq(text, 1, i), text[i + 1]) = SubSeq(text, 1, i + 1)
      BY <1>5, <2>1
    <2>4. done[i].out = SubSeq(text, 1, i) /\ ~(done[i].left > 0) /\ ~FoundAt(old, text, i + 1)
      BY <1>4, <2>1
    <2>5. done[i + 1] = [out |-> Append(done[i].out, text[i + 1]), left |-> 0]
      BY <2>2, <2>4 DEF Replacing
    <2> QED
      BY <2>3, <2>4, <2>5
  <1> HIDE DEF S
  <1>9. N \in S
    BY <1>2, <1>7, <1>8, SetInduction
  <1>10. done[N].out = text
    BY <1>2, <1>6, <1>9 DEF S
  <1> QED
    BY <1>3, <1>10

(* What is left of the request that is repeated is not found again.        *)
LEMMA RewrittenAgain ==
  ASSUME NEW old \in Seq(STRING), old # <<>>, NEW new \in Seq(STRING), NEW text,
         text = old \/ (text = new /\ ~Found(old, new))
  PROVE  Rewritten(text, old, new) = new
  BY RewrittenWhole, RewrittenNothing

LEMMA RewriteFileKeeps ==
  ASSUME RenameInv, RewriteFile
  PROVE  RenameInv'
  <1> USE RenameAssumption
  <1>1. /\ sweep.at \in 1..Files /\ sweep \in Sweep
        /\ sweep.old \in Seq(STRING) /\ sweep.new \in Seq(STRING)
        /\ names \in [1..Files -> Seq(STRING)]
    BY DEF RenameInv, RenameTypeOK, Sweep, RewriteFile
  <1>2. sweep.old # <<>> /\ sweep.new # <<>> /\ \A f \in 1..Files : names[f] # <<>>
    BY DEF RenameInv, NoEmptyNames
  <1>3. /\ sweep' = [sweep EXCEPT !.at = sweep.at + 1]
        /\ sweep.state = "running"
        /\ UNCHANGED <<package, runs, torn>>
    BY DEF RewriteFile
  <1>4. sweep' \in Sweep
    <2>1. sweep.at + 1 \in 1..(Files + 1)
      BY <1>1
    <2> QED
      BY <1>1, <1>3, <2>1 DEF Sweep
  <1>5. /\ sweep'.old = sweep.old /\ sweep'.new = sweep.new /\ sweep'.apply = sweep.apply
        /\ sweep'.at = sweep.at + 1 /\ sweep'.state = "running" /\ sweep'.docs = sweep.docs
    BY <1>1, <1>3 DEF Sweep
  <1>6. names' \in [1..Files -> Seq(STRING)] /\ \A f \in 1..Files : names'[f] # <<>>
    <2> DEFINE written == Rewritten(names[sweep.at], sweep.old, sweep.new)
    <2>1. names[sweep.at] \in Seq(STRING) /\ names[sweep.at] # <<>>
      BY <1>1, <1>2
    <2>2. written \in Seq(STRING) /\ written # <<>>
      BY <1>1, <1>2, <2>1, RewrittenType
    <2>3. names' = [names EXCEPT ![sweep.at] = written] \/ names' = names
      BY DEF RewriteFile
    <2> HIDE DEF written
    <2> QED
      BY <1>1, <1>2, <2>2, <2>3
  <1>7. RenameTypeOK' /\ NoEmptyNames' /\ (sweep'.state = "running" => sweep'.new \in Targets)
        /\ FinishedRenamesAgree'
    BY <1>2, <1>3, <1>4, <1>5, <1>6
       DEF RenameInv, RenameTypeOK, NoEmptyNames, FinishedRenamesAgree
  <1>8. RestingTree'
    <2>1. CASE sweep.apply
      BY <1>1, <1>5, <2>1 DEF RestingTree, Sweeping
    <2>2. CASE ~sweep.apply
      <3>1. names' = names
        BY <2>2 DEF RewriteFile
      <3> QED
        BY <1>3, <2>2, <3>1 DEF RenameInv, RestingTree, Sweeping, Mendable, Mixed, TornFrom
    <2> QED
      BY <2>1, <2>2
  <1>9. SweptTree'
    <2> SUFFICES ASSUME sweep.apply, Mends(sweep)
                 PROVE  /\ TornFrom(sweep.old)
                        /\ package = sweep.old
                        /\ \A f \in (1..Files) \ Docs :
                             IF f < sweep.at + 1 THEN names'[f] = sweep.new
                             ELSE \/ names'[f] = sweep.old
                                  \/ torn # {} /\ f # Script /\ names'[f] = sweep.new
      BY <1>1, <1>3, <1>5 DEF SweptTree, Mends, TornFrom
    <2>1. /\ TornFrom(sweep.old)
          /\ package = sweep.old
          /\ \A f \in (1..Files) \ Docs :
               IF f < sweep.at THEN names[f] = sweep.new
               ELSE names[f] = sweep.old \/ (torn # {} /\ f # Script /\ names[f] = sweep.new)
      BY <1>3 DEF RenameInv, SweptTree
    <2>2. \A f \in 1..Files : f # sweep.at => names'[f] = names[f]
      BY <1>1 DEF RewriteFile
    <2>3. sweep.at \notin Docs => names'[sweep.at] = Rewritten(names[sweep.at], sweep.old, sweep.new)
      BY <1>1 DEF RewriteFile, Swept
    <2>4. torn # {} => ~Found(sweep.old, sweep.new)
      BY <2>1 DEF Mends, TornFrom
    <2>5. sweep.at \notin Docs => names'[sweep.at] = sweep.new
      <3>1. sweep.at \notin Docs =>
              \/ names[sweep.at] = sweep.old
              \/ names[sweep.at] = sweep.new /\ ~Found(sweep.old, sweep.new)
        BY <1>1, <2>1, <2>4
      <3>2. sweep.old \in Seq(STRING) /\ sweep.old # <<>> /\ sweep.new \in Seq(STRING)
        BY <1>1, <1>2
      <3> DEFINE text == names[sweep.at]
      <3> HIDE DEF text
      <3>3. ASSUME text = sweep.old \/ (text = sweep.new /\ ~Found(sweep.old, sweep.new))
            PROVE  Rewritten(text, sweep.old, sweep.new) = sweep.new
        BY <3>2, <3>3, RewrittenAgain
      <3> QED
        BY <2>3, <3>1, <3>3 DEF text
    <2>6. ASSUME NEW f \in (1..Files) \ Docs
          PROVE  IF f < sweep.at + 1 THEN names'[f] = sweep.new
                 ELSE \/ names'[f] = sweep.old
                      \/ torn # {} /\ f # Script /\ names'[f] = sweep.new
      <3>1. CASE f = sweep.at
        BY <1>1, <2>5, <3>1
      <3>2. CASE f # sweep.at
        <4>1. names'[f] = names[f] /\ (f < sweep.at + 1 <=> f < sweep.at)
          BY <1>1, <2>2, <3>2
        <4> QED
          BY <2>1, <4>1
      <3> QED
        BY <3>1, <3>2
    <2> QED
      BY <2>1, <2>6
  <1> QED
    BY <1>7, <1>8, <1>9 DEF RenameInv

LEMMA MovePackageKeeps ==
  ASSUME RenameInv, MovePackage
  PROVE  RenameInv'
  <1> USE RenameAssumption
  <1>1. /\ sweep \in Sweep /\ sweep.state = "running" /\ sweep.at = Files + 1
        /\ sweep' = [sweep EXCEPT !.state = "done"]
        /\ UNCHANGED <<names, runs>>
    <2>1. sweep \in Sweep /\ sweep.at \in 1..(Files + 1)
      BY DEF RenameInv, RenameTypeOK, Sweep
    <2> QED
      BY <2>1 DEF MovePackage
  <1>2. /\ sweep'.old = sweep.old /\ sweep'.new = sweep.new /\ sweep'.apply = sweep.apply
        /\ sweep'.at = sweep.at /\ sweep'.state = "done" /\ sweep' \in Sweep
    BY <1>1 DEF Sweep
  <1>3. RenameTypeOK' /\ NoEmptyNames'
    BY <1>1, <1>2 DEF RenameInv, RenameTypeOK, NoEmptyNames, Sweep, MovePackage
  <1>4. SweptTree' /\ sweep'.state # "running"
    BY <1>2 DEF SweptTree
  <1>5. CASE ~sweep.apply
    <2>1. package' = package /\ torn' = torn
      BY <1>5 DEF MovePackage, TornAfter
    <2>2. RestingTree'
      BY <1>1, <1>2, <1>5, <2>1 DEF RenameInv, RestingTree, Sweeping, Mendable, Mixed, TornFrom
    <2> QED
      BY <1>2, <1>3, <1>4, <1>5, <2>2 DEF RenameInv, FinishedRenamesAgree
  <1>6. CASE sweep.apply /\ Mends(sweep)
    <2>1. /\ package = sweep.old
          /\ \A f \in (1..Files) \ Docs : f < sweep.at => names[f] = sweep.new
      BY <1>1, <1>6 DEF RenameInv, SweptTree
    <2>2. torn' = {} /\ package' = sweep.new
      BY <1>6, <2>1 DEF MovePackage, TornAfter
    <2>3. \A f \in (1..Files) \ Docs : names'[f] = sweep.new
      BY <1>1, <2>1
    <2>4. names'[Script] = sweep.new
      BY <2>3
    <2>5. RestingTree' /\ FinishedRenamesAgree'
      BY <1>2, <2>2, <2>3, <2>4 DEF RestingTree, Mixed, TornFrom, FinishedRenamesAgree, Agrees
    <2> QED
      BY <1>3, <1>4, <2>5 DEF RenameInv
  <1>7. CASE sweep.apply /\ ~Mends(sweep)
    <2>1. [old |-> sweep.old, new |-> sweep.new, late |-> TRUE] \in torn'
      BY <1>7 DEF MovePackage, TornAfter
    <2>2. RestingTree' /\ FinishedRenamesAgree'
      BY <2>1 DEF RestingTree, Mendable, FinishedRenamesAgree
    <2> QED
      BY <1>3, <1>4, <2>2 DEF RenameInv
  <1> QED
    BY <1>5, <1>6, <1>7

LEMMA InterruptRenameKeeps ==
  ASSUME RenameInv, InterruptRename
  PROVE  RenameInv'
  <1> USE RenameAssumption
  <1>1. /\ sweep \in Sweep /\ sweep.state = "running" /\ sweep.at \in 1..(Files + 1)
        /\ sweep' = [sweep EXCEPT !.state = "interrupted"]
        /\ UNCHANGED <<names, package, runs>>
    BY DEF RenameInv, RenameTypeOK, Sweep, InterruptRename
  <1>2. /\ sweep'.state = "interrupted" /\ sweep' \in Sweep
        /\ sweep'.old = sweep.old /\ sweep'.new = sweep.new
    BY <1>1 DEF Sweep
  <1>3. /\ RenameTypeOK' /\ NoEmptyNames' /\ SweptTree' /\ FinishedRenamesAgree'
        /\ sweep'.state # "running"
    BY <1>1, <1>2 DEF RenameInv, RenameTypeOK, NoEmptyNames, SweptTree, FinishedRenamesAgree
  <1>4. RestingTree'
    <2>1. CASE ~(sweep.apply /\ sweep.at > 1)
      <3>1. torn' = torn
        BY <2>1 DEF InterruptRename
      <3> QED
        BY <1>1, <2>1, <3>1 DEF RenameInv, RestingTree, Sweeping, Mendable, Mixed, TornFrom
    <2>2. CASE sweep.apply /\ sweep.at > 1
      <3> DEFINE request == [old |-> sweep.old, new |-> sweep.new, late |-> sweep.at > Script]
      <3>1. torn' = torn \cup {request}
        BY <2>2 DEF InterruptRename
      <3> SUFFICES ASSUME NEW t \in Targets, Mendable(t)'
                   PROVE  Mixed(names[Script], t)'
        BY <1>1 DEF RestingTree
      <3>2. sweep.new = t /\ sweep.at <= Script /\ Mends(sweep)
        <4> HIDE DEF request
        <4>1. request \in torn' /\ torn \subseteq torn'
          BY <3>1
        <4>2. request.new = t /\ ~request.late /\ \A r \in torn : r.new = t /\ ~r.late /\ ~Found(r.old, t)
          BY <4>1 DEF Mendable
        <4>3. sweep.new = t /\ ~(sweep.at > Script)
          BY <4>2 DEF request
        <4> QED
          BY <1>1, <4>2, <4>3 DEF Mends
      <3>3. /\ TornFrom(sweep.old) /\ package = sweep.old
            /\ \A f \in (1..Files) \ Docs :
                 names[f] = sweep.old \/ (f # Script /\ names[f] = sweep.new)
        <4>1. /\ TornFrom(sweep.old) /\ package = sweep.old
              /\ \A f \in (1..Files) \ Docs :
                   IF f < sweep.at THEN names[f] = sweep.new
                   ELSE names[f] = sweep.old \/ (torn # {} /\ f # Script /\ names[f] = sweep.new)
          BY <1>1, <2>2, <3>2 DEF RenameInv, SweptTree
        <4>2. \A f \in 1..Files : f < sweep.at => f # Script
          BY <1>1, <3>2
        <4> QED
          BY <4>1, <4>2
      <3>4. names[Script] = sweep.old /\ torn' # {} /\ \A r \in torn' : r.old = sweep.old
        <4>1. names[Script] = sweep.old
          BY <3>3
        <4>2. request.old = sweep.old
          OBVIOUS
        <4> HIDE DEF request
        <4> QED
          BY <3>1, <3>3, <4>1, <4>2 DEF TornFrom
      <3> QED
        BY <1>1, <3>2, <3>3, <3>4 DEF Mixed, TornFrom
    <2> QED
      BY <2>1, <2>2
  <1> QED
    BY <1>3, <1>4 DEF RenameInv

LEMMA StartRenameKeeps ==
  ASSUME RenameInv, NEW new \in Targets, NEW docs \in BOOLEAN, NEW apply \in BOOLEAN,
         StartRename(new, docs, apply)
  PROVE  RenameInv'
  <1> USE RenameAssumption
  <1>1. /\ sweep' = [old |-> names[Script], new |-> new, docs |-> docs, apply |-> apply,
                      at |-> 1, state |-> "running"]
        /\ UNCHANGED <<names, package, torn>>
        /\ sweep.state # "running"
    BY DEF StartRename
  <1>2. RenameTypeOK' /\ NoEmptyNames'
    <2>1. /\ sweep'.old = names[Script] /\ sweep'.new = new
          /\ new \in Seq(STRING) /\ new # <<>>
      BY <1>1
    <2> QED
      BY <1>1, <2>1 DEF RenameInv, RenameTypeOK, NoEmptyNames, Sweep, StartRename
  <1>3. \A t \in Targets : Mendable(t) => Mixed(names[Script], t)
    BY <1>1 DEF RenameInv, RestingTree, Sweeping
  <1>4. RestingTree'
    BY <1>1, <1>3 DEF RestingTree, Mendable, Mixed, TornFrom
  <1>5. Mends(sweep') => Mendable(new)
    BY <1>1 DEF Mends, Mendable
  <1>6. SweptTree'
    BY <1>1, <1>3 DEF SweptTree, Mends, Mendable, Mixed, TornFrom
  <1> QED
    BY <1>1, <1>2, <1>4, <1>6 DEF RenameInv, FinishedRenamesAgree

(* However renames, previews and interruptions follow one another, a run   *)
(* that reports "Done" over a tree that is not torn has renamed all of it. *)
THEOREM RenamesFinish == Spec => []FinishedRenamesAgree
  <1>1. Init => RenameInv
    BY RenameAssumption
       DEF Init, RenameInit, RenameInv, RenameTypeOK, NoEmptyNames, Sweep, RestingTree, SweptTree,
           Mixed, TornFrom, FinishedRenamesAgree
  <1>2. RenameInv /\ [Next]_vars => RenameInv'
    <2> SUFFICES ASSUME RenameInv, [Next]_vars
                 PROVE  RenameInv'
      OBVIOUS
    <2>1. CASE RenameNext
      BY <2>1, StartRenameKeeps, RewriteFileKeeps, MovePackageKeeps, InterruptRenameKeeps
         DEF RenameNext
    <2>2. CASE UNCHANGED renameVars
      BY <2>2 DEF RenameInv, RenameTypeOK, NoEmptyNames, RestingTree, Sweeping, SweptTree,
                  Mendable, Mends, Mixed, TornFrom, FinishedRenamesAgree, Agrees, renameVars
    <2> QED
      BY <2>1, <2>2 DEF Next, vars, Renaming, Locking, DroppingUi, Evaluating
  <1>3. RenameInv => FinishedRenamesAgree
    BY DEF RenameInv
  <1> QED
    BY <1>1, <1>2, <1>3, PTL DEF Spec

-----------------------------------------------------------------------------
(* eval/run_eval.py: what a green run has scored.                          *)

(* The dataset and the packs are a sample's, or there are none yet.        *)
Contacts ==
  /\ IsList(dataset)
  /\ \A row \in ToSet(dataset) :
       /\ IsList(row.labels)
       /\ \A label \in ToSet(row.labels) :
            label.kind \in {"disclosure", "script_segment", "unconfigured", "absent"}

PacksLoaded ==
  /\ IsList(packs)
  /\ \A pack \in ToSet(packs) :
       /\ IsList(pack.requirements)
       /\ \A requirement \in ToSet(pack.requirements) : IsList(requirement.steps)

EvalInv == Contacts /\ PacksLoaded

LEMMA NothingIsAList == IsList(<<>>) /\ ToSet(<<>>) = {}
  <1>1. ToSet(<<>>) = {}
    BY DEF ToSet
  <1> QED
    BY <1>1 DEF IsList

THEOREM SmokeInvariance == Spec => []EvalInv
  <1>1. Init => EvalInv
    BY NothingIsAList DEF Init, EvalInit, EvalInv, Contacts, PacksLoaded
  <1>2. EvalInv /\ [Next]_vars => EvalInv'
    <2> SUFFICES ASSUME EvalInv, [Next]_vars PROVE EvalInv'
      OBVIOUS
    <2>1. CASE RunSmoke
      <3>1. PICK sample \in Samples : packs' = sample.packs /\ dataset' = sample.dataset
        BY <2>1 DEF RunSmoke
      <3> QED
        BY <3>1, SampleAssumption DEF EvalInv, Contacts, PacksLoaded
    <2>2. CASE UNCHANGED <<dataset, packs>>
      BY <2>2 DEF EvalInv, Contacts, PacksLoaded
    <2>3. RunSmoke \/ UNCHANGED <<dataset, packs>>
      BY DEF Next, vars, Renaming, Locking, DroppingUi, Evaluating, evalVars, EvalNext,
             AskToEvaluate, AskForVerdict, AskAdapter, Asked, RefusePromotion, ChangeSurroundings
    <2> QED
      BY <2>1, <2>2, <2>3
  <1> QED
    BY <1>1, <1>2, PTL DEF Spec

-----------------------------------------------------------------------------
(* What a mean at the bar says of the places it was taken over.            *)

LEMMA DivisionReaches ==
  ASSUME NEW a \in Nat, NEW d \in Nat, d > 0, NEW bar \in Nat, a \div d >= bar
  PROVE  bar * d <= a
  <1> DEFINE q == a \div d
  <1>1. q \in Nat /\ d * q <= a
    OBVIOUS
  <1>2. q >= bar
    OBVIOUS
  <1> HIDE DEF q
  <1>3. d * bar <= d * q
    BY <1>1, <1>2
  <1>4. d * bar \in Nat /\ d * q \in Nat /\ d * bar = bar * d
    BY <1>1
  <1> QED
    BY <1>1, <1>3, <1>4

Reaches(right, scored, bar) ==
  LET n == Cardinality(scored)
      g == Cardinality(right)
      w == Cardinality(scored \ right)
  IN  /\ g \in Nat /\ n \in Nat /\ w \in Nat
      /\ w = n - g /\ n > 0
      /\ bar * (4 * n) <= 40000 * g + 2 * n

LEMMA ShareReaches ==
  ASSUME NEW scored, IsFiniteSet(scored), NEW right \in SUBSET scored,
         NEW bar \in Nat, bar > 0, Share(right, scored) >= bar
  PROVE  Reaches(right, scored, bar)
  <1> DEFINE n == Cardinality(scored)
             g == Cardinality(right)
             w == Cardinality(scored \ right)
  <1>1. IsFiniteSet(right) /\ IsFiniteSet(scored \ right) /\ n \in Nat /\ g \in Nat /\ w \in Nat
    BY FS_Subset, FS_CardinalityType
  <1>2. w = n - g
    <2>1. w = n - Cardinality(scored \cap right)
      BY FS_Difference
    <2>2. scored \cap right = right
      OBVIOUS
    <2> QED
      BY <2>1, <2>2
  <1>3. Share(right, scored) = Mean(2 * g, n)
    BY DEF Share, Unit
  <1> HIDE DEF n, g, w
  <1>4. n # 0
    BY <1>3 DEF Mean
  <1>5. Mean(2 * g, n) = (40000 * g + 2 * n) \div (4 * n)
    <2>1. 2 * Whole * (2 * g) = 40000 * g /\ 2 * Unit * n = 4 * n /\ Unit * n = 2 * n
      BY <1>1 DEF Whole, Unit
    <2> QED
      BY <1>4, <2>1 DEF Mean
  <1>6. 40000 * g + 2 * n \in Nat /\ 4 * n \in Nat /\ 4 * n > 0
    BY <1>1, <1>4
  <1>7. bar * (4 * n) <= 40000 * g + 2 * n
    BY <1>3, <1>5, <1>6, DivisionReaches
  <1>8. n > 0
    BY <1>1, <1>4
  <1> QED
    BY <1>1, <1>2, <1>7, <1>8 DEF n, g, w, Reaches

(* The three bars.                                                         *)
LEMMA WholeShare ==
  ASSUME NEW scored, IsFiniteSet(scored), NEW right \in SUBSET scored,
         Share(right, scored) >= 10000
  PROVE  scored # {} /\ 20000 * Cardinality(scored \ right) <= Cardinality(scored)
  <1> DEFINE n == Cardinality(scored)
             g == Cardinality(right)
             w == Cardinality(scored \ right)
  <1>1. /\ g \in Nat /\ n \in Nat /\ w \in Nat /\ w = n - g /\ n > 0
        /\ 10000 * (4 * n) <= 40000 * g + 2 * n
    <2>1. Reaches(right, scored, 10000)
      BY ShareReaches
    <2> QED
      BY <2>1 DEF Reaches
  <1>2. scored # {}
    BY <1>1, FS_EmptySet
  <1> HIDE DEF n, g, w
  <1>3. 20000 * w <= n
    BY <1>1
  <1> QED
    BY <1>2, <1>3 DEF n, w

LEMMA LargeShare ==
  ASSUME NEW scored, IsFiniteSet(scored), NEW right \in SUBSET scored,
         NEW bar \in Nat, bar >= 9500, Share(right, scored) >= bar
  PROVE  /\ right # {}
         /\ 20000 * Cardinality(scored \ right) <= 1001 * Cardinality(scored)
  <1> DEFINE n == Cardinality(scored)
             g == Cardinality(right)
             w == Cardinality(scored \ right)
  <1>1. /\ g \in Nat /\ n \in Nat /\ w \in Nat /\ w = n - g /\ n > 0
        /\ bar * (4 * n) <= 40000 * g + 2 * n
    <2>1. Reaches(right, scored, bar)
      BY ShareReaches
    <2> QED
      BY <2>1 DEF Reaches
  <1> HIDE DEF n, g, w
  <1>2. 9500 * (4 * n) <= bar * (4 * n)
    BY <1>1
  <1>3. bar * (4 * n) \in Nat
    BY <1>1
  <1>4. 20000 * w <= 1001 * n
    BY <1>1, <1>2, <1>3
  <1>5. g > 0
    BY <1>1, <1>2, <1>3
  <1>6. right # {}
    BY <1>5, FS_EmptySet DEF g
  <1> QED
    BY <1>4, <1>6 DEF n, w

-----------------------------------------------------------------------------
LEMMA PlacesAreFinite == ASSUME Contacts PROVE IsFiniteSet(Places(dataset))
  <1>1. IsFiniteSet(DOMAIN dataset)
    BY FS_Interval DEF Contacts, IsList
  <1> DEFINE of(i) == {i} \X (DOMAIN dataset[i].labels)
             parts == {of(i) : i \in DOMAIN dataset}
  <1>2. \A i \in DOMAIN dataset : IsFiniteSet(of(i))
    <2> SUFFICES ASSUME NEW i \in DOMAIN dataset PROVE IsFiniteSet(of(i))
      OBVIOUS
    <2>1. IsList(dataset[i].labels)
      BY DEF Contacts, ToSet
    <2>2. IsFiniteSet(DOMAIN dataset[i].labels)
      <3> DEFINE labels == dataset[i].labels
      <3>1. labels \in Seq(ToSet(labels))
        BY <2>1 DEF IsList
      <3> HIDE DEF labels
      <3>2. DOMAIN labels = 1..Len(labels) /\ Len(labels) \in Nat
        BY <3>1
      <3>3. IsFiniteSet(DOMAIN labels)
        BY <3>2, FS_Interval
      <3> QED
        BY <3>3 DEF labels
    <2> QED
      BY <2>2, FS_Singleton, FS_Product
  <1>3. IsFiniteSet(parts)
    <2> DEFINE part == [i \in DOMAIN dataset |-> of(i)]
    <2>1. part \in Surjection(DOMAIN dataset, parts)
      BY DEF Surjection
    <2> HIDE DEF part, parts
    <2> QED
      BY <1>1, <2>1, FS_Surjection
  <1>4. IsFiniteSet(UNION parts)
    <2>1. \A part \in parts : IsFiniteSet(part)
      BY <1>2
    <2> QED
      BY <1>3, <2>1, FS_UNION
  <1> QED
    BY <1>4 DEF Places

(* Every label is counted by one metric of the two that compare statuses,  *)
(* one without a finding by both.                                          *)
LEMMA LabelsAreCounted ==
  ASSUME Contacts, NEW p \in Places(dataset)
  PROVE  LabelAt(dataset, p).kind \in {"disclosure", "script_segment", "unconfigured", "absent"}
  <1>1. PICK i \in DOMAIN dataset : p \in {i} \X (DOMAIN dataset[i].labels)
    BY DEF Places
  <1>2. p[1] = i /\ p[2] \in DOMAIN dataset[i].labels
    BY <1>1
  <1>3. dataset[i] \in ToSet(dataset) /\ dataset[i].labels[p[2]] \in ToSet(dataset[i].labels)
    BY <1>2 DEF ToSet
  <1> QED
    BY <1>2, <1>3 DEF Contacts, LabelAt

LEMMA MisreadAreFew ==
  ASSUME Contacts,
         StatusAccuracy(dataset, {"disclosure", "unconfigured"}) >= 9500,
         StatusAccuracy(dataset, {"script_segment"}) >= 9500
  PROVE  /\ 19 * Cardinality(Misread) <= Cardinality(Places(dataset))
         /\ \E p \in Places(dataset) :
              Read(LabelAt(dataset, p)) /\ LabelAt(dataset, p).kind \in {"disclosure", "unconfigured"}
         /\ \E p \in Places(dataset) :
              Read(LabelAt(dataset, p)) /\ LabelAt(dataset, p).kind = "script_segment"
  <1> DEFINE all == Places(dataset)
             label(p) == LabelAt(dataset, p)
             duties == {p \in all : label(p).kind \in {"disclosure", "unconfigured"} \cup {"absent"}}
             segments == {p \in all : label(p).kind \in {"script_segment"} \cup {"absent"}}
             read(places) == {p \in places : Read(label(p))}
             absent == {p \in all : label(p).kind = "absent"}
  <1>1. Share(read(duties), duties) >= 9500 /\ Share(read(segments), segments) >= 9500
    BY DEF StatusAccuracy
  <1>2. IsFiniteSet(all) /\ IsFiniteSet(duties) /\ IsFiniteSet(segments)
    BY PlacesAreFinite, FS_Subset
  <1>3. /\ read(duties) \in SUBSET duties /\ read(segments) \in SUBSET segments
        /\ duties \cup segments = all /\ duties \cap segments = absent
    BY LabelsAreCounted
  <1>4. /\ Misread = (duties \ read(duties)) \cup (segments \ read(segments))
        /\ absent = (duties \ read(duties)) \cap (segments \ read(segments))
    BY LabelsAreCounted DEF Misread, Read
  <1>5. /\ \E p \in all : Read(label(p)) /\ label(p).kind \in {"disclosure", "unconfigured"}
        /\ \E p \in all : Read(label(p)) /\ label(p).kind = "script_segment"
    <2>1. read(duties) # {} /\ read(segments) # {}
      <3> HIDE DEF duties, segments, read
      <3> QED
        BY <1>1, <1>2, <1>3, LargeShare
    <2> QED
      BY <2>1 DEF Read
  <1> DEFINE n == Cardinality(all)
             d == Cardinality(duties)
             s == Cardinality(segments)
             a == Cardinality(absent)
             m == Cardinality(Misread)
             wrongDuties == duties \ read(duties)
             wrongSegments == segments \ read(segments)
             x == Cardinality(wrongDuties)
             y == Cardinality(wrongSegments)
  <1>6. 20000 * x <= 1001 * d /\ 20000 * y <= 1001 * s
    BY <1>1, <1>2, <1>3, LargeShare
  <1>7. n = d + s - a
    BY <1>2, <1>3, FS_Union
  <1>8. m = x + y - a
    <2>1. IsFiniteSet(wrongDuties) /\ IsFiniteSet(wrongSegments)
      BY <1>2, FS_Subset
    <2>2. Misread = wrongDuties \cup wrongSegments /\ absent = wrongDuties \cap wrongSegments
      BY <1>4
    <2> HIDE DEF wrongDuties, wrongSegments, absent
    <2> QED
      BY <2>1, <2>2, FS_Union
  <1>9. n \in Nat /\ d \in Nat /\ s \in Nat /\ a \in Nat /\ m \in Nat /\ x \in Nat /\ y \in Nat
    <2>1. IsFiniteSet(absent) /\ IsFiniteSet(Misread) /\ IsFiniteSet(wrongDuties) /\ IsFiniteSet(wrongSegments)
      BY <1>2, <1>3, <1>4, FS_Subset, FS_Union
    <2> HIDE DEF wrongDuties, wrongSegments, absent, all, duties, segments
    <2> QED
      BY <1>2, <2>1, FS_CardinalityType
  <1> HIDE DEF n, d, s, a, m, x, y
  <1>10. 19 * m <= n
    BY <1>6, <1>7, <1>8, <1>9
  <1> QED
    BY <1>5, <1>10 DEF m, n

LEMMA PacksAreFindable ==
  ASSUME PacksLoaded, NEW i \in DOMAIN packs, WellFormed(packs[i])
  PROVE  Findable(packs[i])
  <1> DEFINE pack == packs[i]
             requirements == pack.requirements
  <1>1. /\ IsList(requirements)
        /\ \A requirement \in ToSet(requirements) : IsList(requirement.steps)
    BY DEF PacksLoaded, ToSet
  <1>2. \A j \in DOMAIN requirements :
          /\ RequirementIsSound(requirements[j])
          /\ \A k \in 1..(j - 1) : requirements[k].id # requirements[j].id
    BY DEF WellFormed
  <1> HIDE DEF requirements
  <1>3. DOMAIN requirements = 1..Len(requirements) /\ Len(requirements) \in Nat
    BY <1>1 DEF IsList
  <1>4. ASSUME NEW requirement \in ToSet(requirements)
        PROVE  /\ \E step \in ToSet(requirement.steps) :
                    \E wording \in ToSet(step) : wording.required /\ ~wording.blank
               /\ Cardinality({j \in DOMAIN requirements : requirements[j].id = requirement.id}) = 1
    <2>1. PICK k \in DOMAIN requirements : requirement = requirements[k]
      BY DEF ToSet
    <2>2. {j \in DOMAIN requirements : requirements[j].id = requirement.id} = {k}
      <3>1. ASSUME NEW j \in DOMAIN requirements, requirements[j].id = requirement.id PROVE j = k
        <4>1. j \in 1..Len(requirements) /\ k \in 1..Len(requirements)
          BY <1>3
        <4>2. ~(j < k)
          BY <1>2, <1>3, <2>1, <3>1
        <4>3. ~(k < j)
          BY <1>2, <1>3, <2>1, <3>1
        <4> QED
          BY <1>3, <4>1, <4>2, <4>3
      <3> QED
        BY <2>1, <3>1
    <2>3. Cardinality({j \in DOMAIN requirements : requirements[j].id = requirement.id}) = 1
      BY <2>2, FS_Singleton
    <2> DEFINE steps == requirement.steps
    <2>4. /\ steps # <<>> /\ IsList(steps)
          /\ \A l \in DOMAIN steps : StepIsSound(steps[l])
      BY <1>1, <1>2, <2>1 DEF RequirementIsSound
    <2> HIDE DEF steps
    <2>5. 1 \in DOMAIN steps
      BY <2>4 DEF IsList
    <2>6. PICK w \in DOMAIN steps[1] : steps[1][w].required /\ ~steps[1][w].blank
      BY <2>4, <2>5 DEF StepIsSound
    <2>7. steps[1] \in ToSet(steps) /\ steps[1][w] \in ToSet(steps[1])
      BY <2>5, <2>6 DEF ToSet
    <2> QED
      BY <2>3, <2>6, <2>7 DEF steps
  <1> QED
    BY <1>4 DEF Findable, requirements

LEMMA ThresholdsAre ==
  ASSUME Passes(Report)
  PROVE  /\ PackSchemaValidity >= 10000
         /\ StatusAccuracy(dataset, {"disclosure", "unconfigured"}) >= 9500
         /\ StatusAccuracy(dataset, {"script_segment"}) >= 9500
         /\ CitationAccuracy(dataset) >= 9900
         /\ ReviewSafety(dataset) >= 10000
         /\ PiiSafety(dataset) >= 9900
  BY DEF Passes, Report, Thresholds

(* For any dataset and any packs: a green run misreads no more than its    *)
(* thresholds round away, the obligations without a finding included, and  *)
(* lets nothing leak.                                                      *)
THEOREM GreenAgrees == Spec => []GreenMeansAgreed
  <1>1. EvalInv => GreenMeansAgreed
    <2> SUFFICES ASSUME EvalInv, Green PROVE GreenMeansAgreed
      BY DEF GreenMeansAgreed
    <2>1. Contacts /\ Passes(Report)
      BY DEF EvalInv, Green
    <2>2. 19 * Cardinality(Misread) <= Cardinality(Places(dataset))
      BY <2>1, ThresholdsAre, MisreadAreFew
    <2>3. 20000 * Cardinality({i \in DOMAIN dataset : ~Handled(dataset[i])}) <= Len(dataset)
      <3> DEFINE handled == {i \in DOMAIN dataset : Handled(dataset[i])}
                 places == DOMAIN dataset
      <3>1. places = 1..Len(dataset) /\ Len(dataset) \in Nat
        BY <2>1 DEF Contacts, IsList
      <3>2. IsFiniteSet(places) /\ Cardinality(places) = Len(dataset)
        <4> DEFINE l == Len(dataset)
        <4>1. places = 1..l /\ l \in Nat
          BY <3>1
        <4> HIDE DEF places, l
        <4>2. IsFiniteSet(1..l) /\ Cardinality(1..l) = l
          BY <4>1, FS_Interval
        <4>3. IsFiniteSet(places) /\ Cardinality(places) = l
          BY <4>1, <4>2
        <4> QED
          BY <4>3 DEF l
      <3>3. Share(handled, places) >= 10000
        BY <2>1, ThresholdsAre DEF ReviewSafety
      <3>4. {i \in DOMAIN dataset : ~Handled(dataset[i])} = places \ handled /\ handled \in SUBSET places
        OBVIOUS
      <3>5. 20000 * Cardinality(places \ handled) <= Cardinality(places)
        <4> HIDE DEF handled, places
        <4> QED
          BY <3>2, <3>3, <3>4, WholeShare
      <3>6. Cardinality({i \in DOMAIN dataset : ~Handled(dataset[i])}) = Cardinality(places \ handled)
        BY <3>4
      <3> HIDE DEF handled, places
      <3> QED
        BY <3>2, <3>5, <3>6
    <2>4. \A i \in DOMAIN dataset : dataset[i].leaks = {}
      BY <2>1, ThresholdsAre DEF PiiSafety
    <2> QED
      BY <2>2, <2>3, <2>4 DEF GreenMeansAgreed
  <1> QED
    BY <1>1, SmokeInvariance, PTL

(* For any dataset and any packs: no metric is green for having nothing to *)
(* score.                                                                  *)
THEOREM GreenMeasures == Spec => []GreenIsMeasured
  <1>1. EvalInv => GreenIsMeasured
    <2> SUFFICES ASSUME EvalInv, Green PROVE GreenIsMeasured
      BY DEF GreenIsMeasured
    <2>1. Contacts /\ PacksLoaded /\ Passes(Report)
      BY DEF EvalInv, Green
    <2>2. /\ \E p \in Places(dataset) :
               Read(LabelAt(dataset, p)) /\ LabelAt(dataset, p).kind \in {"disclosure", "unconfigured"}
          /\ \E p \in Places(dataset) :
               Read(LabelAt(dataset, p)) /\ LabelAt(dataset, p).kind = "script_segment"
      BY <2>1, ThresholdsAre, MisreadAreFew
    <2>3. \E p \in Places(dataset) : Cites(LabelAt(dataset, p))
      <3> DEFINE quoted == {p \in Places(dataset) : LabelAt(dataset, p).quote # "none"}
                 cited == {p \in quoted : Cites(LabelAt(dataset, p))}
      <3>1. IsFiniteSet(quoted)
        BY <2>1, PlacesAreFinite, FS_Subset
      <3>2. Share(cited, quoted) >= 9900 /\ cited \in SUBSET quoted
        BY <2>1, ThresholdsAre DEF CitationAccuracy
      <3>3. cited # {}
        <4> HIDE DEF quoted, cited
        <4> QED
          BY <3>1, <3>2, LargeShare
      <3> QED
        BY <3>3
    <2>4. packs # <<>> /\ 20000 * Cardinality({i \in DOMAIN packs : ~Findable(packs[i])}) <= Len(packs)
      <3> DEFINE sound == {i \in DOMAIN packs : WellFormed(packs[i])}
                 places == DOMAIN packs
                 lost == {i \in DOMAIN packs : ~Findable(packs[i])}
      <3>1. places = 1..Len(packs) /\ Len(packs) \in Nat
        BY <2>1 DEF PacksLoaded, IsList
      <3>2. IsFiniteSet(places) /\ Cardinality(places) = Len(packs)
        <4> DEFINE l == Len(packs)
        <4>1. places = 1..l /\ l \in Nat
          BY <3>1
        <4> HIDE DEF places, l
        <4>2. IsFiniteSet(1..l) /\ Cardinality(1..l) = l
          BY <4>1, FS_Interval
        <4>3. IsFiniteSet(places) /\ Cardinality(places) = l
          BY <4>1, <4>2
        <4> QED
          BY <4>3 DEF l
      <3>3. Share(sound, places) >= 10000
        BY <2>1, ThresholdsAre DEF PackSchemaValidity
      <3>4. lost \in SUBSET (places \ sound) /\ sound \in SUBSET places
        BY <2>1, PacksAreFindable
      <3>5. places # {} => packs # <<>>
        BY <3>1
      <3> HIDE DEF sound, places, lost
      <3>6. places # {} /\ 20000 * Cardinality(places \ sound) <= Cardinality(places)
        BY <3>2, <3>3, <3>4, WholeShare
      <3>7. IsFiniteSet(places \ sound)
        BY <3>2, FS_Subset
      <3>8. /\ Cardinality(lost) <= Cardinality(places \ sound)
            /\ Cardinality(lost) \in Nat /\ Cardinality(places \ sound) \in Nat
        BY <3>4, <3>7, FS_Subset, FS_CardinalityType
      <3>9. 20000 * Cardinality(lost) <= Len(packs)
        BY <3>2, <3>6, <3>8
      <3> QED
        BY <3>5, <3>6, <3>9 DEF lost
    <2> QED
      BY <2>2, <2>3, <2>4 DEF GreenIsMeasured
  <1> QED
    BY <1>1, SmokeInvariance, PTL
===============================================================================
