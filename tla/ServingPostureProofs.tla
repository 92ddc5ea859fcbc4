------------------------- MODULE ServingPostureProofs -------------------------
(***************************************************************************)
(* Proofs about ServingPosture, for any environments and any files.  The   *)
(* properties speak of the latest answer; the invariant says where an      *)
(* answer comes from: the guard from the file the import read, the         *)
(* container from a file that loads, and the answer from both.             *)
(***************************************************************************)
EXTENDS ServingPosture, TLAPS

(* The guard of a serving process is the one its import computed.          *)
GuardIsOfBoot ==
  process = "serving" => guarded = ~EndUserAuthenticated(env, booted)

(* A container belongs to a serving process and was built of settings that *)
(* load.                                                                   *)
ContainerLoads ==
  container # None => process = "serving" /\ Loads(env, container)

(* The latest answer is the one its request gets in this very state.       *)
AnswerHere(q) ==
  \/ /\ Confines(env, guarded, q.peer)
     /\ last = AnswerOf(q, <<"confined", "nobody">>)
  \/ /\ ~Confines(env, guarded, q.peer)
     /\ \/ q.route = "docs" /\ last = AnswerOf(q, Docs(env))
        \/ q.route = "audit_ping" /\ last = AnswerOf(q, ServiceCaller(env, q.credential))
        \/ /\ q.route \notin {"docs", "audit_ping"}
           /\ last = AnswerOf(q, IF container = None
                                   THEN <<"error", "nobody">>
                                   ELSE Handle(env, container, q))

AnswerIsOfState ==
  last # None => process = "serving" /\ \E q \in Request : AnswerHere(q)

PostureInv == TypeOK /\ GuardIsOfBoot /\ ContainerLoads /\ AnswerIsOfState

-----------------------------------------------------------------------------
(* Every route answers one of the outcomes, to one of the callers.         *)
LEMMA AnswersAreTyped ==
  ASSUME NEW q \in Request, NEW e \in Environment, NEW f \in SettingsFile
  PROVE  /\ AnswerOf(q, <<"confined", "nobody">>) \in Answer
         /\ AnswerOf(q, <<"error", "nobody">>) \in Answer
         /\ AnswerOf(q, Docs(e)) \in Answer
         /\ AnswerOf(q, ServiceCaller(e, q.credential)) \in Answer
         /\ AnswerOf(q, Handle(e, f, q)) \in Answer
  <1>1. /\ <<"confined", "nobody">> \in Outcomes \X Callers
        /\ <<"error", "nobody">> \in Outcomes \X Callers
        /\ Docs(e) \in Outcomes \X Callers
        /\ ServiceCaller(e, q.credential) \in Outcomes \X Callers
    BY DEF Outcomes, Callers, Docs, ServiceCaller
  <1>2. Resolve(e, f.identity, q.credential) \in Outcomes \X Callers
    BY DEF Outcomes, Callers, Resolve, ResolveAssertion, SettingsFile, IdentityAdapters
  <1>3. Personas(e, f.identity) \in Outcomes \X Callers
    BY DEF Outcomes, Callers, Personas
  <1>4. Handle(e, f, q) \in Outcomes \X Callers
    BY <1>2, <1>3 DEF Handle, Outcomes, Callers
  <1>5. \A result \in Outcomes \X Callers : AnswerOf(q, result) \in Answer
    BY DEF AnswerOf, Answer
  <1> QED
    BY <1>1, <1>4, <1>5

(* The step half of the invariant, action by action.                       *)
LEMMA PostureStep == PostureInv /\ [Next]_vars => PostureInv'
  <1> SUFFICES ASSUME PostureInv, [Next]_vars
               PROVE  PostureInv'
    OBVIOUS
  <1> USE PostureAssumption
  <1>1. CASE Boot
    <2>1. TypeOK'
      BY <1>1 DEF PostureInv, TypeOK, Boot
    <2>2. GuardIsOfBoot' /\ ContainerLoads' /\ AnswerIsOfState'
      BY <1>1 DEF PostureInv, GuardIsOfBoot, ContainerLoads, AnswerIsOfState, Boot
    <2> QED
      BY <2>1, <2>2 DEF PostureInv
  <1>2. CASE RefuseToBoot
    BY <1>2 DEF PostureInv, TypeOK, GuardIsOfBoot, ContainerLoads, AnswerIsOfState,
                RefuseToBoot
  <1>3. ASSUME NEW e \in Environments, Redeploy(e)
        PROVE  PostureInv'
    BY <1>3 DEF PostureInv, TypeOK, GuardIsOfBoot, ContainerLoads, AnswerIsOfState,
                Redeploy
  <1>4. ASSUME NEW f \in Files, EditFile(f)
        PROVE  PostureInv'
    BY <1>4 DEF PostureInv, TypeOK, GuardIsOfBoot, ContainerLoads, AnswerIsOfState,
                EditFile
  <1>5. ASSUME NEW q \in Request, Confine(q)
        PROVE  PostureInv'
    <2>1. TypeOK'
      BY <1>5, AnswersAreTyped DEF PostureInv, TypeOK, Confine
    <2>2. GuardIsOfBoot' /\ ContainerLoads'
      BY <1>5 DEF PostureInv, GuardIsOfBoot, ContainerLoads, Confine
    <2>3. AnswerHere(q)'
      BY <1>5 DEF AnswerHere, Confine
    <2> QED
      BY <1>5, <2>1, <2>2, <2>3 DEF PostureInv, AnswerIsOfState, Confine
  <1>6. ASSUME NEW q \in Request, AnswerWithoutContainer(q)
        PROVE  PostureInv'
    <2>1. TypeOK'
      BY <1>6, AnswersAreTyped DEF PostureInv, TypeOK, AnswerWithoutContainer
    <2>2. GuardIsOfBoot' /\ ContainerLoads'
      BY <1>6 DEF PostureInv, GuardIsOfBoot, ContainerLoads, AnswerWithoutContainer
    <2>3. AnswerHere(q)'
      BY <1>6 DEF AnswerHere, AnswerWithoutContainer
    <2> QED
      BY <1>6, <2>1, <2>2, <2>3 DEF PostureInv, AnswerIsOfState, AnswerWithoutContainer
  <1>7. ASSUME NEW q \in Request, AnswerFromContainer(q)
        PROVE  PostureInv'
    <2>1. container' \in Files \cup {None} /\ container' = Contained
      BY <1>7 DEF PostureInv, TypeOK, AnswerFromContainer, Contained, Cached
    <2>2. last' \in Answer
      BY <1>7, <2>1, AnswersAreTyped DEF PostureInv, TypeOK, AnswerFromContainer
    <2>3. TypeOK'
      BY <1>7, <2>1, <2>2 DEF PostureInv, TypeOK, AnswerFromContainer
    <2>4. GuardIsOfBoot'
      BY <1>7 DEF PostureInv, GuardIsOfBoot, AnswerFromContainer
    <2>5. ContainerLoads'
      BY <1>7, <2>1 DEF PostureInv, ContainerLoads, AnswerFromContainer, Contained, Cached
    <2>6. AnswerHere(q)'
      BY <1>7, <2>1 DEF AnswerHere, AnswerFromContainer
    <2> QED
      BY <1>7, <2>3, <2>4, <2>5, <2>6 DEF PostureInv, AnswerIsOfState, AnswerFromContainer
  <1>8. CASE UNCHANGED vars
    BY <1>8 DEF PostureInv, TypeOK, GuardIsOfBoot, ContainerLoads, AnswerIsOfState,
                AnswerHere, vars
  <1> QED
    BY <1>1, <1>2, <1>3, <1>4, <1>5, <1>6, <1>7, <1>8 DEF Next

LEMMA PostureInvariant == Spec => []PostureInv
  <1>1. Init => PostureInv
    BY DEF Init, PostureInv, TypeOK, GuardIsOfBoot, ContainerLoads, AnswerIsOfState
  <1> QED
    BY <1>1, PostureStep, PTL DEF Spec

(* Every variable keeps its type.                                          *)
THEOREM PostureTyped == Spec => []TypeOK
  BY PostureInvariant, PTL DEF PostureInv

-----------------------------------------------------------------------------
(* An unconfined process read, at its import, settings that load under a   *)
(* chosen profile and an adapter that declares it verifies.  Whatever      *)
(* adapter the container holds serves nobody else if it declares so too,   *)
(* and a container that declares less was built from another file.         *)
THEOREM LanVerified == Spec => []LanUsersAreVerified
  <1>1. PostureInv => LanUsersAreVerified
    <2> SUFFICES ASSUME PostureInv, last # None, last.request.peer = "lan",
                        last.request.route = "scorecards", last.outcome = "served",
                        ~env.insecure
                 PROVE  /\ env.profile # "unset"
                        /\ Loads(env, booted) /\ Declared(booted.identity) = "verified"
                        /\ \/ /\ last.as = "verified"
                              /\ last.request.credential = "assertion"
                           \/ /\ container # booted
                              /\ Declared(container.identity) = "client-asserted"
      BY DEF LanUsersAreVerified
    <2>1. PICK q \in Request : AnswerHere(q)
      BY DEF PostureInv, AnswerIsOfState
    <2>2. q = last.request
      BY <2>1 DEF AnswerHere, AnswerOf
    <2>3. ~guarded
      BY <2>1, <2>2 DEF AnswerHere, AnswerOf, Confines, PostureInv, TypeOK
    <2>4. EndUserAuthenticated(env, booted)
      BY <2>3 DEF PostureInv, GuardIsOfBoot, AnswerIsOfState
    <2>5. env.profile # "unset" /\ Loads(env, booted) /\ Declared(booted.identity) = "verified"
      BY <2>4 DEF EndUserAuthenticated, EndUserAuthKind, Chosen
    <2>6. container # None /\ last = AnswerOf(q, Resolve(env, container.identity, q.credential))
      BY <2>1, <2>2, <2>3 DEF AnswerHere, AnswerOf, Handle, Confines
    <2>7. /\ Resolve(env, container.identity, q.credential)[1] = "served"
          /\ last.as = Resolve(env, container.identity, q.credential)[2]
      BY <2>6 DEF AnswerOf
    <2>8. container.identity \in IdentityAdapters
      BY <2>6, PostureAssumption DEF PostureInv, TypeOK, SettingsFile
    <2>9. CASE container.identity = "iap"
      BY <2>2, <2>5, <2>7, <2>9 DEF Resolve, ResolveAssertion
    <2>10. CASE container.identity = "client_idp"
      BY <2>2, <2>5, <2>7, <2>10 DEF Resolve
    <2>11. CASE container.identity \in {"personas", "undeclared"}
      BY <2>5, <2>11 DEF Declared
    <2>12. container.identity \notin {"placeholder", "unimportable"}
      BY <2>7 DEF Resolve
    <2> QED
      BY <2>8, <2>9, <2>10, <2>11, <2>12 DEF IdentityAdapters
  <1> QED
    BY <1>1, PostureInvariant, PTL

(* A persona is served only by the adapter that refuses to construct under *)
(* any other profile.                                                      *)
THEOREM PersonasChosen == Spec => []PersonasNeedAChosenLocal
  <1>1. PostureInv => PersonasNeedAChosenLocal
    <2> SUFFICES ASSUME PostureInv, last # None, last.as = "persona"
                 PROVE  env.profile = "local"
      BY DEF PersonasNeedAChosenLocal
    <2>1. PICK q \in Request : AnswerHere(q)
      BY DEF PostureInv, AnswerIsOfState
    <2>2. /\ container # None
          /\ last = AnswerOf(q, Handle(env, container, q))
      BY <2>1 DEF AnswerHere, AnswerOf, Docs, ServiceCaller
    <2>3. Handle(env, container, q)[2] = "persona"
      BY <2>2 DEF AnswerOf
    <2>4. PersonasConstruct(env)
      BY <2>3 DEF Handle, Resolve, ResolveAssertion, Personas
    <2> QED
      BY <2>4 DEF PersonasConstruct, ProfileOf, Chosen
  <1> QED
    BY <1>1, PostureInvariant, PTL

(* An unset profile is no consent: the guard is up whatever is bound, and  *)
(* each relaxation asks for a chosen profile of its own.                   *)
THEOREM UnchosenIsNoConsent == Spec => []UnchosenPostureIsNoConsent
  <1>1. PostureInv /\ PersonasNeedAChosenLocal => UnchosenPostureIsNoConsent
    <2> SUFFICES ASSUME PostureInv, PersonasNeedAChosenLocal,
                        last # None, env.profile = "unset"
                 PROVE  /\ last.as # "persona"
                        /\ last.outcome = "served" =>
                             last.request.route \notin {"docs", "audit_ping"}
                        /\ (last.request.peer = "lan" /\ ~env.insecure) =>
                             last.outcome = "confined"
      BY DEF UnchosenPostureIsNoConsent
    <2>1. PICK q \in Request : AnswerHere(q)
      BY DEF PostureInv, AnswerIsOfState
    <2>2. q = last.request
      BY <2>1 DEF AnswerHere, AnswerOf
    <2>3. guarded = TRUE
      BY DEF PostureInv, AnswerIsOfState, GuardIsOfBoot, EndUserAuthenticated, Chosen
    <2>4. last.as # "persona"
      BY DEF PersonasNeedAChosenLocal
    <2>5. (last.request.peer = "lan" /\ ~env.insecure) => last.outcome = "confined"
      BY <2>1, <2>2, <2>3 DEF AnswerHere, AnswerOf, Confines
    <2>6. last.outcome = "served" => last.request.route \notin {"docs", "audit_ping"}
      BY <2>1, <2>2 DEF AnswerHere, AnswerOf, Docs, ServiceCaller, Chosen
    <2> QED
      BY <2>4, <2>5, <2>6
  <1> QED
    BY <1>1, PersonasChosen, PostureInvariant, PTL

(* The managed adapter asks for the audience before it looks at a          *)
(* credential and for the verifier after, and the others answer every      *)
(* credential alike or take a good one.                                    *)
THEOREM RefusalsSayWhose == Spec => []RefusalsNameWhoIsAtFault
  <1>1. PostureInv => RefusalsNameWhoIsAtFault
    <2> SUFFICES ASSUME PostureInv, last # None, last.request.route = "scorecards",
                        last.outcome \in {"unavailable", "refused"}
                 PROVE  /\ last.outcome = "unavailable" => ~SomebodyCouldBeServed
                        /\ last.outcome = "refused" =>
                             \/ SomebodyCouldBeServed
                             \/ container.identity = "personas" /\ env.profile # "local"
                             \/ /\ ~env.sdk
                                /\ last.request.credential \notin
                                     Assertions \ {"blank", "unpinned"}
      BY DEF RefusalsNameWhoIsAtFault
    <2>1. PICK q \in Request : AnswerHere(q)
      BY DEF PostureInv, AnswerIsOfState
    <2>2. q = last.request
      BY <2>1 DEF AnswerHere, AnswerOf
    <2>3. container # None /\ last = AnswerOf(q, Handle(env, container, q))
      BY <2>1, <2>2 DEF AnswerHere, AnswerOf
    <2>4. last.outcome = Resolve(env, container.identity, q.credential)[1]
      BY <2>2, <2>3 DEF AnswerOf, Handle
    <2>5. container.identity \in IdentityAdapters
      BY <2>3, PostureAssumption DEF PostureInv, TypeOK, SettingsFile
    <2>6. "assertion" \in Credentials
      BY DEF Credentials, Assertions
    <2>7. CASE container.identity = "iap"
      <3>1. \A c : Resolve(env, container.identity, c) = ResolveAssertion(env, c)
        BY <2>7 DEF Resolve
      <3>2. CASE env.audience = "unset"
        <4>1. \A c : Resolve(env, container.identity, c)[1] = "unavailable"
          BY <3>1, <3>2 DEF ResolveAssertion
        <4> QED
          BY <2>4, <4>1 DEF SomebodyCouldBeServed
      <3>3. CASE env.audience # "unset" /\ ~env.sdk
        <4>1. \A c : Resolve(env, container.identity, c)[1] # "served"
          BY <3>1, <3>3 DEF ResolveAssertion
        <4>2. last.outcome = "refused" => q.credential \notin Assertions \ {"blank", "unpinned"}
          <5>1. ResolveAssertion(env, q.credential)[1] = last.outcome
            BY <2>4, <3>1
          <5>2. q.credential \in Assertions \ {"blank", "unpinned"} =>
                  ResolveAssertion(env, q.credential) = <<"unavailable", "nobody">>
            BY <3>3 DEF ResolveAssertion
          <5> QED
            BY <5>1, <5>2
        <4> QED
          BY <2>2, <3>3, <4>1, <4>2 DEF SomebodyCouldBeServed
      <3>4. CASE env.audience # "unset" /\ env.sdk
        <4>1. Resolve(env, container.identity, "assertion")[1] = "served"
          BY <3>1, <3>4 DEF ResolveAssertion, Assertions
        <4>2. last.outcome = "refused"
          BY <2>4, <3>1, <3>4 DEF ResolveAssertion
        <4> QED
          BY <2>6, <4>1, <4>2 DEF SomebodyCouldBeServed
      <3> QED
        BY <3>2, <3>3, <3>4
    <2>8. CASE container.identity = "placeholder"
      <3>1. \A c : Resolve(env, container.identity, c)[1] = "unavailable"
        BY <2>8 DEF Resolve
      <3> QED
        BY <2>4, <3>1 DEF SomebodyCouldBeServed
    <2>9. CASE container.identity = "client_idp"
      <3>1. Resolve(env, container.identity, "assertion")[1] = "served"
            /\ last.outcome # "unavailable"
        BY <2>4, <2>9 DEF Resolve
      <3> QED
        BY <2>6, <3>1 DEF SomebodyCouldBeServed
    <2>10. CASE container.identity = "personas"
      BY <2>4, <2>10 DEF Resolve, PersonasConstruct, ProfileOf, Chosen
    <2>11. container.identity \notin {"undeclared", "unimportable"}
      BY <2>4 DEF Resolve
    <2> QED
      BY <2>5, <2>7, <2>8, <2>9, <2>10, <2>11 DEF IdentityAdapters
  <1> QED
    BY <1>1, PostureInvariant, PTL

(* A failure is never kept: the step that answers an error found the        *)
(* settings refusing to load, or a container whose adapter cannot be        *)
(* imported.                                                                *)
THEOREM RepairSuffices == Spec => RepairNeedsNoRestart
  <1> DEFINE Answered == /\ last' # last
                         /\ last' # None
                         /\ last'.outcome = "error"
             Explained == \/ ~Loads(env, file)
                          \/ container' # None /\ container'.identity = "unimportable"
  <1>1. ASSUME PostureInv, [Next]_vars, Answered
        PROVE  Explained
    <2>1. PICK q \in Request :
            \/ Confine(q)
            \/ AnswerWithoutContainer(q)
            \/ AnswerFromContainer(q)
      BY <1>1 DEF Next, vars, Boot, RefuseToBoot, Redeploy, EditFile
    <2>2. AnswerFromContainer(q)
      BY <1>1, <2>1 DEF Confine, AnswerWithoutContainer, AnswerOf, Docs, ServiceCaller
    <2>3. CASE Contained = None
      BY <1>1, <2>3, PostureAssumption DEF Contained, Cached, PostureInv, TypeOK
    <2>4. CASE Contained # None
      <3>1. Handle(env, container', q)[1] = "error" /\ container' # None
        BY <1>1, <2>2, <2>4 DEF AnswerFromContainer, AnswerOf
      <3> QED
        BY <3>1 DEF Handle, Resolve, ResolveAssertion, Personas
    <2> QED
      BY <2>3, <2>4
  <1>2. PostureInv /\ [Next]_vars => [Answered => Explained]_vars
    BY <1>1
  <1> QED
    BY <1>2, PostureInvariant, PTL DEF Spec, RepairNeedsNoRestart
=============================================================================
