---------------------------- MODULE ServingPosture ----------------------------
(***************************************************************************)
(* What one API process decides about itself, and when.  It reads its      *)
(* configuration three times:                                              *)
(*                                                                         *)
(*   - at import, the profile variable (a bad one ends the process);       *)
(*   - at import, the settings, to learn what the bound identity adapter   *)
(*     declares: this fixes the exposure guard, and a failure is swallowed *)
(*     into the confined answer;                                           *)
(*   - at the first request that needs it, the settings again: the         *)
(*     container built from them is kept, a failure is not.                *)
(*                                                                         *)
(* The environment of a process never changes; its settings file may, at   *)
(* any moment.  The exposure guard, the service-caller scheme and the      *)
(* seeded personas are the commons kit's.                                  *)
(***************************************************************************)
EXTENDS Naturals

CONSTANTS
  Environments,  \* the environments a deployment may run the process with
  Files,         \* the contents its settings file may have
  None           \* no container yet; no answer yet

KnownProfiles == {"local", "gcp", "onprem"}

(* A switch as boolean_setting finds it: unset, a boolean, or neither.     *)
SwitchReadings == {"unset", "on", "off", "emptied", "unrecognised"}

(* The identity adapters a file may bind for the profile: the three shipped *)
(* ones, a client's own that declares it verifies, one that declares        *)
(* nothing, and a target that cannot be imported.                           *)
IdentityAdapters ==
  {"personas", "iap", "placeholder", "client_idp", "undeclared", "unimportable"}

(* sdk: can the managed assertion verifier be imported?                    *)
Environment ==
  [profile : KnownProfiles \cup {"unset", "emptied", "unknown"},
   routing : SwitchReadings, guardrail : SwitchReadings,
   audience : {"unset", "emptied", "set"},
   sdk : BOOLEAN, token : BOOLEAN, insecure : BOOLEAN]

(* parses: readable, a mapping, a whole adapters block.  console: it names  *)
(* the review console.  screen: the guardrail bound is Model Armor with or  *)
(* without a template, or another one.                                      *)
SettingsFile ==
  [parses : BOOLEAN, identity : IdentityAdapters, console : BOOLEAN,
   screen : {"armor", "armor_unnamed", "other"}]

ASSUME PostureAssumption ==
  /\ Environments \subseteq Environment
  /\ Files \subseteq SettingsFile
  /\ None \notin Files

Peers       == {"loopback", "lan"}
Routes      == {"healthz", "personas", "scorecards", "audit_ping", "docs"}

(* An assertion by the first thing about it that is wrong: its header is   *)
(* blank, its algorithm is not the pinned one, its signature, audience or  *)
(* expiry is, or its issuer or one of the claims; "assertion" is a good one.*)
Assertions  == {"blank", "unpinned", "forged", "stranger", "assertion"}
Credentials == {"none", "persona", "service"} \cup Assertions

(* Only two routes look at a credential.                                   *)
Request ==
  {q \in [peer : Peers, route : Routes, credential : Credentials] :
     q.route \in {"scorecards", "audit_ping"} \/ q.credential = "none"}

(* confined: the guard's 503.  error: a 500.  refused: a 401.  unavailable: *)
(* the 501 or 503 of a deployment that can authenticate nobody.             *)
Outcomes == {"served", "confined", "error", "refused", "unavailable", "absent"}
Callers  == {"nobody", "persona", "asserted", "verified"}

Answer == [request : Request, outcome : Outcomes, as : Callers]

VARIABLES
  env,        \* the process's environment
  file,       \* the settings file as it is now
  process,    \* "down", "serving", or "dead" when the import failed
  booted,     \* the settings file as the import read it
  guarded,    \* is the exposure guard up?
  container,  \* the settings the cached container was built from
  last        \* the latest answer

vars == <<env, file, process, booted, guarded, container, last>>

TypeOK ==
  /\ env \in Environments
  /\ file \in Files
  /\ process \in {"down", "serving", "dead"}
  /\ booted \in Files
  /\ guarded \in BOOLEAN
  /\ container \in Files \cup {None}
  /\ last \in Answer \cup {None}

-----------------------------------------------------------------------------
(* Slip: an unset profile is read as a deliberate local one.               *)
ChosenByDefault(e) == TRUE

(* ProfileChoice: unset binds the local family, but nobody chose it.       *)
Chosen(e) == e.profile # "unset"

ProfileOf(e) == IF Chosen(e) THEN e.profile ELSE "local"

ResolvesProfile(e) == e.profile \in KnownProfiles \cup {"unset"}

SwitchReads(reading) == reading \notin {"emptied", "unrecognised"}

SwitchOn(reading) == reading \in {"unset", "on"}

(* A control that is on under the managed profile must be able to work.    *)
ControlsUnworkable(e, f) ==
  /\ ProfileOf(e) = "gcp"
  /\ \/ SwitchOn(e.routing) /\ ~f.console
     \/ SwitchOn(e.guardrail) /\ f.screen = "armor_unnamed"

(* ${VAR:-default} in the file: unset takes the default, set to nothing is *)
(* a refusal.                                                              *)
Expands(e) == e.audience # "emptied"

(* Settings.load returns rather than raises.                               *)
Loads(e, f) ==
  /\ f.parses
  /\ Expands(e)
  /\ SwitchReads(e.routing)
  /\ SwitchReads(e.guardrail)
  /\ ~ControlsUnworkable(e, f)

(* declared_end_user_auth: silence is a client-asserted identity.          *)
Declared(adapter) ==
  CASE adapter \in {"iap", "client_idp"} -> "verified"
    [] adapter = "placeholder"           -> "unimplemented"
    [] OTHER                             -> "client-asserted"

(* Every failure to establish the answer is the confined answer.           *)
EndUserAuthKind(e, f) ==
  IF Loads(e, f) /\ f.identity # "unimportable"
    THEN Declared(f.identity)
    ELSE "client-asserted"

(* Slip: a service token stands the guard down.                            *)
EndUserAuthenticatedByToken(e, f) ==
  Chosen(e) /\ (EndUserAuthKind(e, f) = "verified" \/ e.token)

EndUserAuthenticated(e, f) ==
  Chosen(e) /\ EndUserAuthKind(e, f) = "verified"

-----------------------------------------------------------------------------
Confines(e, up, peer) == up /\ peer = "lan" /\ ~e.insecure

(* Seeded personas construct only under a local profile somebody chose.    *)
PersonasConstruct(e) == ProfileOf(e) = "local" /\ Chosen(e)

(* Slip: the header is looked at before the audience.                      *)
ResolveAssertionHeaderFirst(e, credential) ==
  IF credential \notin Assertions \ {"blank", "unpinned"} THEN <<"refused", "nobody">>
  ELSE IF e.audience = "unset" \/ ~e.sdk THEN <<"unavailable", "nobody">>
  ELSE IF credential = "assertion" THEN <<"served", "verified">>
  ELSE <<"refused", "nobody">>

(* The managed adapter, in its order: an audience to verify against, a     *)
(* header that is not blank, the algorithm, the verifier, and what the     *)
(* verifier and the claims say.                                            *)
ResolveAssertion(e, credential) ==
  IF e.audience = "unset" THEN <<"unavailable", "nobody">>
  ELSE IF credential \notin Assertions \ {"blank", "unpinned"} THEN <<"refused", "nobody">>
  ELSE IF ~e.sdk THEN <<"unavailable", "nobody">>
  ELSE IF credential = "assertion" THEN <<"served", "verified">>
  ELSE <<"refused", "nobody">>

(* What the bound adapter makes of a caller, as <<outcome, who>>: the       *)
(* construction first, then its resolve.                                    *)
Resolve(e, adapter, credential) ==
  CASE adapter = "unimportable" -> <<"error", "nobody">>
    [] adapter = "personas" ->
         IF PersonasConstruct(e) THEN <<"served", "persona">>
                                 ELSE <<"refused", "nobody">>
    [] adapter = "placeholder" -> <<"unavailable", "nobody">>
    [] adapter = "undeclared" -> <<"served", "asserted">>
    [] adapter = "iap" -> ResolveAssertion(e, credential)
    [] OTHER -> IF credential = "assertion" THEN <<"served", "verified">>
                                            ELSE <<"refused", "nobody">>

(* The commons scheme: an OIDC token under the managed profile, a shared   *)
(* secret elsewhere, which is open while no secret is set.                 *)
AuthenticatesService(e, credential) ==
  credential = "service" \/ (ProfileOf(e) # "gcp" /\ ~e.token)

ServiceCaller(e, credential) ==
  IF Chosen(e) /\ AuthenticatesService(e, credential)
    THEN <<"served", "nobody">>
    ELSE <<"refused", "nobody">>

(* The picker: a refusing adapter is a 503, one without personas lists     *)
(* nobody.                                                                 *)
Personas(e, adapter) ==
  CASE adapter = "unimportable" -> <<"error", "nobody">>
    [] adapter = "personas" ->
         IF PersonasConstruct(e) THEN <<"served", "persona">>
                                 ELSE <<"unavailable", "nobody">>
    [] OTHER -> <<"served", "nobody">>

Docs(e) == IF e.profile = "local" THEN <<"served", "nobody">>
                                  ELSE <<"absent", "nobody">>

(* What a route answers from the settings its container holds.             *)
Handle(e, f, q) ==
  CASE q.route = "scorecards" -> Resolve(e, f.identity, q.credential)
    [] q.route = "personas"   -> Personas(e, f.identity)
    [] OTHER                  -> <<"served", "nobody">>

AnswerOf(q, result) == [request |-> q, outcome |-> result[1], as |-> result[2]]

-----------------------------------------------------------------------------
Init ==
  /\ env \in Environments
  /\ file \in Files
  /\ process = "down"
  /\ booted = file
  /\ guarded = TRUE
  /\ container = None
  /\ last = None

(* The module scope of api/app.py.                                         *)
Boot ==
  /\ process = "down"
  /\ ResolvesProfile(env)
  /\ process' = "serving"
  /\ booted' = file
  /\ guarded' = ~EndUserAuthenticated(env, file)
  /\ UNCHANGED <<env, file, container, last>>

RefuseToBoot ==
  /\ process = "down"
  /\ ~ResolvesProfile(env)
  /\ process' = "dead"
  /\ UNCHANGED <<env, file, booted, guarded, container, last>>

(* The process ends and the next one gets this environment.                *)
Redeploy(e) ==
  /\ process # "down"
  /\ process' = "down"
  /\ env' = e
  /\ guarded' = TRUE
  /\ container' = None
  /\ last' = None
  /\ UNCHANGED <<file, booted>>

EditFile(f) ==
  /\ file' = f
  /\ last' = None
  /\ UNCHANGED <<env, process, booted, guarded, container>>

(* The outermost middleware answers before any route or dependency runs.   *)
Confine(q) ==
  /\ process = "serving"
  /\ Confines(env, guarded, q.peer)
  /\ last' = AnswerOf(q, <<"confined", "nobody">>)
  /\ UNCHANGED <<env, file, process, booted, guarded, container>>

(* The docs and the service route never touch the container.               *)
AnswerWithoutContainer(q) ==
  /\ process = "serving"
  /\ ~Confines(env, guarded, q.peer)
  /\ \/ /\ q.route = "docs"
        /\ last' = AnswerOf(q, Docs(env))
     \/ /\ q.route = "audit_ping"
        /\ last' = AnswerOf(q, ServiceCaller(env, q.credential))
  /\ UNCHANGED <<env, file, process, booted, guarded, container>>

(* _container: what lru_cache keeps of a successful load, and of none.     *)
Cached(e, f) == IF Loads(e, f) THEN f ELSE None

(* Slip: the outcome of the load at import is kept.                        *)
ContainedSinceBoot == IF container # None THEN container ELSE Cached(env, booted)

Contained == IF container # None THEN container ELSE Cached(env, file)

AnswerFromContainer(q) ==
  /\ process = "serving"
  /\ ~Confines(env, guarded, q.peer)
  /\ q.route \notin {"docs", "audit_ping"}
  /\ container' = Contained
  /\ last' = AnswerOf(q, IF Contained = None THEN <<"error", "nobody">>
                                             ELSE Handle(env, Contained, q))
  /\ UNCHANGED <<env, file, process, booted, guarded>>

Next ==
  \/ Boot
  \/ RefuseToBoot
  \/ \E e \in Environments : Redeploy(e)
  \/ \E f \in Files : EditFile(f)
  \/ \E q \in Request :
       \/ Confine(q)
       \/ AnswerWithoutContainer(q)
       \/ AnswerFromContainer(q)

Spec == Init /\ [][Next]_vars
-----------------------------------------------------------------------------
(* A caller off the machine is served on the scoring route, by a process    *)
(* that opted out of nothing, only where the settings its import read load  *)
(* under a chosen profile and bind an adapter that verifies; no repair or   *)
(* edit made later, and no token, opens it.  Such a caller was verified,    *)
(* and no assertion that is wrong in any one way is taken, unless the file  *)
(* was changed after the import to bind an adapter that only takes a        *)
(* caller's word: then the guard and the container come from two files.     *)
LanUsersAreVerified ==
  ( /\ last # None
    /\ last.request.peer = "lan"
    /\ last.request.route = "scorecards"
    /\ last.outcome = "served"
    /\ ~env.insecure )
  => /\ env.profile # "unset"
     /\ Loads(env, booted) /\ Declared(booted.identity) = "verified"
     /\ \/ last.as = "verified" /\ last.request.credential = "assertion"
        \/ container # booted /\ Declared(container.identity) = "client-asserted"

(* A profile variable that went missing buys none of the relaxations, in    *)
(* whatever order files and requests come: no seeded persona, no docs, no   *)
(* service caller anywhere, and nothing at all to another machine, even     *)
(* when the file binds a verifying adapter under the inherited profile.     *)
UnchosenPostureIsNoConsent ==
  (last # None /\ env.profile = "unset") =>
    /\ last.as # "persona"
    /\ last.outcome = "served" => last.request.route \notin {"docs", "audit_ping"}
    /\ (last.request.peer = "lan" /\ ~env.insecure) => last.outcome = "confined"

(* Seeded personas are handed out and listed under a deliberately chosen    *)
(* local profile only, wherever a file binds their adapter.                 *)
PersonasNeedAChosenLocal ==
  (last # None /\ last.as = "persona") => env.profile = "local"

(* Could anybody be served on the scoring route of this container?         *)
SomebodyCouldBeServed ==
  \E credential \in Credentials : Resolve(env, container.identity, credential)[1] = "served"

(* The status tells a deployment's fault from a caller's.  "Nobody can      *)
(* authenticate here" is said only where nobody can, so never to a caller   *)
(* in whose place another would have been served.  A plain refusal is given *)
(* only where somebody could, with two exceptions: the seeded personas that *)
(* refuse their profile, and a deployment without the verifier, which finds *)
(* that out from a caller who brings something to verify and not before.    *)
(* Which of the managed adapter's checks comes first is what decides it.    *)
RefusalsNameWhoIsAtFault ==
  (last # None /\ last.request.route = "scorecards") =>
    /\ last.outcome = "unavailable" => ~SomebodyCouldBeServed
    /\ last.outcome = "refused" =>
         \/ SomebodyCouldBeServed
         \/ container.identity = "personas" /\ env.profile # "local"
         \/ /\ ~env.sdk
            /\ last.request.credential \notin Assertions \ {"blank", "unpinned"}

(* A process whose settings failed to load recovers at the first request    *)
(* after the file is repaired: a failure is never what the cache keeps.     *)
RepairNeedsNoRestart ==
  [][ (last' # last /\ last' # None /\ last'.outcome = "error") =>
        \/ ~Loads(env, file)
        \/ container' # None /\ container'.identity = "unimportable" ]_vars

=============================================================================
