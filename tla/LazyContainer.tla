----------------------------- MODULE LazyContainer -----------------------------
(***************************************************************************)
(* How the first requests of a process come by their adapters.  Starlette  *)
(* runs the handlers in worker threads; none of the two caches they share  *)
(* holds a lock while it fills:                                            *)
(*                                                                         *)
(*   - _container is an lru_cache: a thread that misses builds a container *)
(*     and keeps the one it built; the first to finish is cached;          *)
(*   - every port of a container is a cached_property: a thread that       *)
(*     misses constructs an adapter and keeps it; the last to finish is    *)
(*     cached.                                                             *)
(*                                                                         *)
(* An adapter over a file or a managed service shares its records with     *)
(* every other one; an adapter over ":memory:" keeps them to itself.       *)
(* Objects are named by the request that built them.                       *)
(***************************************************************************)
EXTENDS Integers, FiniteSets

CONSTANTS
  Requests,   \* the requests of one process, each in its own thread
  Nobody,     \* no request: an empty cache slot
  Private     \* the ports whose adapters keep their records to themselves

(* The ports whose adapters keep state the service reads back later, in    *)
(* the order build_service binds them.                                     *)
Ports == {"audit", "scorecard_store"}

ASSUME ContainerAssumption == Nobody \notin Requests /\ Private \subseteq Ports

Slots == Requests \cup {Nobody}

VARIABLES
  kind,       \* what each request is: it scores, it reads, or it probes health
  pc,         \* where each request is
  cached,     \* the container _container's cache holds
  container,  \* the container each request's handler works with
  bound,      \* the adapter each container's __dict__ holds for each port
  held,       \* the adapter each request got for each port
  records     \* what was written: <<port, adapter, request>>

vars == <<kind, pc, cached, container, bound, held, records>>

Kinds == {"score", "read", "probe"}

Stages == {"arrive", "build_for_principal", "handle", "build_for_handler",
           "bind_audit", "construct_audit", "bind_store", "construct_store",
           "record", "put", "done", "failed"}

TypeOK ==
  /\ kind \in [Requests -> Kinds]
  /\ pc \in [Requests -> Stages]
  /\ cached \in Slots
  /\ container \in [Requests -> Slots]
  /\ bound \in [Requests -> [Ports -> Slots]]
  /\ held \in [Requests -> [Ports -> Slots]]
  /\ records \subseteq Ports \X Requests \X Requests

Init ==
  /\ kind \in [Requests -> Kinds]
  /\ pc = [r \in Requests |-> "arrive"]
  /\ cached = Nobody
  /\ container = [r \in Requests |-> Nobody]
  /\ bound = [r \in Requests |-> [p \in Ports |-> Nobody]]
  /\ held = [r \in Requests |-> [p \in Ports |-> Nobody]]
  /\ records = {}

Goto(r, stage) == pc' = [pc EXCEPT ![r] = stage]

-----------------------------------------------------------------------------
(* _container(), the cache.                                                *)

(* Slip: the later builder's container replaces the cached one.            *)
CachesLast(r) == cached' = r

(* A build ends: the first to end fills the cache.                         *)
Caches(r) == cached' = IF cached = Nobody THEN r ELSE cached

AfterPrincipal(r) == IF kind[r] = "probe" THEN "done" ELSE "handle"

(* Slip: the principal is resolved without the container.                  *)
ResolveWithoutContainer(r) ==
  /\ pc[r] = "arrive"
  /\ Goto(r, AfterPrincipal(r))
  /\ UNCHANGED <<kind, cached, container, bound, held, records>>

(* Every route but the probes depends on get_principal, and get_principal  *)
(* asks for the container; a probe asks for it in its body and is done.    *)
ResolvePrincipal(r) ==
  /\ pc[r] = "arrive"
  /\ Goto(r, IF cached = Nobody THEN "build_for_principal" ELSE AfterPrincipal(r))
  /\ UNCHANGED <<kind, cached, container, bound, held, records>>

(* No verified principal (401), once the identity adapter has looked.      *)
Refuse(r) ==
  /\ pc[r] = "handle"
  /\ Goto(r, "failed")
  /\ UNCHANGED <<kind, cached, container, bound, held, records>>

(* The handler asks again.                                                 *)
Handle(r) ==
  /\ pc[r] = "handle"
  /\ IF cached = Nobody
     THEN Goto(r, "build_for_handler") /\ UNCHANGED container
     ELSE Goto(r, "bind_audit") /\ container' = [container EXCEPT ![r] = cached]
  /\ UNCHANGED <<kind, cached, bound, held, records>>

(* build_container returns to whichever of the two asked.                  *)
Build(r) ==
  /\ pc[r] \in {"build_for_principal", "build_for_handler"}
  /\ Caches(r)
  /\ IF pc[r] = "build_for_handler"
     THEN Goto(r, "bind_audit") /\ container' = [container EXCEPT ![r] = r]
     ELSE Goto(r, AfterPrincipal(r)) /\ UNCHANGED container
  /\ UNCHANGED <<kind, bound, held, records>>

-----------------------------------------------------------------------------
(* build_service reads the container's cached properties one by one.       *)

Look(r, port, stage, constructing, next) ==
  /\ pc[r] = stage
  /\ LET adapter == bound[container[r]][port]
     IN  IF adapter = Nobody
         THEN Goto(r, constructing) /\ UNCHANGED held
         ELSE Goto(r, next) /\ held' = [held EXCEPT ![r][port] = adapter]
  /\ UNCHANGED <<kind, cached, container, bound, records>>

(* The constructor returns, and the adapter goes to the container's        *)
(* __dict__, over one another thread may have put there; or it raises and  *)
(* the port stays as it was.                                               *)
Construct(r, port, constructing, next) ==
  /\ pc[r] = constructing
  /\ \/ /\ bound' = [bound EXCEPT ![container[r]][port] = r]
        /\ held' = [held EXCEPT ![r][port] = r]
        /\ Goto(r, next)
     \/ /\ Goto(r, "failed")
        /\ UNCHANGED <<bound, held>>
  /\ UNCHANGED <<kind, cached, container, records>>

AfterBinding(r) == IF kind[r] = "score" THEN "record" ELSE "done"

BindAudit(r) == Look(r, "audit", "bind_audit", "construct_audit", "bind_store")
ConstructAudit(r) == Construct(r, "audit", "construct_audit", "bind_store")
BindStore(r) == Look(r, "scorecard_store", "bind_store", "construct_store", AfterBinding(r))
ConstructStore(r) == Construct(r, "scorecard_store", "construct_store", AfterBinding(r))

(* The scoring path writes through the adapters its service was given.     *)
Record(r) ==
  /\ pc[r] = "record"
  /\ records' = records \cup {<<"audit", held[r]["audit"], r>>}
  /\ Goto(r, "put")
  /\ UNCHANGED <<kind, cached, container, bound, held>>

Put(r) ==
  /\ pc[r] = "put"
  /\ records' = records \cup {<<"scorecard_store", held[r]["scorecard_store"], r>>}
  /\ Goto(r, "done")
  /\ UNCHANGED <<kind, cached, container, bound, held>>

Step(r) ==
  \/ ResolvePrincipal(r)
  \/ Refuse(r)
  \/ Handle(r)
  \/ Build(r)
  \/ BindAudit(r)
  \/ ConstructAudit(r)
  \/ BindStore(r)
  \/ ConstructStore(r)
  \/ Record(r)
  \/ Put(r)

Next == \E r \in Requests : Step(r)

Spec == Init /\ [][Next]_vars

-----------------------------------------------------------------------------
(* The adapter the process answers from: the one any later request gets.   *)
Shared(port) == IF cached = Nobody THEN Nobody ELSE bound[cached][port]

(* What a scoring request wrote is there for the requests that follow.     *)
Found(port, r) ==
  \E a \in Requests :
    /\ <<port, a, r>> \in records
    /\ port \in Private => a = Shared(port)

Answered(r) == pc[r] = "done" /\ kind[r] = "score"

(* Whoever built containers while the cache was empty, every handler works *)
(* with the cached one, even the handler of a request that built another:  *)
(* get_principal has filled the cache before any handler looks.            *)
HandlersShareOneContainer ==
  \A r \in Requests : container[r] # Nobody => container[r] = cached

(* A record is lost to later requests only when two requests constructed   *)
(* the same port of the one container, in memory, and the record went to   *)
(* the adapter that was replaced, be it by the request that constructed    *)
(* that adapter or by one that found it bound.                             *)
LostRecordsNeedARace ==
  \A r \in Requests, port \in Ports :
    Answered(r) /\ ~Found(port, r) =>
      LET loser == held[r][port]
          winner == Shared(port)
      IN  /\ port \in Private
          /\ loser # winner
          /\ \A q \in {loser, winner} : container[q] = cached /\ held[q][port] = q
===============================================================================
