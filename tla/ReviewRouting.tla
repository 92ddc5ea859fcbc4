----------------------------- MODULE ReviewRouting -----------------------------
(***************************************************************************)
(* The hand-off of a failing scorecard to human review: the recorder every *)
(* surface wraps around the bound router, the four routers it may wrap,    *)
(* the payload the local and the managed router share, and the operator    *)
(* who flushes the local outbox to the console.  The outbox, the client    *)
(* and the console are the review kit's and external.                      *)
(*                                                                         *)
(* The local router enqueues and then counts the queue: two calls on one   *)
(* process-wide adapter, so other threads and the operator come between.   *)
(* ScorecardService has the same hand-off as one step of the scoring path. *)
(***************************************************************************)
EXTENDS Naturals, FiniteSets, SequencesExt

CONSTANTS
  Handoffs,      \* the calls of RecordingReviewRouter.route, each by a thread of its own
  CardOf,        \* the scorecard each of them hands off
  Given,         \* the tenant each of them passes, NoTenant by default
  Cards,         \* scorecards, told apart by their ids
  Failing,       \* those that require human review
  Critical,      \* those of critical severity
  TenantOf,      \* the tenant of each card
  NoTenant,      \* the empty tenant string
  Deployment,    \* the tenant of settings.yaml, NoTenant by default
  Cited,         \* the source ids each card cites, in order, with repetitions
  MaxCitations,  \* _MAX_CITATIONS
  MaxRestarts    \* bound on the process restarts

ASSUME RoutingAssumption ==
  /\ IsFiniteSet(Handoffs)
  /\ CardOf \in [Handoffs -> Cards]
  /\ Failing \subseteq Cards
  /\ Critical \subseteq Failing
  /\ MaxCitations \in Nat \ {0}
  /\ MaxRestarts \in Nat

VARIABLES
  router,      \* the class bound in this process
  url,         \* does its settings file name a console?
  credential,  \* does the environment hold the outbound credential now?
  pc,          \* how far each hand-off has got
  reference,   \* what each hand-off returned
  outcome,     \* RecordingReviewRouter.outcome of each hand-off
  outbox,      \* the in-memory queue of this process
  console,     \* the reviews of human-review-console
  restarts     \* how many times the process has stopped

vars == <<router, url, credential, pc, reference, outcome, outbox, console, restarts>>

-----------------------------------------------------------------------------
(* The payload.                                                            *)

(* Each source once, in order, up to the cap.                              *)
KitCitations(cited) ==
  FoldLeft(LAMBDA out, source :
             IF Contains(out, source) \/ Len(out) >= MaxCitations THEN out
             ELSE Append(out, source),
           <<>>, cited)

RequiredApprovals(card) == IF card \in Critical THEN 2 ELSE 1

(* Slip: a key for each attempt instead of one for each verdict.           *)
SourceKeyPerAttempt(h) == h

(* The scorecard id, so a retried delivery is idempotent at the console.   *)
SourceKey(h) == CardOf[h]

(* The caller's tenant, the deployment's, the card's, whichever is first.  *)
TenantFor(h) ==
  IF Given[h] # NoTenant THEN Given[h]
  ELSE IF Deployment # NoTenant THEN Deployment
  ELSE TenantOf[CardOf[h]]

(* scorecard_to_review; its texts and their masking are left out.          *)
ReviewFor(h) ==
  [key       |-> SourceKey(h),
   tenant    |-> TenantFor(h),
   approvals |-> RequiredApprovals(CardOf[h]),
   citations |-> KitCitations(Cited[CardOf[h]])]

-----------------------------------------------------------------------------
Routers == {"outbox", "console", "placeholder", "off"}

(* References, told apart as their strings are: nothing, the queue length  *)
(* with the source key, or the id of the console's review.                 *)
Nothing == [kind |-> "none"]
QueueRef(n, key) == [kind |-> "outbox", n |-> n, key |-> key]
ReviewId(tenant, key) == [kind |-> "console", tenant |-> tenant, key |-> key]

TypeOK ==
  /\ router \in Routers
  /\ url \in BOOLEAN
  /\ credential \in BOOLEAN
  /\ pc \in [Handoffs -> {"idle", "enqueued", "done", "lost"}]
  /\ \A h \in Handoffs : reference[h].kind \in {"none", "outbox", "console"}
  /\ outcome \in [Handoffs -> {"not_required", "routed", "failed", "off"}]
  /\ restarts \in 0..MaxRestarts

(* A process: its bindings, its settings file and an empty outbox.         *)
Boot ==
  /\ router' \in Routers
  /\ url' \in BOOLEAN
  /\ outbox' = <<>>

Init ==
  /\ router \in Routers
  /\ url \in BOOLEAN
  /\ credential \in BOOLEAN
  /\ pc = [h \in Handoffs |-> "idle"]
  /\ reference = [h \in Handoffs |-> Nothing]
  /\ outcome = [h \in Handoffs |-> "not_required"]
  /\ outbox = <<>>
  /\ console = {}
  /\ restarts = 0

-----------------------------------------------------------------------------
(* The console is idempotent by tenant and source key.                     *)
Accepted(review) ==
  IF \E held \in console : held.tenant = review.tenant /\ held.key = review.key
    THEN console ELSE console \cup {review}

Conclude(h, how, ref) ==
  /\ pc' = [pc EXCEPT ![h] = "done"]
  /\ outcome' = [outcome EXCEPT ![h] = how]
  /\ reference' = [reference EXCEPT ![h] = ref]

process == <<router, url, restarts>>

(* A passing card is no business of the router, and neither is any card    *)
(* with routing switched off.                                              *)
RouteNowhere(h) ==
  /\ pc[h] = "idle"
  /\ \/ CardOf[h] \notin Failing /\ Conclude(h, "not_required", Nothing)
     \/ CardOf[h] \in Failing /\ router = "off" /\ Conclude(h, "off", Nothing)
  /\ UNCHANGED <<process, credential, outbox, console>>

(* The placeholder raises; so does the managed router without a URL, and   *)
(* the client it constructs per call without a credential.                 *)
RouteRefused(h) ==
  /\ pc[h] = "idle"
  /\ CardOf[h] \in Failing
  /\ router = "placeholder" \/ (router = "console" /\ ~(url /\ credential))
  /\ Conclude(h, "failed", Nothing)
  /\ UNCHANGED <<process, credential, outbox, console>>

(* Slip: the managed router answers before the console has.                *)
SubmitOptimistically(h) ==
  /\ pc[h] = "idle"
  /\ CardOf[h] \in Failing
  /\ router = "console" /\ url /\ credential
  /\ console' \in {console, Accepted(ReviewFor(h))}
  /\ Conclude(h, "routed", ReviewId(TenantFor(h), SourceKey(h)))
  /\ UNCHANGED <<process, credential, outbox>>

(* The managed router: answered, accepted with the answer lost, or refused.*)
Submit(h) ==
  /\ pc[h] = "idle"
  /\ CardOf[h] \in Failing
  /\ router = "console" /\ url /\ credential
  /\ \/ console' = Accepted(ReviewFor(h))
        /\ Conclude(h, "routed", ReviewId(TenantFor(h), SourceKey(h)))
     \/ console' \in {console, Accepted(ReviewFor(h))} /\ Conclude(h, "failed", Nothing)
  /\ UNCHANGED <<process, credential, outbox>>

(* The local router, first half: the review joins the queue.               *)
Enqueue(h) ==
  /\ pc[h] = "idle"
  /\ CardOf[h] \in Failing
  /\ router = "outbox"
  /\ outbox' = Append(outbox, ReviewFor(h))
  /\ pc' = [pc EXCEPT ![h] = "enqueued"]
  /\ UNCHANGED <<process, credential, reference, outcome, console>>

(* Slip: the queue is counted and the key left out.                        *)
ReferByLength(h) ==
  /\ pc[h] = "enqueued"
  /\ Conclude(h, "routed", QueueRef(Len(outbox), "no key"))
  /\ UNCHANGED <<process, credential, outbox, console>>

(* Second half: the length of the queue as it is now, and the source key.  *)
Refer(h) ==
  /\ pc[h] = "enqueued"
  /\ Conclude(h, "routed", QueueRef(Len(outbox), SourceKey(h)))
  /\ UNCHANGED <<process, credential, outbox, console>>

(* flush: an entry leaves the queue when the console has answered.  One    *)
(* that it refused, or whose answer was lost, stays.                       *)
Flush ==
  /\ url /\ credential
  /\ \E i \in DOMAIN outbox :
       \/ console' = Accepted(outbox[i]) /\ outbox' = RemoveAt(outbox, i)
       \/ console' = Accepted(outbox[i]) /\ UNCHANGED outbox
  /\ UNCHANGED <<process, credential, pc, reference, outcome>>

(* The outbound credential is rotated or cleared under the process.        *)
Rotate ==
  /\ credential' = ~credential
  /\ UNCHANGED <<process, pc, reference, outcome, outbox, console>>

(* Another process, another binding, and what was in memory is gone.       *)
Restart ==
  /\ restarts < MaxRestarts
  /\ restarts' = restarts + 1
  /\ Boot
  /\ pc' = [h \in Handoffs |-> IF pc[h] = "enqueued" THEN "lost" ELSE pc[h]]
  /\ UNCHANGED <<credential, reference, outcome, console>>

Next ==
  \/ Flush
  \/ Rotate
  \/ Restart
  \/ \E h \in Handoffs :
       \/ RouteNowhere(h)
       \/ RouteRefused(h)
       \/ Submit(h)
       \/ Enqueue(h)
       \/ Refer(h)

Spec == Init /\ [][Next]_vars

-----------------------------------------------------------------------------
Pending == ToSet(outbox)

(* A reference says which verdict it is about, however the threads, the    *)
(* operator and the restarts came between: two verdicts never share one,   *)
(* its review is in the console, or still waiting if the process never     *)
(* stopped, and a critical one is waiting for two approvals.               *)
ReferencesLeadToTheirReviews ==
  \A h \in Handoffs : reference[h] # Nothing =>
    /\ \A other \in Handoffs : reference[other] = reference[h] => CardOf[other] = CardOf[h]
    /\ reference[h].kind = "console" \/ restarts = 0 =>
         \E review \in console \cup Pending :
           /\ review.key = reference[h].key
           /\ CardOf[h] \in Critical => review.approvals = 2

(* Retried, flushed twice or with its answer lost, a verdict has at most   *)
(* one review per tenant partition in the console.                         *)
OneReviewPerVerdict ==
  Cardinality(console) <=
    Cardinality({<<CardOf[h], TenantFor(h)>> : h \in {g \in Handoffs : CardOf[g] \in Failing}})

(* Only what is routed is promised, and a promise is kept until the        *)
(* process stops, beyond it if the console has the review.                 *)
Desk == INSTANCE ReviewDesk WITH
  Callers  <- Handoffs,
  waiting  <- {review.key : review \in Pending},
  taken    <- {review.key : review \in console},
  promises <- {<<h, CardOf[h]>> : h \in {g \in Handoffs : outcome[g] = "routed"}}

KeepsTheDesk == Desk!Spec
===============================================================================
