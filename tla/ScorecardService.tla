--------------------------- MODULE ScorecardService ---------------------------
(***************************************************************************)
(* The scoring path of the conversation QA service, from the request a     *)
(* surface receives (HTTP API, agent tool, CLI) to the response it builds. *)
(* Several calls are in flight at once, in Starlette's worker threads or   *)
(* in separate processes; each walks through                               *)
(*                                                                         *)
(*   authorise, fetch the transcript, redact and score, advisory note,     *)
(*   narration, hand-off to human review, audit record, store, warehouse   *)
(*                                                                         *)
(* and every arrow is a call on a port that may answer, refuse, or take    *)
(* effect and lose its answer.  The process may also stop between any two  *)
(* of them.                                                                *)
(*                                                                         *)
(* A scorecard is named by what its id is a digest of.  The engine is a    *)
(* pure function of the contact, its pack, its transcript and the instant  *)
(* as_of, so <<contact, asOf>> stands for the id, and the constant Failing *)
(* for the engine's verdict.  What the two generation steps may do is the  *)
(* subject of GuardedGeneration; here they write BLOCKED records or not.   *)
(***************************************************************************)
EXTENDS Integers

CONSTANTS
  Calls,           \* the requests to score a contact; each is one thread's work
  Contacts,        \* the contacts in the bound catalogue
  Tenants,         \* the tenant partitions
  NoTenant,        \* the empty tenant string
  OwnerOf,         \* the tenant each contact belongs to
  MaxTime,         \* bound on the clock
  Failing,         \* the scorecards whose disposition is not COMPLIANT
  RoutingOn,       \* the review-routing switch, as each process reads it
  WarehouseBound,  \* is a warehouse adapter passed to the service
  Faulty,          \* the ports that may raise
  Durable,         \* the records that outlive the process
  MaxRestarts      \* bound on the number of process restarts

Times == 1..MaxTime
Cards == Contacts \X Times
Principals == Tenants \cup {NoTenant}

Ports == {"transcripts", "router", "audit", "store", "warehouse"}
Records == {"console", "audit", "store", "warehouse"}

ASSUME ConstantAssumption ==
  /\ NoTenant \notin Tenants
  /\ OwnerOf \in [Contacts -> Principals]
  /\ MaxTime \in Nat \ {0}
  /\ Failing \subseteq Cards
  /\ RoutingOn \in [0..MaxRestarts -> BOOLEAN]
  /\ WarehouseBound \in BOOLEAN
  /\ Faulty \subseteq Ports
  /\ Durable \subseteq Records
  /\ MaxRestarts \in Nat

VARIABLES
  now,        \* the clock utcnow() reads
  restarts,   \* how many times the process has stopped
  request,    \* what each call asks for: a contact, as a verified tenant
  pc,         \* how far each call has got
  asOf,       \* the instant each call read on entry; 0 before
  handoff,    \* RecordingReviewRouter.outcome of each call
  reviews,    \* source keys the review console (or the local outbox) holds
  audit,      \* the WORM audit trail
  store,      \* what the scorecard store holds under each id
  rows        \* the warehouse rows, each with the call that exported it

vars == <<now, restarts, request, pc, asOf, handoff, reviews, audit, store, rows>>

-----------------------------------------------------------------------------
(* The shapes of the state.                                                *)

Terminal == {"returned", "refused", "failed", "lost"}
Stages == {"idle", "fetch", "advise", "narrate", "route", "record", "put",
           "export", "respond"}

ReviewRouting == {"not_required", "routed", "failed", "off"}

(* An audit event, with the call that wrote it in place of its actor.      *)
AuditEvents == [call     : Calls,
                action   : {"score_contact", "signal_classifier_screen",
                            "narration_screen"},
                decision : {"allowed", "escalated", "blocked"}]

(* A stored document is told apart by its review_ref alone: the engine's   *)
(* half of it is fixed by the id.                                          *)
StoredCards == {"absent", "without_ref", "with_ref"}

TypeOK ==
  /\ now \in Times
  /\ restarts \in 0..MaxRestarts
  /\ request \in [Calls -> [contact : Contacts, tenant : Principals]]
  /\ pc \in [Calls -> Stages \cup Terminal]
  /\ asOf \in [Calls -> 0..MaxTime]
  /\ handoff \in [Calls -> ReviewRouting]
  /\ reviews \subseteq Cards
  /\ audit \subseteq AuditEvents
  /\ store \in [Cards -> StoredCards]
  /\ rows \subseteq Calls \X Cards

Init ==
  /\ now = 1
  /\ restarts = 0
  /\ request \in [Calls -> [contact : Contacts, tenant : Principals]]
  /\ pc = [c \in Calls |-> "idle"]
  /\ asOf = [c \in Calls |-> 0]
  /\ handoff = [c \in Calls |-> "not_required"]
  /\ reviews = {}
  /\ audit = {}
  /\ store = [k \in Cards |-> "absent"]
  /\ rows = {}

-----------------------------------------------------------------------------
(* Operators the steps share.                                              *)

(* The scorecard id a call computes: _scorecard_id hashes as_of with the   *)
(* contact, the pack, the transcript and the outcome.                      *)
CardOf(c) == <<request[c].contact, asOf[c]>>

RequiresHumanReview(c) == CardOf(c) \in Failing

(* review_ref is the router's reference when the hand-off was routed and   *)
(* the empty string otherwise.                                             *)
HasReviewRef(c) == handoff[c] = "routed"

(* Empty never matches empty.                                              *)
Authorised(owner, principal) ==
  /\ principal # NoTenant
  /\ owner # NoTenant
  /\ principal = owner

(* How a call on a port can end: it answers; its effect happens and the    *)
(* answer is lost; it raises before any effect.  The last two raise.       *)
Outcomes(port) ==
  IF port \in Faulty THEN {"answered", "answer_lost", "refused"} ELSE {"answered"}

TakesEffect(outcome) == outcome # "refused"

Goto(c, stage) == pc' = [pc EXCEPT ![c] = stage]

(* An exception nobody catches leaves the service as a 500.                *)
Proceed(c, outcome, stage) ==
  Goto(c, IF outcome = "answered" THEN stage ELSE "failed")

(* AuditSinkPort.record: one appended event, or an exception.              *)
WriteAudit(c, action, decision, stage) ==
  \E outcome \in Outcomes("audit") :
    /\ audit' = IF TakesEffect(outcome)
                THEN audit \cup {[call |-> c, action |-> action, decision |-> decision]}
                ELSE audit
    /\ Proceed(c, outcome, stage)

-----------------------------------------------------------------------------
(* The clock moves between any two steps, and need not move between two    *)
(* reads of it.                                                            *)
Tick ==
  /\ now < MaxTime
  /\ now' = now + 1
  /\ UNCHANGED <<restarts, request, pc, asOf, handoff, reviews, audit, store, rows>>

(* Slip: the tenants are compared after the transcript was fetched.        *)
ReceiveUnchecked(c) ==
  /\ pc[c] = "idle"
  /\ asOf' = [asOf EXCEPT ![c] = now]
  /\ Goto(c, "fetch")
  /\ UNCHANGED <<now, restarts, request, handoff, reviews, audit, store, rows>>

(* The surface resolved the contact and its pack: it reads the clock, and  *)
(* the service compares tenants before anything is fetched.                *)
Receive(c) ==
  /\ pc[c] = "idle"
  /\ asOf' = [asOf EXCEPT ![c] = now]
  /\ Goto(c, IF Authorised(OwnerOf[request[c].contact], request[c].tenant)
             THEN "fetch" ELSE "refused")
  /\ UNCHANGED <<now, restarts, request, handoff, reviews, audit, store, rows>>

(* No such contact (404), no catalogue bound (501), or no score pack for   *)
(* the contact's market and product (500): nothing was scored.             *)
Reject(c) ==
  /\ pc[c] = "idle"
  /\ \/ Goto(c, "refused")
     \/ Goto(c, "failed")
  /\ UNCHANGED <<now, restarts, request, asOf, handoff, reviews, audit, store, rows>>

(* Fetch the transcript; redaction and the engine are pure and cannot fail *)
(* differently from the fetch they follow.                                 *)
FetchTranscript(c) ==
  /\ pc[c] = "fetch"
  /\ \E outcome \in Outcomes("transcripts") : Proceed(c, outcome, "advise")
  /\ UNCHANGED <<now, restarts, request, asOf, handoff, reviews, audit, store, rows>>

(* The advisory classifier.  Its own failure is swallowed; a refusal of    *)
(* the guardrail is audited first, and that write may raise.               *)
Advise(c) ==
  /\ pc[c] = "advise"
  /\ \/ Goto(c, "narrate") /\ UNCHANGED audit
     \/ WriteAudit(c, "signal_classifier_screen", "blocked", "narrate")
  /\ UNCHANGED <<now, restarts, request, asOf, handoff, reviews, store, rows>>

(* The narration, under the same rule; then the branch on                  *)
(* requires_human_review.                                                  *)
Narrate(c) ==
  LET next == IF RequiresHumanReview(c) THEN "route" ELSE "record"
  IN  /\ pc[c] = "narrate"
      /\ \/ Goto(c, next) /\ UNCHANGED audit
         \/ WriteAudit(c, "narration_screen", "blocked", next)
      /\ UNCHANGED <<now, restarts, request, asOf, handoff, reviews, store, rows>>

(* The switch as this process read it when it started.                     *)
RoutesReviews == RoutingOn[restarts]

(* Slip: the except branch forgets to append FAILED to the outcomes.       *)
RouteFailsSilently(c) ==
  /\ pc[c] = "route"
  /\ \E outcome \in Outcomes("router") :
       /\ reviews' = IF TakesEffect(outcome) THEN reviews \cup {CardOf(c)} ELSE reviews
       /\ handoff' = [handoff EXCEPT ![c] = IF outcome = "answered" THEN "routed" ELSE @]
  /\ Goto(c, "record")
  /\ UNCHANGED <<now, restarts, request, asOf, audit, store, rows>>

(* Slip: a lost answer is waited for, without a timeout.                   *)
RouteWithoutTimeout(c) ==
  /\ pc[c] = "route"
  /\ handoff[c] = "not_required"
  /\ \E outcome \in Outcomes("router") :
       /\ reviews' = IF TakesEffect(outcome) THEN reviews \cup {CardOf(c)} ELSE reviews
       /\ handoff' = [handoff EXCEPT ![c] = IF outcome = "answered" THEN "routed" ELSE "failed"]
       /\ Goto(c, IF outcome = "answer_lost" THEN "route" ELSE "record")
  /\ UNCHANGED <<now, restarts, request, asOf, audit, store, rows>>

(* The hand-off, through the surface's RecordingReviewRouter: switched off *)
(* nothing is submitted; an exception is recorded and swallowed.  The      *)
(* console keys reviews by source_key, so a repeated key adds nothing.     *)
Route(c) ==
  /\ pc[c] = "route"
  /\ IF RoutesReviews
     THEN \E outcome \in Outcomes("router") :
            /\ reviews' = IF TakesEffect(outcome) THEN reviews \cup {CardOf(c)} ELSE reviews
            /\ handoff' = [handoff EXCEPT ![c] =
                             IF outcome = "answered" THEN "routed" ELSE "failed"]
     ELSE /\ handoff' = [handoff EXCEPT ![c] = "off"]
          /\ UNCHANGED reviews
  /\ Goto(c, "record")
  /\ UNCHANGED <<now, restarts, request, asOf, audit, store, rows>>

(* The audit record of the verdict, written after the hand-off.            *)
Record(c) ==
  /\ pc[c] = "record"
  /\ WriteAudit(c, "score_contact",
                IF RequiresHumanReview(c) THEN "escalated" ELSE "allowed", "put")
  /\ UNCHANGED <<now, restarts, request, asOf, handoff, reviews, store, rows>>

(* Slip: the old document is deleted before the new one is written.        *)
PutDeletesFirst(c) ==
  /\ pc[c] = "put"
  /\ \E outcome \in Outcomes("store") :
       /\ store' = [store EXCEPT ![CardOf(c)] =
                      IF ~TakesEffect(outcome) THEN "absent"
                      ELSE IF HasReviewRef(c) THEN "with_ref" ELSE "without_ref"]
       /\ Proceed(c, outcome, IF WarehouseBound THEN "export" ELSE "respond")
  /\ UNCHANGED <<now, restarts, request, asOf, handoff, reviews, audit, rows>>

(* The upsert: the whole document is replaced, its review_ref with it.     *)
Put(c) ==
  /\ pc[c] = "put"
  /\ \E outcome \in Outcomes("store") :
       /\ store' = IF TakesEffect(outcome)
                   THEN [store EXCEPT ![CardOf(c)] =
                           IF HasReviewRef(c) THEN "with_ref" ELSE "without_ref"]
                   ELSE store
       /\ Proceed(c, outcome, IF WarehouseBound THEN "export" ELSE "respond")
  /\ UNCHANGED <<now, restarts, request, asOf, handoff, reviews, audit, rows>>

(* Slip: a failed export is logged and the scorecard returned.             *)
ExportBestEffort(c) ==
  /\ pc[c] = "export"
  /\ \E outcome \in Outcomes("warehouse") :
       rows' = IF TakesEffect(outcome) THEN rows \cup {<<c, CardOf(c)>>} ELSE rows
  /\ Goto(c, "respond")
  /\ UNCHANGED <<now, restarts, request, asOf, handoff, reviews, audit, store>>

(* One flat row, appended.                                                 *)
Export(c) ==
  /\ pc[c] = "export"
  /\ \E outcome \in Outcomes("warehouse") :
       /\ rows' = IF TakesEffect(outcome) THEN rows \cup {<<c, CardOf(c)>>} ELSE rows
       /\ Proceed(c, outcome, "respond")
  /\ UNCHANGED <<now, restarts, request, asOf, handoff, reviews, audit, store>>

(* The surface serialises the scorecard with the hand-off's outcome.       *)
Respond(c) ==
  /\ pc[c] = "respond"
  /\ Goto(c, "returned")
  /\ UNCHANGED <<now, restarts, request, asOf, handoff, reviews, audit, store, rows>>

(* The process stops: calls in flight are gone, and so is every record     *)
(* that was kept in memory.  An idle call is one not yet received.         *)
Restart ==
  /\ restarts < MaxRestarts
  /\ restarts' = restarts + 1
  /\ pc' = [c \in Calls |-> IF pc[c] \in Terminal \cup {"idle"} THEN pc[c] ELSE "lost"]
  /\ reviews' = IF "console" \in Durable THEN reviews ELSE {}
  /\ audit' = IF "audit" \in Durable THEN audit ELSE {}
  /\ store' = IF "store" \in Durable THEN store ELSE [k \in Cards |-> "absent"]
  /\ rows' = IF "warehouse" \in Durable THEN rows ELSE {}
  /\ UNCHANGED <<now, request, asOf, handoff>>

(* The steps of a call once a surface has accepted it.                     *)
Step(c) ==
  \/ FetchTranscript(c)
  \/ Advise(c)
  \/ Narrate(c)
  \/ Route(c)
  \/ Record(c)
  \/ Put(c)
  \/ Export(c)
  \/ Respond(c)

Next ==
  \/ Tick
  \/ Restart
  \/ \E c \in Calls : Receive(c) \/ Reject(c) \/ Step(c)

Spec == Init /\ [][Next]_vars

(* Every port call is synchronous and returns or raises, and the thread    *)
(* pool runs every accepted call: weak fairness of each call's own steps.  *)
(* Nothing forces a request to arrive, the clock to move or the process    *)
(* to stop.                                                                *)
FairSpec == Spec /\ \A c \in Calls : WF_vars(Step(c))

-----------------------------------------------------------------------------
(* The two reads.  ScorecardService.fetch takes the raw document and       *)
(* compares tenants in the domain; list_for_contact trusts the store's     *)
(* own filter.  A stored document carries its contact's tenant.            *)

FetchAnswer(card, tenant) ==
  IF store[card] = "absent" THEN "not_found"
  ELSE IF Authorised(OwnerOf[card[1]], tenant) THEN "served" ELSE "denied"

ListForContact(contact, tenant) ==
  {card \in Cards : /\ tenant # NoTenant
                    /\ store[card] # "absent"
                    /\ card[1] = contact
                    /\ OwnerOf[card[1]] = tenant}

-----------------------------------------------------------------------------
(* Safety.                                                                 *)

(* A record nobody has lost: it is durable, or the process never stopped.  *)
Kept(record) == record \in Durable \/ restarts = 0

(* The audit trail holds the verdict on a card, as the engine decided it.  *)
VerdictAudited(card) ==
  \E e \in audit : /\ e.action = "score_contact"
                   /\ CardOf(e.call) = card
                   /\ e.decision = IF card \in Failing THEN "escalated" ELSE "allowed"

(* No scorecard can be read that the audit trail does not account for,     *)
(* whatever fails and wherever the process stops: the store is written     *)
(* after audit.record returned.  (A store on disk beside an in-memory      *)
(* audit trail is a configuration the code accepts and this excludes.)     *)
StoredCardsAreAudited ==
  ("store" \in Durable => "audit" \in Durable) =>
    \A card \in Cards : store[card] # "absent" => VerdictAudited(card)

(* A review_ref read back from the store leads to a review that is there:  *)
(* a failed or lost hand-off never leaves a reference behind, and neither  *)
(* does a passing card.  Needs a console that outlives the store.          *)
StoredRefsPointAtReviews ==
  ("store" \in Durable => "console" \in Durable) =>
    \A card \in Cards : store[card] = "with_ref" => card \in reviews \cap Failing

(* A failing scorecard stored with an empty review_ref is never a silent   *)
(* one: a call that computed this very card reported failed or off to its  *)
(* caller, even when two calls share an id and overwrite each other.       *)
UnroutedFailuresWereReported ==
  \A card \in Failing :
    store[card] = "without_ref" =>
      \E c \in Calls : CardOf(c) = card /\ handoff[c] \in {"failed", "off"}

(* A review whose scorecard cannot be read comes from a call that is on    *)
(* its way to the store, or that died between the hand-off and the store.  *)
OrphanReviewsHaveACause ==
  Kept("store") =>
    \A card \in reviews :
      \/ store[card] # "absent"
      \/ \E c \in Calls : /\ CardOf(c) = card
                          /\ pc[c] \in {"record", "put", "failed", "lost"}

(* What a caller holds a response for is on record everywhere: audited as  *)
(* decided, served to the same tenant, exported when a warehouse is bound, *)
(* handed off if it failed, and in the console if the response says so.    *)
ReturnedCallsAreOnRecord ==
  \A c \in {d \in Calls : pc[d] = "returned"} :
    /\ Kept("audit") => VerdictAudited(CardOf(c))
    /\ Kept("store") => FetchAnswer(CardOf(c), request[c].tenant) = "served"
    /\ WarehouseBound /\ Kept("warehouse") => <<c, CardOf(c)>> \in rows
    /\ RequiresHumanReview(c) <=> handoff[c] # "not_required"
    /\ handoff[c] = "routed" /\ Kept("console") => CardOf(c) \in reviews

(* The four records, each written by a step of its own and each able to    *)
(* fail or to be lost alone, tell one story of every card and every call.  *)
RecordsAgree ==
  /\ StoredCardsAreAudited
  /\ StoredRefsPointAtReviews
  /\ UnroutedFailuresWereReported
  /\ OrphanReviewsHaveACause
  /\ ReturnedCallsAreOnRecord

(* A call made as another tenant, or as no tenant, leaves no trace: no     *)
(* transcript fetched, no audit event, no hand-off, no exported row.       *)
ForeignCallsLeaveNoTrace ==
  \A c \in Calls :
    \/ request[c].tenant = NoTenant
    \/ request[c].tenant # OwnerOf[request[c].contact]
    => /\ pc[c] \in {"idle", "refused", "failed"}
       /\ \A e \in audit : e.call # c
       /\ handoff[c] = "not_required"
       /\ \A row \in rows : row[1] # c

(* The boundary is enforced in two places, the store's query for lists and *)
(* the domain for a fetch by id: they serve a tenant the same cards.       *)
ListAndFetchAgree ==
  \A contact \in Contacts, tenant \in Principals :
    ListForContact(contact, tenant)
      = {card \in Cards : card[1] = contact /\ FetchAnswer(card, tenant) = "served"}

(* Once its owner has been served a card, no failure, re-score or restart  *)
(* of a durable store takes it away or hides it.                           *)
ServedCardsStayServed ==
  [][ "store" \in Durable =>
        \A card \in Cards, tenant \in Tenants :
          FetchAnswer(card, tenant) = "served" => (FetchAnswer(card, tenant))' = "served" ]_vars

(* Every accepted call ends: answered, failed or lost with the process.    *)
EveryCallEnds == \A c \in Calls : pc[c] = "fetch" ~> pc[c] \in Terminal

-----------------------------------------------------------------------------
(* The inductive strengthening of the invariants above: what each stage of *)
(* a call has already established.                                         *)

InFlight(c) == pc[c] \in Stages \ {"idle"}

Owned(c) == Authorised(OwnerOf[request[c].contact], request[c].tenant)

(* Only the owner's calls get past the door, and only a failing card is    *)
(* handed off: before the audit record, and exactly once the stage is past.*)
CallsInOrder ==
  \A c \in Calls :
    /\ InFlight(c) \/ pc[c] \in {"returned", "lost"} => Owned(c) /\ asOf[c] \in Times
    /\ pc[c] \in {"idle", "fetch", "advise", "narrate", "route", "refused"}
         => handoff[c] = "not_required"
    /\ pc[c] = "route" => RequiresHumanReview(c)
    /\ pc[c] \in {"record", "put", "export", "respond", "returned"}
         => (RequiresHumanReview(c) <=> handoff[c] # "not_required")
    /\ handoff[c] # "not_required" => RequiresHumanReview(c) /\ Owned(c)

(* Every event, row and review was written by a call of the owner that is  *)
(* past the stage that writes it, for the card that call computed.         *)
TracesAreOwned ==
  /\ \A e \in audit :
       /\ pc[e.call] \notin {"idle", "fetch", "refused"}
       /\ Owned(e.call)
       /\ asOf[e.call] \in Times
  /\ \A row \in rows :
       /\ pc[row[1]] \notin {"idle", "fetch", "refused"}
       /\ Owned(row[1])
       /\ row[2] = CardOf(row[1])
  /\ \A card \in reviews :
       \E c \in Calls : CardOf(c) = card /\ handoff[c] # "not_required"

(* A call past a write finds what it wrote, as long as the record that     *)
(* holds it was not lost.  A call in flight began after the last restart.  *)
WritesAreThere ==
  \A c \in Calls :
    /\ handoff[c] = "routed" /\ (InFlight(c) \/ Kept("console")) => CardOf(c) \in reviews
    /\ pc[c] \in {"put", "export", "respond"} \/ (pc[c] = "returned" /\ Kept("audit"))
         => VerdictAudited(CardOf(c))
    /\ pc[c] \in {"export", "respond"} \/ (pc[c] = "returned" /\ Kept("store"))
         => store[CardOf(c)] # "absent"
    /\ WarehouseBound /\ (pc[c] = "respond" \/ (pc[c] = "returned" /\ Kept("warehouse")))
         => <<c, CardOf(c)>> \in rows

IInv ==
  /\ TypeOK
  /\ CallsInOrder
  /\ TracesAreOwned
  /\ WritesAreThere
  /\ StoredCardsAreAudited
  /\ StoredRefsPointAtReviews
  /\ UnroutedFailuresWereReported

-----------------------------------------------------------------------------
(* The records alone, without the calls that write them.                   *)

Ledger == INSTANCE ScorecardLedger WITH
  attempted <- {CardOf(c) : c \in {d \in Calls : handoff[d] # "not_required"}},
  inbox     <- reviews,
  trail     <- {card \in Cards : VerdictAudited(card)},
  shelf     <- store,
  exported  <- {row[2] : row \in rows},
  answers   <- {<<c, CardOf(c)>> : c \in {d \in Calls : pc[d] = "returned"}}

(* However calls interleave, fail and stop, the records keep the promise   *)
(* of ScorecardLedger.                                                     *)
KeepsTheLedger == Ledger!Spec
===============================================================================
