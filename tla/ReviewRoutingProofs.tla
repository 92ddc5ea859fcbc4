-------------------------- MODULE ReviewRoutingProofs --------------------------
(***************************************************************************)
(* Proofs about ReviewRouting, for any hand-offs, cards, tenants and       *)
(* citations, any number of restarts and whatever order the threads, the   *)
(* operator and the rotations come in.  The invariant says where the       *)
(* review of a hand-off is while it waits for its reference, and what a    *)
(* reference that was returned still leads to.                             *)
(***************************************************************************)
EXTENDS ReviewRouting, FiniteSetTheorems, SequenceTheorems, TLAPS

(* What can be queued or submitted: the reviews of failing verdicts.       *)
Reviews == {ReviewFor(h) : h \in {g \in Handoffs : CardOf[g] \in Failing}}

(* Nothing is returned before a hand-off is done.                          *)
HandoffsInOrder ==
  /\ pc \in [Handoffs -> {"idle", "enqueued", "done", "lost"}]
  /\ outcome \in [Handoffs -> {"not_required", "routed", "failed", "off"}]
  /\ reference = [h \in Handoffs |-> reference[h]]
  /\ restarts \in Nat
  /\ \A h \in Handoffs :
       pc[h] # "done" => reference[h] = Nothing /\ outcome[h] = "not_required"

(* The queue and the console hold reviews of verdicts, and the console one *)
(* for each tenant and source key.                                         *)
ReviewsAreVerdicts ==
  /\ outbox \in Seq(Reviews)
  /\ console \subseteq Reviews
  /\ \A a, b \in console : a.tenant = b.tenant /\ a.key = b.key => a = b

InConsole(card) == \E review \in console : review.key = card
InOutbox(card) == \E review \in Pending : review.key = card
OnDesk(card) == InConsole(card) \/ InOutbox(card)

(* Between the two halves of the local router the review is queued, or the *)
(* operator has flushed it.                                                *)
EnqueuedAreOnTheDesk ==
  \A h \in Handoffs : pc[h] = "enqueued" => CardOf[h] \in Failing /\ OnDesk(CardOf[h])

ReferencesNameTheirCards ==
  \A h \in Handoffs : reference[h] # Nothing =>
    /\ reference[h].key = CardOf[h]
    /\ reference[h].kind = "console" => InConsole(CardOf[h])
    /\ restarts = 0 => OnDesk(CardOf[h])

RoutingInv ==
  /\ HandoffsInOrder
  /\ ReviewsAreVerdicts
  /\ EnqueuedAreOnTheDesk
  /\ ReferencesNameTheirCards

-----------------------------------------------------------------------------
(* The sequences.                                                          *)

LEMMA AppendElements ==
  ASSUME NEW S, NEW s \in Seq(S), NEW e \in S
  PROVE  Append(s, e) \in Seq(S) /\ ToSet(Append(s, e)) = ToSet(s) \cup {e}
  <1>1. /\ Append(s, e) \in Seq(S)
        /\ Len(Append(s, e)) = Len(s) + 1
        /\ \A i \in 1..Len(s) : Append(s, e)[i] = s[i]
        /\ Append(s, e)[Len(s) + 1] = e
        /\ Len(s) \in Nat
    BY AppendProperties
  <1>2. DOMAIN s = 1..Len(s) /\ DOMAIN Append(s, e) = 1..(Len(s) + 1)
    BY <1>1
  <1> QED
    BY <1>1, <1>2 DEF ToSet

LEMMA RemoveElement ==
  ASSUME NEW S, NEW s \in Seq(S), NEW i \in DOMAIN s
  PROVE  /\ RemoveAt(s, i) \in Seq(S)
         /\ ToSet(RemoveAt(s, i)) \subseteq ToSet(s)
         /\ ToSet(s) \subseteq ToSet(RemoveAt(s, i)) \cup {s[i]}
  <1> DEFINE left  == SubSeq(s, 1, i - 1)
             right == SubSeq(s, i + 1, Len(s))
             rest  == RemoveAt(s, i)
  <1>1. Len(s) \in Nat /\ DOMAIN s = 1..Len(s) /\ i \in 1..Len(s)
    BY LenProperties
  <1>2. /\ left \in Seq(S) /\ Len(left) = i - 1
        /\ \A k \in 1..(i - 1) : left[k] = s[k]
    <2>1. \A k \in 1..(i - 1) : s[k] \in S
      BY <1>1, ElementOfSeq
    <2> QED
      BY <1>1, <2>1, SubSeqProperties
  <1>3. /\ right \in Seq(S) /\ Len(right) = Len(s) - i
        /\ \A k \in 1..(Len(s) - i) : right[k] = s[k + i]
    <2>1. \A k \in (i + 1)..Len(s) : s[k] \in S
      BY <1>1, ElementOfSeq
    <2>2. /\ right \in Seq(S)
          /\ Len(right) = IF i + 1 <= Len(s) THEN Len(s) - (i + 1) + 1 ELSE 0
          /\ \A k \in 1..(Len(s) - (i + 1) + 1) : right[k] = s[(i + 1) + k - 1]
      BY <1>1, <2>1, SubSeqProperties
    <2> QED
      BY <1>1, <2>2
  <1> HIDE DEF left, right
  <1>4. /\ rest \in Seq(S)
        /\ Len(rest) = Len(s) - 1
        /\ \A k \in 1..(Len(s) - 1) : rest[k] = IF k < i THEN s[k] ELSE s[k + 1]
    <2>1. rest = left \o right
      BY DEF RemoveAt, left, right
    <2>2. /\ left \o right \in Seq(S)
          /\ Len(left \o right) = Len(left) + Len(right)
          /\ \A k \in 1..(Len(left) + Len(right)) :
               (left \o right)[k] = IF k <= Len(left) THEN left[k] ELSE right[k - Len(left)]
      BY <1>2, <1>3, ConcatProperties
    <2>3. Len(left) + Len(right) = Len(s) - 1
      BY <1>1, <1>2, <1>3
    <2>4. ASSUME NEW k \in 1..(Len(s) - 1)
          PROVE  rest[k] = IF k < i THEN s[k] ELSE s[k + 1]
      <3>1. rest[k] = IF k <= i - 1 THEN left[k] ELSE right[k - (i - 1)]
        BY <1>2, <2>1, <2>2, <2>3
      <3>2. CASE k < i
        <4>1. k \in 1..(i - 1) /\ k <= i - 1
          BY <1>1, <3>2
        <4> QED
          BY <1>2, <3>1, <3>2, <4>1
      <3>3. CASE ~(k < i)
        <4>1. k - (i - 1) \in 1..(Len(s) - i) /\ ~(k <= i - 1) /\ k - (i - 1) + i = k + 1
          BY <1>1, <3>3
        <4>2. right[k - (i - 1)] = s[k + 1]
          BY <1>3, <4>1
        <4> QED
          BY <3>1, <3>3, <4>1, <4>2
      <3> QED
        BY <3>2, <3>3
    <2>5. rest \in Seq(S) /\ Len(rest) = Len(s) - 1
      BY <2>1, <2>2, <2>3
    <2> HIDE DEF rest
    <2> QED
      BY <2>4, <2>5
  <1> HIDE DEF rest
  <1>5. DOMAIN rest = 1..(Len(s) - 1)
    BY <1>4, LenProperties
  <1>6. ASSUME NEW k \in DOMAIN rest PROVE rest[k] \in ToSet(s)
    BY <1>1, <1>4, <1>5 DEF ToSet
  <1>7. ASSUME NEW k \in DOMAIN s, k # i PROVE s[k] \in ToSet(rest)
    <2>1. CASE k < i
      BY <1>1, <1>4, <1>5, <2>1 DEF ToSet
    <2>2. CASE k > i
      <3>1. k - 1 \in 1..(Len(s) - 1) /\ ~(k - 1 < i)
        BY <1>1, <2>2
      <3>2. rest[k - 1] = s[k - 1 + 1] /\ k - 1 + 1 = k
        BY <1>1, <1>4, <3>1
      <3> QED
        BY <1>5, <3>1, <3>2 DEF ToSet
    <2> QED
      BY <1>1, <1>7, <2>1, <2>2
  <1> QED
    BY <1>4, <1>6, <1>7 DEF ToSet, rest
(* The reviews.                                                            *)

LEMMA ReviewFields ==
  ASSUME NEW h
  PROVE  /\ ReviewFor(h).key = CardOf[h]
         /\ ReviewFor(h).tenant = TenantFor(h)
         /\ ReviewFor(h).approvals = RequiredApprovals(CardOf[h])
  BY DEF ReviewFor, SourceKey

(* What the console holds after a submission: a review of that verdict,    *)
(* and nothing else that it did not hold.                                  *)
LEMMA AcceptedReviews ==
  ASSUME ReviewsAreVerdicts, NEW review \in Reviews
  PROVE  /\ console \subseteq Accepted(review)
         /\ Accepted(review) \subseteq console \cup {review}
         /\ Accepted(review) \subseteq Reviews
         /\ \A a, b \in Accepted(review) : a.tenant = b.tenant /\ a.key = b.key => a = b
         /\ \E held \in Accepted(review) : held.key = review.key
  <1>1. CASE \E held \in console : held.tenant = review.tenant /\ held.key = review.key
    BY <1>1 DEF Accepted, ReviewsAreVerdicts
  <1>2. CASE ~\E held \in console : held.tenant = review.tenant /\ held.key = review.key
    BY <1>2 DEF Accepted, ReviewsAreVerdicts
  <1> QED
    BY <1>1, <1>2

(* A step that returns no reference and lets no review disappear, neither  *)
(* from the desk nor from the console, keeps what references promise.      *)
LEMMA DeskKept ==
  ASSUME RoutingInv,
         \A card : InConsole(card) => InConsole(card)',
         \A card : OnDesk(card) => OnDesk(card)',
         UNCHANGED <<reference, restarts>>
  PROVE  ReferencesNameTheirCards'
  BY DEF RoutingInv, ReferencesNameTheirCards

(* What concludes a hand-off: it was under way, and the reference it gets  *)
(* is nothing, or names its card and leads to a review.                    *)
LEMMA ConcludeStep ==
  ASSUME RoutingInv, ReviewsAreVerdicts',
         NEW h \in Handoffs, NEW how \in {"not_required", "routed", "failed", "off"}, NEW ref,
         Conclude(h, how, ref),
         \A card : InConsole(card) => InConsole(card)',
         \A card : OnDesk(card) => OnDesk(card)',
         restarts' = restarts,
         ref # Nothing =>
           /\ ref.key = CardOf[h]
           /\ ref.kind = "console" => InConsole(CardOf[h])'
           /\ OnDesk(CardOf[h])'
  PROVE  RoutingInv'
  <1>1. \A g \in Handoffs :
          /\ pc'[g] = IF g = h THEN "done" ELSE pc[g]
          /\ outcome'[g] = IF g = h THEN how ELSE outcome[g]
          /\ reference'[g] = IF g = h THEN ref ELSE reference[g]
    BY DEF Conclude, RoutingInv, HandoffsInOrder
  <1>2. HandoffsInOrder'
    BY <1>1 DEF Conclude, RoutingInv, HandoffsInOrder
  <1>3. EnqueuedAreOnTheDesk'
    BY <1>1 DEF RoutingInv, EnqueuedAreOnTheDesk
  <1>4. ReferencesNameTheirCards'
    BY <1>1 DEF RoutingInv, ReferencesNameTheirCards
  <1> QED
    BY <1>2, <1>3, <1>4 DEF RoutingInv

(* Nothing is queued or submitted.                                         *)
LEMMA SameDesk ==
  ASSUME UNCHANGED <<outbox, console>>
  PROVE  /\ ReviewsAreVerdicts => ReviewsAreVerdicts'
         /\ \A card : InConsole(card)' = InConsole(card) /\ OnDesk(card)' = OnDesk(card)
  BY DEF ReviewsAreVerdicts, InConsole, OnDesk, InOutbox, Pending

(* A submission: the review of a failing verdict is, or was, accepted.     *)
LEMMA SubmittedDesk ==
  ASSUME ReviewsAreVerdicts, NEW review \in Reviews,
         console' \in {console, Accepted(review)}, UNCHANGED outbox
  PROVE  /\ ReviewsAreVerdicts'
         /\ \A card : InConsole(card) => InConsole(card)'
         /\ \A card : OnDesk(card) => OnDesk(card)'
         /\ console' = Accepted(review) => InConsole(review.key)'
  <1>1. /\ console \subseteq Accepted(review)
        /\ Accepted(review) \subseteq Reviews
        /\ \A a, b \in Accepted(review) : a.tenant = b.tenant /\ a.key = b.key => a = b
        /\ \E held \in Accepted(review) : held.key = review.key
    BY AcceptedReviews
  <1>2. ReviewsAreVerdicts'
    BY <1>1 DEF ReviewsAreVerdicts
  <1> QED
    BY <1>1, <1>2 DEF InConsole, OnDesk, InOutbox, Pending

-----------------------------------------------------------------------------
(* One lemma for each kind of step.                                        *)

LEMMA RouteStep ==
  ASSUME RoutingInv, NEW h \in Handoffs, RouteNowhere(h) \/ RouteRefused(h)
  PROVE  RoutingInv'
  <1>1. /\ \E how \in {"not_required", "off", "failed"} : Conclude(h, how, Nothing)
        /\ UNCHANGED <<restarts, outbox, console>>
    BY DEF RouteNowhere, RouteRefused, process
  <1>2. ReviewsAreVerdicts'
    BY <1>1, SameDesk DEF RoutingInv
  <1> QED
    BY <1>1, <1>2, SameDesk, ConcludeStep

LEMMA SubmitStep ==
  ASSUME RoutingInv, NEW h \in Handoffs, Submit(h)
  PROVE  RoutingInv'
  <1>1. ReviewFor(h) \in Reviews /\ ReviewFor(h).key = CardOf[h]
    BY ReviewFields DEF Submit, Reviews
  <1>2. console' \in {console, Accepted(ReviewFor(h))} /\ UNCHANGED <<restarts, outbox>>
    BY DEF Submit, process
  <1>3. /\ ReviewsAreVerdicts'
        /\ \A card : InConsole(card) => InConsole(card)'
        /\ \A card : OnDesk(card) => OnDesk(card)'
        /\ console' = Accepted(ReviewFor(h)) => InConsole(CardOf[h])'
    BY <1>1, <1>2, SubmittedDesk DEF RoutingInv
  <1>4. CASE console' = Accepted(ReviewFor(h))
             /\ Conclude(h, "routed", ReviewId(TenantFor(h), SourceKey(h)))
    <2> DEFINE ref == ReviewId(TenantFor(h), SourceKey(h))
    <2>1. ref.key = CardOf[h]
      BY DEF ReviewId, SourceKey
    <2>2. InConsole(CardOf[h])' /\ OnDesk(CardOf[h])'
      BY <1>3, <1>4 DEF OnDesk
    <2> HIDE DEF ref
    <2> QED
      BY <1>2, <1>3, <1>4, <2>1, <2>2, ConcludeStep DEF ref
  <1>5. CASE Conclude(h, "failed", Nothing)
    BY <1>2, <1>3, <1>5, ConcludeStep
  <1> QED
    BY <1>4, <1>5 DEF Submit

LEMMA EnqueueStep ==
  ASSUME RoutingInv, NEW h \in Handoffs, Enqueue(h)
  PROVE  RoutingInv'
  <1>1. ReviewFor(h) \in Reviews /\ ReviewFor(h).key = CardOf[h] /\ CardOf[h] \in Failing
    BY ReviewFields DEF Enqueue, Reviews
  <1>2. /\ outbox' = Append(outbox, ReviewFor(h))
        /\ pc' = [pc EXCEPT ![h] = "enqueued"]
        /\ UNCHANGED <<restarts, reference, outcome, console>>
    BY DEF Enqueue, process
  <1>3. outbox' \in Seq(Reviews) /\ Pending' = Pending \cup {ReviewFor(h)}
    BY <1>1, <1>2, AppendElements DEF RoutingInv, ReviewsAreVerdicts, Pending
  <1>4. /\ \A card : InConsole(card) => InConsole(card)'
        /\ \A card : OnDesk(card) => OnDesk(card)'
        /\ OnDesk(CardOf[h])'
    BY <1>1, <1>2, <1>3 DEF InConsole, OnDesk, InOutbox
  <1>5. \A g \in Handoffs : pc'[g] = IF g = h THEN "enqueued" ELSE pc[g]
    BY <1>2 DEF RoutingInv, HandoffsInOrder
  <1>6. HandoffsInOrder'
    BY <1>2, <1>5 DEF Enqueue, RoutingInv, HandoffsInOrder
  <1>7. ReviewsAreVerdicts'
    BY <1>2, <1>3 DEF RoutingInv, ReviewsAreVerdicts
  <1>8. EnqueuedAreOnTheDesk'
    BY <1>1, <1>4, <1>5 DEF RoutingInv, EnqueuedAreOnTheDesk
  <1>9. ReferencesNameTheirCards'
    BY <1>2, <1>4, DeskKept
  <1> QED
    BY <1>6, <1>7, <1>8, <1>9 DEF RoutingInv

LEMMA ReferStep ==
  ASSUME RoutingInv, NEW h \in Handoffs, Refer(h)
  PROVE  RoutingInv'
  <1> DEFINE ref == QueueRef(Len(outbox), SourceKey(h))
  <1>1. ref.key = CardOf[h] /\ ref.kind = "outbox"
    BY DEF QueueRef, SourceKey
  <1>2. OnDesk(CardOf[h])
    BY DEF Refer, RoutingInv, EnqueuedAreOnTheDesk
  <1>3. Conclude(h, "routed", ref) /\ UNCHANGED <<restarts, outbox, console>>
    BY DEF Refer, process
  <1>4. ReviewsAreVerdicts'
    BY <1>3, SameDesk DEF RoutingInv
  <1> HIDE DEF ref
  <1> QED
    BY <1>1, <1>2, <1>3, <1>4, SameDesk, ConcludeStep

(* What leaves the queue is in the console, and what the console refused   *)
(* is still in the queue.                                                  *)
LEMMA FlushStep ==
  ASSUME RoutingInv, Flush
  PROVE  RoutingInv'
  <1>1. PICK i \in DOMAIN outbox :
          /\ console' = Accepted(outbox[i])
          /\ outbox' \in {outbox, RemoveAt(outbox, i)}
    BY DEF Flush
  <1>2. UNCHANGED <<restarts, pc, reference, outcome>>
    BY DEF Flush, process
  <1>3. outbox[i] \in Reviews
    BY ElementOfSeq, LenProperties DEF RoutingInv, ReviewsAreVerdicts
  <1>4. /\ console \subseteq Accepted(outbox[i])
        /\ Accepted(outbox[i]) \subseteq Reviews
        /\ \A a, b \in Accepted(outbox[i]) : a.tenant = b.tenant /\ a.key = b.key => a = b
        /\ \E held \in Accepted(outbox[i]) : held.key = outbox[i].key
    BY <1>3, AcceptedReviews DEF RoutingInv
  <1>5. /\ outbox' \in Seq(Reviews)
        /\ Pending \subseteq Pending' \cup {outbox[i]}
    BY <1>1, RemoveElement DEF RoutingInv, ReviewsAreVerdicts, Pending
  <1>6. /\ \A card : InConsole(card) => InConsole(card)'
        /\ \A card : OnDesk(card) => OnDesk(card)'
    BY <1>1, <1>4, <1>5 DEF InConsole, OnDesk, InOutbox
  <1>7. ReviewsAreVerdicts'
    BY <1>1, <1>4, <1>5 DEF ReviewsAreVerdicts
  <1>8. EnqueuedAreOnTheDesk'
    BY <1>2, <1>6 DEF RoutingInv, EnqueuedAreOnTheDesk
  <1>9. ReferencesNameTheirCards'
    BY <1>2, <1>6, DeskKept
  <1> QED
    BY <1>2, <1>7, <1>8, <1>9 DEF RoutingInv, HandoffsInOrder

(* The queue is gone; what is in the console stays, and nobody was between *)
(* the halves any more.                                                    *)
LEMMA RestartStep ==
  ASSUME RoutingInv, Restart
  PROVE  RoutingInv'
  <1>1. /\ outbox' = <<>>
        /\ restarts' = restarts + 1 /\ restarts' # 0 /\ restarts' \in Nat
        /\ UNCHANGED <<reference, outcome, console>>
        /\ pc' = [h \in Handoffs |-> IF pc[h] = "enqueued" THEN "lost" ELSE pc[h]]
    BY DEF Restart, Boot, RoutingInv, HandoffsInOrder
  <1>2. HandoffsInOrder'
    BY <1>1 DEF RoutingInv, HandoffsInOrder
  <1>3. ReviewsAreVerdicts'
    BY <1>1, EmptySeq DEF RoutingInv, ReviewsAreVerdicts
  <1>4. EnqueuedAreOnTheDesk'
    BY <1>1 DEF EnqueuedAreOnTheDesk
  <1>5. \A card : InConsole(card) => InConsole(card)'
    BY <1>1 DEF InConsole
  <1>6. ReferencesNameTheirCards'
    BY <1>1, <1>5 DEF RoutingInv, ReferencesNameTheirCards
  <1> QED
    BY <1>2, <1>3, <1>4, <1>6 DEF RoutingInv

LEMMA IdleStep ==
  ASSUME RoutingInv, UNCHANGED <<pc, reference, outcome, outbox, console, restarts>>
  PROVE  RoutingInv'
  <1>1. ReviewsAreVerdicts'
    BY SameDesk DEF RoutingInv
  <1>2. EnqueuedAreOnTheDesk' /\ ReferencesNameTheirCards'
    BY SameDesk DEF RoutingInv, EnqueuedAreOnTheDesk, ReferencesNameTheirCards
  <1> QED
    BY <1>1, <1>2 DEF RoutingInv, HandoffsInOrder

(* The invariant holds in every state, whichever routers were bound.       *)
THEOREM RoutingInvariance == Spec => []RoutingInv
  <1>1. Init => RoutingInv
    <2> SUFFICES ASSUME Init PROVE RoutingInv
      OBVIOUS
    <2>1. HandoffsInOrder
      BY DEF Init, HandoffsInOrder
    <2>2. ReviewsAreVerdicts
      BY EmptySeq DEF Init, ReviewsAreVerdicts
    <2>3. EnqueuedAreOnTheDesk /\ ReferencesNameTheirCards
      BY DEF Init, EnqueuedAreOnTheDesk, ReferencesNameTheirCards
    <2> QED
      BY <2>1, <2>2, <2>3 DEF RoutingInv
  <1>2. RoutingInv /\ [Next]_vars => RoutingInv'
    <2> SUFFICES ASSUME RoutingInv, [Next]_vars PROVE RoutingInv'
      OBVIOUS
    <2>1. CASE Flush
      BY <2>1, FlushStep
    <2>2. CASE Rotate
      BY <2>2, IdleStep DEF Rotate, process
    <2>3. CASE Restart
      BY <2>3, RestartStep
    <2>4. ASSUME NEW h \in Handoffs,
                 RouteNowhere(h) \/ RouteRefused(h) \/ Submit(h) \/ Enqueue(h) \/ Refer(h)
          PROVE  RoutingInv'
      BY <2>4, RouteStep, SubmitStep, EnqueueStep, ReferStep
    <2>5. CASE UNCHANGED vars
      BY <2>5, IdleStep DEF vars
    <2> QED
      BY <2>1, <2>2, <2>3, <2>4, <2>5 DEF Next
  <1> QED
    BY <1>1, <1>2, PTL DEF Spec

-----------------------------------------------------------------------------
(* However the threads, the operator and the restarts came between, a      *)
(* reference is of one verdict, its review is in the console, or waiting   *)
(* if the process never stopped, and a critical one waits for two          *)
(* approvals.                                                              *)
THEOREM ReferencesLead == Spec => []ReferencesLeadToTheirReviews
  <1>1. RoutingInv => ReferencesLeadToTheirReviews
    <2> SUFFICES ASSUME RoutingInv, NEW h \in Handoffs, reference[h] # Nothing
                 PROVE  /\ \A other \in Handoffs :
                             reference[other] = reference[h] => CardOf[other] = CardOf[h]
                        /\ reference[h].kind = "console" \/ restarts = 0 =>
                             \E review \in console \cup Pending :
                               /\ review.key = reference[h].key
                               /\ CardOf[h] \in Critical => review.approvals = 2
      BY DEF ReferencesLeadToTheirReviews
    <2>1. \A other \in Handoffs : reference[other] = reference[h] => CardOf[other] = CardOf[h]
      BY DEF RoutingInv, ReferencesNameTheirCards
    <2>2. ASSUME reference[h].kind = "console" \/ restarts = 0
          PROVE  \E review \in console \cup Pending :
                   /\ review.key = reference[h].key
                   /\ CardOf[h] \in Critical => review.approvals = 2
      <3>1. PICK review \in console \cup Pending : review.key = CardOf[h]
        BY <2>2 DEF RoutingInv, ReferencesNameTheirCards, OnDesk, InConsole, InOutbox
      <3>2. review \in Reviews
        BY ElementOfSeq, LenProperties DEF RoutingInv, ReviewsAreVerdicts, Pending, ToSet
      <3>3. CardOf[h] \in Critical => review.approvals = 2
        BY <3>1, <3>2, ReviewFields DEF Reviews, RequiredApprovals
      <3> QED
        BY <3>1, <3>3 DEF RoutingInv, ReferencesNameTheirCards
    <2> QED
      BY <2>1, <2>2
  <1> QED
    BY <1>1, RoutingInvariance, PTL

(* Retried, flushed twice or with its answer lost, a verdict has at most   *)
(* one review per tenant partition in the console: its reviews map to the  *)
(* verdicts and tenants one to one.                                        *)
THEOREM OneReview == Spec => []OneReviewPerVerdict
  <1>1. RoutingInv => OneReviewPerVerdict
    <2> SUFFICES ASSUME RoutingInv PROVE OneReviewPerVerdict
      OBVIOUS
    <2> DEFINE FailingHandoffs == {g \in Handoffs : CardOf[g] \in Failing}
               Partitions == {<<CardOf[h], TenantFor(h)>> : h \in FailingHandoffs}
               partition == [review \in console |-> <<review.key, review.tenant>>]
               ofHandoff == [h \in FailingHandoffs |-> <<CardOf[h], TenantFor(h)>>]
    <2>1. IsFiniteSet(FailingHandoffs)
      BY FS_Subset, RoutingAssumption
    <2>2. ofHandoff \in Surjection(FailingHandoffs, Partitions)
      BY DEF Surjection
    <2>3. IsFiniteSet(Partitions)
      <3> HIDE DEF FailingHandoffs, Partitions, ofHandoff
      <3> QED
        BY <2>1, <2>2, FS_Surjection
    <2>4. partition \in Injection(console, Partitions)
      <3>1. ASSUME NEW review \in console PROVE partition[review] \in Partitions
        <4>1. PICK h \in FailingHandoffs : review = ReviewFor(h)
          BY DEF RoutingInv, ReviewsAreVerdicts, Reviews
        <4> QED
          BY <4>1, ReviewFields
      <3>2. ASSUME NEW a \in console, NEW b \in console, partition[a] = partition[b]
            PROVE  a = b
        <4>1. a.key = b.key /\ a.tenant = b.tenant
          BY <3>2
        <4> QED
          BY <4>1 DEF RoutingInv, ReviewsAreVerdicts
      <3> QED
        BY <3>1, <3>2 DEF Injection, IsInjective
    <2>5. Cardinality(console) <= Cardinality(Partitions)
      <3> HIDE DEF Partitions, partition
      <3> QED
        BY <2>3, <2>4, FS_Injection
    <2> QED
      BY <2>5 DEF OneReviewPerVerdict
  <1> QED
    BY <1>1, RoutingInvariance, PTL

-----------------------------------------------------------------------------
(* The refinement of ReviewDesk.                                           *)

Waiting == {review.key : review \in Pending}
Taken == {review.key : review \in console}
Promises == {<<h, CardOf[h]>> : h \in {g \in Handoffs : outcome[g] = "routed"}}

LEMMA DeskInit == Init => Desk!Init
  <1> SUFFICES ASSUME Init PROVE Desk!Init
    OBVIOUS
  <1>1. Pending = {}
    BY DEF Init, Pending, ToSet
  <1> QED
    BY <1>1 DEF Init, Desk!Init

(* The console took a card or had it.                                      *)
LEMMA AcceptedIsTaken ==
  ASSUME RoutingInv, NEW review \in Reviews, console' = Accepted(review)
  PROVE  Taken' = Taken \cup {review.key}
  <1>1. /\ console \subseteq console'
        /\ console' \subseteq console \cup {review}
        /\ \E held \in console' : held.key = review.key
    BY AcceptedReviews DEF RoutingInv
  <1> QED
    BY <1>1 DEF Taken

(* A hand-off that ends routed is a promise, one that ends otherwise none. *)
LEMMA PromisesKept ==
  ASSUME RoutingInv, NEW h \in Handoffs, pc[h] # "done",
         NEW how \in {"not_required", "routed", "failed", "off"}, NEW ref,
         Conclude(h, how, ref)
  PROVE  Promises' = IF how = "routed" THEN Promises \cup {<<h, CardOf[h]>>} ELSE Promises
  <1>1. \A g \in Handoffs : outcome'[g] = IF g = h THEN how ELSE outcome[g]
    BY DEF Conclude, RoutingInv, HandoffsInOrder
  <1>2. outcome[h] # "routed"
    BY DEF RoutingInv, HandoffsInOrder
  <1> QED
    BY <1>1, <1>2 DEF Promises

LEMMA DeskStep ==
  ASSUME RoutingInv, [Next]_vars
  PROVE  [Desk!Next]_(Desk!vars)
  <1> DEFINE Same == UNCHANGED <<Waiting, Taken, Promises>>
  <1>1. Same => UNCHANGED Desk!vars
    BY DEF Desk!vars, Waiting, Taken, Promises
  <1>2. ASSUME NEW h \in Handoffs, RouteNowhere(h) \/ RouteRefused(h)
        PROVE  Same
    <2>1. /\ pc[h] # "done" /\ UNCHANGED <<outbox, console>>
          /\ \E how \in {"not_required", "off", "failed"} : Conclude(h, how, Nothing)
      BY <1>2 DEF RouteNowhere, RouteRefused
    <2>2. Promises' = Promises
      BY <2>1, PromisesKept
    <2> QED
      BY <2>1, <2>2 DEF Waiting, Taken, Pending
  <1>3. ASSUME NEW h \in Handoffs, Submit(h)
        PROVE  [Desk!Next]_(Desk!vars)
    <2>1. ReviewFor(h) \in Reviews /\ ReviewFor(h).key = CardOf[h] /\ CardOf[h] \in Cards
      BY <1>3, ReviewFields, RoutingAssumption DEF Submit, Reviews
    <2>2. pc[h] # "done" /\ Waiting' = Waiting
      BY <1>3 DEF Submit, Waiting, Pending
    <2>3. CASE /\ console' = Accepted(ReviewFor(h))
               /\ Conclude(h, "routed", ReviewId(TenantFor(h), SourceKey(h)))
      <3>1. Taken' = Taken \cup {CardOf[h]} /\ Promises' = Promises \cup {<<h, CardOf[h]>>}
        BY <2>1, <2>2, <2>3, AcceptedIsTaken, PromisesKept
      <3>2. Desk!TakeAndPromise(h, CardOf[h])
        BY <2>2, <3>1 DEF Desk!TakeAndPromise, Waiting, Taken, Promises
      <3> QED
        BY <2>1, <3>2 DEF Desk!Next
    <2>4. CASE console' \in {console, Accepted(ReviewFor(h))} /\ Conclude(h, "failed", Nothing)
      <3>1. Promises' = Promises
        BY <2>2, <2>4, PromisesKept
      <3>2. CASE console' = console
        BY <1>1, <2>2, <3>1, <3>2 DEF Taken
      <3>3. CASE console' = Accepted(ReviewFor(h))
        <4>1. Taken' = Taken \cup {CardOf[h]}
          BY <2>1, <3>3, AcceptedIsTaken
        <4>2. Desk!Take(CardOf[h])
          BY <2>2, <3>1, <4>1 DEF Desk!Take, Waiting, Taken, Promises
        <4> QED
          BY <2>1, <4>2 DEF Desk!Next
      <3> QED
        BY <2>4, <3>2, <3>3
    <2> QED
      BY <1>3, <2>3, <2>4 DEF Submit
  <1>4. ASSUME NEW h \in Handoffs, Enqueue(h)
        PROVE  [Desk!Next]_(Desk!vars)
    <2>1. ReviewFor(h) \in Reviews /\ ReviewFor(h).key = CardOf[h] /\ CardOf[h] \in Cards
      BY <1>4, ReviewFields, RoutingAssumption DEF Enqueue, Reviews
    <2>2. Pending' = Pending \cup {ReviewFor(h)}
      BY <1>4, <2>1, AppendElements DEF Enqueue, RoutingInv, ReviewsAreVerdicts, Pending
    <2>3. Waiting' = Waiting \cup {CardOf[h]} /\ UNCHANGED <<Taken, Promises>>
      BY <1>4, <2>1, <2>2 DEF Enqueue, Waiting, Taken, Promises
    <2>4. Desk!Keep(CardOf[h])
      BY <2>3 DEF Desk!Keep, Waiting, Taken, Promises
    <2> QED
      BY <2>1, <2>4 DEF Desk!Next
  <1>5. ASSUME NEW h \in Handoffs, Refer(h)
        PROVE  [Desk!Next]_(Desk!vars)
    <2>1. CardOf[h] \in Taken \cup Waiting
      BY <1>5 DEF Refer, RoutingInv, EnqueuedAreOnTheDesk, OnDesk, InConsole, InOutbox,
             Taken, Waiting
    <2>2. Promises' = Promises \cup {<<h, CardOf[h]>>}
      BY <1>5, PromisesKept DEF Refer
    <2>3. UNCHANGED <<Waiting, Taken>>
      BY <1>5 DEF Refer, Waiting, Taken, Pending
    <2>4. Desk!Promise(h, CardOf[h])
      BY <2>1, <2>2, <2>3 DEF Desk!Promise, Waiting, Taken, Promises
    <2> QED
      BY <2>4, RoutingAssumption DEF Desk!Next
  <1>6. ASSUME Flush
        PROVE  [Desk!Next]_(Desk!vars)
    <2>1. PICK i \in DOMAIN outbox :
            /\ console' = Accepted(outbox[i])
            /\ outbox' \in {outbox, RemoveAt(outbox, i)}
      BY <1>6 DEF Flush
    <2>2. outbox[i] \in Reviews
      BY ElementOfSeq, LenProperties DEF RoutingInv, ReviewsAreVerdicts
    <2>3. PICK card \in Cards : outbox[i].key = card
      BY <2>2, ReviewFields, RoutingAssumption DEF Reviews
    <2>4. Pending' \subseteq Pending /\ Pending \subseteq Pending' \cup {outbox[i]}
      BY <2>1, RemoveElement DEF RoutingInv, ReviewsAreVerdicts, Pending
    <2>5. Waiting' \subseteq Waiting /\ Waiting \subseteq Waiting' \cup {card}
      BY <2>3, <2>4 DEF Waiting
    <2>6. Waiting' \in {Waiting, Waiting \ {card}}
      BY <2>5
    <2>7. Taken' = Taken \cup {card} /\ Promises' = Promises
      BY <1>6, <2>1, <2>2, <2>3, AcceptedIsTaken DEF Flush, Promises
    <2>8. Desk!Take(card)
      BY <2>6, <2>7 DEF Desk!Take, Waiting, Taken, Promises
    <2> QED
      BY <2>8 DEF Desk!Next
  <1>7. ASSUME Restart
        PROVE  [Desk!Next]_(Desk!vars)
    <2>1. Waiting' = {} /\ UNCHANGED <<Taken, Promises>>
      BY <1>7 DEF Restart, Boot, Waiting, Taken, Promises, Pending, ToSet
    <2>2. Desk!Stop
      BY <2>1 DEF Desk!Stop, Waiting, Taken, Promises
    <2> QED
      BY <2>2 DEF Desk!Next
  <1>8. Rotate \/ UNCHANGED vars => Same
    BY DEF Rotate, vars, Waiting, Taken, Promises, Pending
  <1> QED
    BY <1>1, <1>2, <1>3, <1>4, <1>5, <1>6, <1>7, <1>8 DEF Next

(* Whatever is bound and however it is called, the routers keep what the   *)
(* desk promises: only what is routed is promised, and what is promised is *)
(* waiting or taken.                                                       *)
THEOREM DeskKeepsItsPromises == Spec => KeepsTheDesk
  <1>1. RoutingInv /\ [Next]_vars => [Desk!Next]_(Desk!vars)
    BY DeskStep
  <1> QED
    BY DeskInit, <1>1, RoutingInvariance, PTL DEF Spec, KeepsTheDesk, Desk!Spec
===============================================================================
