--------------------------- MODULE IngestionProofs ---------------------------
(***************************************************************************)
(* The sweep of Redaction for transcripts of any length, turns of any      *)
(* length and any number of rows; the assembly of transcripts for turns of *)
(* any words and any listing of them; and the offline directory for any    *)
(* number of files.                                                        *)
(*                                                                         *)
(* Of the sweep, the invariant says of every match passed why it is        *)
(* settled: it is kept, or a kept one before it runs into it; and that     *)
(* last_end is the frontier.  Of the word lookup it says that the cursor   *)
(* never passes the place of a word still to come, so str.find cannot      *)
(* overshoot.  Of a contact it says which file its record is from and      *)
(* which its transcript.                                                   *)
(***************************************************************************)
EXTENDS Ingestion, SequenceTheorems, FiniteSetTheorems, WellFoundedInduction, TLAPS

-----------------------------------------------------------------------------
(* The sweep.                                                              *)

(* A match found in turn t was kept, or lost to span s.                     *)
Overruns(s, m) ==
  /\ m.start < s.end
  /\ s.start < m.start \/ (s.start = m.start /\ s.order < m.order)

Settled(t, m) ==
  \E i \in DOMAIN spans :
    /\ spans[i].turn = t
    /\ spans[i] = SpanOf(t, m) \/ Overruns(spans[i], m)

FoundIsFindable ==
  \A t \in Turn : Findable(found[t]) /\ (t > turn => found[t] = {})

SpansAreFound ==
  \A i \in DOMAIN spans :
    /\ spans[i].turn <= turn
    /\ \E m \in found[spans[i].turn] : spans[i] = SpanOf(spans[i].turn, m)

Frontier ==
  /\ \A i \in DOMAIN spans : spans[i].turn = turn => spans[i].end <= last_end
  /\ last_end = -1 \/ \E i \in DOMAIN spans : spans[i].turn = turn /\ spans[i].end = last_end

Ahead ==
  \A m \in pending : \A i \in DOMAIN spans : spans[i].turn = turn => Before(spans[i], m)

AllSettled ==
  \A t \in Turn : \A m \in found[t] : (t = turn => m \notin pending) => Settled(t, m)

CutFromSpans ==
  masked # None =>
    /\ turn = Turns + 1
    /\ masked = [t \in Turn |-> [chars |-> MaskedIn(t), timed |-> SpansOf(t) = {}]]

IInv ==
  /\ TypeOK
  /\ SpansAreInOrder
  /\ FoundIsFindable
  /\ SpansAreFound
  /\ Frontier
  /\ Ahead
  /\ AllSettled
  /\ CutFromSpans

-----------------------------------------------------------------------------
LEMMA SpansAreTyped ==
  ASSUME TypeOK, NEW i \in DOMAIN spans
  PROVE  spans[i] \in Span /\ spans[i].turn \in Turn
<1>1. spans \in Seq(Span)
  BY DEF TypeOK
<1>2. spans[i] \in Span
  BY <1>1
<1> QED
  BY <1>2 DEF Span

LEMMA InitIsInvariant == Init => IInv
<1> SUFFICES ASSUME Init PROVE IInv
  OBVIOUS
<1> USE RedactionAssumption DEF Init, Turn, None
<1>1. TypeOK
  BY DEF TypeOK, Match
<1>2. SpansAreInOrder /\ SpansAreFound /\ Frontier /\ Ahead
  BY DEF SpansAreInOrder, SpansAreFound, Frontier, Ahead
<1>3. FoundIsFindable /\ AllSettled /\ CutFromSpans
  BY DEF FoundIsFindable, Findable, AllSettled, CutFromSpans
<1> QED
  BY <1>1, <1>2, <1>3 DEF IInv

(* Nothing of the sweep but the matches of the turn changes.                *)
LEMMA DetectKeeps == ASSUME IInv, Detect PROVE IInv'
<1> USE RedactionAssumption
<1>1. PICK matches \in SUBSET Match :
        /\ Findable(matches)
        /\ found' = [found EXCEPT ![turn] = matches]
        /\ pending' = matches
  BY DEF Detect
<1>2. /\ turn \in Turn
      /\ found[turn] = {}
      /\ UNCHANGED <<turn, last_end, spans, masked>>
  BY DEF Detect
<1>3. TypeOK
  BY DEF IInv
<1>4. found' \in [Turn -> SUBSET Match] /\ found'[turn] = matches
  BY <1>1, <1>2, <1>3 DEF TypeOK
<1>5. \A t \in Turn : t # turn => found'[t] = found[t]
  BY <1>1, <1>2, <1>3 DEF TypeOK
<1>6. \A i \in DOMAIN spans : spans[i].turn # turn
  BY <1>2 DEF IInv, SpansAreFound
<1>7. TypeOK'
  BY <1>1, <1>2, <1>3, <1>4 DEF TypeOK, Turn
<1>8. SpansAreInOrder'
  BY <1>2 DEF IInv, SpansAreInOrder
<1>9. FoundIsFindable'
  BY <1>1, <1>2, <1>4, <1>5 DEF IInv, FoundIsFindable, Turn
<1>10. SpansAreFound'
  <2> SUFFICES ASSUME NEW i \in DOMAIN spans
               PROVE  /\ spans[i].turn <= turn
                      /\ \E m \in found'[spans[i].turn] : spans[i] = SpanOf(spans[i].turn, m)
    BY <1>2 DEF SpansAreFound, SpanOf
  <2>1. spans[i].turn \in Turn
    BY <1>3, SpansAreTyped
  <2> QED
    BY <1>5, <1>6, <2>1 DEF IInv, SpansAreFound
<1>11. Frontier' /\ Ahead'
  BY <1>2, <1>6 DEF IInv, Frontier, Ahead, Before
<1>12. AllSettled'
  BY <1>1, <1>2, <1>4, <1>5 DEF IInv, AllSettled, Settled, SpanOf, Overruns
<1>13. CutFromSpans'
  BY <1>2 DEF IInv, CutFromSpans, Turn
<1> QED
  BY <1>7, <1>8, <1>9, <1>10, <1>11, <1>12, <1>13 DEF IInv

(* What one round of the sweep has in hand.                                 *)
LEMMA LookFacts ==
  ASSUME IInv, Look
  PROVE  \E m \in pending :
           /\ IsNext(m)
           /\ m \in found[turn] /\ m \in Match /\ turn \in Turn
           /\ pending' = pending \ {m}
           /\ \/ m.start < last_end /\ UNCHANGED <<spans, last_end>>
              \/ m.start >= last_end /\ spans' = Append(spans, SpanOf(turn, m)) /\ last_end' = m.end
           /\ UNCHANGED <<turn, found, masked>>
<1>1. TypeOK
  BY DEF IInv
<1> QED
  BY <1>1 DEF Look, TypeOK

(* A kept span and a match the sweep has not reached lie in this order; two *)
(* matches of one row cannot start together.                                *)
LEMMA FrontierOverruns ==
  ASSUME IInv, NEW m \in pending, turn \in Turn, m.start < last_end
  PROVE  \E i \in DOMAIN spans : spans[i].turn = turn /\ Overruns(spans[i], m)
<1>1. TypeOK /\ FoundIsFindable /\ SpansAreFound /\ Frontier /\ Ahead
  BY DEF IInv
<1>2. m \in found[turn] /\ m \in Match
  BY <1>1 DEF TypeOK
<1>3. PICK i \in DOMAIN spans : spans[i].turn = turn /\ spans[i].end = last_end
  BY <1>1, <1>2 DEF Frontier, Match
<1>4. PICK k \in found[turn] : spans[i] = SpanOf(turn, k)
  BY <1>1, <1>3 DEF SpansAreFound
<1>5. k \in Match
  BY <1>1, <1>4 DEF TypeOK
<1>6. spans[i].start = k.start /\ spans[i].order = k.order /\ spans[i].end = k.end
  BY <1>4 DEF SpanOf
<1>7. Before(spans[i], m)
  BY <1>1, <1>3 DEF Ahead
<1>8. ~(k.start = m.start /\ k.order = m.order)
  <2> SUFFICES ASSUME k.start = m.start, k.order = m.order PROVE FALSE
    OBVIOUS
  <2>1. k.end < m.end
    BY <1>2, <1>5, <1>6, <1>7 DEF Before, Match
  <2>2. k # m
    BY <2>1, <1>2, <1>5 DEF Match
  <2>3. Disjoint(k, m)
    BY <1>1, <1>2, <1>4, <2>2 DEF FoundIsFindable, Findable
  <2> QED
    BY <2>3, <1>2, <1>5 DEF Disjoint, Match
<1>9. Overruns(spans[i], m)
  BY <1>2, <1>3, <1>5, <1>6, <1>7, <1>8 DEF Overruns, Before, Match
<1> QED
  BY <1>3, <1>9

(* A match that starts inside the last one kept is settled by it.           *)
LEMMA DropKeeps ==
  ASSUME IInv, NEW m \in pending, m \in found[turn], turn \in Turn,
         pending' = pending \ {m}, m.start < last_end,
         UNCHANGED <<turn, found, last_end, spans, masked>>
  PROVE  IInv'
<1>1. TypeOK'
  BY DEF IInv, TypeOK
<1>2. SpansAreInOrder' /\ FoundIsFindable' /\ SpansAreFound' /\ Frontier'
  BY DEF IInv, SpansAreInOrder, FoundIsFindable, SpansAreFound, Frontier
<1>3. Ahead'
  BY DEF IInv, Ahead
<1>4. Settled(turn, m)
  BY FrontierOverruns DEF Settled
<1>5. AllSettled'
  BY <1>4 DEF IInv, AllSettled, Settled
<1>6. CutFromSpans'
  BY DEF IInv, CutFromSpans, MaskedIn, SpansOf
<1> QED
  BY <1>1, <1>2, <1>3, <1>5, <1>6 DEF IInv

(* The next match of the sweep, if it is kept, is the new frontier.         *)
LEMMA KeepKeeps ==
  ASSUME IInv, NEW m \in pending, IsNext(m), m \in found[turn], m \in Match, turn \in Turn,
         pending' = pending \ {m}, m.start >= last_end,
         spans' = Append(spans, SpanOf(turn, m)), last_end' = m.end,
         UNCHANGED <<turn, found, masked>>
  PROVE  IInv'
<1> USE RedactionAssumption
<1> DEFINE s == SpanOf(turn, m)
           n == Len(spans)
<1>1. TypeOK /\ SpansAreInOrder /\ FoundIsFindable /\ SpansAreFound /\ Frontier /\ Ahead
  BY DEF IInv
<1>2. spans \in Seq(Span) /\ n \in Nat /\ DOMAIN spans = 1..n
  BY <1>1 DEF TypeOK
<1>3. s \in Span
  BY DEF SpanOf, Span, Match
<1>4. /\ s.turn = turn
      /\ s.start = m.start /\ s.order = m.order /\ s.end = m.end
  BY DEF SpanOf
<1>5. /\ DOMAIN spans' = 1..(n + 1)
      /\ \A i \in DOMAIN spans : spans'[i] = spans[i]
      /\ spans'[n + 1] = s
  BY <1>2, <1>3
<1> HIDE DEF s
<1>6. TypeOK'
  <2>1. spans' \in Seq(Span)
    BY <1>2, <1>3 DEF s
  <2> QED
    BY <1>1, <2>1 DEF TypeOK, Match
<1>7. SpansAreInOrder'
  <2> SUFFICES ASSUME NEW i \in DOMAIN spans', NEW j \in DOMAIN spans', i < j
               PROVE  \/ spans'[i].turn < spans'[j].turn
                      \/ spans'[i].turn = spans'[j].turn /\ spans'[i].end <= spans'[j].start
    BY DEF SpansAreInOrder
  <2>1. i \in DOMAIN spans
    BY <1>2, <1>5
  <2>2. CASE j \in DOMAIN spans
    BY <2>1, <2>2, <1>1, <1>5 DEF SpansAreInOrder
  <2>3. CASE j = n + 1
    <3>1. spans[i].turn <= turn
      BY <2>1, <1>1 DEF SpansAreFound
    <3>2. spans[i] \in Span /\ spans[i].turn \in Turn
      BY <2>1, <1>1, SpansAreTyped
    <3>3. spans[i].turn = turn => spans[i].end <= last_end
      BY <2>1, <1>1 DEF Frontier
    <3>4. last_end \in -1..Length /\ spans[i].end \in 0..Length /\ m.start \in 0..Length
      BY <1>1, <3>2 DEF TypeOK, Span, Match
    <3>5. spans[i].turn = turn => spans[i].end <= s.start
      BY <3>3, <3>4, <1>4
    <3> QED
      BY <3>1, <3>2, <3>5, <2>1, <2>3, <1>4, <1>5 DEF Turn
  <2> QED
    BY <2>2, <2>3, <1>2, <1>5
<1>8. FoundIsFindable'
  BY <1>1 DEF FoundIsFindable
<1>9. SpansAreFound'
  <2> SUFFICES ASSUME NEW i \in DOMAIN spans'
               PROVE  /\ spans'[i].turn <= turn
                      /\ \E k \in found[spans'[i].turn] : spans'[i] = SpanOf(spans'[i].turn, k)
    BY DEF SpansAreFound, SpanOf
  <2>1. CASE i \in DOMAIN spans
    BY <2>1, <1>1, <1>5 DEF SpansAreFound
  <2>2. CASE i = n + 1
    BY <2>2, <1>4, <1>5 DEF s, Turn
  <2> QED
    BY <2>1, <2>2, <1>2, <1>5
<1>10. Frontier'
  <2>1. ASSUME NEW i \in DOMAIN spans', spans'[i].turn = turn
        PROVE  spans'[i].end <= m.end
    <3>1. CASE i \in DOMAIN spans
      <4>1. spans[i] \in Span /\ spans[i].end <= last_end
        BY <3>1, <2>1, <1>1, <1>5, SpansAreTyped DEF Frontier
      <4> QED
        BY <4>1, <3>1, <1>1, <1>5 DEF TypeOK, Span, Match
    <3>2. CASE i = n + 1
      BY <3>2, <1>4, <1>5 DEF Match
    <3> QED
      BY <3>1, <3>2, <1>2, <1>5
  <2>2. n + 1 \in DOMAIN spans'
    BY <1>2, <1>5
  <2> QED
    BY <2>1, <2>2, <1>4, <1>5 DEF Frontier
<1>11. Ahead'
  <2> SUFFICES ASSUME NEW k \in pending', NEW i \in DOMAIN spans', spans'[i].turn = turn
               PROVE  Before(spans'[i], k)
    BY DEF Ahead, Before
  <2>1. k \in pending \ {m}
    OBVIOUS
  <2>2. CASE i \in DOMAIN spans
    BY <2>1, <2>2, <1>1, <1>5 DEF Ahead
  <2>3. CASE i = n + 1
    BY <2>1, <2>3, <1>4, <1>5 DEF IsNext, Before
  <2> QED
    BY <2>2, <2>3, <1>2, <1>5
<1>12. AllSettled'
  <2> SUFFICES ASSUME NEW t \in Turn, NEW k \in found[t], t = turn => k \notin pending'
               PROVE  \E i \in DOMAIN spans' :
                        /\ spans'[i].turn = t
                        /\ spans'[i] = SpanOf(t, k) \/ Overruns(spans'[i], k)
    BY DEF AllSettled, Settled, SpanOf, Overruns
  <2>1. CASE t = turn /\ k = m
    <3>1. n + 1 \in DOMAIN spans'
      BY <1>2, <1>5
    <3> QED
      BY <3>1, <2>1, <1>4, <1>5 DEF s
  <2>2. CASE ~(t = turn /\ k = m)
    <3>1. Settled(t, k)
      BY <2>2 DEF IInv, AllSettled
    <3>2. PICK i \in DOMAIN spans :
            spans[i].turn = t /\ (spans[i] = SpanOf(t, k) \/ Overruns(spans[i], k))
      BY <3>1 DEF Settled
    <3>3. i \in DOMAIN spans' /\ spans'[i] = spans[i]
      BY <3>2, <1>2, <1>5
    <3> QED
      BY <3>2, <3>3
  <2> QED
    BY <2>1, <2>2
<1>13. CutFromSpans'
  BY DEF IInv, CutFromSpans, Turn
<1> QED
  BY <1>6, <1>7, <1>8, <1>9, <1>10, <1>11, <1>12, <1>13 DEF IInv

LEMMA LookKeeps == ASSUME IInv, Look PROVE IInv'
<1>1. PICK m \in pending :
        /\ IsNext(m)
        /\ m \in found[turn] /\ m \in Match /\ turn \in Turn
        /\ pending' = pending \ {m}
        /\ \/ m.start < last_end /\ UNCHANGED <<spans, last_end>>
           \/ m.start >= last_end /\ spans' = Append(spans, SpanOf(turn, m)) /\ last_end' = m.end
        /\ UNCHANGED <<turn, found, masked>>
  BY LookFacts
<1>2. CASE m.start < last_end /\ UNCHANGED <<spans, last_end>>
  BY <1>1, <1>2, DropKeeps
<1>3. CASE m.start >= last_end /\ spans' = Append(spans, SpanOf(turn, m)) /\ last_end' = m.end
  BY <1>1, <1>3, KeepKeeps
<1> QED
  BY <1>1, <1>2, <1>3

(* A turn ends with every match settled and the next one starts afresh.     *)
LEMMA NextTurnKeeps == ASSUME IInv, NextTurn PROVE IInv'
<1> USE RedactionAssumption
<1>1. TypeOK /\ SpansAreFound /\ FoundIsFindable
  BY DEF IInv
<1>2. /\ turn \in Turn /\ pending = {} /\ turn' = turn + 1 /\ last_end' = -1
      /\ UNCHANGED <<found, pending, spans, masked>>
  BY DEF NextTurn
<1>3. TypeOK'
  BY <1>1, <1>2 DEF TypeOK, Turn
<1>4. SpansAreInOrder'
  BY <1>2 DEF IInv, SpansAreInOrder
<1>5. FoundIsFindable'
  BY <1>1, <1>2 DEF FoundIsFindable, Turn
<1>6. \A i \in DOMAIN spans : spans[i].turn \in Turn /\ spans[i].turn <= turn
  BY <1>1, SpansAreTyped DEF SpansAreFound
<1>7. SpansAreFound'
  BY <1>1, <1>2, <1>6 DEF SpansAreFound, SpanOf, Turn
<1>8. Frontier'
  BY <1>2, <1>6 DEF Frontier, Turn
<1>9. Ahead'
  BY <1>2 DEF Ahead
<1>10. AllSettled'
  <2> SUFFICES ASSUME NEW t \in Turn, NEW m \in found[t] PROVE Settled(t, m)
    BY <1>2 DEF AllSettled, Settled
  <2> QED
    BY <1>2 DEF IInv, AllSettled
<1>11. CutFromSpans'
  BY <1>2 DEF IInv, CutFromSpans, Turn
<1> QED
  BY <1>3, <1>4, <1>5, <1>7, <1>8, <1>9, <1>10, <1>11 DEF IInv

LEMMA MaskKeeps == ASSUME IInv, Mask PROVE IInv'
<1>1. /\ turn = Turns + 1
      /\ masked' = [t \in Turn |-> [chars |-> MaskedIn(t), timed |-> SpansOf(t) = {}]]
      /\ UNCHANGED <<turn, found, pending, last_end, spans>>
  BY DEF Mask
<1>2. \A t \in Turn : MaskedIn(t) \in SUBSET (0..Length) /\ (SpansOf(t) = {}) \in BOOLEAN
  BY DEF MaskedIn
<1>3. masked' \in [Turn -> [chars : SUBSET (0..Length), timed : BOOLEAN]]
  BY <1>1, <1>2
<1>4. TypeOK'
  BY <1>1, <1>3 DEF IInv, TypeOK
<1>5. SpansAreInOrder' /\ FoundIsFindable' /\ SpansAreFound' /\ Frontier' /\ Ahead'
  BY <1>1 DEF IInv, SpansAreInOrder, FoundIsFindable, SpansAreFound, Frontier, Ahead
<1>6. AllSettled'
  BY <1>1 DEF IInv, AllSettled, Settled
<1>7. CutFromSpans'
  BY <1>1 DEF CutFromSpans, MaskedIn, SpansOf
<1> QED
  BY <1>4, <1>5, <1>6, <1>7 DEF IInv

LEMMA StutterKeeps == ASSUME IInv, UNCHANGED vars PROVE IInv'
BY DEF IInv, vars, TypeOK, SpansAreInOrder, FoundIsFindable, SpansAreFound, Frontier,
       Ahead, AllSettled, Settled, CutFromSpans, MaskedIn, SpansOf

(* The inductive invariant.                                                 *)
THEOREM RedactionInvariant == Spec => []IInv
<1>1. Init => IInv
  BY InitIsInvariant
<1>2. IInv /\ [Next]_vars => IInv'
  BY DetectKeeps, LookKeeps, NextTurnKeeps, MaskKeeps, StutterKeeps DEF Next
<1> QED
  BY <1>1, <1>2, PTL DEF Spec

-----------------------------------------------------------------------------
(* TypeOK: what the sweep and the kernel pass along is what they expect.    *)
THEOREM RedactionTyped == Spec => []TypeOK
<1>1. IInv => TypeOK
  BY DEF IInv
<1> QED
  BY <1>1, RedactionInvariant, PTL

(* The kernel can mask in one pass from left to right.                      *)
THEOREM SpansOrdered == Spec => []SpansAreInOrder
<1>1. IInv => SpansAreInOrder
  BY DEF IInv
<1> QED
  BY <1>1, RedactionInvariant, PTL

(* Every match of a turn that is done was kept or overrun, and either way   *)
(* the span covers where it starts.                                         *)
LEMMA SettledIsCovered ==
  ASSUME IInv, NEW t \in Turn, NEW m \in found[t], Settled(t, m)
  PROVE  m.start \in MaskedIn(t) /\ SpansOf(t) # {}
<1>1. TypeOK
  BY DEF IInv
<1>2. m \in Match
  BY <1>1 DEF TypeOK
<1>3. PICK i \in DOMAIN spans :
        spans[i].turn = t /\ (spans[i] = SpanOf(t, m) \/ Overruns(spans[i], m))
  BY DEF Settled
<1>4. spans[i] \in Span
  BY <1>1, SpansAreTyped
<1>5. spans[i] \in SpansOf(t)
  BY <1>3 DEF SpansOf
<1>6. Covers(spans[i], m.start)
  <2>1. CASE spans[i] = SpanOf(t, m)
    BY <2>1, <1>2 DEF SpanOf, Covers, Match
  <2>2. CASE Overruns(spans[i], m)
    BY <2>2, <1>2, <1>4 DEF Overruns, Covers, Match, Span
  <2> QED
    BY <1>3, <2>1, <2>2
<1>7. m.start \in 0..Length
  BY <1>2 DEF Match
<1> QED
  BY <1>5, <1>6, <1>7 DEF MaskedIn

LEMMA SpansOfAreFound ==
  ASSUME IInv, NEW t \in Turn, NEW s \in SpansOf(t)
  PROVE  \E m \in found[t] : s = SpanOf(t, m)
BY DEF IInv, SpansAreFound, SpansOf

(* Once the last turn is done nothing is pending, so all is settled.        *)
LEMMA DoneIsSettled ==
  ASSUME IInv, turn = Turns + 1, NEW t \in Turn, NEW m \in found[t]
  PROVE  Settled(t, m)
<1>1. t # turn
  BY RedactionAssumption DEF Turn
<1> QED
  BY <1>1 DEF IInv, AllSettled

(* EveryIdentifierIsMarked: whatever overlaps it, where an identifier       *)
(* starts is masked.                                                        *)
THEOREM FirstCharactersMasked == Spec => []EveryIdentifierIsMarked
<1>1. ASSUME IInv PROVE EveryIdentifierIsMarked
  <2> SUFFICES ASSUME masked # None, NEW t \in Turn, NEW m \in found[t]
               PROVE  m.start \in masked[t].chars
    BY DEF EveryIdentifierIsMarked
  <2>1. turn = Turns + 1 /\ masked[t].chars = MaskedIn(t)
    BY <1>1 DEF IInv, CutFromSpans
  <2>2. m.start \in MaskedIn(t)
    BY <1>1, <2>1, DoneIsSettled, SettledIsCovered
  <2> QED
    BY <2>1, <2>2
<1> QED
  BY <1>1, RedactionInvariant, PTL

(* OnlyIdentifiersAreMasked: nothing else of a turn is.                     *)
THEOREM NothingElseMasked == Spec => []OnlyIdentifiersAreMasked
<1>1. ASSUME IInv PROVE OnlyIdentifiersAreMasked
  <2> SUFFICES ASSUME masked # None, NEW t \in Turn, NEW p \in masked[t].chars
               PROVE  \E m \in found[t] : Covers(m, p)
    BY DEF OnlyIdentifiersAreMasked
  <2>1. p \in MaskedIn(t)
    BY <1>1 DEF IInv, CutFromSpans
  <2>2. PICK s \in SpansOf(t) : Covers(s, p)
    BY <2>1 DEF MaskedIn
  <2>3. PICK m \in found[t] : s = SpanOf(t, m)
    BY <1>1, SpansOfAreFound
  <2> QED
    BY <2>2, <2>3 DEF Covers, SpanOf
<1> QED
  BY <1>1, RedactionInvariant, PTL

(* TimingsSurviveInCleanTurns: word timings go exactly where an identifier  *)
(* was found.                                                               *)
THEOREM TimingsKept == Spec => []TimingsSurviveInCleanTurns
<1>1. ASSUME IInv PROVE TimingsSurviveInCleanTurns
  <2> SUFFICES ASSUME masked # None, NEW t \in Turn
               PROVE  masked[t].timed = (found[t] = {})
    BY DEF TimingsSurviveInCleanTurns
  <2>1. turn = Turns + 1 /\ masked[t].timed = (SpansOf(t) = {})
    BY <1>1 DEF IInv, CutFromSpans
  <2>2. (SpansOf(t) = {}) <=> (found[t] = {})
    BY <1>1, <2>1, SpansOfAreFound, DoneIsSettled, SettledIsCovered
  <2> QED
    BY <2>1, <2>2
<1> QED
  BY <1>1, RedactionInvariant, PTL

(* A kept match is overrun by no kept match before it: the two would        *)
(* overlap, and the spans are in order.                                     *)
LEMMA KeptIsNotOverrun ==
  ASSUME IInv, NEW t \in Turn, NEW m \in Kept(t), NEW k \in Kept(t)
  PROVE  ~Overruns(k, m)
<1> SUFFICES ASSUME Overruns(k, m) PROVE FALSE
  OBVIOUS
<1>1. TypeOK /\ SpansAreInOrder
  BY DEF IInv
<1>2. m \in Match /\ k \in Match
  BY <1>1 DEF Kept, TypeOK
<1>3. PICK i \in DOMAIN spans : spans[i].turn = t /\ spans[i] = SpanOf(t, m)
  BY DEF Kept, SpansOf
<1>4. PICK j \in DOMAIN spans : spans[j].turn = t /\ spans[j] = SpanOf(t, k)
  BY DEF Kept, SpansOf
<1>5. /\ spans[i].start = m.start /\ spans[i].end = m.end /\ spans[i].order = m.order
      /\ spans[j].start = k.start /\ spans[j].end = k.end /\ spans[j].order = k.order
  BY <1>3, <1>4 DEF SpanOf
<1>6. i # j
  BY <1>2, <1>5 DEF Overruns, Match
<1>7. i \in Int /\ j \in Int
  BY <1>1 DEF TypeOK
<1>8. t \in Int
  BY DEF Turn
<1>9. spans[i].end <= spans[j].start \/ spans[j].end <= spans[i].start
  BY <1>1, <1>3, <1>4, <1>6, <1>7, <1>8 DEF SpansAreInOrder
<1> QED
  BY <1>2, <1>5, <1>9 DEF Overruns, Match

(* KeptUnlessOverrun: the sweep computes what its declarative reading says. *)
THEOREM SweepIsExact == Spec => []KeptUnlessOverrun
<1>1. ASSUME IInv PROVE KeptUnlessOverrun
  <2> SUFFICES ASSUME turn = Turns + 1, NEW t \in Turn, NEW m \in found[t]
               PROVE  (m \notin Kept(t)) <=> \E k \in Kept(t) : Overruns(k, m)
    BY DEF KeptUnlessOverrun, Overruns
  <2>1. ASSUME NEW k \in Kept(t), Overruns(k, m) PROVE m \notin Kept(t)
    BY <1>1, <2>1, KeptIsNotOverrun
  <2>2. ASSUME m \notin Kept(t) PROVE \E k \in Kept(t) : Overruns(k, m)
    <3>1. PICK i \in DOMAIN spans :
            spans[i].turn = t /\ (spans[i] = SpanOf(t, m) \/ Overruns(spans[i], m))
      BY <1>1, DoneIsSettled DEF Settled
    <3>2. spans[i] \in SpansOf(t)
      BY <3>1 DEF SpansOf
    <3>3. Overruns(spans[i], m)
      BY <3>1, <3>2, <2>2 DEF Kept
    <3>4. PICK k \in found[t] : spans[i] = SpanOf(t, k)
      BY <1>1, <3>2, SpansOfAreFound
    <3>5. k \in Kept(t)
      BY <3>2, <3>4 DEF Kept
    <3> QED
      BY <3>3, <3>4, <3>5 DEF Overruns, SpanOf
  <2> QED
    BY <2>1, <2>2
<1> QED
  BY <1>1, RedactionInvariant, PTL

-----------------------------------------------------------------------------
(* Loops.                                                                  *)

LEMMA LeastExists ==
  ASSUME NEW S \in SUBSET Nat, S # {}
  PROVE  \E least \in S : \A other \in S : least <= other
  <1>1. PICK least \in S : \A other \in S : <<other, least>> \notin OpToRel(<, Nat)
    BY NatLessThanWellFounded, WFMin
  <1>2. \A other \in S : ~(other < least)
    BY <1>1 DEF OpToRel
  <1> QED
    BY <1>2

(* Induction over a set, which needs no operator for a parameter.          *)
LEMMA SetInduction ==
  ASSUME NEW S, 0 \in S, \A n \in Nat : n \in S => n + 1 \in S
  PROVE  \A n \in Nat : n \in S
  <1> DEFINE rest == {n \in Nat : n \notin S}
  <1>1. ASSUME rest # {} PROVE FALSE
    <2>1. PICK least \in rest : \A other \in rest : least <= other
      BY <1>1, LeastExists
    <2>2. least # 0 /\ least - 1 \in Nat
      BY <2>1
    <2>3. least - 1 \in S
      BY <2>1, <2>2
    <2> QED
      BY <2>1, <2>2, <2>3
  <1> QED
    BY <1>1

(* What a loop of N rounds has done after each: step gives, for a round    *)
(* and what was done before it, what is done after it.                     *)
Runs(done, N, V, begin, step) ==
  /\ done \in [0..N -> V]
  /\ done[0] = begin
  /\ \A n \in 1..N : done[n] = step[<<n, done[n - 1]>>]

LEMMA LoopsRun ==
  ASSUME NEW N \in Nat, NEW V, NEW begin \in V, NEW step \in [(1..N) \X V -> V]
  PROVE  \E done : Runs(done, N, V, begin, step)
  <1> DEFINE S == {n \in Nat : n <= N => \E done : Runs(done, n, V, begin, step)}
  <1>1. 0 \in S
    <2>1. Runs([n \in 0..0 |-> begin], 0, V, begin, step)
      BY DEF Runs
    <2> QED
      BY <2>1
  <1>2. ASSUME NEW n \in Nat, n \in S PROVE n + 1 \in S
    <2> SUFFICES ASSUME n + 1 <= N PROVE \E done : Runs(done, n + 1, V, begin, step)
      OBVIOUS
    <2>1. PICK old : Runs(old, n, V, begin, step)
      BY <1>2
    <2> DEFINE last == step[<<n + 1, old[n]>>]
               new == [m \in 0..(n + 1) |-> IF m = n + 1 THEN last ELSE old[m]]
    <2>2. last \in V
      <3>1. old[n] \in V /\ n + 1 \in 1..N
        BY <2>1 DEF Runs
      <3>2. <<n + 1, old[n]>> \in (1..N) \X V
        BY <3>1
      <3> QED
        BY <3>2
    <2>3. \A m \in 0..(n + 1) : m # n + 1 => m \in 0..n /\ old[m] \in V
      BY <2>1 DEF Runs
    <2>4. new \in [0..(n + 1) -> V]
      BY <2>2, <2>3
    <2>5. new[0] = begin
      BY <2>1 DEF Runs
    <2>6. ASSUME NEW m \in 1..(n + 1) PROVE new[m] = step[<<m, new[m - 1]>>]
      <3>1. CASE m = n + 1
        <4>1. new[m] = last /\ new[m - 1] = old[n]
          BY <3>1
        <4> QED
          BY <3>1, <4>1
      <3>2. CASE m # n + 1
        <4>1. m \in 1..n /\ new[m] = old[m] /\ new[m - 1] = old[m - 1]
          BY <3>2
        <4> QED
          BY <2>1, <4>1 DEF Runs
      <3> QED
        BY <3>1, <3>2
    <2> HIDE DEF new
    <2>7. Runs(new, n + 1, V, begin, step)
      BY <2>4, <2>5, <2>6 DEF Runs
    <2> QED
      BY <2>7
  <1> HIDE DEF S
  <1>3. N \in S
    BY <1>1, <1>2, SetInduction
  <1> QED
    BY <1>3 DEF S

-----------------------------------------------------------------------------
(* The text of a turn.                                                     *)

Letters == Nat \ {Blank}
Characters == Nat

SaidOK(said) == said \in Seq(Vocabulary) /\ said # <<>>

LEMMA BlankIsCharacter == Blank \in Characters /\ <<Blank>> \in Seq(Characters)
  BY DEF Blank, Characters

LEMMA WordsAreLetters ==
  ASSUME NEW said, SaidOK(said), NEW i \in 1..Len(said)
  PROVE  /\ said[i] \in Seq(Letters) /\ said[i] \in Seq(Characters)
         /\ Len(said[i]) \in Nat /\ Len(said[i]) >= 1
         /\ \A k \in 1..Len(said[i]) : said[i][k] \in Letters
  <1>1. said[i] \in Vocabulary
    BY DEF SaidOK
  <1>2. said[i] \in Seq(Letters) /\ said[i] # <<>>
    BY <1>1, AssemblyAssumption DEF Letters
  <1> DEFINE word == said[i]
  <1>3. word \in Seq(Letters) /\ word # <<>>
    BY <1>2
  <1> HIDE DEF word
  <1>4. Letters \subseteq Characters
    BY DEF Letters, Characters
  <1>5. word \in Seq(Characters)
    BY <1>3, <1>4, SeqMonotonic
  <1>6. Len(word) \in Nat /\ Len(word) >= 1 /\ \A k \in 1..Len(word) : word[k] \in Letters
    BY <1>3
  <1> QED
    BY <1>3, <1>5, <1>6 DEF word

(* The text up to each word is the text up to the one before, a blank and  *)
(* the word.                                                               *)
TextsOf(said, text) ==
  /\ text \in [0..Len(said) -> Seq(Characters)]
  /\ text[1] = said[1]
  /\ \A n \in 2..Len(said) : text[n] = text[n - 1] \o <<Blank>> \o said[n]

LEMMA TextUpToIs ==
  ASSUME NEW said, SaidOK(said)
  PROVE  TextsOf(said, TextUpTo(said))
  <1> DEFINE V == Seq(Characters)
             N == Len(said)
             Join(a, b) == a \o <<Blank>> \o b
             step == [c \in (1..N) \X V |-> IF c[1] = 1 THEN said[1] ELSE Join(c[2], said[c[1]])]
             text == TextUpTo(said)
  <1>1. N \in Nat /\ N >= 1 /\ 1 \in 1..N
    BY DEF SaidOK
  <1>2. <<>> \in V
    OBVIOUS
  <1>3. \A a, b \in V : Join(a, b) \in V
    <2>1. <<Blank>> \in V
      BY BlankIsCharacter
    <2> QED
      BY <2>1, ConcatProperties
  <1>4. \A n \in 1..N : said[n] \in V
    BY WordsAreLetters
  <1> HIDE DEF V, Join
  <1>5. step \in [(1..N) \X V -> V]
    <2>1. ASSUME NEW c \in (1..N) \X V
          PROVE  (IF c[1] = 1 THEN said[1] ELSE Join(c[2], said[c[1]])) \in V
      BY <1>1, <1>3, <1>4
    <2> QED
      BY <2>1
  <1>6. \A n \in 1..N, v \in V : step[<<n, v>>] = IF n = 1 THEN said[1] ELSE Join(v, said[n])
    OBVIOUS
  <1> HIDE DEF step
  <1>7. PICK done : Runs(done, N, V, <<>>, step)
    BY <1>1, <1>2, <1>5, LoopsRun
  <1>8. \A n \in 1..N : n - 1 \in 0..N /\ n # 0
    BY <1>1
  <1>9. done = [n \in 0..N |-> IF n = 0 THEN <<>>
                               ELSE IF n = 1 THEN said[1] ELSE Join(done[n - 1], said[n])]
    <2>1. done[0] = <<>> /\ done = [n \in 0..N |-> done[n]]
      BY <1>7 DEF Runs
    <2>2. \A n \in 1..N : done[n] = IF n = 1 THEN said[1] ELSE Join(done[n - 1], said[n])
      BY <1>6, <1>7, <1>8 DEF Runs
    <2>3. \A n \in 0..N : n # 0 => n \in 1..N
      BY <1>1
    <2> QED
      BY <2>1, <2>2, <2>3
  <1>10. \E first : first = [n \in 0..N |-> IF n = 0 THEN <<>>
                                ELSE IF n = 1 THEN said[1] ELSE first[n - 1] \o <<Blank>> \o said[n]]
    BY <1>9 DEF Join
  <1>11. text = CHOOSE first : first = [n \in 0..N |-> IF n = 0 THEN <<>>
                                ELSE IF n = 1 THEN said[1] ELSE first[n - 1] \o <<Blank>> \o said[n]]
    BY DEF TextUpTo
  <1>12. text = [n \in 0..N |-> IF n = 0 THEN <<>>
                                ELSE IF n = 1 THEN said[1] ELSE text[n - 1] \o <<Blank>> \o said[n]]
    BY <1>10, <1>11
  <1> HIDE DEF text
  <1>13. /\ DOMAIN text = 0..N
         /\ text[0] = <<>>
         /\ \A n \in 1..N : text[n] = IF n = 1 THEN said[1] ELSE Join(text[n - 1], said[n])
    <2> DEFINE Body(n) == IF n = 0 THEN <<>>
                          ELSE IF n = 1 THEN said[1] ELSE Join(text[n - 1], said[n])
    <2>1. text = [n \in 0..N |-> Body(n)]
      BY <1>12 DEF Join
    <2>2. \A n \in 1..N : n \in 0..N /\ n # 0
      BY <1>1
    <2>3. Body(0) = <<>> /\ \A n \in 1..N : Body(n) = IF n = 1 THEN said[1] ELSE Join(text[n - 1], said[n])
      BY <2>2
    <2> HIDE DEF Body
    <2>4. DOMAIN text = 0..N /\ \A n \in 0..N : text[n] = Body(n)
      BY <2>1
    <2> QED
      BY <1>1, <2>2, <2>3, <2>4
  <1> DEFINE S == {n \in Nat : n <= N => text[n] \in V}
  <1>14. 0 \in S
    BY <1>2, <1>13
  <1>15. ASSUME NEW n \in Nat, n \in S PROVE n + 1 \in S
    <2> SUFFICES ASSUME n + 1 <= N PROVE text[n + 1] \in V
      OBVIOUS
    <2>1. text[n] \in V /\ n + 1 \in 1..N /\ (n + 1) - 1 = n
      BY <1>1, <1>15
    <2>2. text[n + 1] = IF n + 1 = 1 THEN said[1] ELSE Join(text[n], said[n + 1])
      BY <1>13, <2>1
    <2> QED
      BY <1>1, <1>3, <1>4, <2>1, <2>2
  <1> HIDE DEF S
  <1>16. \A n \in Nat : n \in S
    BY <1>14, <1>15, SetInduction
  <1>17. \A n \in 0..N : text[n] \in V
    BY <1>16 DEF S
  <1>18. text[1] = said[1] /\ \A n \in 2..N : text[n] = Join(text[n - 1], said[n])
    BY <1>1, <1>13
  <1>19. text \in [0..N -> V]
    <2>1. text = [n \in 0..N |-> text[n]]
      BY <1>12
    <2> QED
      BY <1>17, <2>1
  <1> QED
    BY <1>18, <1>19 DEF TextsOf, Join, V, text

(* Where the words are in it.                                              *)
LEMMA PlacesFollow ==
  ASSUME NEW said, SaidOK(said)
  PROVE  /\ \A i \in 1..Len(said) : PlaceOf(said, i) \in Nat
         /\ PlaceOf(said, 1) = 0
         /\ \A i \in 1..Len(said) :
              Len(TextUpTo(said)[i]) = PlaceOf(said, i) + Len(said[i])
         /\ \A i \in 1..Len(said) : i + 1 <= Len(said) =>
              PlaceOf(said, i + 1) = PlaceOf(said, i) + Len(said[i]) + 1
  <1> DEFINE text == TextUpTo(said)
             N == Len(said)
             size == [i \in 1..N |-> Len(said[i])]
             long == [i \in 1..N |-> Len(text[i])]
             place == [i \in 1..N |-> PlaceOf(said, i)]
  <1>1. N \in Nat /\ N >= 1
    BY DEF SaidOK
  <1>2. TextsOf(said, text)
    BY TextUpToIs
  <1>3. \A i \in 1..N : place[i] = long[i] - size[i]
    BY DEF PlaceOf
  <1> HIDE DEF text
  <1>4. \A i \in 1..N : text[i] \in Seq(Characters) /\ long[i] \in Nat
    <2>1. \A i \in 1..N : i \in 0..N
      BY <1>1
    <2> QED
      BY <1>2, <2>1 DEF TextsOf
  <1>5. \A i \in 1..N : size[i] \in Nat /\ said[i] \in Seq(Characters)
    BY WordsAreLetters
  <1>6. \A i \in 1..N : i + 1 <= N => long[i + 1] = long[i] + 1 + size[i + 1]
    <2> SUFFICES ASSUME NEW i \in 1..N, i + 1 <= N
                 PROVE  long[i + 1] = long[i] + 1 + size[i + 1]
      OBVIOUS
    <2>1. i + 1 \in 2..N /\ i + 1 \in 1..N /\ (i + 1) - 1 = i
      BY <1>1
    <2>2. text[i + 1] = text[i] \o <<Blank>> \o said[i + 1]
      BY <1>2, <2>1 DEF TextsOf
    <2>3. /\ text[i] \o <<Blank>> \in Seq(Characters)
          /\ Len(text[i] \o <<Blank>>) = Len(text[i]) + Len(<<Blank>>)
      BY <1>4, BlankIsCharacter, ConcatProperties
    <2>4. Len(text[i] \o <<Blank>> \o said[i + 1]) = Len(text[i] \o <<Blank>>) + Len(said[i + 1])
      BY <1>5, <2>1, <2>3, ConcatProperties
    <2>5. Len(<<Blank>>) = 1
      OBVIOUS
    <2> QED
      BY <2>1, <2>2, <2>3, <2>4, <2>5
  <1>7. long[1] = size[1]
    BY <1>1, <1>2 DEF TextsOf
  <1>8. /\ \A i \in 1..N : PlaceOf(said, i) = place[i]
        /\ \A i \in 1..N : Len(text[i]) = long[i] /\ Len(said[i]) = size[i]
    OBVIOUS
  <1> HIDE DEF place, long, size, N
  <1>9. \A i \in 1..N : place[i] \in Nat
    <2> SUFFICES ASSUME NEW i \in 1..N PROVE place[i] \in Nat
      OBVIOUS
    <2>1. CASE i = 1
      BY <1>3, <1>5, <1>7, <2>1
    <2>2. CASE i # 1
      <3> DEFINE j == i - 1
      <3>1. j \in 1..N /\ j + 1 = i /\ j + 1 <= N
        BY <1>1, <2>2
      <3> HIDE DEF j
      <3>2. long[i] = long[j] + 1 + size[i]
        BY <1>6, <3>1
      <3>3. long[j] \in Nat /\ size[i] \in Nat /\ place[i] = long[i] - size[i]
        BY <1>3, <1>4, <1>5, <3>1
      <3> QED
        BY <3>2, <3>3
    <2> QED
      BY <2>1, <2>2
  <1>10. place[1] = 0
    BY <1>1, <1>3, <1>5, <1>7
  <1>11. \A i \in 1..N : long[i] = place[i] + size[i]
    BY <1>3, <1>4, <1>5
  <1>12. ASSUME NEW i \in 1..N, i + 1 <= N
         PROVE  place[i + 1] = place[i] + size[i] + 1
    <2> DEFINE j == i + 1
    <2>1. j \in 1..N
      BY <1>1, <1>12
    <2>2. long[j] = long[i] + 1 + size[j]
      BY <1>6, <1>12
    <2> HIDE DEF j
    <2>3. /\ place[j] = long[j] - size[j] /\ place[i] = long[i] - size[i]
          /\ long[j] \in Nat /\ long[i] \in Nat /\ size[j] \in Nat /\ size[i] \in Nat
      BY <1>3, <1>4, <1>5, <2>1
    <2>4. place[j] = place[i] + size[i] + 1
      BY <2>2, <2>3
    <2> QED
      BY <2>4 DEF j
  <1>13. \A i \in 1..N : i + 1 <= N => i + 1 \in 1..N
    BY <1>1
  <1>14. 1 \in 1..N
    BY <1>1
  <1>15. \A i \in 1..N : i + 1 <= N =>
           PlaceOf(said, i + 1) = PlaceOf(said, i) + Len(said[i]) + 1
    BY <1>8, <1>12, <1>13
  <1>16. PlaceOf(said, 1) = 0
    BY <1>8, <1>10, <1>14
  <1>17. \A i \in 1..N : PlaceOf(said, i) \in Nat /\ Len(text[i]) = PlaceOf(said, i) + Len(said[i])
    BY <1>8, <1>9, <1>11
  <1> QED
    BY <1>15, <1>16, <1>17 DEF text, N

(* A later word begins after a blank behind an earlier one.                *)
LEMMA PlacesAreInOrder ==
  ASSUME NEW said, SaidOK(said), NEW i \in 1..Len(said), NEW j \in 1..Len(said), i < j
  PROVE  PlaceOf(said, i) + Len(said[i]) < PlaceOf(said, j)
  <1> DEFINE N == Len(said)
             place == [w \in 1..N |-> PlaceOf(said, w)]
             size == [w \in 1..N |-> Len(said[w])]
             S == {n \in Nat : i + 1 + n <= N => place[i] + size[i] < place[i + 1 + n]}
  <1>1. N \in Nat /\ i \in 1..N /\ j \in 1..N
    BY DEF SaidOK
  <1>2. /\ \A w \in 1..N : place[w] \in Nat
        /\ \A w \in 1..N : w + 1 <= N => place[w + 1] = place[w] + size[w] + 1
    <2>1. \A w \in 1..N : w + 1 <= N => w + 1 \in 1..N
      BY <1>1
    <2> QED
      BY <2>1, PlacesFollow
  <1>3. \A w \in 1..N : size[w] \in Nat
    BY WordsAreLetters
  <1>4. \A w \in 1..N : place[w] = PlaceOf(said, w) /\ size[w] = Len(said[w])
    OBVIOUS
  <1> HIDE DEF N, place, size
  <1>5. 0 \in S
    <2>1. i + 1 <= N => place[i + 1] = place[i] + size[i] + 1
      BY <1>1, <1>2
    <2>2. place[i] \in Nat /\ size[i] \in Nat /\ i + 1 + 0 = i + 1
      BY <1>1, <1>2, <1>3
    <2> QED
      BY <2>1, <2>2
  <1>6. ASSUME NEW n \in Nat, n \in S PROVE n + 1 \in S
    <2> SUFFICES ASSUME i + 1 + (n + 1) <= N
                 PROVE  place[i] + size[i] < place[i + 1 + (n + 1)]
      OBVIOUS
    <2> DEFINE w == i + 1 + n
    <2>1. w \in 1..N /\ w + 1 <= N /\ i + 1 + (n + 1) = w + 1
      BY <1>1
    <2>2. place[i] + size[i] < place[w]
      BY <1>6, <2>1
    <2> HIDE DEF w
    <2>3. place[w + 1] = place[w] + size[w] + 1
      BY <1>2, <2>1
    <2>4. place[i] \in Nat /\ size[i] \in Nat /\ place[w] \in Nat /\ size[w] \in Nat
      BY <1>1, <1>2, <1>3, <2>1
    <2>5. place[i] + size[i] < place[w + 1]
      BY <2>2, <2>3, <2>4
    <2> QED
      BY <2>1, <2>5
  <1> HIDE DEF S
  <1>7. \A n \in Nat : n \in S
    BY <1>5, <1>6, SetInduction
  <1> DEFINE n == j - i - 1
  <1>8. n \in Nat /\ i + 1 + n = j
    BY <1>1
  <1> HIDE DEF n
  <1>9. place[i] + size[i] < place[i + 1 + n]
    <2>1. n \in S
      BY <1>7, <1>8
    <2>2. i + 1 + n <= N
      BY <1>1, <1>8
    <2> QED
      BY <2>1, <2>2 DEF S
  <1> QED
    BY <1>1, <1>4, <1>8, <1>9

(* What the text up to one word holds, the text up to any later one does.  *)
LEMMA OneWordMore ==
  ASSUME NEW a \in Seq(Characters), NEW b \in Seq(Characters), NEW next,
         next = a \o <<Blank>> \o b
  PROVE  /\ Len(next) = Len(a) + 1 + Len(b)
         /\ \A c \in 1..Len(a) : next[c] = a[c]
         /\ next[Len(a) + 1] = Blank
         /\ \A c \in 1..Len(b) : next[Len(a) + 1 + c] = b[c]
  <1> DEFINE v == a \o <<Blank>>
             l == Len(a)
             m == Len(b)
  <1>1. l \in Nat /\ m \in Nat
    OBVIOUS
  <1>2. v \in Seq(Characters) /\ v = Append(a, Blank)
    BY BlankIsCharacter, AppendIsConcat, ConcatProperties
  <1>3. Len(v) = l + 1 /\ v[l + 1] = Blank /\ \A c \in 1..l : v[c] = a[c]
    BY <1>2, BlankIsCharacter, AppendProperties
  <1> HIDE DEF v
  <1>4. /\ Len(v \o b) = Len(v) + Len(b)
        /\ \A c \in 1..(Len(v) + Len(b)) : (v \o b)[c] = IF c <= Len(v) THEN v[c] ELSE b[c - Len(v)]
    BY <1>2, ConcatProperties
  <1>5. next = v \o b
    BY DEF v
  <1>6. /\ Len(next) = l + 1 + m
        /\ \A c \in 1..(l + 1 + m) : next[c] = IF c <= l + 1 THEN v[c] ELSE b[c - (l + 1)]
    BY <1>3, <1>4, <1>5
  <1> HIDE DEF l, m
  <1>7. \A c \in 1..l : next[c] = a[c]
    BY <1>1, <1>3, <1>6
  <1>8. next[l + 1] = Blank
    BY <1>1, <1>3, <1>6
  <1>9. \A c \in 1..m : next[l + 1 + c] = b[c]
    <2> SUFFICES ASSUME NEW c \in 1..m PROVE next[l + 1 + c] = b[c]
      OBVIOUS
    <2>1. l + 1 + c \in 1..(l + 1 + m) /\ ~(l + 1 + c <= l + 1) /\ (l + 1 + c) - (l + 1) = c
      BY <1>1
    <2> QED
      BY <1>6, <2>1
  <1> QED
    BY <1>6, <1>7, <1>8, <1>9 DEF l, m

LEMMA TextGrows ==
  ASSUME NEW said, SaidOK(said), NEW i \in 1..Len(said), NEW j \in 1..Len(said), i <= j
  PROVE  /\ Len(TextUpTo(said)[i]) <= Len(TextUpTo(said)[j])
         /\ \A c \in 1..Len(TextUpTo(said)[i]) : TextUpTo(said)[j][c] = TextUpTo(said)[i][c]
  <1> DEFINE N == Len(said)
             text == TextUpTo(said)
             Holds(w) == /\ Len(text[i]) <= Len(text[w])
                         /\ \A c \in 1..Len(text[i]) : text[w][c] = text[i][c]
             S == {n \in Nat : i + n <= N => Holds(i + n)}
  <1>1. N \in Nat /\ i \in 1..N /\ j \in 1..N
    BY DEF SaidOK
  <1>2. TextsOf(said, text)
    BY TextUpToIs
  <1> HIDE DEF text
  <1>3. \A w \in 1..N : text[w] \in Seq(Characters) /\ Len(text[w]) \in Nat
    <2>1. \A w \in 1..N : w \in 0..N
      BY <1>1
    <2> QED
      BY <1>2, <2>1 DEF TextsOf
  <1>4. \A w \in 1..N : said[w] \in Seq(Characters) /\ Len(said[w]) \in Nat
    BY WordsAreLetters
  <1>5. Holds(i)
    BY <1>1, <1>3
  <1>6. ASSUME NEW w \in 1..N, w + 1 <= N, Holds(w) PROVE Holds(w + 1)
    <2>1. w + 1 \in 2..N /\ w + 1 \in 1..N /\ (w + 1) - 1 = w
      BY <1>1, <1>6
    <2> DEFINE next == text[w + 1]
               b == said[w + 1]
               a == text[w]
    <2>2. next = a \o <<Blank>> \o b
      BY <1>2, <2>1 DEF TextsOf
    <2>3. a \in Seq(Characters) /\ b \in Seq(Characters)
      BY <1>3, <1>4, <2>1
    <2>4. Len(a) \in Nat /\ Len(b) \in Nat /\ Len(text[i]) \in Nat /\ Len(text[i]) <= Len(a)
      BY <1>1, <1>3, <1>4, <1>6, <2>1
    <2>5. \A c \in 1..Len(text[i]) : a[c] = text[i][c]
      BY <1>6
    <2> HIDE DEF next, a, b
    <2>6. Len(next) = Len(a) + 1 + Len(b) /\ \A c \in 1..Len(a) : next[c] = a[c]
      BY <2>2, <2>3, OneWordMore
    <2>7. \A c \in 1..Len(text[i]) : c \in 1..Len(a)
      BY <2>4
    <2>8. Len(text[i]) <= Len(next) /\ \A c \in 1..Len(text[i]) : next[c] = text[i][c]
      BY <2>4, <2>5, <2>6, <2>7
    <2> QED
      BY <2>8 DEF next
  <1> HIDE DEF Holds
  <1>7. 0 \in S
    <2>1. i + 0 = i
      BY <1>1
    <2> QED
      BY <1>5, <2>1
  <1>8. ASSUME NEW n \in Nat, n \in S PROVE n + 1 \in S
    <2> SUFFICES ASSUME i + (n + 1) <= N PROVE Holds(i + (n + 1))
      OBVIOUS
    <2>1. i + n \in 1..N /\ (i + n) + 1 <= N /\ i + (n + 1) = (i + n) + 1
      BY <1>1
    <2>2. Holds(i + n)
      BY <1>8, <2>1
    <2>3. Holds((i + n) + 1)
      BY <1>6, <2>1, <2>2
    <2> QED
      BY <2>1, <2>3
  <1>9. \A n \in Nat : n \in S
    <2> HIDE DEF S
    <2> QED
      BY <1>7, <1>8, SetInduction
  <1> DEFINE n == j - i
  <1>10. n \in Nat /\ i + n = j
    BY <1>1
  <1> HIDE DEF n
  <1>11. Holds(i + n)
    BY <1>1, <1>9, <1>10
  <1>12. Holds(j)
    BY <1>10, <1>11
  <1> QED
    BY <1>12 DEF text, Holds

(* Every word is in the text at its place, behind a blank if it is not the *)
(* first.                                                                  *)
LEMMA WordIsThere ==
  ASSUME NEW said, SaidOK(said), NEW i \in 1..Len(said)
  PROVE  /\ Text(said) \in Seq(Characters)
         /\ PlaceOf(said, i) + Len(said[i]) <= Len(Text(said))
         /\ \A c \in 1..Len(said[i]) : Text(said)[PlaceOf(said, i) + c] = said[i][c]
         /\ i # 1 => Text(said)[PlaceOf(said, i)] = Blank
  <1> DEFINE N == Len(said)
             upto == TextUpTo(said)
             text == Text(said)
             b == said[i]
             place == PlaceOf(said, i)
  <1>1. N \in Nat /\ i \in 1..N /\ i <= N /\ N \in 1..N
    BY DEF SaidOK
  <1>2. TextsOf(said, upto)
    BY TextUpToIs
  <1>3. text = upto[N]
    BY DEF Text
  <1>4. Len(upto[i]) <= Len(upto[N]) /\ \A c \in 1..Len(upto[i]) : upto[N][c] = upto[i][c]
    BY <1>1, TextGrows
  <1>5. Len(upto[i]) = place + Len(b) /\ place \in Nat /\ Len(b) \in Nat
    BY PlacesFollow, WordsAreLetters
  <1>6. b \in Seq(Characters)
    BY WordsAreLetters
  <1>7. i # 1 => i - 1 \in 1..N /\ i \in 2..N
    BY <1>1
  <1>8. ASSUME i # 1
        PROVE  place = Len(upto[i - 1]) + 1
    <2> DEFINE j == i - 1
    <2>1. j \in 1..N /\ j + 1 = i /\ j + 1 <= N
      BY <1>1, <1>7, <1>8
    <2> HIDE DEF j
    <2>2. PlaceOf(said, j + 1) = PlaceOf(said, j) + Len(said[j]) + 1
      BY <2>1, PlacesFollow
    <2>3. Len(upto[j]) = PlaceOf(said, j) + Len(said[j])
      BY <2>1, PlacesFollow
    <2>4. PlaceOf(said, i) = PlaceOf(said, j) + Len(said[j]) + 1
      BY <2>1, <2>2
    <2> QED
      BY <2>3, <2>4 DEF j
  <1> HIDE DEF upto, text, b, place
  <1>9. text \in Seq(Characters)
    <2>1. N \in 0..N
      BY <1>1
    <2> QED
      BY <1>2, <1>3, <2>1 DEF TextsOf
  <1>10. place + Len(b) <= Len(text)
    BY <1>3, <1>4, <1>5
  <1>11. /\ \A c \in 1..Len(b) : upto[i][place + c] = b[c]
         /\ i # 1 => place >= 1 /\ upto[i][place] = Blank
    <2>1. CASE i = 1
      <3>1. place = 0
        BY <2>1, PlacesFollow DEF place
      <3>2. upto[i] = b
        BY <1>2, <2>1 DEF TextsOf, b
      <3> QED
        BY <1>5, <2>1, <3>1, <3>2
    <2>2. CASE i # 1
      <3> DEFINE a == upto[i - 1]
                 next == upto[i]
      <3>1. a \in Seq(Characters)
        <4>1. i - 1 \in 0..N
          BY <1>1, <1>7, <2>2
        <4> QED
          BY <1>2, <4>1 DEF TextsOf
      <3>2. next = a \o <<Blank>> \o b
        BY <1>2, <1>7, <2>2 DEF TextsOf, b
      <3>3. place = Len(a) + 1
        BY <1>8, <2>2
      <3> HIDE DEF a, next
      <3>4. next[Len(a) + 1] = Blank /\ \A c \in 1..Len(b) : next[Len(a) + 1 + c] = b[c]
        BY <1>6, <3>1, <3>2, OneWordMore
      <3>5. Len(a) \in Nat
        BY <3>1
      <3>6. \A c \in 1..Len(b) : next[place + c] = b[c]
        BY <3>3, <3>4
      <3> QED
        BY <3>3, <3>4, <3>5, <3>6 DEF next
    <2> QED
      BY <2>1, <2>2
  <1>12. \A c \in 1..Len(b) : text[place + c] = b[c]
    <2> SUFFICES ASSUME NEW c \in 1..Len(b) PROVE text[place + c] = b[c]
      OBVIOUS
    <2>1. place + c \in 1..Len(upto[i])
      BY <1>5
    <2> QED
      BY <1>3, <1>4, <1>11, <2>1
  <1>13. i # 1 => text[place] = Blank
    <2> SUFFICES ASSUME i # 1 PROVE text[place] = Blank
      OBVIOUS
    <2>1. place \in 1..Len(upto[i])
      BY <1>5, <1>11
    <2> QED
      BY <1>3, <1>4, <1>11, <2>1
  <1> QED
    BY <1>9, <1>10, <1>12, <1>13 DEF text, b, place

-----------------------------------------------------------------------------
(* str.find.                                                               *)
IsAt(text, token, p) == \A c \in 1..Len(token) : text[p + c] = token[c]

LEMMA FindIs ==
  ASSUME NEW text \in Seq(Int), NEW token \in Seq(Int), NEW from \in Nat
  PROVE  /\ \A p \in from..(Len(text) - Len(token)) :
              IsAt(text, token, p) => Find(text, token, from) \in from..p
         /\ \/ Find(text, token, from) = -1
            \/ /\ Find(text, token, from) \in from..(Len(text) - Len(token))
               /\ IsAt(text, token, Find(text, token, from))
  <1> DEFINE l == Len(text)
             m == Len(token)
             place == Find(text, token, from)
             places == {p \in from..(l - m) : SubSeq(text, p + 1, p + m) = token}
  <1>1. l \in Nat /\ m \in Nat
    OBVIOUS
  <1>2. ASSUME NEW p \in from..(l - m)
        PROVE  SubSeq(text, p + 1, p + m) = token <=> IsAt(text, token, p)
    <2> DEFINE part == SubSeq(text, p + 1, p + m)
    <2>1. p + 1 \in Int /\ p + m \in Int /\ \A i \in (p + 1)..(p + m) : i \in 1..l /\ text[i] \in Int
      BY <1>1
    <2>2. /\ part \in Seq(Int)
          /\ Len(part) = IF p + 1 <= p + m THEN (p + m) - (p + 1) + 1 ELSE 0
          /\ \A i \in 1..((p + m) - (p + 1) + 1) : part[i] = text[(p + 1) + i - 1]
      BY <2>1, SubSeqProperties
    <2> HIDE DEF part
    <2>3. Len(part) = m
      BY <1>1, <2>2
    <2>4. \A i \in 1..m : part[i] = text[p + i]
      <3> SUFFICES ASSUME NEW i \in 1..m PROVE part[i] = text[p + i]
        OBVIOUS
      <3>1. i \in 1..((p + m) - (p + 1) + 1) /\ (p + 1) + i - 1 = p + i
        BY <1>1
      <3> QED
        BY <2>2, <3>1
    <2>5. ASSUME IsAt(text, token, p) PROVE part = token
      <3>1. \A i \in 1..Len(part) : part[i] = token[i]
        BY <2>3, <2>4, <2>5 DEF IsAt
      <3> QED
        BY <2>2, <2>3, <3>1, SeqEqual
    <2>6. ASSUME part = token PROVE IsAt(text, token, p)
      BY <2>4, <2>6 DEF IsAt
    <2> QED
      BY <2>5, <2>6 DEF part
  <1>3. place = IF places = {} THEN -1 ELSE Min(places)
    BY DEF Find
  <1>4. places # {} => place \in places /\ \A p \in places : place <= p
    <2> SUFFICES ASSUME places # {} PROVE place \in places /\ \A p \in places : place <= p
      OBVIOUS
    <2>1. places \in SUBSET Nat
      OBVIOUS
    <2> HIDE DEF places
    <2>2. \E least \in places : \A other \in places : least <= other
      BY <2>1, LeastExists
    <2>3. place = CHOOSE x \in places : \A y \in places : x <= y
      BY <1>3 DEF Min
    <2> QED
      BY <2>2, <2>3
  <1>5. \A p \in places : p \in from..(l - m) /\ IsAt(text, token, p)
    BY <1>2
  <1>6. \A p \in from..(l - m) : IsAt(text, token, p) => p \in places
    BY <1>2
  <1> HIDE DEF places, place
  <1>7. ASSUME NEW p \in from..(l - m), IsAt(text, token, p)
        PROVE  place \in from..p
    <2>1. place \in places /\ place <= p
      BY <1>4, <1>6, <1>7
    <2>2. place \in from..(l - m)
      BY <1>5, <2>1
    <2> QED
      BY <2>1, <2>2
  <1>8. place = -1 \/ (place \in from..(l - m) /\ IsAt(text, token, place))
    BY <1>3, <1>4, <1>5
  <1> QED
    BY <1>7, <1>8 DEF place

(* A word is found no later than it was said.                              *)
LEMMA WordsAreFound ==
  ASSUME NEW said, SaidOK(said), NEW i \in 1..Len(said),
         NEW cursor \in Nat, cursor <= PlaceOf(said, i)
  PROVE  Find(Text(said), said[i], cursor) \in cursor..PlaceOf(said, i)
  <1> DEFINE text == Text(said)
             token == said[i]
             place == PlaceOf(said, i)
  <1>1. /\ text \in Seq(Characters) /\ place + Len(token) <= Len(text)
        /\ IsAt(text, token, place)
    BY WordIsThere DEF IsAt
  <1>2. token \in Seq(Characters) /\ Len(token) \in Nat
    BY WordsAreLetters
  <1>3. place \in Nat /\ cursor <= place
    BY PlacesFollow
  <1> HIDE DEF text, token, place
  <1>4. text \in Seq(Int) /\ token \in Seq(Int) /\ Len(text) \in Nat
    BY <1>1, <1>2 DEF Characters
  <1>5. place \in cursor..(Len(text) - Len(token))
    BY <1>1, <1>2, <1>3, <1>4
  <1>6. Find(text, token, cursor) \in cursor..place
    BY <1>1, <1>4, <1>5, FindIs
  <1> QED
    BY <1>6 DEF text, token, place

(* Looked for from the blank before it, a word is first where it was said. *)
LEMMA NextWordIsFound ==
  ASSUME NEW said, SaidOK(said), NEW i \in 1..Len(said), NEW cursor \in Nat,
         cursor = IF i = 1 THEN 0 ELSE PlaceOf(said, i) - 1
  PROVE  Find(Text(said), said[i], cursor) = PlaceOf(said, i)
  <1> DEFINE text == Text(said)
             token == said[i]
             place == PlaceOf(said, i)
             first == Find(text, token, cursor)
  <1>1. place \in Nat /\ (i = 1 => place = 0)
    BY PlacesFollow
  <1>2. cursor <= place
    BY <1>1
  <1>3. first \in cursor..place
    BY <1>2, WordsAreFound
  <1>4. text \in Seq(Characters) /\ (i # 1 => text[place] = Blank)
    BY WordIsThere
  <1>5. /\ token \in Seq(Characters) /\ Len(token) >= 1 /\ Len(token) \in Nat
        /\ \A c \in 1..Len(token) : token[c] \in Letters
    BY WordsAreLetters
  <1> HIDE DEF text, token, place
  <1>6. text \in Seq(Int) /\ token \in Seq(Int)
    BY <1>4, <1>5 DEF Characters
  <1>7. first = -1 \/ IsAt(text, token, first)
    BY <1>6, FindIs
  <1> HIDE DEF first
  <1>8. first \in Nat /\ first # -1
    BY <1>3
  <1>9. text[first + 1] = token[1] /\ token[1] \in Letters
    BY <1>5, <1>7, <1>8 DEF IsAt
  <1>10. ASSUME i # 1, first # place PROVE FALSE
    <2>1. first + 1 = place
      BY <1>1, <1>3, <1>8, <1>10 DEF place
    <2> QED
      BY <1>4, <1>9, <1>10, <2>1 DEF Letters, Blank
  <1>11. i = 1 => first = place
    BY <1>1, <1>3, <1>8
  <1> QED
    BY <1>10, <1>11 DEF first, text, token, place

-----------------------------------------------------------------------------
(* _words.                                                                 *)
Heard == [at : Nat, token : Seq(Int), timed : BOOLEAN]
Offsets == [at : Nat, text : Seq(Int), start : Nat, end : Nat, timed : BOOLEAN]

Cursor(done) == IF done = <<>> THEN 0 ELSE Last(done).end

(* One round of the loop.                                                  *)
LEMMA PlacedIs ==
  ASSUME NEW text \in Seq(Int), NEW done \in Seq(Offsets), NEW heard \in Heard,
         NEW start, start = Find(text, heard.token, Cursor(done))
  PROVE  /\ Cursor(done) \in Nat
         /\ Placed(text, done, heard) \in Seq(Offsets)
         /\ start = -1 => Placed(text, done, heard) = done
         /\ start # -1 => /\ start \in Nat /\ start >= Cursor(done)
                          /\ Offset(heard.token, heard, start) \in Offsets
                          /\ Placed(text, done, heard)
                               = Append(done, Offset(heard.token, heard, start))
  <1> DEFINE cursor == Cursor(done)
             token == heard.token
             offset == Offset(token, heard, start)
             placed == Placed(text, done, heard)
  <1>1. cursor \in Nat
    <2>1. CASE done = <<>>
      BY <2>1 DEF Cursor
    <2>2. CASE done # <<>>
      <3>1. Len(done) \in 1..Len(done)
        BY <2>2
      <3>2. done[Len(done)] \in Offsets
        BY <3>1
      <3>3. done[Len(done)].end \in Nat
        BY <3>2 DEF Offsets
      <3> QED
        BY <2>2, <3>3 DEF Cursor, Last
    <2> QED
      BY <2>1, <2>2
  <1>2. token \in Seq(Int) /\ heard.at \in Nat /\ heard.timed \in BOOLEAN
    BY DEF Heard
  <1>3. Len(token) \in Nat
    BY <1>2
  <1>4. start = Find(text, token, cursor)
    OBVIOUS
  <1>5. placed = IF start < 0 THEN done ELSE Append(done, offset)
    BY DEF Placed, Cursor
  <1> HIDE DEF cursor, token, placed
  <1>6. start = -1 \/ start \in cursor..(Len(text) - Len(token))
    BY <1>1, <1>2, <1>4, FindIs
  <1>7. CASE start = -1
    <2>1. placed = done
      BY <1>5, <1>7
    <2> QED
      BY <1>1, <1>7, <2>1 DEF cursor, token, placed
  <1>8. CASE start # -1
    <2>1. start \in Nat /\ start >= cursor
      BY <1>1, <1>3, <1>6, <1>8
    <2>2. offset \in Offsets
      BY <1>2, <1>3, <2>1 DEF Offset, Offsets
    <2> HIDE DEF offset
    <2>3. placed = Append(done, offset)
      BY <1>5, <2>1
    <2>4. placed \in Seq(Offsets)
      BY <2>2, <2>3, AppendProperties
    <2> QED
      BY <1>1, <1>8, <2>1, <2>2, <2>3, <2>4 DEF cursor, token, placed, offset
  <1> QED
    BY <1>7, <1>8

(* The loop, and what it returns.                                          *)
Lists(done, text, listed) ==
  /\ done \in [0..Len(listed) -> Seq(Offsets)]
  /\ done[0] = <<>>
  /\ \A n \in 1..Len(listed) : done[n] = Placed(text, done[n - 1], listed[n])
  /\ Words(text, listed) = done[Len(listed)]

LEMMA WordsUnroll ==
  ASSUME NEW text \in Seq(Int), NEW listed \in Seq(Heard)
  PROVE  \E done : Lists(done, text, listed)
  <1> DEFINE V == Seq(Offsets)
             N == Len(listed)
             step == [c \in (1..N) \X V |-> Placed(text, c[2], listed[c[1]])]
             words == CHOOSE F : F = [n \in 0..N |-> IF n = 0 THEN <<>>
                                                      ELSE Placed(text, F[n - 1], listed[n])]
  <1>1. N \in Nat /\ \A n \in 1..N : listed[n] \in Heard
    OBVIOUS
  <1>2. \A done \in V, heard \in Heard : Placed(text, done, heard) \in V
    BY PlacedIs
  <1>3. <<>> \in V
    OBVIOUS
  <1> HIDE DEF V
  <1>4. step \in [(1..N) \X V -> V]
    <2>1. ASSUME NEW c \in (1..N) \X V
          PROVE  Placed(text, c[2], listed[c[1]]) \in V
      BY <1>1, <1>2
    <2> QED
      BY <2>1
  <1>5. \A n \in 1..N, v \in V : step[<<n, v>>] = Placed(text, v, listed[n])
    OBVIOUS
  <1> HIDE DEF step
  <1>6. PICK done : Runs(done, N, V, <<>>, step)
    BY <1>1, <1>3, <1>4, LoopsRun
  <1>7. \A n \in 1..N : n - 1 \in 0..N /\ n # 0 /\ n \in 0..N
    BY <1>1
  <1>8. \A n \in 1..N : done[n] = Placed(text, done[n - 1], listed[n])
    BY <1>5, <1>6, <1>7 DEF Runs
  <1>9. done = [n \in 0..N |-> IF n = 0 THEN <<>> ELSE Placed(text, done[n - 1], listed[n])]
    <2>1. done[0] = <<>> /\ done = [n \in 0..N |-> done[n]]
      BY <1>6 DEF Runs
    <2>2. \A n \in 0..N : n # 0 => n \in 1..N
      BY <1>1
    <2> QED
      BY <1>8, <2>1, <2>2
  <1>10. words = [n \in 0..N |-> IF n = 0 THEN <<>> ELSE Placed(text, words[n - 1], listed[n])]
    BY <1>9
  <1>11. Words(text, listed) = words[N]
    BY DEF Words
  <1> HIDE DEF words
  <1>12. /\ words[0] = <<>> /\ DOMAIN words = 0..N
         /\ \A n \in 1..N : words[n] = Placed(text, words[n - 1], listed[n])
    <2> DEFINE Body(n) == IF n = 0 THEN <<>> ELSE Placed(text, words[n - 1], listed[n])
    <2>1. words = [n \in 0..N |-> Body(n)]
      BY <1>10
    <2>2. Body(0) = <<>> /\ \A n \in 1..N : Body(n) = Placed(text, words[n - 1], listed[n])
      BY <1>7
    <2> HIDE DEF Body
    <2>3. DOMAIN words = 0..N /\ \A n \in 0..N : words[n] = Body(n)
      BY <2>1
    <2> QED
      BY <1>1, <1>7, <2>2, <2>3
  <1> DEFINE S == {n \in Nat : n <= N => words[n] \in V}
  <1>13. 0 \in S
    BY <1>3, <1>12
  <1>14. ASSUME NEW n \in Nat, n \in S PROVE n + 1 \in S
    <2> SUFFICES ASSUME n + 1 <= N PROVE words[n + 1] \in V
      OBVIOUS
    <2>1. words[n] \in V /\ n + 1 \in 1..N /\ (n + 1) - 1 = n
      BY <1>1, <1>14
    <2>2. words[n + 1] = Placed(text, words[n], listed[n + 1])
      BY <1>12, <2>1
    <2> QED
      BY <1>1, <1>2, <2>1, <2>2
  <1> HIDE DEF S
  <1>15. \A n \in Nat : n \in S
    BY <1>13, <1>14, SetInduction
  <1>16. \A n \in 0..N : words[n] \in V
    BY <1>15 DEF S
  <1>17. words \in [0..N -> V]
    <2>1. words = [n \in 0..N |-> words[n]]
      BY <1>10
    <2> QED
      BY <1>16, <2>1
  <1>18. Lists(words, text, listed)
    BY <1>11, <1>12, <1>17 DEF Lists, V
  <1> QED
    BY <1>18

(* A listing: words of the text in their order, spelled as may be.         *)
ListingOK(said, listed) ==
  /\ listed \in Seq(Heard)
  /\ \A n \in 1..Len(listed) : listed[n].at \in 1..Len(said)
  /\ \A n \in 2..Len(listed) : listed[n - 1].at < listed[n].at

LEMMA SpellingsAreWords == \A token \in Spellings : token \in Seq(Int)
  <1> SUFFICES ASSUME NEW token \in Spellings PROVE token \in Seq(Int)
    OBVIOUS
  <1>1. CASE token \in Vocabulary
    <2>1. token \in Seq(Letters)
      BY <1>1, AssemblyAssumption DEF Letters
    <2>2. Letters \subseteq Int
      BY DEF Letters
    <2> QED
      BY <2>1, <2>2, SeqMonotonic
  <1>2. CASE token = <<Unheard>>
    BY <1>2 DEF Unheard
  <1> QED
    BY <1>1, <1>2 DEF Spellings

LEMMA ListingsAre ==
  ASSUME NEW said, SaidOK(said), NEW listed \in Listings(said)
  PROVE  ListingOK(said, listed)
  <1> DEFINE N == Len(said)
             D == DOMAIN said
  <1>1. N \in Nat /\ D = 1..N
    BY DEF SaidOK
  <1>2. PICK at \in Rising(said), spelled \in [D -> Spellings], untimed \in SUBSET D :
          listed = Listing(at, spelled, untimed)
    BY DEF Listings
  <1>3. PICK m \in 0..N : at \in [1..m -> D]
    BY <1>2 DEF Rising, BoundedSeq, SeqOf
  <1>4. m \in Nat /\ DOMAIN at = 1..m /\ Len(at) = m
    BY <1>1, <1>3
  <1>5. \A i \in 1..m : at[i] \in 1..N /\ at[i] \in D
    BY <1>1, <1>3
  <1>6. \A i \in 1..m : spelled[at[i]] \in Seq(Int)
    BY <1>2, <1>5, SpellingsAreWords
  <1> DEFINE entry(i) == [at    |-> at[i],
                          token |-> spelled[at[i]],
                          timed |-> at[i] \notin untimed]
  <1>7. \A i \in 1..m : entry(i) \in Heard
    <2> SUFFICES ASSUME NEW i \in 1..m PROVE entry(i) \in Heard
      OBVIOUS
    <2>1. at[i] \in Nat /\ (at[i] \notin untimed) \in BOOLEAN
      BY <1>5
    <2> QED
      BY <1>6, <2>1 DEF Heard
  <1>8. \A i \in 1..m : entry(i).at = at[i]
    OBVIOUS
  <1>9. listed = [i \in 1..m |-> entry(i)]
    BY <1>2, <1>4 DEF Listing
  <1> HIDE DEF entry
  <1>10. listed \in [1..m -> Heard] /\ \A i \in 1..m : listed[i] = entry(i)
    BY <1>7, <1>9
  <1>11. listed \in Seq(Heard) /\ Len(listed) = m
    BY <1>4, <1>10
  <1>12. \A i \in 1..m : listed[i].at = at[i]
    BY <1>8, <1>10
  <1>13. \A n \in 1..m : listed[n].at \in 1..N
    BY <1>5, <1>12
  <1>14. \A n \in 2..m : listed[n - 1].at < listed[n].at
    <2> SUFFICES ASSUME NEW n \in 2..m PROVE listed[n - 1].at < listed[n].at
      OBVIOUS
    <2>1. n - 1 \in 1..m /\ n \in 1..m
      BY <1>4
    <2>2. at[n - 1] < at[n]
      BY <1>2, <1>4 DEF Rising
    <2>3. listed[n - 1].at = at[n - 1] /\ listed[n].at = at[n]
      BY <1>12, <2>1
    <2> QED
      BY <2>2, <2>3
  <1> QED
    BY <1>11, <1>13, <1>14 DEF ListingOK

-----------------------------------------------------------------------------
(* The first n words placed are spelled as they were said.                 *)
AllAsSaid(said, done, n) == \A j \in 1..n : AsSaid(said, done[j])

(* What the loop has placed when it has read the list as far as word w.    *)
PlacedSoFar(said, done, w) ==
  /\ done \in Seq(Offsets)
  /\ \A k \in 1..Len(done) : done[k].at \in 1..Len(said)
  /\ \A k \in 1..Len(done) : AllAsSaid(said, done, k) => done[k].start <= PlaceOf(said, done[k].at)
  /\ \A k \in 2..Len(done) : done[k - 1].end <= done[k].start
  /\ AllAsSaid(said, done, Len(done)) =>
       \A later \in 1..Len(said) : w < later => Cursor(done) <= PlaceOf(said, later)

LEMMA AppendedIs ==
  ASSUME NEW done \in Seq(Offsets), NEW offset \in Offsets, NEW new, new = Append(done, offset)
  PROVE  /\ new \in Seq(Offsets) /\ Len(done) \in Nat /\ Len(new) = Len(done) + 1
         /\ \A k \in 1..Len(done) : new[k] = done[k]
         /\ new[Len(done) + 1] = offset
         /\ Cursor(new) = offset.end
         /\ Len(done) >= 1 => Cursor(done) = done[Len(done)].end
  <1>1. /\ new \in Seq(Offsets) /\ new # <<>> /\ Len(new) = Len(done) + 1
        /\ \A k \in 1..Len(done) : new[k] = done[k]
        /\ new[Len(done) + 1] = offset
    BY AppendProperties
  <1>2. Len(done) \in Nat /\ (Len(done) >= 1 => done # <<>>)
    OBVIOUS
  <1>3. Cursor(new) = offset.end
    BY <1>1, <1>2 DEF Cursor, Last
  <1>4. Len(done) >= 1 => Cursor(done) = done[Len(done)].end
    BY <1>2 DEF Cursor, Last
  <1> QED
    BY <1>1, <1>2, <1>3, <1>4

LEMMA RoundsPlace ==
  ASSUME NEW said, SaidOK(said), NEW heard \in Heard, heard.at \in 1..Len(said),
         NEW w \in Nat, w < heard.at, NEW done, PlacedSoFar(said, done, w)
  PROVE  PlacedSoFar(said, Placed(Text(said), done, heard), heard.at)
  <1> DEFINE N == Len(said)
             text == Text(said)
             at == heard.at
             token == heard.token
             start == Find(text, token, Cursor(done))
             new == Placed(text, done, heard)
             offset == Offset(token, heard, start)
  <1>1. N \in Nat /\ at \in 1..N /\ w < at /\ 1 \in 1..N
    BY DEF SaidOK
  <1>2. text \in Seq(Int)
    <2>1. text \in Seq(Characters)
      BY <1>1, WordIsThere
    <2> QED
      BY <2>1, SeqMonotonic DEF Characters
  <1>3. done \in Seq(Offsets)
    BY DEF PlacedSoFar
  <1>4. /\ Cursor(done) \in Nat
        /\ start = -1 => new = done
        /\ start # -1 => /\ start \in Nat /\ start >= Cursor(done)
                         /\ offset \in Offsets
                         /\ new = Append(done, offset)
    BY <1>2, <1>3, PlacedIs
  <1>5. AllAsSaid(said, done, Len(done)) => Cursor(done) <= PlaceOf(said, at)
    BY <1>1 DEF PlacedSoFar
  <1>6. \A i \in 1..N : PlaceOf(said, i) \in Nat /\ Len(said[i]) \in Nat
    BY PlacesFollow, WordsAreLetters
  <1>7. \A later \in 1..N : at < later => PlaceOf(said, at) + Len(said[at]) < PlaceOf(said, later)
    BY <1>1, PlacesAreInOrder
  <1>8. /\ offset.at = at /\ offset.text = token
        /\ offset.start = start /\ offset.end = start + Len(token)
    BY DEF Offset
  <1>9. CASE start = -1
    <2>1. \A later \in 1..N : at < later => w < later
      BY <1>1
    <2>2. PlacedSoFar(said, done, at)
      BY <2>1 DEF PlacedSoFar
    <2> QED
      BY <1>4, <1>9, <2>2
  <1>10. CASE start # -1
    <2>1. ASSUME AllAsSaid(said, done, Len(done)), token = said[at]
          PROVE  start <= PlaceOf(said, at)
      <3>1. start \in Cursor(done)..PlaceOf(said, at)
        BY <1>1, <1>4, <1>5, <2>1, WordsAreFound
      <3> QED
        BY <3>1
    <2>3. start \in Nat /\ Cursor(done) <= start /\ offset \in Offsets
      BY <1>4, <1>10
    <2>4. new = Append(done, offset)
      BY <1>4, <1>10
    <2>a. done \in Seq(Offsets) /\ offset \in Offsets
      BY <1>3, <2>3
    <2> HIDE DEF start, offset, new, text
    <2> DEFINE l == Len(done)
    <2>b. new \in Seq(Offsets) /\ l \in Nat /\ Len(new) = l + 1
      BY <2>a, <2>4, AppendedIs
    <2>c. \A k \in 1..l : new[k] = done[k]
      BY <2>a, <2>4, AppendedIs
    <2>d. new[l + 1] = offset
      BY <2>a, <2>4, AppendedIs
    <2>e. Cursor(new) = offset.end
      <3>1. new # <<>> /\ new[Len(new)] = offset
        BY <2>b, <2>d
      <3> QED
        BY <3>1 DEF Cursor, Last
    <2>f. l >= 1 => Cursor(done) = done[l].end
      BY <2>a, <2>4, AppendedIs
    <2>5. /\ new \in Seq(Offsets) /\ l \in Nat /\ Len(new) = l + 1
          /\ \A k \in 1..l : new[k] = done[k]
          /\ new[l + 1] = offset
          /\ Cursor(new) = offset.end
          /\ l >= 1 => Cursor(done) = done[l].end
      BY <2>b, <2>c, <2>d, <2>e, <2>f
    <2>g. ASSUME NEW k \in 1..l, AllAsSaid(said, new, k)
          PROVE  AllAsSaid(said, done, k)
      BY <2>5, <2>g DEF AllAsSaid
    <2>h. AllAsSaid(said, new, l + 1) => AllAsSaid(said, done, l) /\ token = said[at]
      <3> SUFFICES ASSUME AllAsSaid(said, new, l + 1)
                   PROVE  AllAsSaid(said, done, l) /\ token = said[at]
        OBVIOUS
      <3>1. \A j \in 1..l : j \in 1..(l + 1)
        BY <2>5
      <3>2. AllAsSaid(said, done, l)
        BY <2>5, <3>1 DEF AllAsSaid
      <3>3. AsSaid(said, offset)
        BY <2>5 DEF AllAsSaid
      <3> QED
        BY <1>8, <3>2, <3>3 DEF AsSaid
    <2>6. ASSUME NEW k \in 1..Len(new)
          PROVE  /\ new[k].at \in 1..N
                 /\ AllAsSaid(said, new, k) => new[k].start <= PlaceOf(said, new[k].at)
      <3>1. CASE k = l + 1
        BY <1>1, <1>8, <2>1, <2>5, <2>h, <3>1
      <3>2. CASE k \in 1..l
        BY <2>5, <2>g, <3>2 DEF PlacedSoFar
      <3> QED
        BY <2>5, <3>1, <3>2
    <2>7. ASSUME NEW k \in 2..Len(new)
          PROVE  new[k - 1].end <= new[k].start
      <3>1. CASE k = l + 1
        <4>1. l >= 1 /\ k - 1 = l /\ l \in 1..l
          BY <2>5, <3>1
        <4>2. new[k - 1] = done[l] /\ new[k] = offset
          BY <2>5, <3>1, <4>1
        <4> QED
          BY <1>8, <2>3, <2>5, <4>1, <4>2
      <3>2. CASE k \in 2..l
        <4>1. k \in 1..l /\ k - 1 \in 1..l
          BY <2>5, <3>2
        <4>2. new[k - 1] = done[k - 1] /\ new[k] = done[k]
          BY <2>5, <4>1
        <4> QED
          BY <3>2, <4>2 DEF PlacedSoFar
      <3> QED
        BY <2>5, <3>1, <3>2
    <2>8. ASSUME AllAsSaid(said, new, Len(new)), NEW later \in 1..N, at < later
          PROVE  Cursor(new) <= PlaceOf(said, later)
      <3>1. PlaceOf(said, at) + Len(said[at]) < PlaceOf(said, later)
        BY <1>7, <2>8
      <3>2. Cursor(new) = start + Len(said[at]) /\ start <= PlaceOf(said, at)
        BY <1>8, <2>1, <2>5, <2>8, <2>h
      <3>3. /\ PlaceOf(said, at) \in Nat /\ Len(said[at]) \in Nat /\ PlaceOf(said, later) \in Nat
        BY <1>1, <1>6
      <3> QED
        BY <2>3, <3>1, <3>2, <3>3
    <2>9. PlacedSoFar(said, new, at)
      BY <2>5, <2>6, <2>7, <2>8 DEF PlacedSoFar
    <2> QED
      BY <2>9 DEF new, text
  <1> QED
    BY <1>9, <1>10

LEMMA WordsAreInPlace ==
  ASSUME NEW said, SaidOK(said), NEW listed, ListingOK(said, listed)
  PROVE  \E w \in Nat : PlacedSoFar(said, Words(Text(said), listed), w)
  <1> DEFINE N == Len(listed)
             text == Text(said)
             upto(n) == IF n = 0 THEN 0 ELSE listed[n].at
  <1>1. text \in Seq(Int)
    <2>1. 1 \in 1..Len(said)
      BY DEF SaidOK
    <2>2. text \in Seq(Characters)
      BY <2>1, WordIsThere
    <2> QED
      BY <2>2, SeqMonotonic DEF Characters
  <1>2. /\ listed \in Seq(Heard) /\ N \in Nat
        /\ \A n \in 1..N : listed[n].at \in 1..Len(said)
        /\ \A n \in 2..N : listed[n - 1].at < listed[n].at
    BY DEF ListingOK
  <1>3. Len(said) \in Nat
    BY DEF SaidOK
  <1> HIDE DEF text
  <1>4. PICK done : Lists(done, text, listed)
    BY <1>1, <1>2, WordsUnroll
  <1>5. \A n \in 1..N : listed[n] \in Heard
    BY <1>2
  <1> DEFINE S == {n \in Nat : n <= N => PlacedSoFar(said, done[n], upto(n))}
  <1>6. 0 \in S
    <2>1. Cursor(<<>>) = 0 /\ \A w \in 1..Len(said) : PlaceOf(said, w) \in Nat
      BY PlacesFollow DEF Cursor
    <2>2. PlacedSoFar(said, <<>>, 0)
      BY <2>1 DEF PlacedSoFar
    <2> QED
      BY <1>4, <2>2 DEF Lists
  <1>7. ASSUME NEW n \in Nat, n \in S PROVE n + 1 \in S
    <2> SUFFICES ASSUME n + 1 <= N PROVE PlacedSoFar(said, done[n + 1], listed[n + 1].at)
      OBVIOUS
    <2>1. n + 1 \in 1..N /\ (n + 1) - 1 = n
      BY <1>2
    <2>2. PlacedSoFar(said, done[n], upto(n))
      BY <1>2, <1>7
    <2>3. done[n + 1] = Placed(text, done[n], listed[n + 1])
      BY <1>4, <2>1 DEF Lists
    <2>4. upto(n) \in Nat /\ upto(n) < listed[n + 1].at
      <3>1. CASE n = 0
        <4>1. listed[n + 1].at \in 1..Len(said)
          BY <1>2, <2>1
        <4> QED
          BY <3>1, <4>1
      <3>2. CASE n # 0
        <4>1. n \in 1..N /\ n + 1 \in 2..N
          BY <1>2, <2>1, <3>2
        <4>2. listed[n].at \in 1..Len(said) /\ listed[(n + 1) - 1].at < listed[n + 1].at
          BY <1>2, <4>1
        <4> QED
          BY <2>1, <3>2, <4>2
      <3> QED
        BY <3>1, <3>2
    <2> DEFINE heard == listed[n + 1]
    <2>5. heard \in Heard /\ heard.at \in 1..Len(said)
      BY <1>2, <1>5, <2>1
    <2> HIDE DEF heard, upto
    <2>6. PlacedSoFar(said, Placed(text, done[n], heard), heard.at)
      BY <2>2, <2>4, <2>5, RoundsPlace DEF text, heard
    <2> QED
      BY <2>3, <2>6 DEF heard
  <1> HIDE DEF S
  <1>8. N \in S
    BY <1>2, <1>6, <1>7, SetInduction
  <1>9. PlacedSoFar(said, done[N], upto(N))
    BY <1>2, <1>8 DEF S
  <1>10. upto(N) \in Nat
    <2>1. CASE N = 0
      BY <2>1
    <2>2. CASE N # 0
      <3>1. N \in 1..N
        BY <1>2, <2>2
      <3>2. listed[N].at \in 1..Len(said)
        BY <1>2, <3>1
      <3> QED
        BY <2>2, <3>2
    <2> QED
      BY <2>1, <2>2
  <1> HIDE DEF upto
  <1>11. Words(text, listed) = done[N]
    BY <1>4 DEF Lists
  <1> QED
    BY <1>9, <1>10, <1>11 DEF text

(* A full listing places each word exactly.                                *)
Exact(said, done, n) ==
  /\ done \in Seq(Offsets) /\ Len(done) = n
  /\ \A k \in 1..n : done[k].start = PlaceOf(said, k) /\ done[k].end = PlaceOf(said, k) + Len(said[k])

LEMMA RoundsAreExact ==
  ASSUME NEW said, SaidOK(said), NEW n \in Nat, n + 1 <= Len(said),
         NEW done, Exact(said, done, n),
         NEW heard \in Heard, heard.token = said[n + 1]
  PROVE  Exact(said, Placed(Text(said), done, heard), n + 1)
  <1> DEFINE N == Len(said)
             text == Text(said)
             i == n + 1
             token == heard.token
             cursor == Cursor(done)
             start == Find(text, token, cursor)
             new == Placed(text, done, heard)
             offset == Offset(token, heard, start)
  <1>1. N \in Nat /\ i \in 1..N /\ 1 \in 1..N
    BY DEF SaidOK
  <1>2. text \in Seq(Int)
    <2>1. text \in Seq(Characters)
      BY <1>1, WordIsThere
    <2> QED
      BY <2>1, SeqMonotonic DEF Characters
  <1>3. done \in Seq(Offsets) /\ Len(done) = n
    BY DEF Exact
  <1>4. /\ cursor \in Nat
        /\ start # -1 => /\ offset \in Offsets
                         /\ new = Append(done, offset)
    BY <1>2, <1>3, PlacedIs
  <1>5. cursor = IF i = 1 THEN 0 ELSE PlaceOf(said, i) - 1
    <2>1. CASE i = 1
      <3>1. done = <<>>
        BY <1>3, <2>1
      <3> QED
        BY <2>1, <3>1 DEF Cursor
    <2>2. CASE i # 1
      <3>1. n \in 1..N /\ n \in 1..n /\ n + 1 <= N
        BY <1>1, <2>2
      <3>2. PlaceOf(said, n + 1) = PlaceOf(said, n) + Len(said[n]) + 1
        BY <3>1, PlacesFollow
      <3>3. PlaceOf(said, n) \in Nat /\ Len(said[n]) \in Nat
        BY <3>1, PlacesFollow, WordsAreLetters
      <3>4. done[n].end = PlaceOf(said, n) + Len(said[n])
        BY <3>1 DEF Exact
      <3>5. done # <<>>
        BY <1>3, <3>1
      <3>6. cursor = done[n].end
        BY <1>3, <3>5 DEF Cursor, Last
      <3>7. cursor = PlaceOf(said, n) + Len(said[n])
        BY <3>4, <3>6
      <3> QED
        BY <2>2, <3>2, <3>3, <3>7
    <2> QED
      BY <2>1, <2>2
  <1>6. start = PlaceOf(said, i)
    BY <1>1, <1>4, <1>5, NextWordIsFound
  <1>7. start \in Nat /\ start # -1
    BY <1>1, <1>6, PlacesFollow
  <1>8. offset.start = PlaceOf(said, i) /\ offset.end = PlaceOf(said, i) + Len(said[i])
    BY <1>6 DEF Offset
  <1>9. offset \in Offsets /\ new = Append(done, offset)
    BY <1>4, <1>7
  <1> HIDE DEF new, offset, start, cursor, text
  <1>10. /\ new \in Seq(Offsets) /\ Len(new) = n + 1
         /\ \A k \in 1..n : new[k] = done[k]
         /\ new[n + 1] = offset
    BY <1>3, <1>9, AppendedIs
  <1>11. ASSUME NEW k \in 1..(n + 1)
         PROVE  new[k].start = PlaceOf(said, k) /\ new[k].end = PlaceOf(said, k) + Len(said[k])
    <2>1. CASE k = n + 1
      BY <1>8, <1>10, <2>1
    <2>2. CASE k \in 1..n
      BY <1>10, <2>2 DEF Exact
    <2> QED
      BY <2>1, <2>2
  <1> QED
    BY <1>10, <1>11 DEF Exact, new, text

LEMMA FullListingIsExact ==
  ASSUME NEW said, SaidOK(said), NEW listed \in Seq(Heard), Len(listed) = Len(said),
         \A n \in 1..Len(said) : listed[n].token = said[n]
  PROVE  Exact(said, Words(Text(said), listed), Len(said))
  <1> DEFINE N == Len(said)
             text == Text(said)
  <1>1. N \in Nat /\ 1 \in 1..N
    BY DEF SaidOK
  <1>2. text \in Seq(Int)
    <2>1. text \in Seq(Characters)
      BY <1>1, WordIsThere
    <2> QED
      BY <2>1, SeqMonotonic DEF Characters
  <1> HIDE DEF text
  <1>3. PICK done : Lists(done, text, listed)
    BY <1>2, WordsUnroll
  <1>4. \A n \in 1..N : listed[n] \in Heard
    OBVIOUS
  <1> DEFINE S == {n \in Nat : n <= N => Exact(said, done[n], n)}
  <1>5. 0 \in S
    <2>1. Exact(said, <<>>, 0)
      BY DEF Exact
    <2> QED
      BY <1>3, <2>1 DEF Lists
  <1>6. ASSUME NEW n \in Nat, n \in S PROVE n + 1 \in S
    <2> SUFFICES ASSUME n + 1 <= N PROVE Exact(said, done[n + 1], n + 1)
      OBVIOUS
    <2>1. n + 1 \in 1..N /\ (n + 1) - 1 = n
      BY <1>1
    <2>2. Exact(said, done[n], n)
      BY <1>1, <1>6
    <2>3. done[n + 1] = Placed(text, done[n], listed[n + 1])
      BY <1>3, <2>1 DEF Lists
    <2> DEFINE heard == listed[n + 1]
    <2>4. heard \in Heard /\ heard.token = said[n + 1]
      BY <1>4, <2>1
    <2> HIDE DEF heard
    <2>5. Exact(said, Placed(text, done[n], heard), n + 1)
      BY <2>2, <2>4, RoundsAreExact DEF text
    <2> QED
      BY <2>3, <2>5 DEF heard
  <1> HIDE DEF S
  <1>7. N \in S
    BY <1>1, <1>5, <1>6, SetInduction
  <1>8. Exact(said, done[N], N)
    BY <1>1, <1>7 DEF S
  <1> QED
    BY <1>3, <1>8 DEF Lists, text

-----------------------------------------------------------------------------
(* Both turns of a recording.                                              *)
LEMMA SameLength ==
  ASSUME NEW m \in Nat, NEW n \in Nat, 1..m = 1..n
  PROVE  m = n
  <1>1. ASSUME m < n PROVE FALSE
    <2>1. n \in 1..n /\ n \notin 1..m
      BY <1>1
    <2> QED
      BY <2>1
  <1>2. ASSUME n < m PROVE FALSE
    <2>1. m \in 1..m /\ m \notin 1..n
      BY <1>2
    <2> QED
      BY <2>1
  <1> QED
    BY <1>1, <1>2

LEMMA RecordingsAreTrue == FetchRecording => WordTimesAreTrue'
  <1> SUFFICES ASSUME FetchRecording PROVE WordTimesAreTrue'
    OBVIOUS
  <1>1. PICK said \in BoundedSeq(Vocabulary, MaxWords), first \in Channels, second \in Channels :
          /\ said # <<>>
          /\ \E listed \in Listings(said) :
               recording' = <<[channel |-> first, said |-> said, listed |-> listed],
                              [channel |-> second, said |-> <<said[1]>>, listed |-> <<>>]>>
    BY DEF FetchRecording
  <1>2. PICK listed \in Listings(said) :
          recording' = <<[channel |-> first, said |-> said, listed |-> listed],
                         [channel |-> second, said |-> <<said[1]>>, listed |-> <<>>]>>
    BY <1>1
  <1>3. SaidOK(said)
    <2>1. PICK m \in 0..MaxWords : said \in [1..m -> Vocabulary]
      BY DEF BoundedSeq, SeqOf
    <2>2. said \in Seq(Vocabulary)
      BY <2>1, AssemblyAssumption
    <2> QED
      BY <1>1, <2>2 DEF SaidOK
  <1>4. ListingOK(said, listed)
    BY <1>3, ListingsAre
  <1> DEFINE one == [channel |-> first, said |-> said, listed |-> listed]
             two == [channel |-> second, said |-> <<said[1]>>, listed |-> <<>>]
  <1>5. /\ DOMAIN recording' = 1..2 /\ recording'[1] = one /\ recording'[2] = two
        /\ recording' # <<>>
    BY <1>2
  <1>6. one.said = said /\ one.listed = listed /\ two.said = <<said[1]>> /\ two.listed = <<>>
    OBVIOUS
  <1> HIDE DEF one, two
  <1>7. \A i \in 1..2 : turns'[i].words = Words(Text(recording'[i].said), recording'[i].listed)
    <2>1. turns' = Assembled(recording')
      BY DEF FetchRecording
    <2> DEFINE alternatives == recording'
    <2>2. turns' = Assembled(alternatives) /\ DOMAIN alternatives = 1..2
      BY <1>5, <2>1
    <2> HIDE DEF alternatives
    <2>3. \A i \in 1..2 : turns'[i].words = Words(Text(alternatives[i].said), alternatives[i].listed)
      BY <2>2 DEF Assembled
    <2> QED
      BY <2>3 DEF alternatives
  <1> DEFINE True(words, text, list) ==
               /\ \A k \in DOMAIN words :
                    (\A j \in 1..k : AsSaid(text, words[j])) => words[k].start <= PlaceOf(text, words[k].at)
               /\ \A k \in 2..Len(words) : words[k - 1].end <= words[k].start
               /\ [k \in DOMAIN list |-> list[k].token] = text =>
                    \A k \in DOMAIN text : words[k].start = PlaceOf(text, k)
  <1>8. True(Words(Text(said), listed), said, listed)
    <2> DEFINE words == Words(Text(said), listed)
    <2>1. PICK w \in Nat : PlacedSoFar(said, words, w)
      BY <1>3, <1>4, WordsAreInPlace
    <2>2. ASSUME [k \in DOMAIN listed |-> listed[k].token] = said
          PROVE  \A k \in DOMAIN said : words[k].start = PlaceOf(said, k)
      <3>1. listed \in Seq(Heard) /\ said \in Seq(Vocabulary)
        BY <1>3, <1>4 DEF ListingOK, SaidOK
      <3>2. DOMAIN listed = 1..Len(listed) /\ DOMAIN said = 1..Len(said)
            /\ Len(listed) \in Nat /\ Len(said) \in Nat
        BY <3>1
      <3>3. DOMAIN listed = DOMAIN said /\ \A k \in DOMAIN listed : listed[k].token = said[k]
        BY <2>2
      <3>4. Len(listed) = Len(said)
        BY <3>2, <3>3, SameLength
      <3>5. Exact(said, words, Len(said))
        BY <1>3, <3>1, <3>2, <3>3, <3>4, FullListingIsExact
      <3> QED
        BY <3>2, <3>5 DEF Exact
    <2> HIDE DEF words
    <2>3. words \in Seq(Offsets) /\ DOMAIN words = 1..Len(words)
      BY <2>1 DEF PlacedSoFar
    <2>4. True(words, said, listed)
      BY <2>1, <2>2, <2>3 DEF PlacedSoFar, AllAsSaid
    <2> QED
      BY <2>4 DEF words
  <1>9. True(Words(Text(<<said[1]>>), <<>>), <<said[1]>>, <<>>)
    <2> DEFINE words == Words(Text(<<said[1]>>), <<>>)
    <2>1. words = <<>>
      <3>1. <<said[1]>> \in Seq(Vocabulary) /\ <<said[1]>> # <<>>
        BY <1>3 DEF SaidOK
      <3>2. SaidOK(<<said[1]>>) /\ Len(<<said[1]>>) = 1
        BY <3>1 DEF SaidOK
      <3>3. Text(<<said[1]>>) \in Seq(Int)
        <4>1. 1 \in 1..Len(<<said[1]>>)
          BY <3>2
        <4>2. Text(<<said[1]>>) \in Seq(Characters)
          BY <3>2, <4>1, WordIsThere
        <4> QED
          BY <4>2, SeqMonotonic DEF Characters
      <3>4. <<>> \in Seq(Heard) /\ Len(<<>>) = 0
        OBVIOUS
      <3>5. PICK done : Lists(done, Text(<<said[1]>>), <<>>)
        BY <3>3, <3>4, WordsUnroll
      <3> QED
        BY <3>4, <3>5 DEF Lists
    <2> HIDE DEF words
    <2>2. [k \in DOMAIN <<>> |-> <<>>[k].token] # <<said[1]>>
      <3>1. DOMAIN [k \in DOMAIN <<>> |-> <<>>[k].token] = {}
        OBVIOUS
      <3>2. 1 \in DOMAIN <<said[1]>>
        OBVIOUS
      <3> QED
        BY <3>1, <3>2
    <2>3. True(words, <<said[1]>>, <<>>)
      BY <2>1, <2>2
    <2> QED
      BY <2>3 DEF words
  <1> HIDE DEF True
  <1>10. \A i \in 1..2 : True(turns'[i].words, recording'[i].said, recording'[i].listed)
    <2>1. \A i \in 1..2 : i = 1 \/ i = 2
      OBVIOUS
    <2>2. 1 \in 1..2 /\ 2 \in 1..2
      OBVIOUS
    <2>3. True(turns'[1].words, recording'[1].said, recording'[1].listed)
      BY <1>5, <1>6, <1>7, <1>8, <2>2
    <2>4. True(turns'[2].words, recording'[2].said, recording'[2].listed)
      BY <1>5, <1>6, <1>7, <1>9, <2>2
    <2> QED
      BY <2>1, <2>3, <2>4
  <1>11. WordsRunAheadForACause'
    BY <1>5, <1>10 DEF WordsRunAheadForACause, True
  <1>12. SpreadFillsTheTurn'
    BY <1>5 DEF SpreadFillsTheTurn
  <1> QED
    BY <1>11, <1>12 DEF WordTimesAreTrue

-----------------------------------------------------------------------------
(* A fixture's turn.                                                       *)

LEMMA DivisionIs ==
  ASSUME NEW a \in Nat, NEW d \in Nat, d > 0
  PROVE  /\ a \div d \in Nat /\ a % d \in 0..(d - 1)
         /\ a = d * (a \div d) + (a % d)
  OBVIOUS

LEMMA RoundedIs ==
  ASSUME NEW a \in Nat, NEW d \in Nat, d > 0
  PROVE  /\ Rounded(a, d) \in Nat
         /\ a % d = 0 => Rounded(a, d) = a \div d
  <1>1. a \div d \in Nat /\ a % d \in 0..(d - 1)
    BY DivisionIs
  <1> QED
    BY <1>1 DEF Rounded

LEMMA RoundedGrows ==
  ASSUME NEW a \in Nat, NEW b \in Nat, a <= b, NEW d \in Nat, d > 0
  PROVE  Rounded(a, d) <= Rounded(b, d)
  <1> DEFINE p == a \div d
             q == b \div d
             r == a % d
             s == b % d
  <1>1. /\ p \in Nat /\ q \in Nat /\ r \in 0..(d - 1) /\ s \in 0..(d - 1)
        /\ a = d * p + r /\ b = d * q + s
    BY DivisionIs
  <1>2. /\ Rounded(a, d) = p + IF 2 * r > d \/ (2 * r = d /\ p % 2 = 1) THEN 1 ELSE 0
        /\ Rounded(b, d) = q + IF 2 * s > d \/ (2 * s = d /\ q % 2 = 1) THEN 1 ELSE 0
    BY DEF Rounded
  <1> HIDE DEF p, q, r, s
  <1>3. ASSUME p >= q + 1 PROVE FALSE
    <2>1. d * p >= d * (q + 1) /\ d * p \in Int /\ d * (q + 1) = d * q + d /\ d * q \in Int
      BY <1>1, <1>3
    <2> QED
      BY <1>1, <2>1
  <1>4. CASE p = q
    <2>1. r <= s
      BY <1>1, <1>4
    <2> QED
      BY <1>1, <1>2, <1>4, <2>1
  <1>5. CASE p + 1 <= q
    BY <1>1, <1>2, <1>5
  <1> QED
    BY <1>1, <1>3, <1>4, <1>5

LEMMA LargerIs ==
  ASSUME NEW a \in Int, NEW b \in Int
  PROVE  Max({a, b}) = IF a <= b THEN b ELSE a
  <1>1. \E x \in {a, b} : \A y \in {a, b} : x >= y
    OBVIOUS
  <1>2. /\ Max({a, b}) \in {a, b}
        /\ \A y \in {a, b} : Max({a, b}) >= y
    BY <1>1 DEF Max
  <1> QED
    BY <1>2

(* The n words of a turn share out the time between its bounds.            *)
Shared(words, n, from, to) ==
  /\ Len(words) = n /\ DOMAIN words = 1..n /\ Last(words) = words[n]
  /\ words[1].start = from
  /\ words[n].end = Max({from, to})
  /\ \A k \in 1..n : words[k].start <= words[k].end
  /\ \A k \in 2..n : words[k].start = words[k - 1].end

LEMMA SpreadIsShared ==
  ASSUME NEW n \in Nat, n > 0, NEW from \in Nat, NEW to \in Nat
  PROVE  Shared(Spread(n, from, to), n, from, to)
  <1> DEFINE words == Spread(n, from, to)
             span == Max({to - from, 0})
             cut(k) == Rounded(span * k, n)
             word(k) == [start |-> from + cut(k - 1), end |-> from + cut(k)]
  <1>1. words = [k \in 1..n |-> word(k)]
    BY DEF Spread
  <1>2. span = IF to <= from THEN 0 ELSE to - from
    BY LargerIs
  <1>3. Max({from, to}) = IF to <= from THEN from ELSE to
    BY LargerIs
  <1>4. span \in Nat /\ from + span = Max({from, to})
    BY <1>2, <1>3
  <1> HIDE DEF span
  <1>5. \A k \in Nat : span * k \in Nat
    BY <1>4
  <1>6. \A k \in Nat : cut(k) \in Nat
    BY <1>5, RoundedIs
  <1>7. cut(0) = 0
    <2>1. span * 0 = 0
      BY <1>4
    <2>2. 0 % n = 0 /\ 0 \div n = 0
      OBVIOUS
    <2> QED
      BY <2>1, <2>2, RoundedIs
  <1>8. cut(n) = span
    <2>1. (span * n) % n = 0 /\ (span * n) \div n = span
      BY <1>4
    <2> QED
      BY <1>5, <2>1, RoundedIs
  <1>9. \A k \in 1..n : cut(k - 1) <= cut(k)
    <2> SUFFICES ASSUME NEW k \in 1..n PROVE cut(k - 1) <= cut(k)
      OBVIOUS
    <2>1. k - 1 \in Nat /\ k \in Nat
      OBVIOUS
    <2>2. span * (k - 1) <= span * k
      BY <1>4, <2>1
    <2> QED
      BY <1>5, <2>1, <2>2, RoundedGrows
  <1> HIDE DEF cut
  <1>10. \A k \in 1..n : words[k].start = from + cut(k - 1) /\ words[k].end = from + cut(k)
    BY <1>1
  <1>11. DOMAIN words = 1..n /\ Len(words) = n /\ words # <<>>
    BY <1>1
  <1>12. Last(words) = words[n]
    BY <1>11 DEF Last
  <1> HIDE DEF words
  <1>13. words[1].start = from /\ words[n].end = Max({from, to})
    <2>1. 1 \in 1..n /\ n \in 1..n /\ 1 - 1 = 0
      OBVIOUS
    <2>2. words[1].start = from + cut(0) /\ words[n].end = from + cut(n)
      BY <1>10, <2>1
    <2> QED
      BY <1>4, <1>7, <1>8, <2>2
  <1>14. \A k \in 1..n : words[k].start <= words[k].end
    <2> SUFFICES ASSUME NEW k \in 1..n PROVE words[k].start <= words[k].end
      OBVIOUS
    <2>1. k - 1 \in Nat /\ k \in Nat
      OBVIOUS
    <2> QED
      BY <1>6, <1>9, <1>10, <2>1
  <1>15. \A k \in 2..n : words[k].start = words[k - 1].end
    <2> SUFFICES ASSUME NEW k \in 2..n PROVE words[k].start = words[k - 1].end
      OBVIOUS
    <2>1. k \in 1..n /\ k - 1 \in 1..n
      OBVIOUS
    <2> QED
      BY <1>10, <2>1
  <1> QED
    BY <1>11, <1>12, <1>13, <1>14, <1>15 DEF words, Shared

LEMMA FixturesAreTrue == ASSUME LoadFixture PROVE WordTimesAreTrue'
  <1>1. PICK timing \in {"declared", "even"}, n \in 0..MaxWords, from \in Bounds, to \in Bounds :
          turns' = <<[index |-> 0, role |-> "agent", from |-> from, to |-> to,
                      words |-> FixtureWords(<<>>, timing, n, from, to)]>>
    BY DEF LoadFixture
  <1>2. recording = <<>> /\ recording' = <<>>
    BY DEF LoadFixture
  <1> DEFINE words == FixtureWords(<<>>, timing, n, from, to)
  <1>3. DOMAIN turns' = {1} /\ turns'[1].from = from /\ turns'[1].to = to /\ turns'[1].words = words
    BY <1>1
  <1>4. ASSUME words # <<>>
        PROVE  /\ words[1].start = from
               /\ Last(words).end = Max({from, to})
               /\ \A k \in DOMAIN words : words[k].start <= words[k].end
               /\ \A k \in 2..Len(words) : words[k].start = words[k - 1].end
    <2>1. words = Spread(n, from, to) /\ n > 0 /\ from # Missing /\ to # Missing
      BY <1>4 DEF FixtureWords
    <2>2. n \in Nat /\ from \in Nat /\ to \in Nat
      BY <2>1, AssemblyAssumption
    <2> HIDE DEF words
    <2>3. Shared(words, n, from, to)
      BY <2>1, <2>2, SpreadIsShared
    <2> QED
      BY <2>3 DEF Shared
  <1> HIDE DEF words
  <1>5. SpreadFillsTheTurn'
    BY <1>3, <1>4 DEF SpreadFillsTheTurn
  <1>6. WordsRunAheadForACause'
    BY <1>2 DEF WordsRunAheadForACause
  <1> QED
    BY <1>5, <1>6 DEF WordTimesAreTrue

-----------------------------------------------------------------------------
(* The directory.                                                          *)

File == [id : Ids \cup {NoId}, contact : Ids \cup {NoId}]
Directories == [1..Paths -> File]

LEMMA ChosenIsThere ==
  ASSUME NEW S \in SUBSET (1..Paths), S # {}
  PROVE  Min(S) \in S /\ Max(S) \in S
  <1>1. Paths \in Nat
    BY AssemblyAssumption
  <1>2. \E x \in S : \A y \in S : x <= y
    <2>1. S \in SUBSET Nat
      BY <1>1
    <2> QED
      BY <2>1, LeastExists
  <1>3. \E x \in S : \A y \in S : x >= y
    <2> DEFINE T == {Paths - x : x \in S}
    <2>1. T \in SUBSET Nat /\ T # {}
      <3>1. \A x \in S : Paths - x \in Nat
        BY <1>1
      <3>2. T # {}
        OBVIOUS
      <3> QED
        BY <3>1, <3>2
    <2>2. PICK least \in T : \A other \in T : least <= other
      BY <2>1, LeastExists
    <2>3. PICK x \in S : least = Paths - x
      BY <2>2
    <2>4. ASSUME NEW y \in S PROVE x >= y
      <3>1. Paths - y \in T
        OBVIOUS
      <3>2. Paths - x <= Paths - y
        BY <2>2, <2>3, <3>1
      <3>3. x \in Int /\ y \in Int
        BY <1>1
      <3> QED
        BY <1>1, <3>2, <3>3
    <2> QED
      BY <2>4
  <1> QED
    BY <1>2, <1>3 DEF Min, Max

(* The index sends an id to a file that names it, so the catalogue lists   *)
(* files by the id under which the index kept them.                        *)
LEMMA IndexNamesFiles ==
  ASSUME NEW files \in Directories, NEW id \in DOMAIN Index(files)
  PROVE  /\ id # NoId
         /\ Index(files)[id] \in 1..Paths
         /\ files[Index(files)[id]].id = id
  <1> DEFINE named == {p \in DOMAIN files : files[p].id # NoId}
             these == {p \in named : files[p].id = id}
  <1>1. DOMAIN files = 1..Paths
    BY DEF Directories
  <1>2. id \in {files[p].id : p \in named} /\ Index(files)[id] = Max(these)
    BY DEF Index
  <1>3. these # {} /\ these \in SUBSET (1..Paths) /\ id # NoId
    BY <1>1, <1>2
  <1>4. Max(these) \in these
    BY <1>3, ChosenIsThere
  <1> QED
    BY <1>1, <1>2, <1>3, <1>4

(* The file a record was read from is the catalogue's, as long as nobody   *)
(* edited the directory; the transcript is of the file the index names,    *)
(* and was fetched for the tenant of the record.                           *)
RecordIsCatalogued ==
  resolved # NoContact /\ edits = 0 =>
    /\ resolved.file \in Catalogue(directory)
    /\ ContactId(directory[resolved.file]) = resolved.id

TranscriptIsIndexed ==
  fetched # NoTranscript =>
    /\ resolved # NoContact
    /\ Tenants[resolved.file] = resolved.reader
    /\ resolved.id \in DOMAIN Index(directory)
    /\ fetched = Index(directory)[resolved.id]

AssemblyInv ==
  /\ AssemblyTypeOK
  /\ directory \in Directories
  /\ RecordIsCatalogued
  /\ TranscriptIsIndexed
  /\ WordTimesAreTrue

LEMMA AssemblyInitially == ASSUME AssemblyInit PROVE AssemblyInv
  <1>1. Paths \in Nat /\ MaxEdits \in Nat
    BY AssemblyAssumption
  <1>2. AssemblyTypeOK
    BY <1>1 DEF AssemblyInit, AssemblyTypeOK, NoContact, NoTranscript
  <1>3. directory \in Directories
    BY DEF AssemblyInit, Directories, File
  <1>4. RecordIsCatalogued /\ TranscriptIsIndexed
    BY DEF AssemblyInit, RecordIsCatalogued, TranscriptIsIndexed
  <1>5. WordsRunAheadForACause /\ SpreadFillsTheTurn
    BY DEF AssemblyInit, WordsRunAheadForACause, SpreadFillsTheTurn
  <1> QED
    BY <1>2, <1>3, <1>4, <1>5 DEF AssemblyInv, WordTimesAreTrue

LEMMA AssembledTurns == ASSUME AssemblyTypeOK, Assemble PROVE AssemblyTypeOK'
  <1>1. UNCHANGED <<directory, resolved, fetched, edits>>
    BY DEF Assemble, FetchRecording, LoadFixture
  <1>2. CASE FetchRecording
    <2>1. PICK one, two : recording' = <<one, two>>
      BY <1>2 DEF FetchRecording
    <2> DEFINE said(i) == recording'[i]
    <2>2. DOMAIN recording' = 1..2
      BY <2>1
    <2>3. turns' = Assembled(recording')
      BY <1>2 DEF FetchRecording
    <2>4. PICK f : turns' = [i \in 1..2 |-> f[i]]
      <3>1. turns' = [i \in 1..2 |-> turns'[i]]
        BY <2>2, <2>3 DEF Assembled
      <3> QED
        BY <3>1
    <2>5. Len(turns') = 2
      BY <2>4
    <2> QED
      BY <1>1, <2>5 DEF AssemblyTypeOK
  <1>3. CASE LoadFixture
    <2>1. \E one : turns' = <<one>>
      BY <1>3 DEF LoadFixture
    <2>2. Len(turns') = 1
      BY <2>1
    <2> QED
      BY <1>1, <2>2 DEF AssemblyTypeOK
  <1> QED
    BY <1>2, <1>3 DEF Assemble

LEMMA AssembleKeeps == ASSUME AssemblyInv, Assemble PROVE AssemblyInv'
  <1>1. UNCHANGED <<directory, resolved, fetched, edits>>
    BY DEF Assemble, FetchRecording, LoadFixture
  <1>2. AssemblyTypeOK'
    BY AssembledTurns DEF AssemblyInv
  <1>3. WordTimesAreTrue'
    BY RecordingsAreTrue, FixturesAreTrue DEF Assemble
  <1>4. directory' \in Directories /\ RecordIsCatalogued' /\ TranscriptIsIndexed'
    BY <1>1 DEF AssemblyInv, RecordIsCatalogued, TranscriptIsIndexed
  <1> QED
    BY <1>2, <1>3, <1>4 DEF AssemblyInv

LEMMA FindContactKeeps ==
  ASSUME AssemblyInv, NEW id \in Ids, NEW reader, FindContact(id, reader)
  PROVE  AssemblyInv'
  <1> DEFINE matching == {p \in Catalogue(directory) : ContactId(directory[p]) = id}
  <1>1. /\ matching # {}
        /\ resolved' = [id |-> id, file |-> Min(matching), reader |-> reader]
        /\ fetched' = NoTranscript /\ edits' = 0
        /\ UNCHANGED <<recording, turns, directory>>
    BY DEF FindContact
  <1>2. directory \in Directories
    BY DEF AssemblyInv
  <1>3. matching \in SUBSET (1..Paths)
    BY <1>2, IndexNamesFiles DEF Catalogue
  <1>4. Min(matching) \in matching
    BY <1>1, <1>3, ChosenIsThere
  <1>5. Paths \in Nat /\ MaxEdits \in Nat
    BY AssemblyAssumption
  <1>6. AssemblyTypeOK'
    BY <1>1, <1>3, <1>4, <1>5 DEF AssemblyInv, AssemblyTypeOK, NoTranscript
  <1>7. RecordIsCatalogued'
    BY <1>1, <1>4 DEF RecordIsCatalogued
  <1>8. TranscriptIsIndexed'
    BY <1>1 DEF TranscriptIsIndexed
  <1>9. WordTimesAreTrue'
    BY <1>1 DEF AssemblyInv, WordTimesAreTrue, WordsRunAheadForACause, SpreadFillsTheTurn
  <1> QED
    BY <1>1, <1>2, <1>6, <1>7, <1>8, <1>9 DEF AssemblyInv

LEMMA ReadTranscriptKeeps == ASSUME AssemblyInv, ReadTranscript PROVE AssemblyInv'
  <1>1. /\ resolved # NoContact
        /\ Tenants[resolved.file] = resolved.reader
        /\ resolved.id \in DOMAIN Index(directory)
        /\ fetched' = Index(directory)[resolved.id]
        /\ UNCHANGED <<recording, turns, directory, resolved, edits>>
    BY DEF ReadTranscript, FetchFixture
  <1>2. directory \in Directories
    BY DEF AssemblyInv
  <1>3. fetched' \in 1..Paths
    BY <1>1, <1>2, IndexNamesFiles
  <1>4. Paths \in Nat
    BY AssemblyAssumption
  <1>5. AssemblyTypeOK'
    BY <1>1, <1>3, <1>4 DEF AssemblyInv, AssemblyTypeOK
  <1>6. RecordIsCatalogued'
    BY <1>1 DEF AssemblyInv, RecordIsCatalogued
  <1>7. TranscriptIsIndexed'
    BY <1>1 DEF TranscriptIsIndexed
  <1>8. WordTimesAreTrue'
    BY <1>1 DEF AssemblyInv, WordTimesAreTrue, WordsRunAheadForACause, SpreadFillsTheTurn
  <1> QED
    BY <1>1, <1>2, <1>5, <1>6, <1>7, <1>8 DEF AssemblyInv

LEMMA EditFixtureKeeps == ASSUME AssemblyInv, EditFixture PROVE AssemblyInv'
  <1>1. PICK p \in 1..Paths, id \in Ids \cup {NoId}, contact \in Ids \cup {NoId} :
          directory' = [directory EXCEPT ![p] = [id |-> id, contact |-> contact]]
    BY DEF EditFixture
  <1>2. /\ fetched = NoTranscript /\ edits < MaxEdits /\ edits' = edits + 1
        /\ UNCHANGED <<recording, turns, resolved, fetched>>
    BY DEF EditFixture
  <1>3. MaxEdits \in Nat /\ edits \in Nat
    BY AssemblyAssumption DEF AssemblyInv, AssemblyTypeOK
  <1>4. AssemblyTypeOK'
    BY <1>2, <1>3 DEF AssemblyInv, AssemblyTypeOK
  <1>5. directory' \in Directories
    <2>1. [id |-> id, contact |-> contact] \in File
      BY DEF File
    <2> QED
      BY <1>1, <2>1 DEF AssemblyInv, Directories
  <1>6. RecordIsCatalogued'
    BY <1>2, <1>3 DEF RecordIsCatalogued
  <1>7. TranscriptIsIndexed'
    BY <1>2 DEF TranscriptIsIndexed
  <1>8. WordTimesAreTrue'
    BY <1>2 DEF AssemblyInv, WordTimesAreTrue, WordsRunAheadForACause, SpreadFillsTheTurn
  <1> QED
    BY <1>4, <1>5, <1>6, <1>7, <1>8 DEF AssemblyInv

LEMMA SameAssembly == ASSUME AssemblyInv, UNCHANGED assemblyVars PROVE AssemblyInv'
  <1>1. /\ recording' = recording /\ turns' = turns /\ directory' = directory
        /\ resolved' = resolved /\ fetched' = fetched /\ edits' = edits
    BY DEF assemblyVars
  <1>2. AssemblyTypeOK' /\ directory' \in Directories
    BY <1>1 DEF AssemblyInv, AssemblyTypeOK
  <1>3. RecordIsCatalogued' /\ TranscriptIsIndexed'
    BY <1>1 DEF AssemblyInv, RecordIsCatalogued, TranscriptIsIndexed
  <1>4. WordTimesAreTrue'
    BY <1>1 DEF AssemblyInv, WordTimesAreTrue, WordsRunAheadForACause, SpreadFillsTheTurn
  <1> QED
    BY <1>2, <1>3, <1>4 DEF AssemblyInv

(* What is true of a conversation's turns and of its contact stays true    *)
(* whichever stage runs.                                                   *)
THEOREM AssemblyInvariant == IngestionSpec => []AssemblyInv
  <1>1. IngestionInit => AssemblyInv
    BY AssemblyInitially DEF IngestionInit
  <1>2. AssemblyInv /\ [IngestionNext]_ingestionVars => AssemblyInv'
    <2> SUFFICES ASSUME AssemblyInv, [IngestionNext]_ingestionVars PROVE AssemblyInv'
      OBVIOUS
    <2>1. CASE LookingUp
      <3>1. LookUp
        BY <2>1 DEF LookingUp
      <3> QED
        BY <3>1, FindContactKeeps, ReadTranscriptKeeps, EditFixtureKeeps DEF LookUp
    <2>2. CASE Assembling
      BY <2>2, AssembleKeeps DEF Assembling
    <2>3. CASE Masking
      BY <2>3, SameAssembly DEF Masking
    <2>4. CASE UNCHANGED ingestionVars
      BY <2>4, SameAssembly DEF ingestionVars
    <2> QED
      BY <2>1, <2>2, <2>3, <2>4 DEF IngestionNext
  <1> QED
    BY <1>1, <1>2, PTL DEF IngestionSpec

(* Whatever is said in a turn, however its words repeat and however the    *)
(* recogniser lists and spells them: the offsets _words gives are in order,*)
(* those of a full listing are exact, and a word is placed after where it  *)
(* was said only behind one that was found in another spelling.  Whatever  *)
(* a fixture's bounds, the even spread fills the turn.                     *)
THEOREM WordTimes == IngestionSpec => []WordTimesAreTrue
  <1>1. AssemblyInv => WordTimesAreTrue
    BY DEF AssemblyInv
  <1> QED
    BY <1>1, AssemblyInvariant, PTL

(* For any number of fixture files, contacts and edits: who finds a contact*)
(* and reads its transcript is of the tenant of both, unless a file was    *)
(* edited in between or names two contacts.                                *)
THEOREM OwnTranscripts == IngestionSpec => []ContactsHaveTheirOwnTranscript
  <1>1. AssemblyInv => ContactsHaveTheirOwnTranscript
    <2> SUFFICES ASSUME AssemblyInv, fetched # NoTranscript, edits = 0,
                        \A p \in 1..Paths : directory[p].id # NoId =>
                                              ContactId(directory[p]) = directory[p].id
                 PROVE  fetched = resolved.file /\ Tenants[fetched] = resolved.reader
      BY DEF ContactsHaveTheirOwnTranscript
    <2>1. /\ resolved.file \in Catalogue(directory)
          /\ ContactId(directory[resolved.file]) = resolved.id
          /\ Tenants[resolved.file] = resolved.reader
          /\ fetched = Index(directory)[resolved.id]
      BY DEF AssemblyInv, RecordIsCatalogued, TranscriptIsIndexed
    <2>2. PICK id \in DOMAIN Index(directory) : resolved.file = Index(directory)[id]
      BY <2>1 DEF Catalogue
    <2>3. id # NoId /\ resolved.file \in 1..Paths /\ directory[resolved.file].id = id
      BY <2>2, IndexNamesFiles DEF AssemblyInv
    <2>4. id = resolved.id
      BY <2>1, <2>3
    <2> QED
      BY <2>1, <2>2, <2>4
  <1> QED
    BY <1>1, AssemblyInvariant, PTL

(* Whatever else happens to a conversation, its turns are masked as        *)
(* Redaction says: what is proved of the sweep alone holds of ingestion.   *)
THEOREM IngestionRedacts == IngestionSpec => Spec
  <1>1. IngestionInit => Init
    BY DEF IngestionInit
  <1>2. [IngestionNext]_ingestionVars => [Next]_vars
    <2> SUFFICES ASSUME [IngestionNext]_ingestionVars PROVE Next \/ UNCHANGED vars
      OBVIOUS
    <2> QED
      BY DEF IngestionNext, LookingUp, Assembling, Masking, ingestionVars
  <1> QED
    BY <1>1, <1>2, PTL DEF IngestionSpec, Spec

(* Whichever stage a conversation is in: no character of an identifier is  *)
(* left, a turn without one keeps its timings, and every match not kept    *)
(* lost to one that was.                                                   *)
THEOREM IngestionMasks ==
  IngestionSpec => [](EveryIdentifierIsMarked /\ TimingsSurviveInCleanTurns /\ KeptUnlessOverrun)
  <1> QED
    BY IngestionRedacts, FirstCharactersMasked, TimingsKept, SweepIsExact, PTL

(* The stage is one of the three.                                         *)
Staged == stage \in Stages

(* The state of every stage keeps its type.                                *)
THEOREM IngestionTyped == IngestionSpec => []IngestionTypeOK
  <1>1. IngestionInit => Staged
    BY DEF IngestionInit, Staged
  <1>2. Staged /\ [IngestionNext]_ingestionVars => Staged'
    BY DEF IngestionNext, LookingUp, Assembling, Masking, ingestionVars, Staged
  <1>3. IngestionSpec => []Staged
    BY <1>1, <1>2, PTL DEF IngestionSpec
  <1>4. IngestionSpec => []TypeOK
    BY IngestionRedacts, RedactionTyped, PTL
  <1>5. Staged /\ TypeOK /\ AssemblyInv => IngestionTypeOK
    BY DEF IngestionTypeOK, AssemblyInv, Staged
  <1> QED
    BY <1>3, <1>4, <1>5, AssemblyInvariant, PTL
==============================================================================
