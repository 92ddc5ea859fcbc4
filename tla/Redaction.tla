------------------------------- MODULE Redaction -------------------------------
(***************************************************************************)
(* Masking a transcript before anything else reads it (domain/ingestion.py). *)
(* Every row of the pattern list finds its matches in a turn; the matches   *)
(* are sorted by where they start and then by the order of their rows, and  *)
(* one sweep keeps those that start at or after the end of the last one     *)
(* kept.  What was kept is masked by the speech kernel, which drops the     *)
(* word timings of every turn it touches.                                   *)
(*                                                                          *)
(* A turn is its character positions; what a pattern matches is left open.  *)
(***************************************************************************)
EXTENDS Integers, Sequences, FiniteSets

CONSTANTS
  Turns,   \* turns of the transcript
  Length,  \* characters of a turn
  Rows     \* rows of the pattern list, in order of precedence

ASSUME RedactionAssumption == Turns \in Nat /\ Length \in Nat /\ Rows \in Nat

Turn == 1..Turns

(* A match is the half-open run [start, end); its order is its row.         *)
Match == {m \in [start : 0..Length, order : 1..Rows, end : 0..Length] : m.start < m.end}

Span == [turn : Turn, start : 0..Length, order : 1..Rows, end : 0..Length]

Disjoint(a, b) == a.end <= b.start \/ b.end <= a.start

(* finditer: the matches of one row never overlap.  A validator may refuse  *)
(* any of them, so any such set can be what is found.                       *)
Findable(matches) ==
  \A a, b \in matches : a.order = b.order /\ a # b => Disjoint(a, b)

VARIABLES
  turn,      \* the turn being redacted; Turns + 1 when all are
  found,     \* the matches of each turn looked at so far
  pending,   \* those of this turn the sweep has not reached
  last_end,  \* where the last kept match of this turn ends
  spans,     \* the spans kept, over all turns
  masked     \* per turn, the characters masked and whether it keeps timings

vars == <<turn, found, pending, last_end, spans, masked>>

None == <<>>

SpanOf(t, m) == [turn |-> t, start |-> m.start, order |-> m.order, end |-> m.end]

Covers(s, position) == s.start <= position /\ position < s.end

(* Slip: the longer of two matches comes first.                             *)
BeforeByLength(a, b) ==
  a.start < b.start \/ (a.start = b.start /\ a.end > b.end)

(* sorted(found): by start, then row, then end.                             *)
Before(a, b) ==
  \/ a.start < b.start
  \/ a.start = b.start /\ a.order < b.order
  \/ a.start = b.start /\ a.order = b.order /\ a.end < b.end

IsNext(m) == m \in pending /\ \A other \in pending \ {m} : Before(m, other)

Init ==
  /\ turn = 1
  /\ found = [t \in Turn |-> {}]
  /\ pending = {}
  /\ last_end = -1
  /\ spans = <<>>
  /\ masked = None

-----------------------------------------------------------------------------
(* Every row over one turn; one in which nothing is found is passed by       *)
(* NextTurn.                                                                *)
Detect ==
  /\ turn \in Turn
  /\ found[turn] = {}
  /\ \E matches \in SUBSET Match :
       /\ Findable(matches)
       /\ matches # {}
       /\ found' = [found EXCEPT ![turn] = matches]
       /\ pending' = matches
  /\ UNCHANGED <<turn, last_end, spans, masked>>

(* Slip: a match that starts right where the last one ended is dropped.     *)
LookOffByOne ==
  \E m \in pending :
    /\ IsNext(m)
    /\ pending' = pending \ {m}
    /\ IF m.start <= last_end
         THEN UNCHANGED <<spans, last_end>>
         ELSE /\ spans' = Append(spans, SpanOf(turn, m))
              /\ last_end' = m.end
    /\ UNCHANGED <<turn, found, masked>>

(* One round of the sweep: a match that starts inside the last one kept is  *)
(* dropped.                                                                 *)
Look ==
  \E m \in pending :
    /\ IsNext(m)
    /\ pending' = pending \ {m}
    /\ \/ /\ m.start < last_end
          /\ UNCHANGED <<spans, last_end>>
       \/ /\ m.start >= last_end
          /\ spans' = Append(spans, SpanOf(turn, m))
          /\ last_end' = m.end
    /\ UNCHANGED <<turn, found, masked>>

(* Slip: the sweep of a turn starts where that of the turn before ended.    *)
NextTurnCarriedOver ==
  /\ turn \in Turn
  /\ pending = {}
  /\ turn' = turn + 1
  /\ UNCHANGED <<found, pending, last_end, spans, masked>>

NextTurn ==
  /\ turn \in Turn
  /\ pending = {}
  /\ turn' = turn + 1
  /\ last_end' = -1
  /\ UNCHANGED <<found, pending, spans, masked>>

SpansOf(t) == {spans[i] : i \in {j \in DOMAIN spans : spans[j].turn = t}}

MaskedIn(t) == {p \in 0..Length : \E s \in SpansOf(t) : Covers(s, p)}

(* redact_transcript of the kernel.                                         *)
Mask ==
  /\ turn = Turns + 1
  /\ masked = None
  /\ masked' = [t \in Turn |-> [chars |-> MaskedIn(t), timed |-> SpansOf(t) = {}]]
  /\ UNCHANGED <<turn, found, pending, last_end, spans>>

Next ==
  \/ Detect
  \/ Look
  \/ NextTurn
  \/ Mask

Spec == Init /\ [][Next]_vars

-----------------------------------------------------------------------------
TypeOK ==
  /\ turn \in 1..(Turns + 1)
  /\ found \in [Turn -> SUBSET Match]
  /\ turn \in Turn => pending \subseteq found[turn]
  /\ turn \notin Turn => pending = {}
  /\ last_end \in -1..Length
  /\ spans \in Seq(Span)
  /\ masked # None => masked \in [Turn -> [chars : SUBSET (0..Length), timed : BOOLEAN]]

(* The kernel masks from left to right in one pass: spans come in turn then *)
(* character order and no two of them overlap.                              *)
SpansAreInOrder ==
  \A i, j \in DOMAIN spans :
    i < j => \/ spans[i].turn < spans[j].turn
             \/ spans[i].turn = spans[j].turn /\ spans[i].end <= spans[j].start

(* No identifier that was found comes through untouched, whatever overlaps  *)
(* it: at least its first character is masked.                              *)
EveryIdentifierIsMarked ==
  masked # None =>
    \A t \in Turn : \A m \in found[t] : m.start \in masked[t].chars

(* Nothing is masked in a turn that no row found in that turn.              *)
OnlyIdentifiersAreMasked ==
  masked # None =>
    \A t \in Turn : \A p \in masked[t].chars : \E m \in found[t] : Covers(m, p)

(* A turn keeps its word timings exactly if nothing was found in it, so a   *)
(* timed obligation evidenced in a masked turn cannot be verified and no    *)
(* other turn loses its evidence.                                           *)
TimingsSurviveInCleanTurns ==
  masked # None => \A t \in Turn : masked[t].timed = (found[t] = {})

Kept(t) == {m \in found[t] : SpanOf(t, m) \in SpansOf(t)}

(* What is kept of a turn is the sweep's own choice and nothing else: a     *)
(* match is dropped exactly if a kept one before it runs into it.  One row  *)
(* outranks another where both start at one character.                      *)
KeptUnlessOverrun ==
  turn = Turns + 1 =>
    \A t \in Turn : \A m \in found[t] :
      (m \notin Kept(t)) =
        \E k \in Kept(t) :
          /\ m.start < k.end
          /\ k.start < m.start \/ (k.start = m.start /\ k.order < m.order)
==============================================================================
