--------------------------- MODULE AdaptiveLimiter ---------------------------
(***************************************************************************)
(* AdaptiveLimiter of orchestration/scheduler.py: how many requests of one *)
(* provider may be in flight.  Its state is a record, so a scheduler keeps *)
(* one per provider.  Time and the provider's headers are abstracted:      *)
(* whether the ramp interval has passed, the headers leave room and the    *)
(* host is idle (`roomy`), and whether the overload window is full enough  *)
(* (`sustained`), are inputs.                                              *)
(***************************************************************************)
EXTENDS Integers

CONSTANTS Initial, MaxLimit, MinLimit

ASSUME LimitsAssumption ==
  /\ Initial \in Nat /\ MaxLimit \in Nat /\ MinLimit \in Nat
  /\ 1 <= MinLimit /\ MinLimit <= Initial /\ Initial <= MaxLimit

NewLimiter == [limit |-> Initial, inFlight |-> 0, paused |-> FALSE, ok |-> 0, overloaded |-> 0]

Outcomes == {"ok", "rate_limited", "overloaded", "error"}

\* acquire gets a slot.
Admits(l) == l.inFlight < l.limit /\ ~l.paused
WithAcquired(l) == [l EXCEPT !.inFlight = @ + 1]

\* _set: every change of the limit restarts the counts.
WithLimit(l, new) == [l EXCEPT !.limit = new, !.ok = 0, !.overloaded = 0]

Halved(l) == WithLimit(l, IF l.limit \div 2 < MinLimit THEN MinLimit ELSE l.limit \div 2)
Doubled(l) == WithLimit(l, IF l.limit * 2 > MaxLimit THEN MaxLimit ELSE l.limit * 2)

\* The counts since the last change, as far as _maybe_ramp tells them apart: larger
\* ones, and any at the maximal limit, act alike.
Counted(l, outcome) ==
  CASE outcome = "ok" /\ l.limit < MaxLimit /\ l.ok < l.limit -> [l EXCEPT !.ok = @ + 1]
    [] outcome = "overloaded" /\ l.limit < MaxLimit /\ l.overloaded < 2 -> [l EXCEPT !.overloaded = @ + 1]
    [] OTHER -> l

\* _maybe_ramp
MayRamp(l) == l.limit < MaxLimit /\ l.ok >= l.limit /\ l.overloaded <= 1

\* release, the slot given back included.  Mutant of GivenBack: only an answer
\* gives it back.
GivenBackOnAnswer(l, outcome) == IF outcome = "error" THEN l ELSE [l EXCEPT !.inFlight = @ - 1]
GivenBack(l, outcome) == [l EXCEPT !.inFlight = @ - 1]

WithReleased(l, outcome, roomy, sustained) ==
  LET counted == Counted(GivenBack(l, outcome), outcome)
  IN  CASE outcome = "rate_limited" -> [Halved(counted) EXCEPT !.paused = TRUE]
        [] outcome = "overloaded" /\ sustained -> Halved(counted)
        [] outcome = "ok" /\ roomy /\ MayRamp(counted) -> Doubled(counted)
        [] OTHER -> counted

\* The pause after an HTTP 429 is over.
WithPauseOver(l) == [l EXCEPT !.paused = FALSE]
=============================================================================
