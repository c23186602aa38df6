----------------------------- MODULE Trajectory -----------------------------
(***************************************************************************)
(* One trajectory of the LLM v2 study: the pure transition logic of        *)
(* orchestration/state_machine.py over the records of                      *)
(* orchestration/state.py, together with the three operator interventions  *)
(* that edit the same records (retry_incomplete and                        *)
(* reopen_transport_attempt of campaign.py, `re-evaluate --adopt` of       *)
(* cli.py).                                                                *)
(*                                                                         *)
(* A trajectory runs Rounds rounds.  A round is one candidate generation   *)
(* (exactly one attempt), a compliance verdict, and, when the verdict      *)
(* allows it, one evaluation.  The value of every variable is what         *)
(* trajectory.json holds, so a step here is one atomic change of the       *)
(* durable state; TrajectoryRunner shows how the code gets there.          *)
(***************************************************************************)
EXTENDS Integers, Sequences, FiniteSets

CONSTANTS
  Rounds,        \* rounds of the protocol (study.yaml trajectory.rounds)
  Latencies,     \* the suite latencies an evaluation may report
  Failures       \* the ordinary failures an evaluation may report

OrdinaryFailures == {"interface_error", "compile_error", "runtime_error", "numerical_error", "timing_error"}

ASSUME RoundsAssumption == Rounds \in Nat \ {0}
ASSUME LatenciesAssumption == Latencies \subseteq Nat \ {0}
ASSUME FailuresAssumption == Failures \subseteq OrdinaryFailures

VARIABLES
  rounds,     \* RoundRecords, oldest first
  status,     \* TrajectoryState.status
  best,       \* TrajectoryState.best_valid
  adopted     \* history: rounds whose recorded result `re-evaluate --adopt` replaced

vars == <<rounds, status, best, adopted>>
-----------------------------------------------------------------------------
Evaluable == {"clear", "audit_only"}
Verdicts == Evaluable \cup {"confirmed_violation", "review_required", "format_error",
                            "transport_failed", "provider_refused"}
NoAttempt == "no_attempt"
RoundStatuses == OrdinaryFailures \cup {"pending", "valid", "format_error", "contract_violation",
                                        "review_required", "infrastructure_incomplete"}
Statuses == {"in_progress", "complete", "incomplete", "review_required"}

NoLatency == 0
NoBest == [round |-> 0, lat |-> NoLatency]

\* The fields of a RoundRecord the transitions read.  `verdict` stands for the
\* list of attempts: empty (NoAttempt) or the verdict of its only attempt.
RoundRecord == [round : 1..Rounds, status : RoundStatuses, verdict : Verdicts \cup {NoAttempt},
                lat : Latencies \cup {NoLatency}]
NewRound(n) == [round |-> n, status |-> "pending", verdict |-> NoAttempt, lat |-> NoLatency]

LastOf(rs) == rs[Len(rs)]
ReplaceLast(rs, rec) == [rs EXCEPT ![Len(rs)] = rec]
ClosedCount(rs) == Cardinality({i \in DOMAIN rs : rs[i].status # "pending"})

\* current_round: the last round while it is pending.
HasPending(rs) == rs # <<>> /\ LastOf(rs).status = "pending"
-----------------------------------------------------------------------------
(* next_action *)

\* Mutant of Runnable: an incomplete trajectory keeps running.
RunnableWhenIncomplete(st) == st # "review_required"

Runnable(st) == st \notin {"review_required", "incomplete"}

WantsGeneration(rs, st) ==
  /\ Runnable(st)
  /\ IF HasPending(rs) THEN LastOf(rs).verdict = NoAttempt ELSE ClosedCount(rs) < Rounds

WantsEvaluation(rs, st) ==
  /\ Runnable(st)
  /\ HasPending(rs)
  /\ LastOf(rs).verdict \in Evaluable

\* The round number the action carries.
NextRound(rs) == IF HasPending(rs) THEN LastOf(rs).round ELSE ClosedCount(rs) + 1

\* next_action finds a pending round whose verdict is none it knows.
NextActionRaises(rs, st) ==
  /\ Runnable(st)
  /\ HasPending(rs)
  /\ LastOf(rs).verdict \notin Evaluable \cup {NoAttempt, "review_required"}

\* open_round refuses round n.
OpenRoundRaises(rs, st, n) ==
  \/ st = "complete"
  \/ HasPending(rs) /\ LastOf(rs).round # n
  \/ ~HasPending(rs) /\ \E i \in DOMAIN rs : rs[i].round = n

Opened(rs, n) == IF HasPending(rs) THEN rs ELSE Append(rs, NewRound(n))

\* _close_if_finished
\* Mutant of Settled: closes the trajectory whatever its status.
SettledRegardless(st, rs) == IF ClosedCount(rs) >= Rounds /\ ~HasPending(rs) THEN "complete" ELSE st

Settled(st, rs) ==
  IF st \notin {"incomplete", "review_required"} /\ ClosedCount(rs) >= Rounds /\ ~HasPending(rs)
  THEN "complete" ELSE st
-----------------------------------------------------------------------------
(* apply_attempt *)

\* Mutant of AttemptRoundStatus: the verdict is taken as the round's status.
AttemptRoundStatusRaw(v) == IF v \in Evaluable THEN "pending" ELSE v

AttemptRoundStatus(v) ==
  CASE v \in Evaluable -> "pending"
    [] v = "confirmed_violation" -> "contract_violation"
    [] v \in {"transport_failed", "provider_refused"} -> "infrastructure_incomplete"
    [] OTHER -> v

AttemptStatus(st, v) ==
  CASE v \in {"transport_failed", "provider_refused"} -> "incomplete"
    [] v = "review_required" -> "review_required"
    [] OTHER -> st

WithAttempt(rs, v) ==
  LET opened == Opened(rs, NextRound(rs))
  IN  ReplaceLast(opened, [LastOf(opened) EXCEPT !.verdict = v, !.status = AttemptRoundStatus(v)])

ApplyAttempt(v) ==
  /\ WantsGeneration(rounds, status)
  /\ ~OpenRoundRaises(rounds, status, NextRound(rounds))
  /\ rounds' = WithAttempt(rounds, v)
  /\ status' = Settled(AttemptStatus(status, v), rounds')
  /\ UNCHANGED <<best, adopted>>
-----------------------------------------------------------------------------
(* apply_evaluation *)

\* What a worker result can say.  "bad_suite" is a result whose status is valid
\* and whose cases or samples suite_check rejects.
Outcomes == Failures \cup {"valid", "bad_suite", "contract_violation", "infrastructure_incomplete"}

\* Mutant of EvaluatedRound: an execution-confirmed violation keeps its verdict.
EvaluatedRoundKeepsVerdict(rec, o, lat) ==
  CASE o = "valid" -> [rec EXCEPT !.status = o, !.lat = lat]
    [] o = "bad_suite" -> [rec EXCEPT !.status = "timing_error"]
    [] OTHER -> [rec EXCEPT !.status = o]

EvaluatedRound(rec, o, lat) ==
  CASE o = "contract_violation" -> [rec EXCEPT !.verdict = "confirmed_violation", !.status = o]
    [] o = "valid" -> [rec EXCEPT !.status = o, !.lat = lat]
    [] o = "bad_suite" -> [rec EXCEPT !.status = "timing_error"]
    [] OTHER -> [rec EXCEPT !.status = o]

EvaluatedStatus(st, o) == IF o = "infrastructure_incomplete" THEN "incomplete" ELSE st

\* Mutants of Better: a tie replaces the earlier round; the latest valid round wins.
BetterOrEqual(b, o, rec) ==
  IF o = "valid" /\ (b = NoBest \/ rec.lat <= b.lat) THEN [round |-> rec.round, lat |-> rec.lat] ELSE b
LatestValid(b, o, rec) == IF o = "valid" THEN [round |-> rec.round, lat |-> rec.lat] ELSE b

Better(b, o, rec) ==
  IF o = "valid" /\ (b = NoBest \/ rec.lat < b.lat) THEN [round |-> rec.round, lat |-> rec.lat] ELSE b

WithEvaluation(rs, o, lat) == ReplaceLast(rs, EvaluatedRound(LastOf(rs), o, lat))

\* The state apply_evaluation leaves, whoever calls it.
Evaluated(o, lat) ==
  /\ rounds' = WithEvaluation(rounds, o, lat)
  /\ status' = Settled(EvaluatedStatus(status, o), rounds')
  /\ best' = Better(best, o, LastOf(rounds'))

ApplyEvaluation(o, lat) ==
  /\ WantsEvaluation(rounds, status)
  /\ ~OpenRoundRaises(rounds, status, NextRound(rounds))
  /\ Evaluated(o, lat)
  /\ UNCHANGED adopted
-----------------------------------------------------------------------------
(* resolve_review, called on the last round by `review-resolve` *)

CanReview(rs) == rs # <<>> /\ LastOf(rs).status = "review_required"

WithReview(rs, decision) ==
  ReplaceLast(rs, IF decision = "compliant"
                  THEN [LastOf(rs) EXCEPT !.verdict = "clear", !.status = "pending"]
                  ELSE [LastOf(rs) EXCEPT !.verdict = "confirmed_violation", !.status = "contract_violation"])

ResolveReview(decision) ==
  /\ CanReview(rounds)
  /\ rounds' = WithReview(rounds, decision)
  /\ status' = Settled("in_progress", rounds')
  /\ UNCHANGED <<best, adopted>>
-----------------------------------------------------------------------------
(* Operator interventions on an incomplete trajectory *)

\* Both re-open only a last round closed as infrastructure_incomplete.
LastIncomplete(rs, st) == st = "incomplete" /\ rs # <<>> /\ LastOf(rs).status = "infrastructure_incomplete"

CanRetry(rs, st) == LastIncomplete(rs, st) /\ LastOf(rs).verdict = "clear"

\* Mutant of WithRetry: forgets the attempt, so the round is generated again.
WithRetryRegenerates(rs) == ReplaceLast(rs, [LastOf(rs) EXCEPT !.status = "pending", !.verdict = NoAttempt])

\* retry_incomplete: the archived candidate will be evaluated again.
WithRetry(rs) == ReplaceLast(rs, [LastOf(rs) EXCEPT !.status = "pending"])

RetryIncomplete ==
  /\ CanRetry(rounds, status)
  /\ rounds' = WithRetry(rounds)
  /\ status' = "in_progress"
  /\ UNCHANGED <<best, adopted>>

CanReopen(rs, st) == LastIncomplete(rs, st) /\ LastOf(rs).verdict \in {"transport_failed", "provider_refused"}

\* Mutant of WithReopen: the failed attempt stays in the round.
WithReopenKeepsAttempt(rs) == ReplaceLast(rs, [LastOf(rs) EXCEPT !.status = "pending"])

\* reopen_transport_attempt: the attempt leaves the round, which stays open.
WithReopen(rs) == ReplaceLast(rs, [LastOf(rs) EXCEPT !.status = "pending", !.verdict = NoAttempt])

ReopenTransport ==
  /\ CanReopen(rounds, status)
  /\ rounds' = WithReopen(rounds)
  /\ status' = "in_progress"
  /\ UNCHANGED <<best, adopted>>

\* `re-evaluate --adopt`: the round is set pending and the new result applied.
\* open_round lets that succeed only for the last round of a trajectory that
\* is not complete, apply_evaluation only for an evaluable attempt.
Adopt(o, lat) ==
  /\ rounds # <<>>
  /\ status # "complete"
  /\ LastOf(rounds).verdict \in Evaluable
  /\ Evaluated(o, lat)
  /\ adopted' = IF LastOf(rounds).status = "pending" THEN adopted ELSE adopted \cup {LastOf(rounds).round}
-----------------------------------------------------------------------------
Init ==
  /\ rounds = <<>>
  /\ status = "in_progress"
  /\ best = NoBest
  /\ adopted = {}

Next ==
  \/ \E v \in Verdicts : ApplyAttempt(v)
  \/ \E o \in Outcomes, lat \in Latencies : ApplyEvaluation(o, lat)
  \/ \E d \in {"compliant", "violation"} : ResolveReview(d)
  \/ RetryIncomplete
  \/ ReopenTransport
  \/ \E o \in Outcomes, lat \in Latencies : Adopt(o, lat)

Spec == Init /\ [][Next]_vars
-----------------------------------------------------------------------------
(* Properties *)

TypeOK ==
  /\ rounds \in Seq(RoundRecord)
  /\ status \in Statuses
  /\ best \in [round : 0..Rounds, lat : Latencies \cup {NoLatency}]
  /\ adopted \subseteq 1..Rounds

Unresolved == {"pending", "review_required", "infrastructure_incomplete"}

\* Rounds carry the numbers 1, 2, ... in order although next_action derives the
\* number from a count of closed rounds, there are never more than Rounds of
\* them, and no round is opened while an earlier one is pending, waits for a
\* review or is incomplete.
RoundsInOrder ==
  /\ Len(rounds) <= Rounds
  /\ \A i \in DOMAIN rounds :
       /\ rounds[i].round = i
       /\ i < Len(rounds) => rounds[i].status \notin Unresolved

\* The trajectory's status, which next_action trusts, agrees with the last
\* round: a review holds the trajectory exactly while its last round waits for
\* it, an incomplete round always shows, and `complete` means that every round
\* of the protocol has a result.
StatusMatchesRounds ==
  LET lastIs(s) == rounds # <<>> /\ LastOf(rounds).status = s
  IN  /\ status = "review_required" <=> lastIs("review_required")
      /\ lastIs("infrastructure_incomplete") => status = "incomplete"
      /\ status = "incomplete" =>
           lastIs("infrastructure_incomplete") \/ (rounds # <<>> /\ LastOf(rounds).round \in adopted)
      /\ status = "complete" => Len(rounds) = Rounds /\ LastOf(rounds).status \notin Unresolved
      /\ Len(rounds) = Rounds /\ LastOf(rounds).status \notin Unresolved => status \in {"complete", "incomplete"}

\* A round's result and its attempt tell the same story: only an evaluable
\* candidate has an evaluation result, and a round is a contract violation
\* exactly when its attempt is a confirmed one, whether the checker, the
\* reviewer or the evaluator confirmed it.
Matching(rec) ==
  /\ rec.status \in OrdinaryFailures \cup {"valid"} => rec.verdict \in Evaluable
  /\ rec.status = "contract_violation" <=> rec.verdict = "confirmed_violation"
  /\ rec.status = "review_required" <=> rec.verdict = "review_required"
  /\ rec.status = "format_error" <=> rec.verdict = "format_error"
  /\ rec.status = "pending" => rec.verdict \in Evaluable \cup {NoAttempt}
  /\ rec.verdict = NoAttempt => rec.status = "pending"
  /\ rec.verdict \in {"transport_failed", "provider_refused"} => rec.status = "infrastructure_incomplete"
AttemptMatchesRound == \A i \in DOMAIN rounds : Matching(rounds[i])

\* No sequence of rounds, reviews, retries and adoptions reaches a state in
\* which the runner's next step hits one of the RuntimeErrors of next_action
\* and open_round.
NeverRaises ==
  /\ ~NextActionRaises(rounds, status)
  /\ WantsGeneration(rounds, status) \/ WantsEvaluation(rounds, status)
       => ~OpenRoundRaises(rounds, status, NextRound(rounds))

\* best_valid is at least as fast as every valid round, ties go to the earliest
\* of them, and it is the recorded result of its round unless an adopted
\* re-evaluation replaced that result since.
BestIsFastest ==
  /\ \A i \in DOMAIN rounds : rounds[i].status = "valid" =>
       /\ best # NoBest
       /\ best.lat < rounds[i].lat \/ (best.lat = rounds[i].lat /\ best.round <= i)
  /\ best # NoBest =>
       /\ best.round \in DOMAIN rounds
       /\ best.round \notin adopted =>
            rounds[best.round].status = "valid" /\ rounds[best.round].lat = best.lat

\* "best_valid is never regressed": it only ever changes to a strictly faster
\* result (state_machine.py, round rules).
BestNeverRegresses == [][best # NoBest => best' # NoBest /\ best'.lat < best.lat]_best

\* One generation per round, and closed rounds stay: no step drops a round or
\* touches one that is not the last, a candidate that exists is never generated
\* again, and an attempt leaves its round only after a transport failure or a
\* provider refusal.
VerdictMayBecome(v) ==
  CASE v = NoAttempt -> Verdicts
    [] v = "review_required" -> {"clear", "confirmed_violation"}
    [] v \in Evaluable -> {"confirmed_violation"}
    [] v \in {"transport_failed", "provider_refused"} -> {NoAttempt}
    [] OTHER -> {}
HistoryIsFinal ==
  [][/\ Len(rounds') \in {Len(rounds), Len(rounds) + 1}
     /\ \A i \in DOMAIN rounds :
          /\ i < Len(rounds) \/ Len(rounds') > Len(rounds) => rounds'[i] = rounds[i]
          /\ rounds'[i].round = rounds[i].round
          /\ rounds'[i].verdict \in {rounds[i].verdict} \cup VerdictMayBecome(rounds[i].verdict)]_rounds
-----------------------------------------------------------------------------
(* What comments and documents say and the code does not keep *)

\* What the runbook says of --retry-incomplete: it re-evaluates a round closed
\* by an evaluation-side infrastructure failure.  The code accepts only a
\* candidate whose verdict is `clear`, not an `audit_only` one.
EvaluationFailureIsRetryable ==
  LastIncomplete(rounds, status) /\ LastOf(rounds).verdict \in Evaluable => CanRetry(rounds, status)
=============================================================================
