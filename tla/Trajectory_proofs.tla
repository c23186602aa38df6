------------------------- MODULE Trajectory_proofs -------------------------
(***************************************************************************)
(* Proofs about Trajectory: for any number of rounds, any latencies and    *)
(* failures, the invariants that MCTrajectory checks on three rounds.      *)
(***************************************************************************)
EXTENDS Trajectory, FiniteSetTheorems, SequenceTheorems, TLAPS

\* The inductive invariant: the numbering of the rounds rests on the number of
\* closed ones, which rests on the trajectory's status agreeing with its last
\* round, which rests on the attempt agreeing with the round.
IInv == TypeOK /\ RoundsInOrder /\ StatusMatchesRounds /\ AttemptMatchesRound
-----------------------------------------------------------------------------
(* Sequences of round records *)

LEMMA LastOfType ==
  ASSUME NEW rs \in Seq(RoundRecord), rs # <<>>
  PROVE  /\ LastOf(rs) \in RoundRecord
         /\ Len(rs) \in DOMAIN rs
         /\ Len(rs) \in Nat \ {0}
BY DEF LastOf

LEMMA Replaced ==
  ASSUME NEW rs \in Seq(RoundRecord), rs # <<>>, NEW rec \in RoundRecord
  PROVE  /\ ReplaceLast(rs, rec) \in Seq(RoundRecord)
         /\ Len(ReplaceLast(rs, rec)) = Len(rs)
         /\ ReplaceLast(rs, rec) # <<>>
         /\ LastOf(ReplaceLast(rs, rec)) = rec
         /\ \A i \in 1..(Len(rs) - 1) : ReplaceLast(rs, rec)[i] = rs[i]
BY DEF ReplaceLast, LastOf

LEMMA Appended ==
  ASSUME NEW rs \in Seq(RoundRecord), NEW rec \in RoundRecord
  PROVE  /\ Append(rs, rec) \in Seq(RoundRecord)
         /\ Len(Append(rs, rec)) = Len(rs) + 1
         /\ Append(rs, rec) # <<>>
         /\ LastOf(Append(rs, rec)) = rec
         /\ \A i \in 1..Len(rs) : Append(rs, rec)[i] = rs[i]
BY DEF LastOf

LEMMA ReplacedInAppended ==
  ASSUME NEW rs \in Seq(RoundRecord), NEW a \in RoundRecord, NEW b \in RoundRecord
  PROVE  ReplaceLast(Append(rs, a), b) = Append(rs, b)
<1> DEFINE new == ReplaceLast(Append(rs, a), b)
<1>1. Append(rs, a) \in Seq(RoundRecord) /\ Append(rs, a) # <<>> /\ Len(Append(rs, a)) = Len(rs) + 1
      /\ \A i \in 1..Len(rs) : Append(rs, a)[i] = rs[i]
  BY Appended
<1>2. new \in Seq(RoundRecord) /\ Len(new) = Len(rs) + 1 /\ LastOf(new) = b
      /\ \A i \in 1..Len(rs) : new[i] = rs[i]
  <2>1. new \in Seq(RoundRecord) /\ Len(new) = Len(Append(rs, a)) /\ LastOf(new) = b
        /\ \A i \in 1..(Len(Append(rs, a)) - 1) : new[i] = Append(rs, a)[i]
    BY <1>1, Replaced
  <2> QED BY <1>1, <2>1
<1>3. Append(rs, b) \in Seq(RoundRecord) /\ Len(Append(rs, b)) = Len(rs) + 1 /\ LastOf(Append(rs, b)) = b
      /\ \A i \in 1..Len(rs) : Append(rs, b)[i] = rs[i]
  BY Appended
<1> HIDE DEF new
<1>4. \A i \in 1..Len(new) : new[i] = Append(rs, b)[i]
  BY <1>2, <1>3 DEF LastOf
<1>5. new = Append(rs, b) BY <1>2, <1>3, <1>4, SeqEqual
<1> QED BY <1>5 DEF new

LEMMA CardinalityUpTo ==
  ASSUME NEW n \in Nat
  PROVE  Cardinality(1..n) = n
<1>1. Cardinality(1..n) = IF 1 > n THEN 0 ELSE n - 1 + 1 BY FS_Interval
<1> QED BY <1>1

\* While only the last round may be pending, next_action's count of closed rounds is
\* the number of rounds before a pending one.
LEMMA ClosedCountIs ==
  ASSUME NEW rs \in Seq(RoundRecord), \A i \in DOMAIN rs : i < Len(rs) => rs[i].status # "pending"
  PROVE  ClosedCount(rs) = IF HasPending(rs) THEN Len(rs) - 1 ELSE Len(rs)
<1>1. CASE HasPending(rs)
  <2>1. {i \in DOMAIN rs : rs[i].status # "pending"} = 1..(Len(rs) - 1)
    BY <1>1, LastOfType DEF HasPending, LastOf
  <2>2. Len(rs) - 1 \in Nat BY <1>1, LastOfType DEF HasPending
  <2>3. Cardinality(1..(Len(rs) - 1)) = Len(rs) - 1 BY <2>2, CardinalityUpTo
  <2> QED BY <1>1, <2>1, <2>3 DEF ClosedCount
<1>2. CASE ~HasPending(rs)
  <2>1. {i \in DOMAIN rs : rs[i].status # "pending"} = 1..Len(rs)
    BY <1>2 DEF HasPending, LastOf
  <2>2. Cardinality(1..Len(rs)) = Len(rs) BY CardinalityUpTo
  <2> QED BY <1>2, <2>1, <2>2 DEF ClosedCount
<1> QED BY <1>1, <1>2

-----------------------------------------------------------------------------
(* The operators of the actions *)

LEMMA RoundStatusOf ==
  ASSUME NEW v \in Verdicts
  PROVE  /\ AttemptRoundStatus(v) \in RoundStatuses
         /\ v \in Evaluable => AttemptRoundStatus(v) = "pending"
         /\ v = "confirmed_violation" => AttemptRoundStatus(v) = "contract_violation"
         /\ v \in {"transport_failed", "provider_refused"} => AttemptRoundStatus(v) = "infrastructure_incomplete"
         /\ v \in {"review_required", "format_error"} => AttemptRoundStatus(v) = v
BY DEF AttemptRoundStatus, Verdicts, Evaluable, RoundStatuses, OrdinaryFailures

LEMMA EvaluatedRoundIs ==
  ASSUME NEW rec \in RoundRecord, rec.verdict \in Evaluable, NEW o \in Outcomes, NEW lat \in Latencies
  PROVE  /\ EvaluatedRound(rec, o, lat) \in RoundRecord
         /\ EvaluatedRound(rec, o, lat).round = rec.round
         /\ EvaluatedRound(rec, o, lat).status \notin {"pending", "review_required"}
         /\ EvaluatedRound(rec, o, lat).status = "infrastructure_incomplete" <=> o = "infrastructure_incomplete"
         /\ Matching(EvaluatedRound(rec, o, lat))
<1> USE FailuresAssumption DEF Outcomes, RoundRecord, RoundStatuses, OrdinaryFailures, Verdicts, Evaluable, NoAttempt, Matching
<1>1. CASE o = "contract_violation"
  <2>1. EvaluatedRound(rec, o, lat) = [rec EXCEPT !.verdict = "confirmed_violation", !.status = o]
    BY <1>1 DEF EvaluatedRound
  <2> QED BY <1>1, <2>1
<1>2. CASE o = "valid"
  <2>1. EvaluatedRound(rec, o, lat) = [rec EXCEPT !.status = o, !.lat = lat] BY <1>2 DEF EvaluatedRound
  <2> QED BY <1>2, <2>1
<1>3. CASE o = "bad_suite"
  <2>1. EvaluatedRound(rec, o, lat) = [rec EXCEPT !.status = "timing_error"] BY <1>3 DEF EvaluatedRound
  <2> QED BY <1>3, <2>1
<1>4. CASE o \in Failures \cup {"infrastructure_incomplete"}
  <2>1. EvaluatedRound(rec, o, lat) = [rec EXCEPT !.status = o] BY <1>4 DEF EvaluatedRound
  <2> QED BY <1>4, <2>1
<1> QED BY <1>1, <1>2, <1>3, <1>4

LEMMA BetterType ==
  ASSUME NEW o \in Outcomes, NEW rec \in RoundRecord, best \in [round : 0..Rounds, lat : Latencies \cup {NoLatency}]
  PROVE  Better(best, o, rec) \in [round : 0..Rounds, lat : Latencies \cup {NoLatency}]
BY RoundsAssumption DEF Better, RoundRecord
-----------------------------------------------------------------------------
(* One step of the invariant: the last round changes or a new one opens *)

\* What a step may do to the rounds: replace the last record, keeping its number,
\* or append the next one when the last is settled.
Extends(rs, rec) ==
  \/ rounds # <<>> /\ rs = ReplaceLast(rounds, rec) /\ rec.round = LastOf(rounds).round
  \/ /\ rs = Append(rounds, rec)
     /\ rec.round = Len(rounds) + 1 /\ Len(rounds) < Rounds
     /\ rounds # <<>> => LastOf(rounds).status \notin Unresolved

\* What the status of a trajectory whose last record is rec must be.
StatusFits(st, rec, ad) ==
  /\ st = "review_required" <=> rec.status = "review_required"
  /\ rec.status = "infrastructure_incomplete" => st = "incomplete"
  /\ st = "incomplete" => rec.status = "infrastructure_incomplete" \/ rec.round \in ad
  /\ st = "complete" => rec.round = Rounds /\ rec.status \notin Unresolved
  /\ rec.round = Rounds /\ rec.status \notin Unresolved => st \in {"complete", "incomplete"}

LEMMA ExtendsShape ==
  ASSUME IInv, NEW rec \in RoundRecord, NEW rs, Extends(rs, rec)
  PROVE  /\ rs \in Seq(RoundRecord) /\ rs # <<>> /\ LastOf(rs) = rec
         /\ Len(rs) = rec.round /\ Len(rs) <= Rounds
         /\ Len(rs) \in Nat \ {0}
         /\ \A i \in 1..(Len(rs) - 1) : i \in DOMAIN rounds /\ rs[i] = rounds[i] /\ rs[i].status \notin Unresolved
<1> USE RoundsAssumption DEF IInv, TypeOK, RoundsInOrder
<1>1. CASE rounds # <<>> /\ rs = ReplaceLast(rounds, rec) /\ rec.round = LastOf(rounds).round
  <2>1. rs \in Seq(RoundRecord) /\ Len(rs) = Len(rounds) /\ rs # <<>> /\ LastOf(rs) = rec
        /\ \A i \in 1..(Len(rounds) - 1) : rs[i] = rounds[i]
    BY <1>1, Replaced
  <2>2. Len(rounds) \in Nat \ {0} /\ LastOf(rounds).round = Len(rounds) BY <1>1, LastOfType DEF LastOf
  <2> QED BY <1>1, <2>1, <2>2
<1>2. CASE /\ rs = Append(rounds, rec)
           /\ rec.round = Len(rounds) + 1 /\ Len(rounds) < Rounds
           /\ rounds # <<>> => LastOf(rounds).status \notin Unresolved
  <2>1. rs \in Seq(RoundRecord) /\ Len(rs) = Len(rounds) + 1 /\ rs # <<>> /\ LastOf(rs) = rec
        /\ \A i \in 1..Len(rounds) : rs[i] = rounds[i]
    BY <1>2, Appended
  <2>2. \A i \in 1..Len(rounds) : rounds[i].status \notin Unresolved BY <1>2 DEF LastOf
  <2> QED BY <1>2, <2>1, <2>2
<1> QED BY <1>1, <1>2 DEF Extends

LEMMA StepKeepsIInv ==
  ASSUME IInv, NEW rec \in RoundRecord, Extends(rounds', rec), Matching(rec),
         status' \in Statuses, StatusFits(status', rec, adopted'),
         best' \in [round : 0..Rounds, lat : Latencies \cup {NoLatency}], adopted' \subseteq 1..Rounds
  PROVE  IInv'
<1>1. /\ rounds' \in Seq(RoundRecord) /\ rounds' # <<>> /\ LastOf(rounds') = rec
      /\ Len(rounds') = rec.round /\ Len(rounds') <= Rounds
      /\ Len(rounds') \in Nat \ {0}
      /\ \A i \in 1..(Len(rounds') - 1) : i \in DOMAIN rounds /\ rounds'[i] = rounds[i] /\ rounds'[i].status \notin Unresolved
  BY ExtendsShape
<1>2. rounds'[Len(rounds')] = rec BY <1>1 DEF LastOf
<1>3. DOMAIN rounds' = 1..Len(rounds') BY <1>1
<1>4. TypeOK' BY <1>1 DEF TypeOK
<1>5. RoundsInOrder' BY <1>1, <1>2, <1>3 DEF RoundsInOrder, IInv
<1>6. StatusMatchesRounds'
  BY <1>1, RoundsAssumption DEF StatusMatchesRounds, StatusFits, LastOf
<1>7. AttemptMatchesRound' BY <1>1, <1>2, <1>3 DEF AttemptMatchesRound, IInv
<1> QED BY <1>4, <1>5, <1>6, <1>7 DEF IInv

LEMMA SettledIs ==
  ASSUME IInv, NEW rec \in RoundRecord, NEW rs, Extends(rs, rec), NEW st
  PROVE  Settled(st, rs) =
           IF st \notin {"incomplete", "review_required"} /\ rec.status # "pending" /\ rec.round = Rounds
           THEN "complete" ELSE st
<1>1. /\ rs \in Seq(RoundRecord) /\ rs # <<>> /\ LastOf(rs) = rec
      /\ Len(rs) = rec.round /\ Len(rs) <= Rounds /\ Len(rs) \in Nat \ {0}
      /\ \A i \in 1..(Len(rs) - 1) : rs[i].status \notin Unresolved
  BY ExtendsShape
<1>2. ClosedCount(rs) = IF HasPending(rs) THEN Len(rs) - 1 ELSE Len(rs)
  BY <1>1, ClosedCountIs DEF Unresolved
<1>3. HasPending(rs) <=> rec.status = "pending" BY <1>1 DEF HasPending
<1> QED BY <1>1, <1>2, <1>3, RoundsAssumption DEF Settled

\* Closing a trajectory after a step fits its new last record when the status
\* the step gives agrees with that record.
LEMMA SettledFits ==
  ASSUME IInv, NEW rec \in RoundRecord, NEW rs, Extends(rs, rec), NEW ad,
         NEW st \in Statuses \ {"complete"},
         st = "review_required" <=> rec.status = "review_required",
         rec.status = "infrastructure_incomplete" => st = "incomplete",
         st = "incomplete" => rec.status = "infrastructure_incomplete" \/ rec.round \in ad
  PROVE  Settled(st, rs) \in Statuses /\ StatusFits(Settled(st, rs), rec, ad)
<1>1. Settled(st, rs) =
        IF st \notin {"incomplete", "review_required"} /\ rec.status # "pending" /\ rec.round = Rounds
        THEN "complete" ELSE st
  BY SettledIs
<1> QED BY <1>1 DEF StatusFits, Statuses, Unresolved

\* What the invariant says of the last round.
LEMMA LastUnderIInv ==
  ASSUME IInv, rounds # <<>>
  PROVE  /\ LastOf(rounds) \in RoundRecord /\ LastOf(rounds).round = Len(rounds)
         /\ Matching(LastOf(rounds))
         /\ LastOf(rounds).status = "pending" => status \notin {"complete", "review_required"}
<1>1. LastOf(rounds) \in RoundRecord /\ Len(rounds) \in DOMAIN rounds BY LastOfType DEF IInv, TypeOK
<1>2. LastOf(rounds).round = Len(rounds) /\ Matching(LastOf(rounds))
  BY <1>1 DEF IInv, RoundsInOrder, AttemptMatchesRound, LastOf
<1> QED BY <1>1, <1>2 DEF IInv, StatusMatchesRounds, Unresolved

\* While a trajectory may run and no round is pending, the next number is that of
\* the round after the last, and the last is settled.
LEMMA NextRoundIs ==
  ASSUME IInv
  PROVE  /\ HasPending(rounds) => NextRound(rounds) = Len(rounds)
         /\ ~HasPending(rounds) => NextRound(rounds) = Len(rounds) + 1 /\ ClosedCount(rounds) = Len(rounds)
         /\ Runnable(status) /\ ~HasPending(rounds) /\ rounds # <<>> => LastOf(rounds).status \notin Unresolved
<1>1. rounds \in Seq(RoundRecord) /\ \A i \in DOMAIN rounds : i < Len(rounds) => rounds[i].status # "pending"
  BY DEF IInv, TypeOK, RoundsInOrder, Unresolved
<1>2. ClosedCount(rounds) = IF HasPending(rounds) THEN Len(rounds) - 1 ELSE Len(rounds)
  BY <1>1, ClosedCountIs
<1>3. HasPending(rounds) => LastOf(rounds).round = Len(rounds) BY LastUnderIInv DEF HasPending
<1>4. Runnable(status) /\ ~HasPending(rounds) /\ rounds # <<>> => LastOf(rounds).status \notin Unresolved
  BY DEF Runnable, HasPending, IInv, StatusMatchesRounds, Unresolved
<1> QED BY <1>2, <1>3, <1>4 DEF NextRound
-----------------------------------------------------------------------------
(* Every action preserves the invariant *)

LEMMA ApplyAttemptKeeps ==
  ASSUME IInv, NEW v \in Verdicts, ApplyAttempt(v)
  PROVE  IInv'
<1> DEFINE n == NextRound(rounds)
           opened == Opened(rounds, n)
           rec == [LastOf(opened) EXCEPT !.verdict = v, !.status = AttemptRoundStatus(v)]
           st == AttemptStatus(status, v)
<1>1. rounds' = ReplaceLast(opened, rec) /\ status' = Settled(st, rounds') /\ UNCHANGED <<best, adopted>>
      /\ WantsGeneration(rounds, status)
  BY DEF ApplyAttempt, WithAttempt
<1>2. rec \in RoundRecord /\ rec.verdict = v /\ rec.status = AttemptRoundStatus(v) /\ Extends(rounds', rec)
      /\ status # "complete"
  <2>1. AttemptRoundStatus(v) \in RoundStatuses BY RoundStatusOf
  <2>2. CASE HasPending(rounds)
    <3>1. rounds # <<>> /\ opened = rounds BY <2>2 DEF HasPending, Opened
    <3>2. LastOf(rounds) \in RoundRecord /\ status # "complete"
      BY <2>2, <3>1, LastUnderIInv DEF HasPending
    <3>3. rec \in RoundRecord /\ rec.verdict = v /\ rec.status = AttemptRoundStatus(v)
          /\ rec.round = LastOf(rounds).round
      BY <2>1, <3>1, <3>2 DEF RoundRecord
    <3> QED BY <1>1, <3>1, <3>2, <3>3 DEF Extends
  <2>3. CASE ~HasPending(rounds)
    <3>1. n = Len(rounds) + 1 /\ Len(rounds) < Rounds /\ (rounds # <<>> => LastOf(rounds).status \notin Unresolved)
      BY <1>1, <2>3, NextRoundIs DEF WantsGeneration
    <3>2. rounds \in Seq(RoundRecord) /\ n \in 1..Rounds
      BY <3>1, RoundsAssumption DEF IInv, TypeOK
    <3>3. NewRound(n) \in RoundRecord /\ NewRound(n).round = n
      BY <3>2 DEF NewRound, RoundRecord, RoundStatuses, NoAttempt, NoLatency
    <3>4. opened = Append(rounds, NewRound(n)) BY <2>3 DEF Opened
    <3>5. opened \in Seq(RoundRecord) /\ opened # <<>> /\ LastOf(opened) = NewRound(n) /\ Len(opened) = Len(rounds) + 1
      BY <3>2, <3>3, <3>4, Appended
    <3>6. rec \in RoundRecord /\ rec.verdict = v /\ rec.status = AttemptRoundStatus(v) /\ rec.round = n
      BY <2>1, <3>3, <3>5 DEF RoundRecord
    <3>7. ReplaceLast(opened, rec) = Append(rounds, rec)
      BY <3>2, <3>3, <3>4, <3>6, ReplacedInAppended
    <3>8. status # "complete" BY <3>1 DEF IInv, StatusMatchesRounds
    <3> HIDE DEF rec, opened, n
    <3> QED BY <1>1, <3>1, <3>6, <3>7, <3>8 DEF Extends
  <2> QED BY <2>2, <2>3
<1> HIDE DEF rec, opened, n
<1>3. Matching(rec)
  BY <1>2, RoundStatusOf DEF Matching, Verdicts, Evaluable, OrdinaryFailures, NoAttempt
<1>4. /\ st \in Statuses \ {"complete"}
      /\ st = "review_required" <=> rec.status = "review_required"
      /\ rec.status = "infrastructure_incomplete" => st = "incomplete"
      /\ st = "incomplete" => rec.status = "infrastructure_incomplete"
  <2>1. status \in {"in_progress"}
    BY <1>1, <1>2 DEF IInv, TypeOK, Statuses, WantsGeneration, Runnable
  <2> QED BY <1>2, <2>1, RoundStatusOf DEF AttemptStatus, Statuses, Verdicts, Evaluable
<1>5. Settled(st, rounds') \in Statuses /\ StatusFits(Settled(st, rounds'), rec, adopted')
  <2> HIDE DEF st
  <2> QED BY <1>2, <1>4, SettledFits
<1>6. best' \in [round : 0..Rounds, lat : Latencies \cup {NoLatency}] /\ adopted' \subseteq 1..Rounds
  BY <1>1 DEF IInv, TypeOK
<1> HIDE DEF st
<1> QED BY <1>1, <1>2, <1>3, <1>5, <1>6, StepKeepsIInv

\* apply_evaluation preserves the invariant whoever calls it, when the last
\* round was pending or counts as adopted afterwards.
LEMMA EvaluatedKeeps ==
  ASSUME IInv, NEW o \in Outcomes, NEW lat \in Latencies, Evaluated(o, lat),
         rounds # <<>>, LastOf(rounds).verdict \in Evaluable, status # "complete",
         adopted \subseteq adopted', adopted' \subseteq 1..Rounds,
         LastOf(rounds).status = "pending" \/ LastOf(rounds).round \in adopted'
  PROVE  IInv'
<1> DEFINE rec == EvaluatedRound(LastOf(rounds), o, lat)
           st == EvaluatedStatus(status, o)
<1>1. /\ LastOf(rounds) \in RoundRecord /\ LastOf(rounds).round = Len(rounds)
      /\ Matching(LastOf(rounds))
  BY LastUnderIInv
<1>2. /\ rec \in RoundRecord /\ rec.round = LastOf(rounds).round
      /\ rec.status \notin {"pending", "review_required"}
      /\ rec.status = "infrastructure_incomplete" <=> o = "infrastructure_incomplete"
      /\ Matching(rec)
  BY <1>1, EvaluatedRoundIs
<1>3. rounds' = ReplaceLast(rounds, rec) /\ status' = Settled(st, rounds')
  BY DEF Evaluated, WithEvaluation
<1>4. Extends(rounds', rec) BY <1>2, <1>3 DEF Extends
<1>5. status # "review_required"
  BY <1>1 DEF IInv, StatusMatchesRounds, Matching, Evaluable
<1>6. /\ st \in Statuses \ {"complete"} /\ st # "review_required"
      /\ rec.status = "infrastructure_incomplete" => st = "incomplete"
  BY <1>2, <1>5 DEF EvaluatedStatus, IInv, TypeOK, Statuses
<1>7. st = "incomplete" => rec.status = "infrastructure_incomplete" \/ rec.round \in adopted'
  <2>1. CASE o = "infrastructure_incomplete" BY <1>2, <2>1
  <2>2. CASE o # "infrastructure_incomplete"
    BY <1>2, <2>2 DEF EvaluatedStatus, IInv, StatusMatchesRounds
  <2> QED BY <2>1, <2>2
<1>8. best' \in [round : 0..Rounds, lat : Latencies \cup {NoLatency}]
  <2>1. LastOf(rounds') = rec BY <1>4, <1>2, ExtendsShape
  <2> QED BY <1>2, <2>1, BetterType DEF Evaluated, IInv, TypeOK
<1> HIDE DEF rec, st
<1>9. Settled(st, rounds') \in Statuses /\ StatusFits(Settled(st, rounds'), rec, adopted')
  BY <1>2, <1>4, <1>6, <1>7, SettledFits
<1> QED BY <1>2, <1>3, <1>4, <1>8, <1>9, StepKeepsIInv

LEMMA ApplyEvaluationKeeps ==
  ASSUME IInv, NEW o \in Outcomes, NEW lat \in Latencies, ApplyEvaluation(o, lat)
  PROVE  IInv'
<1>1. rounds # <<>> /\ LastOf(rounds).status = "pending" /\ LastOf(rounds).verdict \in Evaluable
  BY DEF ApplyEvaluation, WantsEvaluation, HasPending
<1>2. status # "complete" BY <1>1, LastUnderIInv
<1>3. adopted' \subseteq 1..Rounds /\ adopted \subseteq adopted' BY DEF ApplyEvaluation, IInv, TypeOK
<1> QED BY <1>1, <1>2, <1>3, EvaluatedKeeps DEF ApplyEvaluation

LEMMA AdoptKeeps ==
  ASSUME IInv, NEW o \in Outcomes, NEW lat \in Latencies, Adopt(o, lat)
  PROVE  IInv'
<1>1. LastOf(rounds).round \in 1..Rounds BY LastUnderIInv DEF Adopt, RoundRecord
<1>2. adopted' \subseteq 1..Rounds /\ adopted \subseteq adopted'
      /\ (LastOf(rounds).status = "pending" \/ LastOf(rounds).round \in adopted')
  BY <1>1 DEF Adopt, IInv, TypeOK
<1> QED BY <1>2, EvaluatedKeeps DEF Adopt

LEMMA ResolveReviewKeeps ==
  ASSUME IInv, NEW d \in {"compliant", "violation"}, ResolveReview(d)
  PROVE  IInv'
<1> DEFINE rec == IF d = "compliant"
                  THEN [LastOf(rounds) EXCEPT !.verdict = "clear", !.status = "pending"]
                  ELSE [LastOf(rounds) EXCEPT !.verdict = "confirmed_violation", !.status = "contract_violation"]
<1>1. rounds # <<>> /\ rounds' = ReplaceLast(rounds, rec) /\ status' = Settled("in_progress", rounds')
      /\ UNCHANGED <<best, adopted>>
  BY DEF ResolveReview, CanReview, WithReview
<1>2. LastOf(rounds) \in RoundRecord BY <1>1, LastUnderIInv
<1>3. /\ rec \in RoundRecord /\ rec.round = LastOf(rounds).round
      /\ rec.status \in {"pending", "contract_violation"} /\ Matching(rec)
  BY <1>2 DEF RoundRecord, RoundStatuses, Verdicts, Evaluable, OrdinaryFailures, NoAttempt, Matching
<1>4. Extends(rounds', rec) BY <1>1, <1>3 DEF Extends
<1> HIDE DEF rec
<1>5. Settled("in_progress", rounds') \in Statuses /\ StatusFits(Settled("in_progress", rounds'), rec, adopted')
  BY <1>3, <1>4, SettledFits DEF Statuses
<1>6. best' \in [round : 0..Rounds, lat : Latencies \cup {NoLatency}] /\ adopted' \subseteq 1..Rounds
  BY <1>1 DEF IInv, TypeOK
<1> QED BY <1>1, <1>3, <1>4, <1>5, <1>6, StepKeepsIInv

\* Re-opening the last round: it is pending again and the trajectory in progress.
LEMMA ReopenedKeeps ==
  ASSUME IInv, rounds # <<>>, NEW v \in Evaluable \cup {NoAttempt},
         rounds' = ReplaceLast(rounds, [LastOf(rounds) EXCEPT !.status = "pending", !.verdict = v]),
         status' = "in_progress", UNCHANGED <<best, adopted>>
  PROVE  IInv'
<1> DEFINE rec == [LastOf(rounds) EXCEPT !.status = "pending", !.verdict = v]
<1>1. LastOf(rounds) \in RoundRecord BY LastUnderIInv
<1>2. /\ rec \in RoundRecord /\ rec.round = LastOf(rounds).round
      /\ rec.status = "pending" /\ Matching(rec)
  BY <1>1 DEF RoundRecord, RoundStatuses, Verdicts, Evaluable, OrdinaryFailures, NoAttempt, Matching
<1>3. rounds' = ReplaceLast(rounds, rec) OBVIOUS
<1>4. Extends(rounds', rec) BY <1>2, <1>3 DEF Extends
<1> HIDE DEF rec
<1>5. status' \in Statuses /\ StatusFits(status', rec, adopted') BY <1>2 DEF StatusFits, Statuses, Unresolved
<1>6. best' \in [round : 0..Rounds, lat : Latencies \cup {NoLatency}] /\ adopted' \subseteq 1..Rounds
  BY DEF IInv, TypeOK
<1> QED BY <1>2, <1>4, <1>5, <1>6, StepKeepsIInv

LEMMA RetryIncompleteKeeps ==
  ASSUME IInv, RetryIncomplete
  PROVE  IInv'
<1>1. rounds # <<>> /\ LastOf(rounds).verdict = "clear" BY DEF RetryIncomplete, CanRetry, LastIncomplete
<1>2. LastOf(rounds) \in RoundRecord BY <1>1, LastUnderIInv
<1>3. [LastOf(rounds) EXCEPT !.status = "pending"] = [LastOf(rounds) EXCEPT !.status = "pending", !.verdict = "clear"]
  BY <1>1, <1>2 DEF RoundRecord
<1>4. rounds' = ReplaceLast(rounds, [LastOf(rounds) EXCEPT !.status = "pending", !.verdict = "clear"])
  BY <1>3 DEF RetryIncomplete, WithRetry
<1> QED BY <1>1, <1>4, ReopenedKeeps DEF RetryIncomplete, Evaluable

LEMMA ReopenTransportKeeps ==
  ASSUME IInv, ReopenTransport
  PROVE  IInv'
<1>1. rounds # <<>> BY DEF ReopenTransport, CanReopen, LastIncomplete
<1> QED BY <1>1, ReopenedKeeps DEF ReopenTransport, WithReopen
-----------------------------------------------------------------------------
LEMMA InitIInv == Init => IInv
<1> SUFFICES ASSUME Init PROVE IInv OBVIOUS
<1> USE RoundsAssumption DEF Init
<1>1. TypeOK BY DEF TypeOK, Statuses, NoBest
<1>2. RoundsInOrder BY DEF RoundsInOrder
<1>3. StatusMatchesRounds BY DEF StatusMatchesRounds
<1>4. AttemptMatchesRound BY DEF AttemptMatchesRound
<1> QED BY <1>1, <1>2, <1>3, <1>4 DEF IInv

LEMMA StutterIInv == IInv /\ UNCHANGED vars => IInv'
BY DEF IInv, vars, TypeOK, RoundsInOrder, StatusMatchesRounds, AttemptMatchesRound

LEMMA NextIInv == IInv /\ [Next]_vars => IInv'
<1> SUFFICES ASSUME IInv, [Next]_vars PROVE IInv' OBVIOUS
<1>1. CASE \E v \in Verdicts : ApplyAttempt(v) BY <1>1, ApplyAttemptKeeps
<1>2. CASE \E o \in Outcomes, lat \in Latencies : ApplyEvaluation(o, lat) BY <1>2, ApplyEvaluationKeeps
<1>3. CASE \E d \in {"compliant", "violation"} : ResolveReview(d) BY <1>3, ResolveReviewKeeps
<1>4. CASE RetryIncomplete BY <1>4, RetryIncompleteKeeps
<1>5. CASE ReopenTransport BY <1>5, ReopenTransportKeeps
<1>6. CASE \E o \in Outcomes, lat \in Latencies : Adopt(o, lat) BY <1>6, AdoptKeeps
<1>7. CASE UNCHANGED vars BY <1>7, StutterIInv
<1> QED BY <1>1, <1>2, <1>3, <1>4, <1>5, <1>6, <1>7 DEF Next

LEMMA IInvAlways == Spec => []IInv
BY InitIInv, NextIInv, PTL DEF Spec

\* The errors of next_action and open_round are out of reach of the invariant.
LEMMA NeverRaisesUnderIInv == IInv => NeverRaises
<1> SUFFICES ASSUME IInv PROVE NeverRaises OBVIOUS
<1>1. ~NextActionRaises(rounds, status)
  <2>1. HasPending(rounds) => LastOf(rounds).verdict \in Evaluable \cup {NoAttempt}
    BY LastUnderIInv DEF HasPending, Matching
  <2> QED BY <2>1 DEF NextActionRaises
<1>2. ASSUME WantsGeneration(rounds, status) \/ WantsEvaluation(rounds, status)
      PROVE  ~OpenRoundRaises(rounds, status, NextRound(rounds))
  <2>1. CASE HasPending(rounds)
    <3>1. LastOf(rounds).round = NextRound(rounds) BY <2>1, LastUnderIInv, NextRoundIs DEF HasPending
    <3>2. status # "complete" BY <2>1, LastUnderIInv DEF HasPending
    <3> QED BY <2>1, <3>1, <3>2 DEF OpenRoundRaises
  <2>2. CASE ~HasPending(rounds)
    <3>1. NextRound(rounds) = Len(rounds) + 1 /\ Len(rounds) < Rounds
      BY <1>2, <2>2, NextRoundIs DEF WantsGeneration, WantsEvaluation
    <3>2. \A i \in DOMAIN rounds : rounds[i].round # NextRound(rounds)
      BY <3>1 DEF IInv, TypeOK, RoundsInOrder
    <3>3. status # "complete" BY <3>1 DEF IInv, StatusMatchesRounds
    <3> QED BY <2>2, <3>2, <3>3 DEF OpenRoundRaises
  <2> QED BY <2>1, <2>2
<1> QED BY <1>1, <1>2 DEF NeverRaises
-----------------------------------------------------------------------------
\* Every record of trajectory.json has values state.py allows.
THEOREM TypeCorrect == Spec => []TypeOK
BY IInvAlways, PTL DEF IInv

\* The numbers next_action derives from a count are 1, 2, ... in order, at most
\* Rounds of them, and a round opens only after the one before it has a result.
THEOREM RoundsAlwaysInOrder == Spec => []RoundsInOrder
BY IInvAlways, PTL DEF IInv

\* TrajectoryState.status agrees with the last round after any sequence of
\* rounds, reviews, retries, re-openings and adoptions.
THEOREM StatusAlwaysMatches == Spec => []StatusMatchesRounds
BY IInvAlways, PTL DEF IInv

\* Every round's result agrees with its attempt's verdict.
THEOREM AttemptAlwaysMatches == Spec => []AttemptMatchesRound
BY IInvAlways, PTL DEF IInv

\* The runner's next step never meets a RuntimeError of next_action or
\* open_round.
THEOREM RunnerNeverRaises == Spec => []NeverRaises
BY IInvAlways, NeverRaisesUnderIInv, PTL
-----------------------------------------------------------------------------
(* Action properties *)

\* A step that changes the rounds: an attempt leaves a round only when the old
\* verdict allows it.
LegalVerdict(old, new) == new \in {old} \cup VerdictMayBecome(old)
Legal(rec) ==
  \/ rounds # <<>> /\ rounds' = ReplaceLast(rounds, rec) /\ rec.round = LastOf(rounds).round
     /\ LegalVerdict(LastOf(rounds).verdict, rec.verdict)
  \/ rounds' = Append(rounds, rec)

\* A step without an evaluation: no valid round comes or goes.
Quiet(rec) ==
  /\ Legal(rec) /\ rec.status # "valid"
  /\ Len(rounds') = Len(rounds) => LastOf(rounds).status # "valid"

LEMMA ApplyAttemptIsQuiet ==
  ASSUME IInv, NEW v \in Verdicts, ApplyAttempt(v)
  PROVE  \E rec \in RoundRecord : Quiet(rec)
<1> DEFINE n == NextRound(rounds)
           opened == Opened(rounds, n)
           rec == [LastOf(opened) EXCEPT !.verdict = v, !.status = AttemptRoundStatus(v)]
<1>1. rounds' = ReplaceLast(opened, rec) /\ WantsGeneration(rounds, status)
  BY DEF ApplyAttempt, WithAttempt
<1>2. AttemptRoundStatus(v) \in RoundStatuses \ {"valid"}
  BY DEF AttemptRoundStatus, RoundStatuses, Verdicts, Evaluable, OrdinaryFailures
<1>3. CASE HasPending(rounds)
  <2>1. rounds # <<>> /\ opened = rounds /\ LastOf(rounds) \in RoundRecord
    BY <1>3, LastUnderIInv DEF HasPending, Opened
  <2>2. LastOf(rounds).verdict = NoAttempt BY <1>1, <1>3 DEF WantsGeneration
  <2>3. rec \in RoundRecord /\ rec.verdict = v /\ rec.round = LastOf(rounds).round /\ rec.status # "valid"
    BY <1>2, <2>1 DEF RoundRecord
  <2>4. LegalVerdict(LastOf(rounds).verdict, rec.verdict)
    BY <2>2, <2>3 DEF LegalVerdict, VerdictMayBecome, NoAttempt, Evaluable
  <2> QED BY <1>1, <1>3, <2>1, <2>3, <2>4 DEF Legal, Quiet, HasPending
<1>4. CASE ~HasPending(rounds)
  <2>1. n = Len(rounds) + 1 /\ ClosedCount(rounds) = Len(rounds) /\ n \in 1..Rounds /\ rounds \in Seq(RoundRecord)
    BY <1>1, <1>4, NextRoundIs, RoundsAssumption DEF WantsGeneration, IInv, TypeOK
  <2>2. NewRound(n) \in RoundRecord BY <2>1 DEF NewRound, RoundRecord, RoundStatuses, NoLatency
  <2>3. opened = Append(rounds, NewRound(n)) BY <1>4 DEF Opened
  <2>4. LastOf(opened) = NewRound(n) BY <2>1, <2>2, <2>3, Appended
  <2>5. rec \in RoundRecord /\ rec.status # "valid" BY <1>2, <2>2, <2>4 DEF RoundRecord
  <2>6. rounds' = Append(rounds, rec) BY <1>1, <2>1, <2>2, <2>3, <2>5, ReplacedInAppended
  <2>7. Len(rounds') = Len(rounds) + 1 BY <2>1, <2>5, <2>6, Appended
  <2> HIDE DEF rec
  <2>8. Len(rounds') # Len(rounds) BY <2>1, <2>7
  <2> QED BY <2>5, <2>6, <2>8 DEF Legal, Quiet
<1> QED BY <1>3, <1>4

LEMMA EvaluatedIsLegal ==
  ASSUME IInv, NEW o \in Outcomes, NEW lat \in Latencies, Evaluated(o, lat),
         rounds # <<>>, LastOf(rounds).verdict \in Evaluable
  PROVE  \E rec \in RoundRecord : Legal(rec)
<1> DEFINE rec == EvaluatedRound(LastOf(rounds), o, lat)
<1>1. LastOf(rounds) \in RoundRecord BY LastUnderIInv
<1>2. rec \in RoundRecord /\ rec.round = LastOf(rounds).round BY <1>1, EvaluatedRoundIs
<1>3. rec.verdict \in {LastOf(rounds).verdict, "confirmed_violation"}
  BY <1>1 DEF EvaluatedRound, RoundRecord
<1>4. LegalVerdict(LastOf(rounds).verdict, rec.verdict)
  BY <1>3 DEF LegalVerdict, VerdictMayBecome, Evaluable, NoAttempt
<1>5. rounds' = ReplaceLast(rounds, rec) BY DEF Evaluated, WithEvaluation
<1> QED BY <1>2, <1>4, <1>5 DEF Legal

LEMMA InterventionIsQuiet ==
  ASSUME IInv, (\E d \in {"compliant", "violation"} : ResolveReview(d)) \/ RetryIncomplete \/ ReopenTransport
  PROVE  \E rec \in RoundRecord : Quiet(rec)
<1>1. rounds # <<>> BY DEF ResolveReview, CanReview, RetryIncomplete, CanRetry, ReopenTransport, CanReopen, LastIncomplete
<1>2. LastOf(rounds) \in RoundRecord /\ Matching(LastOf(rounds)) BY <1>1, LastUnderIInv
<1>0. LastOf(rounds).status \in {"review_required", "infrastructure_incomplete"}
  BY DEF ResolveReview, CanReview, RetryIncomplete, CanRetry, ReopenTransport, CanReopen, LastIncomplete
<1>3. PICK v \in Verdicts \cup {NoAttempt}, s \in RoundStatuses \ {"valid"} :
        /\ rounds' = ReplaceLast(rounds, [LastOf(rounds) EXCEPT !.verdict = v, !.status = s])
        /\ LegalVerdict(LastOf(rounds).verdict, v)
  <2> USE <1>2 DEF RoundRecord, RoundStatuses, Verdicts, Evaluable, NoAttempt, LegalVerdict, VerdictMayBecome
  <2>1. ASSUME NEW d \in {"compliant", "violation"}, ResolveReview(d), d = "compliant"
        PROVE  /\ rounds' = ReplaceLast(rounds, [LastOf(rounds) EXCEPT !.verdict = "clear", !.status = "pending"])
               /\ LegalVerdict(LastOf(rounds).verdict, "clear")
    BY <2>1 DEF ResolveReview, CanReview, WithReview, Matching
  <2>2. ASSUME NEW d \in {"compliant", "violation"}, ResolveReview(d), d # "compliant"
        PROVE  /\ rounds' = ReplaceLast(rounds, [LastOf(rounds) EXCEPT !.verdict = "confirmed_violation", !.status = "contract_violation"])
               /\ LegalVerdict(LastOf(rounds).verdict, "confirmed_violation")
    BY <2>2 DEF ResolveReview, CanReview, WithReview, Matching
  <2>3. CASE RetryIncomplete
    <3>1. rounds' = ReplaceLast(rounds, [LastOf(rounds) EXCEPT !.verdict = LastOf(rounds).verdict, !.status = "pending"])
      BY <2>3 DEF RetryIncomplete, WithRetry
    <3> QED BY <3>1
  <2>4. CASE ReopenTransport
    <3>1. rounds' = ReplaceLast(rounds, [LastOf(rounds) EXCEPT !.verdict = NoAttempt, !.status = "pending"])
      BY <2>4 DEF ReopenTransport, WithReopen
    <3>2. LastOf(rounds).verdict \in {"transport_failed", "provider_refused"} BY <2>4 DEF ReopenTransport, CanReopen
    <3> QED BY <3>1, <3>2
  <2> QED BY <2>1, <2>2, <2>3, <2>4
<1> DEFINE rec == [LastOf(rounds) EXCEPT !.verdict = v, !.status = s]
<1>4. rec \in RoundRecord /\ rec.verdict = v /\ rec.round = LastOf(rounds).round /\ rec.status # "valid"
  BY <1>2 DEF RoundRecord
<1> QED BY <1>0, <1>1, <1>3, <1>4 DEF Legal, Quiet

LEMMA StepsAreLegal ==
  ASSUME IInv, [Next]_vars
  PROVE  rounds' = rounds \/ \E rec \in RoundRecord : Legal(rec)
<1>1. CASE \E v \in Verdicts : ApplyAttempt(v) BY <1>1, ApplyAttemptIsQuiet DEF Quiet
<1>2. CASE \E o \in Outcomes, lat \in Latencies : ApplyEvaluation(o, lat)
  <2>1. PICK o \in Outcomes, lat \in Latencies : ApplyEvaluation(o, lat) BY <1>2
  <2>2. rounds # <<>> /\ LastOf(rounds).verdict \in Evaluable /\ Evaluated(o, lat)
    BY <2>1 DEF ApplyEvaluation, WantsEvaluation, HasPending
  <2> QED BY <2>2, EvaluatedIsLegal
<1>3. CASE \E o \in Outcomes, lat \in Latencies : Adopt(o, lat) BY <1>3, EvaluatedIsLegal DEF Adopt
<1>4. CASE (\E d \in {"compliant", "violation"} : ResolveReview(d)) \/ RetryIncomplete \/ ReopenTransport
  BY <1>4, InterventionIsQuiet DEF Quiet
<1>5. CASE UNCHANGED vars BY <1>5 DEF vars
<1> QED BY <1>1, <1>2, <1>3, <1>4, <1>5 DEF Next

\* No step drops a round or edits one that is not the last, and no candidate that
\* exists is generated again.
THEOREM HistoryIsAlwaysFinal == Spec => HistoryIsFinal
<1> DEFINE A == /\ Len(rounds') \in {Len(rounds), Len(rounds) + 1}
                /\ \A i \in DOMAIN rounds :
                     /\ i < Len(rounds) \/ Len(rounds') > Len(rounds) => rounds'[i] = rounds[i]
                     /\ rounds'[i].round = rounds[i].round
                     /\ rounds'[i].verdict \in {rounds[i].verdict} \cup VerdictMayBecome(rounds[i].verdict)
<1>1. ASSUME IInv, [Next]_vars PROVE [A]_rounds
  <2>1. rounds \in Seq(RoundRecord) BY <1>1 DEF IInv, TypeOK
  <2>2. CASE rounds' = rounds BY <2>2
  <2>3. ASSUME NEW rec \in RoundRecord, Legal(rec) PROVE A
    <3>1. CASE rounds # <<>> /\ rounds' = ReplaceLast(rounds, rec) /\ rec.round = LastOf(rounds).round
               /\ LegalVerdict(LastOf(rounds).verdict, rec.verdict)
      <4>1. /\ Len(rounds') = Len(rounds) /\ rounds'[Len(rounds)] = rec
            /\ \A i \in 1..(Len(rounds) - 1) : rounds'[i] = rounds[i]
        <5>1. LastOf(rounds') = rec /\ Len(rounds') = Len(rounds) /\ \A i \in 1..(Len(rounds) - 1) : rounds'[i] = rounds[i]
          BY <2>1, <2>3, <3>1, Replaced
        <5> QED BY <5>1 DEF LastOf
      <4>2. \A i \in DOMAIN rounds : i = Len(rounds) \/ i \in 1..(Len(rounds) - 1) BY <2>1
      <4> QED BY <2>1, <3>1, <4>1, <4>2 DEF LastOf, LegalVerdict
    <3>2. CASE rounds' = Append(rounds, rec)
      <4>1. Len(rounds') = Len(rounds) + 1 /\ \A i \in 1..Len(rounds) : rounds'[i] = rounds[i]
        BY <2>1, <3>2, Appended
      <4> QED BY <2>1, <4>1
    <3> QED BY <2>3, <3>1, <3>2 DEF Legal
  <2> QED BY <1>1, <2>2, <2>3, StepsAreLegal
<1>2. IInv /\ [Next]_vars => [A]_rounds BY <1>1
<1> QED BY <1>2, IInvAlways, PTL DEF Spec, HistoryIsFinal

\* best_valid only ever changes to a strictly faster result.
THEOREM BestNeverEverRegresses == Spec => BestNeverRegresses
<1>1. ASSUME IInv, [Next]_vars PROVE [best # NoBest => best' # NoBest /\ best'.lat < best.lat]_best
  <2>1. ASSUME NEW o \in Outcomes, NEW lat \in Latencies, Evaluated(o, lat), rounds # <<>>,
               LastOf(rounds).verdict \in Evaluable
        PROVE  best' = best \/ best = NoBest \/ (best' # NoBest /\ best'.lat < best.lat)
    <3> DEFINE rec == EvaluatedRound(LastOf(rounds), o, lat)
    <3>1. rec \in RoundRecord BY <1>1, <2>1, LastUnderIInv, EvaluatedRoundIs
    <3>2. rounds \in Seq(RoundRecord) BY <1>1 DEF IInv, TypeOK
    <3>3. rounds' = ReplaceLast(rounds, rec) /\ best' = Better(best, o, LastOf(rounds'))
      BY <2>1 DEF Evaluated, WithEvaluation
    <3>4. best' = Better(best, o, rec) BY <2>1, <3>1, <3>2, <3>3, Replaced
    <3> HIDE DEF rec
    <3>5. rec.round \in 1..Rounds BY <3>1 DEF RoundRecord
    <3> QED BY <3>4, <3>5, RoundsAssumption DEF Better, NoBest
  <2>2. CASE \E o \in Outcomes, lat \in Latencies : ApplyEvaluation(o, lat)
    BY <2>1, <2>2 DEF ApplyEvaluation, WantsEvaluation, HasPending
  <2>3. CASE \E o \in Outcomes, lat \in Latencies : Adopt(o, lat) BY <2>1, <2>3 DEF Adopt
  <2>4. CASE (\E v \in Verdicts : ApplyAttempt(v)) \/ (\E d \in {"compliant", "violation"} : ResolveReview(d))
             \/ RetryIncomplete \/ ReopenTransport
    BY <2>4 DEF ApplyAttempt, ResolveReview, RetryIncomplete, ReopenTransport
  <2>5. CASE UNCHANGED vars BY <2>5 DEF vars
  <2> QED BY <1>1, <2>2, <2>3, <2>4, <2>5 DEF Next
<1>2. IInv /\ [Next]_vars => [best # NoBest => best' # NoBest /\ best'.lat < best.lat]_best BY <1>1
<1> QED BY <1>2, IInvAlways, PTL DEF Spec, BestNeverRegresses
-----------------------------------------------------------------------------
(* best_valid *)

LEMMA QuietKeepsBest ==
  ASSUME IInv, BestIsFastest, NEW rec \in RoundRecord, Quiet(rec), UNCHANGED <<best, adopted>>
  PROVE  BestIsFastest'
<1>1. rounds \in Seq(RoundRecord) BY DEF IInv, TypeOK
<1>2. CASE rounds # <<>> /\ rounds' = ReplaceLast(rounds, rec)
  <2>1. /\ LastOf(rounds') = rec /\ Len(rounds') = Len(rounds) /\ rounds' \in Seq(RoundRecord)
        /\ \A i \in 1..(Len(rounds) - 1) : rounds'[i] = rounds[i]
    BY <1>1, <1>2, Replaced
  <2>2. DOMAIN rounds' = DOMAIN rounds /\ rounds'[Len(rounds)].status # "valid" /\ rounds[Len(rounds)].status # "valid"
    BY <1>1, <2>1 DEF Quiet, LastOf
  <2>3. \A i \in DOMAIN rounds : i = Len(rounds) \/ rounds'[i] = rounds[i] BY <1>1, <2>1
  <2> QED BY <2>2, <2>3 DEF BestIsFastest
<1>3. CASE rounds' = Append(rounds, rec)
  <2>1. /\ LastOf(rounds') = rec /\ Len(rounds') = Len(rounds) + 1 /\ rounds' \in Seq(RoundRecord)
        /\ \A i \in 1..Len(rounds) : rounds'[i] = rounds[i]
    BY <1>1, <1>3, Appended
  <2>2. rounds'[Len(rounds')].status # "valid" BY <2>1 DEF Quiet, LastOf
  <2>3. \A i \in DOMAIN rounds' : i = Len(rounds') \/ (i \in DOMAIN rounds /\ rounds'[i] = rounds[i]) BY <1>1, <2>1
  <2>4. \A i \in DOMAIN rounds : i \in DOMAIN rounds' /\ rounds'[i] = rounds[i] BY <1>1, <2>1
  <2> QED BY <2>2, <2>3, <2>4 DEF BestIsFastest
<1> QED BY <1>2, <1>3 DEF Quiet, Legal

LEMMA EvaluatedKeepsBest ==
  ASSUME IInv, BestIsFastest, NEW o \in Outcomes, NEW lat \in Latencies, Evaluated(o, lat),
         rounds # <<>>, LastOf(rounds).verdict \in Evaluable,
         adopted \subseteq adopted',
         LastOf(rounds).status = "pending" \/ LastOf(rounds).round \in adopted'
  PROVE  BestIsFastest'
<1> DEFINE rec == EvaluatedRound(LastOf(rounds), o, lat)
           n == Len(rounds)
<1>1. LastOf(rounds) \in RoundRecord /\ LastOf(rounds).round = n BY LastUnderIInv
<1>2. rec \in RoundRecord /\ rec.round = n BY <1>1, EvaluatedRoundIs
<1>3. rec.status = "valid" <=> o = "valid"
  BY <1>1, FailuresAssumption DEF EvaluatedRound, RoundRecord, Outcomes, OrdinaryFailures
<1>4. rounds \in Seq(RoundRecord) /\ n \in Nat \ {0} BY LastOfType DEF IInv, TypeOK
<1>5. rounds' = ReplaceLast(rounds, rec) BY DEF Evaluated, WithEvaluation
<1>6. LastOf(rounds') = rec /\ Len(rounds') = n /\ rounds' \in Seq(RoundRecord) /\ \A i \in 1..(n - 1) : rounds'[i] = rounds[i]
  BY <1>2, <1>4, <1>5, Replaced
<1>7. best' = Better(best, o, rec) BY <1>6 DEF Evaluated
<1> HIDE DEF rec
<1>8. /\ DOMAIN rounds = 1..n /\ DOMAIN rounds' = 1..n
      /\ rounds'[n] = rec /\ rec.lat \in Nat
      /\ \A i \in 1..n : rounds[i].lat \in Nat
      /\ best.lat \in Nat /\ best.round \in Nat
  <2>1. \A x \in Latencies \cup {NoLatency} : x \in Nat BY LatenciesAssumption DEF NoLatency
  <2>2. DOMAIN rounds = 1..n /\ \A i \in 1..n : rounds[i] \in RoundRecord BY <1>4
  <2>3. DOMAIN rounds' = 1..n /\ rounds'[n] = rec BY <1>6 DEF LastOf
  <2>4. best.lat \in Latencies \cup {NoLatency} /\ best.round \in 0..Rounds BY DEF IInv, TypeOK
  <2>5. \A r \in RoundRecord : r.lat \in Nat BY <2>1 DEF RoundRecord
  <2> QED BY <1>2, <2>1, <2>2, <2>3, <2>4, <2>5, RoundsAssumption
<1>9. \A i \in 1..n : i = n \/ rounds'[i] = rounds[i] BY <1>4, <1>6
<1>10. rounds[n].status = "pending" \/ n \in adopted' BY <1>1 DEF LastOf
<1> HIDE DEF n
<1>11. \A i \in 1..n : rounds[i].status = "valid" =>
         best # NoBest /\ (best.lat < rounds[i].lat \/ (best.lat = rounds[i].lat /\ best.round <= i))
  BY <1>8 DEF BestIsFastest
<1>12. best # NoBest =>
         /\ best.round \in 1..n
         /\ best.round \notin adopted => rounds[best.round].status = "valid" /\ rounds[best.round].lat = best.lat
  BY <1>8 DEF BestIsFastest
<1>13. CASE o = "valid" /\ (best = NoBest \/ rec.lat < best.lat)
  <2>1. best' = [round |-> n, lat |-> rec.lat] BY <1>2, <1>7, <1>13 DEF Better
  <2>2. best' # NoBest /\ best'.round = n /\ best'.lat = rec.lat BY <1>4, <2>1 DEF NoBest
  <2>3. ASSUME NEW i \in 1..n, rounds'[i].status = "valid"
        PROVE  best'.lat < rounds'[i].lat \/ (best'.lat = rounds'[i].lat /\ best'.round <= i)
    <3>1. CASE i = n BY <1>4, <1>8, <2>2, <3>1
    <3>2. CASE i # n
      <4>1. rounds'[i] = rounds[i] BY <1>9, <3>2
      <4>2. rec.lat < best.lat /\ best.lat <= rounds[i].lat BY <1>8, <1>11, <1>13, <2>3, <4>1
      <4> QED BY <1>8, <2>2, <4>1, <4>2
    <3> QED BY <3>1, <3>2
  <2>4. n \in 1..n /\ rounds'[n].status = "valid" /\ rounds'[n].lat = rec.lat BY <1>3, <1>4, <1>8, <1>13
  <2> QED BY <1>8, <2>2, <2>3, <2>4 DEF BestIsFastest
<1>14. CASE ~(o = "valid" /\ (best = NoBest \/ rec.lat < best.lat))
  <2>1. best' = best BY <1>7, <1>14 DEF Better
  <2>2. ASSUME NEW i \in 1..n, rounds'[i].status = "valid"
        PROVE  best # NoBest /\ (best.lat < rounds'[i].lat \/ (best.lat = rounds'[i].lat /\ best.round <= i))
    <3>1. CASE i = n
      <4>1. o = "valid" BY <1>3, <1>8, <2>2, <3>1
      <4>2. best # NoBest /\ best.lat <= rec.lat BY <1>8, <1>14, <4>1
      <4>3. best.round <= n BY <1>4, <1>12, <4>2
      <4> QED BY <1>8, <3>1, <4>2, <4>3
    <3>2. CASE i # n
      <4>1. rounds'[i] = rounds[i] BY <1>9, <3>2
      <4> QED BY <1>11, <2>2, <4>1
    <3> QED BY <3>1, <3>2
  <2>3. ASSUME best # NoBest, best.round \notin adopted'
        PROVE  rounds'[best.round].status = "valid" /\ rounds'[best.round].lat = best.lat
    <3>1. best.round \in 1..n /\ rounds[best.round].status = "valid" /\ rounds[best.round].lat = best.lat
      BY <1>12, <2>3
    <3>2. best.round # n BY <1>10, <2>3, <3>1
    <3> QED BY <1>9, <3>1, <3>2
  <2> QED BY <1>8, <1>12, <2>1, <2>2, <2>3 DEF BestIsFastest
<1> QED BY <1>13, <1>14

\* best_valid is the earliest of the fastest valid rounds, unless an adopted
\* re-evaluation replaced the result it was taken from.
THEOREM BestIsAlwaysFastest == Spec => []BestIsFastest
<1>1. Init => BestIsFastest BY DEF Init, BestIsFastest
<1>2. IInv /\ BestIsFastest /\ [Next]_vars => BestIsFastest'
  <2> SUFFICES ASSUME IInv, BestIsFastest, [Next]_vars PROVE BestIsFastest' OBVIOUS
  <2>1. CASE \E v \in Verdicts : ApplyAttempt(v)
    <3>1. UNCHANGED <<best, adopted>> BY <2>1 DEF ApplyAttempt
    <3> QED BY <2>1, <3>1, ApplyAttemptIsQuiet, QuietKeepsBest
  <2>2. CASE \E o \in Outcomes, lat \in Latencies : ApplyEvaluation(o, lat)
    <3>1. PICK o \in Outcomes, lat \in Latencies : ApplyEvaluation(o, lat) BY <2>2
    <3>2. Evaluated(o, lat) /\ rounds # <<>> /\ LastOf(rounds).verdict \in Evaluable
          /\ LastOf(rounds).status = "pending" /\ adopted' = adopted
      BY <3>1 DEF ApplyEvaluation, WantsEvaluation, HasPending
    <3> QED BY <3>2, EvaluatedKeepsBest
  <2>3. CASE \E o \in Outcomes, lat \in Latencies : Adopt(o, lat)
    <3>1. PICK o \in Outcomes, lat \in Latencies : Adopt(o, lat) BY <2>3
    <3>2. Evaluated(o, lat) /\ rounds # <<>> /\ LastOf(rounds).verdict \in Evaluable
          /\ (LastOf(rounds).status = "pending" \/ LastOf(rounds).round \in adopted') /\ adopted \subseteq adopted'
      BY <3>1 DEF Adopt
    <3> QED BY <3>2, EvaluatedKeepsBest
  <2>4. CASE (\E d \in {"compliant", "violation"} : ResolveReview(d)) \/ RetryIncomplete \/ ReopenTransport
    <3>1. UNCHANGED <<best, adopted>> BY <2>4 DEF ResolveReview, RetryIncomplete, ReopenTransport
    <3> QED BY <2>4, <3>1, InterventionIsQuiet, QuietKeepsBest
  <2>5. CASE UNCHANGED vars BY <2>5 DEF vars, BestIsFastest
  <2> QED BY <2>1, <2>2, <2>3, <2>4, <2>5 DEF Next
<1> QED BY <1>1, <1>2, IInvAlways, PTL DEF Spec
=============================================================================
