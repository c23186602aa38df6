---------------------- MODULE TrajectoryRunner_proofs ----------------------
(***************************************************************************)
(* Proofs about TrajectoryRunner, for any number of rounds, retries and    *)
(* disturbances: trajectory.json implements Trajectory over every crash    *)
(* and resume, and the files a process leaves behind - transport log,      *)
(* archive, usage ledger, compliance record, evaluation revisions - agree  *)
(* with it and with what the provider charged.                             *)
(*                                                                         *)
(* The invariant is layered, each layer resting on those before it:        *)
(*   Control    what is in memory where the process is                     *)
(*   Archive    when a request may be under way                            *)
(*   Ledger     when a usage row is written                                *)
(*   Evidence   what the evaluation revisions say                          *)
(*   Judgement  what the compliance record says                            *)
(*   Charged    what the transport log says of the charges                 *)
(*   Costed     what the state says of them                                *)
(***************************************************************************)
EXTENDS TrajectoryRunner, FiniteSetTheorems, TLAPS

\* The invariant of Trajectory_proofs, of what is on disk.  Durable and DP are two
\* instances of the definitions of Trajectory, so that they agree has to be said.
DP == INSTANCE Trajectory_proofs WITH rounds <- disk.rounds, status <- disk.status, best <- disk.best, adopted <- {}

\* What TrajectoryRunner assumes of the protocol is what Trajectory assumes.
LEMMA SameAssumptions ==
  /\ Rounds \in Nat \ {0}
  /\ Latencies \subseteq Nat \ {0}
  /\ Failures \subseteq DP!OrdinaryFailures
BY ProtocolAssumption DEF Durable!OrdinaryFailures, DP!OrdinaryFailures

LEMMA SameInit == Durable!Init <=> DP!Init
BY DEF Durable!Init, DP!Init, Durable!NoBest, DP!NoBest, Durable!NoLatency, DP!NoLatency

LEMMA SameSets ==
  /\ Durable!Evaluable = DP!Evaluable
  /\ Durable!Verdicts = DP!Verdicts
  /\ Durable!NoAttempt = DP!NoAttempt
  /\ Durable!NoBest = DP!NoBest
  /\ Durable!NoLatency = DP!NoLatency
  /\ Durable!Outcomes = DP!Outcomes
  /\ Durable!RoundRecord = DP!RoundRecord
BY DEF Durable!Evaluable, DP!Evaluable, Durable!Verdicts, DP!Verdicts, Durable!NoAttempt, DP!NoAttempt,
       Durable!NoBest, DP!NoBest, Durable!NoLatency, DP!NoLatency, Durable!Outcomes, DP!Outcomes,
       Durable!RoundRecord, DP!RoundRecord, Durable!RoundStatuses, DP!RoundStatuses,
       Durable!OrdinaryFailures, DP!OrdinaryFailures

LEMMA SameHelpers ==
  ASSUME NEW rs, NEW st, NEW n
  PROVE
  /\ Durable!LastOf(rs) = DP!LastOf(rs)
  /\ Durable!ClosedCount(rs) = DP!ClosedCount(rs)
  /\ Durable!HasPending(rs) = DP!HasPending(rs)
  /\ Durable!NextRound(rs) = DP!NextRound(rs)
  /\ Durable!Settled(st, rs) = DP!Settled(st, rs)
  /\ Durable!WantsGeneration(rs, st) = DP!WantsGeneration(rs, st)
  /\ Durable!WantsEvaluation(rs, st) = DP!WantsEvaluation(rs, st)
  /\ Durable!OpenRoundRaises(rs, st, n) = DP!OpenRoundRaises(rs, st, n)
<1>1. \A S : Durable!Cardinality(S) = DP!Cardinality(S) BY DEF Durable!Cardinality, DP!Cardinality
<1>2. Durable!LastOf(rs) = DP!LastOf(rs) BY DEF Durable!LastOf, DP!LastOf
<1>3. Durable!ClosedCount(rs) = DP!ClosedCount(rs) BY <1>1 DEF Durable!ClosedCount, DP!ClosedCount
<1>4. Durable!HasPending(rs) = DP!HasPending(rs) BY <1>2 DEF Durable!HasPending, DP!HasPending
<1> QED
  BY <1>2, <1>3, <1>4, SameSets
  DEF Durable!NextRound, DP!NextRound, Durable!Settled, DP!Settled, Durable!WantsGeneration, DP!WantsGeneration,
      Durable!WantsEvaluation, DP!WantsEvaluation, Durable!OpenRoundRaises, DP!OpenRoundRaises,
      Durable!Runnable, DP!Runnable

LEMMA SameTransitions ==
  ASSUME NEW rs, NEW v, NEW o, NEW lat, NEW b, NEW st, NEW n
  PROVE
  /\ Durable!WithAttempt(rs, v) = DP!WithAttempt(rs, v)
  /\ Durable!AttemptStatus(st, v) = DP!AttemptStatus(st, v)
  /\ Durable!WithEvaluation(rs, o, lat) = DP!WithEvaluation(rs, o, lat)
  /\ Durable!EvaluatedStatus(st, o) = DP!EvaluatedStatus(st, o)
  /\ Durable!Better(b, o, n) = DP!Better(b, o, n)
  /\ Durable!WithReview(rs, v) = DP!WithReview(rs, v)
  /\ Durable!WithRetry(rs) = DP!WithRetry(rs)
  /\ Durable!WithReopen(rs) = DP!WithReopen(rs)
  /\ Durable!CanReview(rs) = DP!CanReview(rs)
  /\ Durable!CanRetry(rs, st) = DP!CanRetry(rs, st)
  /\ Durable!CanReopen(rs, st) = DP!CanReopen(rs, st)
<1>1. /\ \A rec, m : Durable!ReplaceLast(m, rec) = DP!ReplaceLast(m, rec)
      /\ \A m : Durable!LastOf(m) = DP!LastOf(m)
      /\ \A m : Durable!HasPending(m) = DP!HasPending(m)
      /\ \A m : Durable!NextRound(m) = DP!NextRound(m)
  BY SameHelpers DEF Durable!ReplaceLast, DP!ReplaceLast
<1>2. \A m, k : Durable!Opened(m, k) = DP!Opened(m, k)
  BY <1>1, SameSets DEF Durable!Opened, DP!Opened, Durable!NewRound, DP!NewRound
<1>3. Durable!WithAttempt(rs, v) = DP!WithAttempt(rs, v)
  BY <1>1, <1>2, SameSets DEF Durable!WithAttempt, DP!WithAttempt, Durable!AttemptRoundStatus, DP!AttemptRoundStatus
<1>4. Durable!WithEvaluation(rs, o, lat) = DP!WithEvaluation(rs, o, lat)
  BY <1>1 DEF Durable!WithEvaluation, DP!WithEvaluation, Durable!EvaluatedRound, DP!EvaluatedRound
<1>5. /\ Durable!AttemptStatus(st, v) = DP!AttemptStatus(st, v)
      /\ Durable!EvaluatedStatus(st, o) = DP!EvaluatedStatus(st, o)
      /\ Durable!Better(b, o, n) = DP!Better(b, o, n)
  BY SameSets
  DEF Durable!AttemptStatus, DP!AttemptStatus, Durable!EvaluatedStatus, DP!EvaluatedStatus, Durable!Better, DP!Better
<1>6. /\ Durable!WithReview(rs, v) = DP!WithReview(rs, v)
      /\ Durable!WithRetry(rs) = DP!WithRetry(rs)
      /\ Durable!WithReopen(rs) = DP!WithReopen(rs)
  BY <1>1, SameSets
  DEF Durable!WithReview, DP!WithReview, Durable!WithRetry, DP!WithRetry, Durable!WithReopen, DP!WithReopen
<1>7. /\ Durable!CanReview(rs) = DP!CanReview(rs)
      /\ Durable!CanRetry(rs, st) = DP!CanRetry(rs, st)
      /\ Durable!CanReopen(rs, st) = DP!CanReopen(rs, st)
  BY <1>1
  DEF Durable!CanReview, DP!CanReview, Durable!CanRetry, DP!CanRetry, Durable!CanReopen, DP!CanReopen,
      Durable!LastIncomplete, DP!LastIncomplete
<1> QED BY <1>3, <1>4, <1>5, <1>6, <1>7

\* A transition of one instance is one of the other.
LEMMA SameNext == [Durable!Next]_(Durable!vars) => [DP!Next]_(DP!vars)
<1> USE SameSets
<1>1. ASSUME NEW v \in Durable!Verdicts, Durable!ApplyAttempt(v) PROVE DP!ApplyAttempt(v)
  BY <1>1, SameHelpers, SameTransitions DEF Durable!ApplyAttempt, DP!ApplyAttempt
<1>2. ASSUME NEW o, NEW lat, Durable!Evaluated(o, lat) PROVE DP!Evaluated(o, lat)
  BY <1>2, SameHelpers, SameTransitions DEF Durable!Evaluated, DP!Evaluated
<1>3. ASSUME NEW o, NEW lat, Durable!ApplyEvaluation(o, lat) PROVE DP!ApplyEvaluation(o, lat)
  BY <1>2, <1>3, SameHelpers DEF Durable!ApplyEvaluation, DP!ApplyEvaluation
<1>4. ASSUME NEW o, NEW lat, Durable!Adopt(o, lat) PROVE DP!Adopt(o, lat)
  BY <1>2, <1>4, SameHelpers DEF Durable!Adopt, DP!Adopt
<1>5. ASSUME NEW d, Durable!ResolveReview(d) PROVE DP!ResolveReview(d)
  BY <1>5, SameHelpers, SameTransitions DEF Durable!ResolveReview, DP!ResolveReview
<1>6. Durable!RetryIncomplete => DP!RetryIncomplete
  BY SameTransitions DEF Durable!RetryIncomplete, DP!RetryIncomplete
<1>7. Durable!ReopenTransport => DP!ReopenTransport
  BY SameTransitions DEF Durable!ReopenTransport, DP!ReopenTransport
<1>8. Durable!Next => DP!Next
  BY <1>1, <1>3, <1>4, <1>5, <1>6, <1>7 DEF Durable!Next, DP!Next
<1>9. UNCHANGED Durable!vars => UNCHANGED DP!vars BY DEF Durable!vars, DP!vars
<1> QED BY <1>8, <1>9
-----------------------------------------------------------------------------
(* The control invariant: what is in memory while the process is at a place *)

Fields == {"rounds", "status", "best", "cost", "revs"}
Requesting == {"request", "await", "answered", "archive", "fill_archive"}
Judging == {"parse", "fill_candidate", "check", "fill_record"}
Generating == Requesting \cup {"account", "apply"} \cup Judging
Places == Generating \cup {"down", "ready", "evaluating", "copy", "save"}

\* mem is an evaluation of the round on disk, not saved yet.
EvaluationOf(o, lat) ==
  /\ mem.rounds = Durable!WithEvaluation(disk.rounds, o, lat)
  /\ mem.best = Durable!Better(disk.best, o, Durable!LastOf(mem.rounds))
  /\ mem.status = Durable!Settled(Durable!EvaluatedStatus(disk.status, o), mem.rounds)

\* Between saves the process works on what it has saved, and only an evaluation
\* changes its memory before the save.
Held ==
  /\ DOMAIN disk = Fields /\ DOMAIN mem = Fields
  /\ pc \in Places
  /\ pc \in Generating \cup {"ready", "evaluating"} => mem = disk
  /\ pc \in Generating => Durable!WantsGeneration(disk.rounds, disk.status)
  /\ pc \in {"evaluating", "copy", "save"} => Durable!WantsEvaluation(disk.rounds, disk.status)
  /\ pc \in {"copy", "save"} => \E o \in Durable!Outcomes, lat \in Latencies : EvaluationOf(o, lat)

\* The verdict about to be applied is one.
Judged ==
  /\ comp \in [Round -> CheckerVerdicts \cup {"absent", "torn"}]
  /\ pc = "fill_record" => verdict \in CheckerVerdicts
  /\ pc = "apply" => verdict \in Durable!Verdicts

Control == DP!IInv /\ Held /\ Judged

\* The round of a step is one of the protocol's, also the one a generation opens.
LEMMA CurIsARound ==
  ASSUME DP!IInv, NEW rs, rs = disk.rounds,
         Durable!WantsGeneration(rs, disk.status) \/ Durable!WantsEvaluation(rs, disk.status)
  PROVE  /\ Durable!NextRound(rs) \in Round
         /\ rs \in Seq(Durable!RoundRecord)
         /\ Durable!HasPending(rs) => Durable!NextRound(rs) = Len(rs)
         /\ ~Durable!HasPending(rs) => Durable!NextRound(rs) = Len(rs) + 1
         /\ ~Durable!OpenRoundRaises(rs, disk.status, Durable!NextRound(rs))
<1>1. rs \in Seq(DP!RoundRecord) /\ Len(rs) <= Rounds BY DEF DP!IInv, DP!TypeOK, DP!RoundsInOrder
<1>2. /\ DP!HasPending(rs) => DP!NextRound(rs) = Len(rs)
      /\ ~DP!HasPending(rs) => DP!NextRound(rs) = Len(rs) + 1 /\ DP!ClosedCount(rs) = Len(rs)
  BY SameAssumptions, DP!NextRoundIs
<1>3. DP!HasPending(rs) => Len(rs) # 0 BY <1>1 DEF DP!HasPending
<1>4. DP!WantsGeneration(rs, disk.status) \/ DP!WantsEvaluation(rs, disk.status) BY SameHelpers
<1>5. ~DP!HasPending(rs) => Len(rs) < Rounds BY <1>2, <1>4 DEF DP!WantsGeneration, DP!WantsEvaluation
<1>6. DP!NextRound(rs) \in 1..Rounds BY <1>1, <1>2, <1>3, <1>5, SameAssumptions
<1>7. ~DP!OpenRoundRaises(rs, disk.status, DP!NextRound(rs))
  BY <1>4, SameAssumptions, DP!NeverRaisesUnderIInv DEF DP!NeverRaises
<1>8. /\ Durable!NextRound(rs) = DP!NextRound(rs) /\ Durable!HasPending(rs) = DP!HasPending(rs)
      /\ \A st, n : Durable!OpenRoundRaises(rs, st, n) = DP!OpenRoundRaises(rs, st, n)
  BY SameHelpers
<1> QED BY <1>1, <1>2, <1>6, <1>7, <1>8, SameSets DEF Round

\* Control holds at first and is kept by every step: trajectory.json because each
\* save is a transition of Trajectory, the rest place by place.
LEMMA InitControl == Init => Control
<1> SUFFICES ASSUME Init PROVE Control OBVIOUS
<1>1. Durable!Init BY DEF Init, NewState, Durable!Init
<1>2. DP!IInv BY <1>1, SameInit, SameAssumptions, DP!InitIInv
<1>3. Held BY DEF Init, NewState, Held, Fields, Places, Generating, Requesting, Judging
<1>4. Judged BY DEF Init, Judged
<1> QED BY <1>2, <1>3, <1>4 DEF Control

LEMMA StutterControl == Control /\ UNCHANGED vars => Control'
<1> SUFFICES ASSUME Control, UNCHANGED vars PROVE Control' OBVIOUS
<1>1. UNCHANGED <<disk, mem, pc, verdict, comp>> BY DEF vars, process, files
<1>2. DP!IInv' BY <1>1, SameAssumptions, DP!StutterIInv DEF Control, DP!vars
<1>3. Held' BY <1>1 DEF Control, Held, EvaluationOf
<1>4. Judged' BY <1>1 DEF Control, Judged
<1> QED BY <1>2, <1>3, <1>4 DEF Control

\* A step inside a generation, the process ending, and what saves.
Onward ==
  /\ UNCHANGED <<disk, mem>>
  /\ pc \in Generating \cup {"ready"} /\ pc' \in Generating
  /\ pc = "ready" => Durable!WantsGeneration(mem.rounds, mem.status)
Ends == Down /\ pc # "down" /\ (disk' = disk \/ (disk' = mem /\ pc \in {"ready", "request"}))

LEMMA GenerationSteps ==
  ASSUME Generation
  PROVE  Onward \/ Ends \/ ApplyAndSave
<1> USE DEF Generating, Requesting, Judging
<1>1. CASE TooLong BY <1>1 DEF TooLong, Apply, Onward
<1>2. CASE BeginRequest BY <1>2 DEF BeginRequest, Onward
<1>3. CASE Pause BY <1>3 DEF Pause, Ends
<1>4. CASE Send BY <1>4 DEF Send, Onward
<1>5. ASSUME NEW a, NEW charge, Answer(a, charge) PROVE Onward BY <1>5 DEF Answer, Onward
<1>6. CASE RecordAnswer BY <1>6 DEF RecordAnswer, Apply, Onward
<1>7. CASE OpenArchive BY <1>7 DEF OpenArchive, Onward
<1>8. CASE FillArchive BY <1>8 DEF FillArchive, Onward
<1>9. CASE Account BY <1>9 DEF Account, Onward
<1>10. CASE ReuseArchive BY <1>10 DEF ReuseArchive, Onward, Ends
<1>11. CASE Parse BY <1>11 DEF Parse, Apply, Onward
<1>12. CASE FillCandidate BY <1>12 DEF FillCandidate, Onward
<1>13. CASE ReuseVerdict BY <1>13 DEF ReuseVerdict, Apply, Onward, Ends
<1>14. ASSUME NEW v, Check(v) PROVE Onward BY <1>14 DEF Check, Onward
<1>15. CASE FillRecord BY <1>15 DEF FillRecord, Onward
<1> QED BY <1>1, <1>2, <1>3, <1>4, <1>5, <1>6, <1>7, <1>8, <1>9, <1>10, <1>11, <1>12, <1>13, <1>14, <1>15 DEF Generation

\* Every step of the runner does to trajectory.json what Trajectory allows, or nothing.
LEMMA StepImplements ==
  ASSUME Control, Next
  PROVE  [Durable!Next]_(Durable!vars)
<1> USE DEF Control
<1>1. UNCHANGED disk => UNCHANGED Durable!vars BY DEF Durable!vars
<1>2. pc \in {"ready", "request"} => mem = disk BY DEF Held, Generating, Requesting
<1>3. ASSUME NEW flag \in {"resume", "retry", "reopen"}, Start(flag) PROVE [Durable!Next]_(Durable!vars)
  <2>1. disk' = Reopened(disk, flag) /\ MayReopen(disk, flag) /\ DOMAIN disk = Fields BY <1>3 DEF Start, Held
  <2>2. CASE flag = "retry"
    <3>1. /\ disk'.rounds = Durable!WithRetry(disk.rounds) /\ disk'.status = "in_progress" /\ disk'.best = disk.best
          /\ Durable!CanRetry(disk.rounds, disk.status)
      BY <2>1, <2>2 DEF Reopened, MayReopen, Fields
    <3> QED BY <3>1 DEF Durable!RetryIncomplete, Durable!Next
  <2>3. CASE flag = "reopen"
    <3>1. /\ disk'.rounds = Durable!WithReopen(disk.rounds) /\ disk'.status = "in_progress" /\ disk'.best = disk.best
          /\ Durable!CanReopen(disk.rounds, disk.status)
      BY <2>1, <2>3 DEF Reopened, MayReopen, Fields
    <3> QED BY <3>1 DEF Durable!ReopenTransport, Durable!Next
  <2>4. CASE flag = "resume" BY <1>1, <2>1, <2>4 DEF Reopened
  <2> QED BY <2>2, <2>3, <2>4
<1>4. CASE Finish \/ Crash BY <1>1, <1>2, <1>4 DEF Finish, Crash
<1>5. ASSUME NEW d \in {"compliant", "violation"}, Review(d) PROVE [Durable!Next]_(Durable!vars)
  <2>1. /\ Durable!CanReview(disk.rounds) /\ DOMAIN disk = Fields
        /\ disk' = [disk EXCEPT !.rounds = Durable!WithReview(disk.rounds, d),
                                !.status = Durable!Settled("in_progress", Durable!WithReview(disk.rounds, d))]
    BY <1>5 DEF Review, Held
  <2>2. /\ disk'.rounds = Durable!WithReview(disk.rounds, d) /\ disk'.status = Durable!Settled("in_progress", disk'.rounds)
        /\ disk'.best = disk.best
    BY <2>1 DEF Fields
  <2> QED BY <2>1, <2>2 DEF Durable!ResolveReview, Durable!Next
<1>6. CASE Onward \/ Ends BY <1>1, <1>2, <1>6 DEF Onward, Ends
<1>7. CASE ApplyAndSave
  <2>1. /\ mem = disk /\ DOMAIN disk = Fields /\ Durable!WantsGeneration(disk.rounds, disk.status)
        /\ verdict \in Durable!Verdicts
    BY <1>7 DEF ApplyAndSave, Held, Judged, Generating
  <2>2. /\ ~Durable!OpenRoundRaises(disk.rounds, disk.status, Durable!NextRound(disk.rounds))
        /\ disk'.rounds = Durable!WithAttempt(disk.rounds, verdict)
        /\ disk'.status = Durable!Settled(Durable!AttemptStatus(disk.status, verdict), disk'.rounds)
        /\ disk'.best = disk.best
    BY <1>7, <2>1 DEF ApplyAndSave, Cur, Fields
  <2> QED BY <2>1, <2>2 DEF Durable!ApplyAttempt, Durable!Next
<1>8. CASE BeginEvaluation \/ CopyBest \/ \E o \in Durable!Outcomes, lat \in Latencies : FinishEvaluation(o, lat)
  BY <1>1, <1>8 DEF BeginEvaluation, CopyBest, FinishEvaluation
<1>9. CASE SaveEvaluation
  <2>1. Durable!WantsEvaluation(disk.rounds, disk.status) /\ disk' = mem BY <1>9 DEF SaveEvaluation, Held
  <2>2. PICK o \in Durable!Outcomes, lat \in Latencies : EvaluationOf(o, lat) BY <1>9 DEF SaveEvaluation, Held
  <2>3. ~Durable!OpenRoundRaises(disk.rounds, disk.status, Durable!NextRound(disk.rounds)) BY <2>1, CurIsARound
  <2>4. Durable!ApplyEvaluation(o, lat)
    BY <2>1, <2>2, <2>3 DEF EvaluationOf, Durable!ApplyEvaluation, Durable!Evaluated
  <2> QED BY <2>4 DEF Durable!Next
<1> QED BY <1>3, <1>4, <1>5, <1>6, <1>7, <1>8, <1>9, GenerationSteps DEF Next, Evaluation

LEMMA HeldKept ==
  ASSUME Control, Next
  PROVE  Held'
<1> USE DEF Control
<1>1. DOMAIN disk = Fields /\ DOMAIN mem = Fields /\ DOMAIN NewState = Fields BY DEF Held, NewState, Fields
<1>2. pc \in {"ready", "request"} => mem = disk BY DEF Held, Generating, Requesting
<1> USE DEF Places, Generating, Requesting, Judging
<1>3. ASSUME NEW flag \in {"resume", "retry", "reopen"}, Start(flag) PROVE Held'
  <2>1. DOMAIN Reopened(disk, flag) = Fields BY <1>1 DEF Reopened
  <2> QED BY <1>3, <2>1 DEF Start, Held
<1>4. CASE Onward
  <2>1. Durable!WantsGeneration(mem.rounds, mem.status) /\ mem = disk BY <1>4 DEF Onward, Held
  <2> QED BY <1>1, <1>4, <2>1 DEF Onward, Held
<1>5. CASE Ends BY <1>1, <1>2, <1>5 DEF Ends, Down, Held
<1>6. CASE Finish \/ Crash BY <1>1, <1>2, <1>6 DEF Finish, Crash, Down, Held
<1>7. ASSUME NEW d, Review(d) PROVE Held'
  <2>1. DOMAIN disk' = Fields BY <1>1, <1>7 DEF Review
  <2> QED BY <1>1, <1>7, <2>1 DEF Review, process, Held
<1>8. CASE ApplyAndSave
  <2>1. DOMAIN mem' = Fields BY <1>1, <1>8 DEF ApplyAndSave
  <2> QED BY <1>8, <2>1 DEF ApplyAndSave, Held
<1>9. CASE BeginEvaluation BY <1>1, <1>2, <1>9 DEF BeginEvaluation, Held
<1>10. ASSUME NEW o \in Durable!Outcomes, NEW lat \in Latencies, FinishEvaluation(o, lat) PROVE Held'
  <2>1. mem = disk /\ Durable!WantsEvaluation(disk.rounds, disk.status) BY <1>10 DEF FinishEvaluation, Held
  <2>2. /\ DOMAIN mem' = Fields
        /\ mem'.rounds = Durable!WithEvaluation(mem.rounds, o, lat)
        /\ mem'.best = Durable!Better(mem.best, o, Durable!LastOf(mem'.rounds))
        /\ mem'.status = Durable!Settled(Durable!EvaluatedStatus(mem.status, o), mem'.rounds)
    BY <1>1, <1>10 DEF FinishEvaluation, Fields
  <2>3. EvaluationOf(o, lat)' BY <1>10, <2>1, <2>2 DEF FinishEvaluation, EvaluationOf
  <2> QED BY <1>1, <1>10, <2>1, <2>2, <2>3 DEF FinishEvaluation, Held
<1>11. CASE CopyBest BY <1>11 DEF CopyBest, Held, EvaluationOf
<1>12. CASE SaveEvaluation BY <1>1, <1>12 DEF SaveEvaluation, Held
<1> QED BY <1>3, <1>4, <1>5, <1>6, <1>7, <1>8, <1>9, <1>10, <1>11, <1>12, GenerationSteps DEF Next, Evaluation

\* Where the process is in a generation, its round is one of the protocol's.
LEMMA CurWhenGenerating ==
  ASSUME Control, pc \in Generating \/ (pc = "ready" /\ Durable!WantsGeneration(mem.rounds, mem.status))
  PROVE  Cur \in Round /\ mem = disk /\ Durable!WantsGeneration(disk.rounds, disk.status)
<1>1. mem = disk /\ Durable!WantsGeneration(disk.rounds, disk.status) BY DEF Control, Held
<1> QED BY <1>1, CurIsARound DEF Control, Cur

LEMMA JudgedKept ==
  ASSUME Control, Next
  PROVE  Judged'
<1>0. pc \in Generating => Cur \in Round BY CurWhenGenerating
<1> USE DEF Control
<1>1. /\ CheckerVerdicts \subseteq Durable!Verdicts
      /\ {"format_error", "transport_failed", "provider_refused"} \subseteq Durable!Verdicts
  BY DEF CheckerVerdicts, Durable!Verdicts, Durable!Evaluable
<1>2. comp \in [Round -> CheckerVerdicts \cup {"absent", "torn"}] BY DEF Judged
<1>3. CASE UNCHANGED comp /\ pc' \notin {"fill_record", "apply"} BY <1>2, <1>3 DEF Judged
<1>4. CASE UNCHANGED comp /\ pc' = "apply" /\ verdict' \in {"format_error", "transport_failed", "provider_refused"}
  BY <1>1, <1>2, <1>4 DEF Judged
<1>5. CASE ReuseVerdict
  <2>0. pc \in Generating BY <1>5 DEF ReuseVerdict, Generating, Judging
  <2>1. Cur \in Round BY <1>0, <2>0
  <2>2. CASE comp[Cur] = "torn" BY <1>3, <1>5, <2>2 DEF ReuseVerdict, Down, files
  <2>3. CASE comp[Cur] # "torn"
    <3>1. comp[Cur] \in CheckerVerdicts BY <1>2, <1>5, <2>1, <2>3 DEF ReuseVerdict, StoredVerdictStands
    <3> QED BY <1>1, <1>2, <1>5, <2>3, <3>1 DEF ReuseVerdict, Apply, Judged, files
  <2> QED BY <2>2, <2>3
<1>6. ASSUME NEW v \in Checks, Check(v) PROVE Judged'
  <2>1. v \in CheckerVerdicts BY EnvironmentAssumption
  <2> QED BY <1>2, <1>6, <2>1 DEF Check, Judged
<1>7. CASE FillRecord
  <2>1. verdict \in CheckerVerdicts BY <1>7 DEF FillRecord, Judged
  <2> QED BY <1>1, <1>2, <1>7, <2>1 DEF FillRecord, Judged
<1>8. CASE TooLong \/ RecordAnswer \/ Parse
  BY <1>3, <1>4, <1>8 DEF TooLong, RecordAnswer, Parse, Apply
<1>9. CASE BeginRequest \/ Pause \/ Send \/ OpenArchive \/ FillArchive \/ Account \/ ReuseArchive \/ FillCandidate
           \/ ApplyAndSave
  BY <1>3, <1>9
  DEF BeginRequest, Pause, Send, OpenArchive, FillArchive, Account, ReuseArchive, FillCandidate, ApplyAndSave, Down, files
<1>10. ASSUME NEW a, NEW charge, Answer(a, charge) PROVE Judged' BY <1>3, <1>10 DEF Answer, files
<1>11. CASE BeginEvaluation \/ CopyBest \/ SaveEvaluation
  BY <1>3, <1>11 DEF BeginEvaluation, CopyBest, SaveEvaluation, files
<1>12. ASSUME NEW o, NEW lat, FinishEvaluation(o, lat) PROVE Judged' BY <1>3, <1>12 DEF FinishEvaluation
<1>13. CASE Finish \/ Crash BY <1>3, <1>13 DEF Finish, Crash, Down, files
<1>14. ASSUME NEW flag, Start(flag) PROVE Judged' BY <1>3, <1>14 DEF Start, files
<1>15. ASSUME NEW d, Review(d) PROVE Judged' BY <1>3, <1>15 DEF Review, process, files
<1> QED BY <1>5, <1>6, <1>7, <1>8, <1>9, <1>10, <1>11, <1>12, <1>13, <1>14, <1>15 DEF Next, Generation, Evaluation

LEMMA NextControl == Control /\ [Next]_vars => Control'
<1>1. ASSUME Control, Next PROVE Control'
  <2>1. [DP!Next]_(DP!vars) BY <1>1, StepImplements, SameNext
  <2>2. DP!IInv' BY <1>1, <2>1, SameAssumptions, DP!NextIInv DEF Control
  <2> QED BY <1>1, <2>2, HeldKept, JudgedKept DEF Control
<1> QED BY <1>1, StutterControl

LEMMA ControlAlways == Spec => []Control
BY InitControl, NextControl, PTL DEF Spec

\* Whatever the process was doing when it died: every save, crash and resume shows
\* on disk one transition of Trajectory, or none.
THEOREM RunnerImplementsTrajectory == Spec => ImplementsTrajectory
<1>1. Init => Durable!Init BY DEF Init, NewState, Durable!Init
<1>2. Control /\ [Next]_vars => [Durable!Next]_(Durable!vars)
  <2>1. UNCHANGED vars => UNCHANGED Durable!vars BY DEF vars, Durable!vars
  <2> QED BY <2>1, StepImplements
<1> QED BY <1>1, <1>2, ControlAlways, PTL DEF Spec, ImplementsTrajectory, Durable!Spec

\* No crash or intervention brings the runner to a RuntimeError of next_action or
\* open_round.
THEOREM ResumeNeverRaises == Spec => []Durable!NeverRaises
<1>1. Control => Durable!NeverRaises
  <2>1. DP!IInv => DP!NeverRaises BY SameAssumptions, DP!NeverRaisesUnderIInv
  <2>2. DP!NeverRaises => Durable!NeverRaises
    BY SameHelpers, SameSets
    DEF Durable!NeverRaises, DP!NeverRaises, Durable!NextActionRaises, DP!NextActionRaises, Durable!Runnable, DP!Runnable
  <2> QED BY <2>1, <2>2 DEF Control
<1> QED BY <1>1, ControlAlways, PTL
-----------------------------------------------------------------------------
(* The archive: when a request may be under way *)

Events == Seq(Charges)
Archived(r) == resp[r] \in {"candidate", "malformed"}

FilesOK ==
  /\ log \in [Round -> Events]
  /\ resp \in [Round -> {"absent", "torn", "candidate", "malformed"}]
  /\ ledger \in [Round -> {0, 1}]
  /\ billed \in [Round -> Nat]
  /\ answer \in Responses \cup Raised \cup {NoAnswer}
  /\ overlong \subseteq Round

\* Requests are for rounds without an archived response; after the archive is
\* filled, it stays.
Archiving ==
  /\ pc \in Requesting \ {"fill_archive"} => resp[Cur] = "absent"
  /\ pc = "fill_archive" => resp[Cur] = "torn"
  /\ pc \in {"archive", "fill_archive"} => answer \in Responses
  /\ pc \in Judging \cup {"account"} => Archived(Cur)
  /\ pc \in Requesting \cup Judging \cup {"account"} => Cur \notin overlong
  /\ pc \notin Generating => answer = NoAnswer

\* A round has at most one ledger row, written once its response is archived.
Booking ==
  /\ \A r \in Round : ledger[r] = 1 => Archived(r) \/ r \in overlong
  /\ pc = "account" /\ answer \in Responses => ledger[Cur] = 0
  /\ pc \in Judging => ledger[Cur] = 1
  /\ pc = "apply" /\ verdict \notin {"transport_failed", "provider_refused"} => ledger[Cur] = 1
Unbooked == {Durable!NoAttempt, "transport_failed", "provider_refused"}
Booked == \A i \in DOMAIN disk.rounds : disk.rounds[i].verdict \notin Unbooked => ledger[i] = 1

Archive == FilesOK /\ Archiving
Ledger == Booking /\ Booked

LEMMA InitArchive == Init => Archive /\ Ledger
<1> SUFFICES ASSUME Init PROVE Archive /\ Ledger OBVIOUS
<1> USE DEF Init
<1>1. FilesOK BY DEF FilesOK, Events
<1>2. Archiving BY DEF Archiving, Requesting, Judging, Generating
<1>3. Booking BY DEF Booking, Judging
<1>4. Booked BY DEF Booked, NewState
<1> QED BY <1>1, <1>2, <1>3, <1>4 DEF Archive, Ledger

LEMMA StutterArchive == Archive /\ Ledger /\ UNCHANGED vars => Archive' /\ Ledger'
BY DEF Archive, Ledger, FilesOK, Archiving, Booking, Booked, Archived, Cur, vars, process, files, environment

LEMMA RebuiltIs ==
  ASSUME NEW e \in Events
  PROVE  /\ Rebuilt(e) \in Events /\ Len(Rebuilt(e)) = Len(e)
         /\ \A i \in DOMAIN e : Rebuilt(e)[i] # "sending"
         /\ \A i \in DOMAIN e : e[i] \in {"sending", "unknown"} <=> Rebuilt(e)[i] = "unknown"
         /\ \A i \in DOMAIN e : e[i] = "known" <=> Rebuilt(e)[i] = "known"
BY DEF Rebuilt, Events, Charges

\* A new transport id is always past the log, so Send appends.
LEMMA SendIs ==
  ASSUME NEW e \in Events
  PROVE  LET id == NextTransportId(e, retries)
         IN  (IF id \in DOMAIN e THEN [e EXCEPT ![id] = "sending"] ELSE Append(e, "sending")) = Append(e, "sending")
BY DEF NextTransportId, Events

LEMMA ChargeIs == \A a : ChargeRecorded(a) \in Charges \ {"sending"}
BY DEF ChargeRecorded, Charges

LEMMA RecordedIs ==
  ASSUME NEW e \in Events, NEW i, NEW c \in Charges
  PROVE  [e EXCEPT ![i] = c] \in Events /\ Len([e EXCEPT ![i] = c]) = Len(e)
<1>1. CASE i \in DOMAIN e BY <1>1 DEF Events
<1>2. CASE i \notin DOMAIN e
  <2>1. e \in [1..Len(e) -> Charges] /\ i \notin 1..Len(e) BY <1>2 DEF Events
  <2>2. [e EXCEPT ![i] = c] = e BY <2>1
  <2> QED BY <2>2
<1> QED BY <1>1, <1>2

\* The steps of a generation that write the transport log, and what they do to it.
Logs == log' # log \/ BeginRequest \/ (ReuseArchive /\ resp[Cur] # "torn") \/ Send \/ RecordAnswer

LEMMA LogSteps ==
  ASSUME Control, FilesOK, Next, Logs
  PROVE  /\ Cur \in Round /\ log' = [log EXCEPT ![Cur] = log'[Cur]] /\ log'[Cur] \in Events
         /\ UNCHANGED <<disk, mem, resp, ledger, billed, overlong, answer>>
         /\ \/ BeginRequest /\ log'[Cur] = Rebuilt(log[Cur])
            \/ ReuseArchive /\ log'[Cur] = Rebuilt(log[Cur]) /\ resp[Cur] # "torn"
            \/ Send /\ log'[Cur] = Append(log[Cur], "sending")
            \/ /\ RecordAnswer
               /\ log'[Cur] = [log[Cur] EXCEPT ![CHOOSE i \in DOMAIN log[Cur] : log[Cur][i] = "sending"]
                                                 = ChargeRecorded(answer)]
         /\ Len(log'[Cur]) = Len(log[Cur]) \/ Send
<1>1. BeginRequest \/ ReuseArchive \/ Send \/ RecordAnswer
  BY DEF Next, Generation, Evaluation, Start, Finish, Crash, Review, TooLong, Pause, Answer, OpenArchive, FillArchive, Account,
     Parse, FillCandidate, ReuseVerdict, Check, FillRecord, ApplyAndSave, BeginEvaluation, FinishEvaluation, CopyBest,
     SaveEvaluation, files, Logs
<1>2. Cur \in Round
  BY <1>1, CurWhenGenerating DEF BeginRequest, ReuseArchive, Send, RecordAnswer, Generating, Requesting
<1>3. log[Cur] \in Events /\ log \in [Round -> Events] BY <1>2 DEF FilesOK
<1>4. CASE BeginRequest
  <2>1. log' = [log EXCEPT ![Cur] = Rebuilt(log[Cur])] BY <1>4 DEF BeginRequest
  <2> QED BY <1>2, <1>3, <1>4, <2>1, RebuiltIs DEF BeginRequest, environment
<1>5. CASE ReuseArchive
  <2>1. log' = [log EXCEPT ![Cur] = Rebuilt(log[Cur])] /\ resp[Cur] # "torn"
    BY <1>5 DEF ReuseArchive, Logs, BeginRequest, Send, RecordAnswer
  <2> QED BY <1>2, <1>3, <1>5, <2>1, RebuiltIs DEF ReuseArchive, environment
<1>6. CASE Send
  <2>1. log' = [log EXCEPT ![Cur] = Append(log[Cur], "sending")] BY <1>3, <1>6, SendIs DEF Send
  <2>2. Append(log[Cur], "sending") \in Events BY <1>3 DEF Events, Charges
  <2> QED BY <1>2, <1>3, <1>6, <2>1, <2>2 DEF Send, environment
<1>7. CASE RecordAnswer
  <2> DEFINE new == [log[Cur] EXCEPT ![CHOOSE i \in DOMAIN log[Cur] : log[Cur][i] = "sending"] = ChargeRecorded(answer)]
  <2>1. log' = [log EXCEPT ![Cur] = new] BY <1>7 DEF RecordAnswer
  <2>2. new \in Events /\ Len(new) = Len(log[Cur]) BY <1>3, ChargeIs, RecordedIs
  <2>3. log'[Cur] = new BY <1>2, <1>3, <2>1
  <2>4. UNCHANGED <<disk, mem, resp, ledger, billed, overlong, answer>> BY <1>7 DEF RecordAnswer, environment
  <2> QED BY <1>2, <1>7, <2>1, <2>2, <2>3, <2>4
<1> QED BY <1>1, <1>4, <1>5, <1>6, <1>7

\* Which steps write the other files.
LEMMA Writers ==
  ASSUME Next
  PROVE  /\ resp' # resp => OpenArchive \/ FillArchive
         /\ ledger' # ledger => TooLong \/ Account
         /\ billed' # billed => Crash \/ \E a \in Answers, charge \in {0, 1} : Answer(a, charge)
         /\ answer' # answer => Down \/ ApplyAndSave \/ \E a \in Answers, charge \in {0, 1} : Answer(a, charge)
         /\ UNCHANGED overlong
<1> USE DEF Next, Generation, Evaluation, Start, Finish, Crash, Review, TooLong, BeginRequest, Pause, Send, Answer,
       RecordAnswer, OpenArchive, FillArchive, Account, ReuseArchive, Parse, FillCandidate, ReuseVerdict, Check,
       FillRecord, ApplyAndSave, BeginEvaluation, FinishEvaluation, CopyBest, SaveEvaluation, files, environment, process
<1>1. resp' # resp => OpenArchive \/ FillArchive OBVIOUS
<1>2. ledger' # ledger => TooLong \/ Account OBVIOUS
<1>3. billed' # billed => Crash \/ \E a \in Answers, charge \in {0, 1} : Answer(a, charge) OBVIOUS
<1>4. answer' # answer => Down \/ ApplyAndSave \/ \E a \in Answers, charge \in {0, 1} : Answer(a, charge) OBVIOUS
<1>5. UNCHANGED overlong OBVIOUS
<1> QED BY <1>1, <1>2, <1>3, <1>4, <1>5

LEMMA FilesKept ==
  ASSUME Control, Archive, Ledger, Next
  PROVE  FilesOK'
<1> USE DEF Archive, FilesOK
<1>1. log' \in [Round -> Events] BY LogSteps DEF Logs
<1>2. resp' \in [Round -> {"absent", "torn", "candidate", "malformed"}]
  <2>1. ASSUME FillArchive PROVE answer.text \in {"candidate", "malformed"}
    BY <2>1 DEF FillArchive, Archiving, Responses
  <2> QED BY <2>1, Writers DEF OpenArchive, FillArchive
<1>3. ledger' \in [Round -> {0, 1}]
  <2>1. CASE TooLong BY <2>1 DEF TooLong, LedgerRowUnlessThere, LedgerHas, LedgerRow
  <2>2. CASE Account BY <2>2 DEF Account, Ledger, Booking, LedgerRowUnlessThere, LedgerHas, LedgerRow
  <2> QED BY <2>1, <2>2, Writers
<1>4. billed' \in [Round -> Nat]
  <2>1. ASSUME NEW a, NEW charge \in {0, 1}, Answer(a, charge) PROVE billed' \in [Round -> Nat]
    <3>1. pc \in Generating BY <2>1 DEF Answer, Generating, Requesting
    <3>2. Cur \in Round BY <3>1, CurWhenGenerating
    <3>3. billed[Cur] + charge \in Nat BY <3>2
    <3> QED BY <2>1, <3>3 DEF Answer
  <2>2. CASE Crash BY <2>2 DEF Crash
  <2> QED BY <2>1, <2>2, Writers
<1>5. answer' \in Responses \cup Raised \cup {NoAnswer}
  BY Writers, EnvironmentAssumption DEF Down, ApplyAndSave, Answer
<1>6. overlong' \subseteq Round BY Writers
<1> QED BY <1>1, <1>2, <1>3, <1>4, <1>5, <1>6

LEMMA ArchivingKept ==
  ASSUME Control, Archive, Ledger, Next
  PROVE  Archiving'
<1>0. pc \in Generating \/ (pc = "ready" /\ Durable!WantsGeneration(mem.rounds, mem.status)) => Cur \in Round
  BY CurWhenGenerating
<1>1. UNCHANGED overlong BY Writers
<1>2. UNCHANGED mem => Cur' = Cur BY DEF Cur
<1> USE DEF Archive, Archiving, Archived, Generating, Requesting, Judging
<1>3. CASE BeginRequest
  <2>1. resp[Cur] = "absent" /\ Cur \notin overlong /\ pc' = "request" /\ UNCHANGED <<mem, resp>>
    BY <1>3 DEF BeginRequest, ArchiveReused
  <2> QED BY <1>1, <1>2, <2>1
<1>4. CASE Send BY <1>1, <1>2, <1>4 DEF Send
<1>5. ASSUME NEW a, NEW charge, Answer(a, charge) PROVE Archiving'
  BY <1>1, <1>2, <1>5 DEF Answer, files
<1>6. CASE RecordAnswer BY <1>1, <1>2, <1>6 DEF RecordAnswer, Apply
<1>7. CASE OpenArchive
  <2>1. Cur \in Round /\ resp'[Cur] = "torn" BY <1>0, <1>7 DEF OpenArchive, FilesOK
  <2> QED BY <1>1, <1>2, <1>7, <2>1 DEF OpenArchive
<1>8. CASE FillArchive
  <2>1. Cur \in Round /\ resp'[Cur] \in {"candidate", "malformed"}
    BY <1>0, <1>8 DEF FillArchive, FilesOK, Responses
  <2> QED BY <1>1, <1>2, <1>8, <2>1 DEF FillArchive
<1>9. CASE ReuseArchive
  <2>1. CASE resp[Cur] = "torn" BY <1>9, <2>1 DEF ReuseArchive, Down
  <2>2. CASE resp[Cur] # "torn"
    <3>1. /\ Cur \in Round /\ Cur \notin overlong /\ resp[Cur] \in {"candidate", "malformed"}
          /\ pc' = "account" /\ UNCHANGED <<mem, resp, answer>>
      BY <1>0, <1>9, <2>2 DEF ReuseArchive, ArchiveReused, FilesOK
    <3> QED BY <1>1, <1>2, <3>1
  <2> QED BY <2>1, <2>2
<1>10. CASE TooLong \/ Parse BY <1>1, <1>2, <1>10 DEF TooLong, Parse, Apply
<1>11. CASE Account \/ FillCandidate \/ FillRecord BY <1>1, <1>2, <1>11 DEF Account, FillCandidate, FillRecord
<1>12. ASSUME NEW v, Check(v) PROVE Archiving' BY <1>1, <1>2, <1>12 DEF Check
<1>13. CASE ReuseVerdict BY <1>1, <1>2, <1>13 DEF ReuseVerdict, Apply, Down, files
<1>14. CASE Pause \/ Finish \/ Crash BY <1>14 DEF Pause, Finish, Crash, Down
<1>15. CASE ApplyAndSave BY <1>15 DEF ApplyAndSave
<1>16. CASE BeginEvaluation \/ CopyBest \/ SaveEvaluation BY <1>16 DEF BeginEvaluation, CopyBest, SaveEvaluation
<1>17. ASSUME NEW o, NEW lat, FinishEvaluation(o, lat) PROVE Archiving' BY <1>17 DEF FinishEvaluation
<1>18. ASSUME NEW flag, Start(flag) PROVE Archiving' BY <1>18 DEF Start
<1>19. ASSUME NEW d, Review(d) PROVE Archiving' BY <1>1, <1>2, <1>19 DEF Review, process, files
<1> QED
  BY <1>3, <1>4, <1>5, <1>6, <1>7, <1>8, <1>9, <1>10, <1>11, <1>12, <1>13, <1>14, <1>15, <1>16, <1>17, <1>18, <1>19
  DEF Next, Generation, Evaluation

LEMMA BookingKept ==
  ASSUME Control, Archive, Ledger, Next
  PROVE  Booking'
<1>0. pc \in Generating \/ (pc = "ready" /\ Durable!WantsGeneration(mem.rounds, mem.status)) => Cur \in Round
  BY CurWhenGenerating
<1>1. UNCHANGED overlong BY Writers
<1>2. UNCHANGED mem => Cur' = Cur BY DEF Cur
<1>3. \A r \in Round : ledger'[r] = 1 => Archived(r)' \/ r \in overlong'
  <2>1. CASE ledger' # ledger
    <3>1. UNCHANGED resp BY <2>1, Writers DEF TooLong, Account
    <3>2. ASSUME NEW r \in Round, ledger'[r] # ledger[r] PROVE r = Cur /\ (Archived(Cur) \/ Cur \in overlong)
      BY <2>1, <3>2, Writers
      DEF TooLong, Account, LedgerRowUnlessThere, LedgerRow, Archive, FilesOK, Archiving
    <3> QED BY <1>1, <3>1, <3>2 DEF Ledger, Booking, Archived
  <2>2. CASE ledger' = ledger
    <3>1. ASSUME NEW r \in Round, Archived(r) PROVE Archived(r)'
      BY <3>1, Writers DEF OpenArchive, FillArchive, Archive, FilesOK, Archiving, Requesting, Archived
    <3> QED BY <1>1, <2>2, <3>1 DEF Ledger, Booking
  <2> QED BY <2>1, <2>2
<1> DEFINE Here == /\ pc = "account" /\ answer \in Responses => ledger[Cur] = 0
                   /\ pc \in Judging => ledger[Cur] = 1
                   /\ pc = "apply" /\ verdict \notin {"transport_failed", "provider_refused"} => ledger[Cur] = 1
<1> SUFFICES Here' BY <1>3 DEF Booking
<1> USE DEF Judging
<1>4. Here BY DEF Ledger, Booking
<1>5. CASE TooLong
  <2>1. Cur \in Round /\ ledger'[Cur] = 1
    BY <1>0, <1>5 DEF TooLong, LedgerRowUnlessThere, LedgerHas, LedgerRow, Archive, FilesOK
  <2> QED BY <1>2, <1>5, <2>1 DEF TooLong, Apply
<1>6. CASE FillArchive
  <2>1. Cur \in Round /\ resp[Cur] = "torn" /\ Cur \notin overlong
    BY <1>0, <1>6 DEF FillArchive, Archive, Archiving, Generating, Requesting
  <2>2. ledger[Cur] = 0 BY <2>1 DEF Ledger, Booking, Archived, Archive, FilesOK
  <2> QED BY <1>2, <1>6, <2>2 DEF FillArchive
<1>7. CASE Account
  <2>1. Cur \in Round /\ ledger'[Cur] = 1
    BY <1>0, <1>4, <1>7
    DEF Account, LedgerRowUnlessThere, LedgerHas, LedgerRow, Archive, FilesOK, Generating
  <2> QED BY <1>2, <1>7, <2>1 DEF Account
<1>8. CASE ReuseArchive
  <2>1. pc' \in {"down", "account"} /\ (pc' = "account" => answer' = NoAnswer)
    BY <1>8 DEF ReuseArchive, Down, Archive, Archiving, Generating, Requesting
  <2>2. NoAnswer \notin Responses BY DEF NoAnswer, Responses
  <2> QED BY <2>1, <2>2
<1>9. CASE Parse \/ RecordAnswer BY <1>2, <1>4, <1>9 DEF Parse, RecordAnswer, Apply
<1>10. CASE FillCandidate \/ FillRecord BY <1>2, <1>4, <1>10 DEF FillCandidate, FillRecord
<1>11. ASSUME NEW v, Check(v) PROVE Here' BY <1>2, <1>4, <1>11 DEF Check
<1>12. CASE ReuseVerdict BY <1>2, <1>4, <1>12 DEF ReuseVerdict, Apply, Down, files
<1>13. CASE BeginRequest \/ Send \/ OpenArchive \/ Pause \/ Finish \/ Crash \/ ApplyAndSave \/ BeginEvaluation \/ CopyBest
            \/ SaveEvaluation
  BY <1>13
  DEF BeginRequest, Send, OpenArchive, Pause, Finish, Crash, ApplyAndSave, BeginEvaluation, CopyBest, SaveEvaluation, Down
<1>14. ASSUME NEW a, NEW charge, Answer(a, charge) PROVE Here' BY <1>14 DEF Answer
<1>15. ASSUME NEW o, NEW lat, FinishEvaluation(o, lat) PROVE Here' BY <1>15 DEF FinishEvaluation
<1>16. ASSUME NEW flag, Start(flag) PROVE Here' BY <1>16 DEF Start
<1>17. ASSUME NEW d, Review(d) PROVE Here' BY <1>2, <1>4, <1>17 DEF Review, process, files
<1> QED
  BY <1>5, <1>6, <1>7, <1>8, <1>9, <1>10, <1>11, <1>12, <1>13, <1>14, <1>15, <1>16, <1>17
  DEF Next, Generation, Evaluation
-----------------------------------------------------------------------------
(* What a step does to the rounds of trajectory.json *)

OldVerdict(i) == disk.rounds[i].verdict
NewVerdict(i) == disk'.rounds[i].verdict
NewStatus(i) == disk'.rounds[i].status

Attempted(i) ==
  /\ ApplyAndSave /\ i = Cur
  /\ NewVerdict(i) = verdict /\ NewStatus(i) = Durable!AttemptRoundStatus(verdict)
  /\ i \in DOMAIN disk.rounds => OldVerdict(i) = Durable!NoAttempt
Reviewed(i) ==
  /\ \E d \in {"compliant", "violation"} : Review(d)
  /\ i \in DOMAIN disk.rounds /\ OldVerdict(i) = "review_required"
  /\ \/ NewVerdict(i) = "clear" /\ NewStatus(i) = "pending"
     \/ NewVerdict(i) = "confirmed_violation" /\ NewStatus(i) = "contract_violation"
Restarted(i) ==
  /\ \E flag \in {"retry", "reopen"} : Start(flag)
  /\ i \in DOMAIN disk.rounds /\ NewStatus(i) = "pending"
  /\ \/ NewVerdict(i) = OldVerdict(i) /\ OldVerdict(i) = "clear"
     \/ NewVerdict(i) = Durable!NoAttempt /\ OldVerdict(i) \in {"transport_failed", "provider_refused"}
Measured(i) ==
  /\ SaveEvaluation
  /\ i \in DOMAIN disk.rounds /\ i = Durable!NextRound(disk.rounds) /\ disk'.rounds[i] = mem.rounds[i]
  /\ OldVerdict(i) \in Durable!Evaluable
  /\ NewStatus(i) # "pending"
  /\ NewVerdict(i) = OldVerdict(i) \/ (NewVerdict(i) = "confirmed_violation" /\ NewStatus(i) = "contract_violation")

\* A round of a trajectory is one of the protocol's.
LEMMA RoundsAre ==
  ASSUME DP!IInv
  PROVE  /\ disk.rounds \in Seq(DP!RoundRecord) /\ DOMAIN disk.rounds = 1..Len(disk.rounds)
         /\ DOMAIN disk.rounds \subseteq Round /\ Len(disk.rounds) \in Nat
         /\ \A i \in DOMAIN disk.rounds : disk.rounds[i] \in DP!RoundRecord /\ DP!Matching(disk.rounds[i])
BY SameAssumptions DEF DP!IInv, DP!TypeOK, DP!RoundsInOrder, DP!AttemptMatchesRound, Round

LEMMA OutcomeIs ==
  ASSUME NEW rec \in DP!RoundRecord, NEW o \in Durable!Outcomes, NEW lat
  PROVE  /\ Durable!EvaluatedRound(rec, o, lat).status = IF o = "bad_suite" THEN "timing_error" ELSE o
         /\ Durable!EvaluatedRound(rec, o, lat).status # "pending"
         /\ Durable!EvaluatedRound(rec, o, lat).verdict = IF o = "contract_violation" THEN "confirmed_violation" ELSE rec.verdict
BY SameAssumptions DEF Durable!EvaluatedRound, DP!RoundRecord, Durable!Outcomes, DP!OrdinaryFailures

\* A step changes the last round only, and only in these ways.
LEMMA RecordSteps ==
  ASSUME Control, Next
  PROVE  /\ DOMAIN disk.rounds \subseteq DOMAIN disk'.rounds
         /\ \A i \in DOMAIN disk'.rounds :
              \/ i \in DOMAIN disk.rounds /\ disk'.rounds[i] = disk.rounds[i]
              \/ Attempted(i) \/ Reviewed(i) \/ Restarted(i) \/ Measured(i)
<1> DEFINE rs == disk.rounds
           new == disk'.rounds
           Goal == /\ DOMAIN rs \subseteq DOMAIN new
                   /\ \A i \in DOMAIN new :
                        \/ i \in DOMAIN rs /\ new[i] = rs[i]
                        \/ Attempted(i) \/ Reviewed(i) \/ Restarted(i) \/ Measured(i)
<1> SUFFICES Goal OBVIOUS
<1>1. /\ rs \in Seq(DP!RoundRecord) /\ DOMAIN rs = 1..Len(rs) /\ Len(rs) \in Nat
      /\ \A i \in DOMAIN rs : rs[i] \in DP!RoundRecord /\ DP!Matching(rs[i])
  BY RoundsAre DEF Control
<1>2. DOMAIN disk = Fields BY DEF Control, Held
<1>3. CASE UNCHANGED disk BY <1>3
<1>4. ASSUME NEW rec, rs # <<>>, new = Durable!ReplaceLast(rs, rec)
      PROVE  /\ DOMAIN new = DOMAIN rs /\ Len(rs) \in DOMAIN rs /\ new[Len(rs)] = rec /\ rs[Len(rs)] = Durable!LastOf(rs)
             /\ \A i \in DOMAIN rs : i # Len(rs) => new[i] = rs[i]
  BY <1>1, <1>4 DEF Durable!ReplaceLast, Durable!LastOf
<1>5. ASSUME NEW d \in {"compliant", "violation"}, Review(d) PROVE Goal
  <2>1. Durable!CanReview(rs) /\ new = Durable!WithReview(rs, d) BY <1>2, <1>5 DEF Review, Fields
  <2>2. rs # <<>> /\ Durable!LastOf(rs).status = "review_required" BY <2>1 DEF Durable!CanReview
  <2>3. PICK rec : /\ new = Durable!ReplaceLast(rs, rec)
                   /\ rec = IF d = "compliant" THEN [Durable!LastOf(rs) EXCEPT !.verdict = "clear", !.status = "pending"]
                            ELSE [Durable!LastOf(rs) EXCEPT !.verdict = "confirmed_violation", !.status = "contract_violation"]
    BY <2>1 DEF Durable!WithReview
  <2>4. Durable!LastOf(rs) \in DP!RoundRecord /\ DP!Matching(Durable!LastOf(rs)) BY <1>1, <1>4, <2>2, <2>3
  <2>5. \/ rec.verdict = "clear" /\ rec.status = "pending"
        \/ rec.verdict = "confirmed_violation" /\ rec.status = "contract_violation"
    BY <2>3, <2>4 DEF DP!RoundRecord
  <2>6. Durable!LastOf(rs).verdict = "review_required" BY <2>2, <2>4 DEF DP!Matching
  <2>7. Reviewed(Len(rs)) BY <1>4, <1>5, <2>2, <2>3, <2>5, <2>6 DEF Reviewed, OldVerdict, NewVerdict, NewStatus
  <2> QED BY <1>4, <2>2, <2>3, <2>7
<1>6. ASSUME NEW flag \in {"resume", "retry", "reopen"}, Start(flag) PROVE Goal
  <2>1. disk' = Reopened(disk, flag) /\ MayReopen(disk, flag) BY <1>6 DEF Start
  <2>2. CASE flag = "resume" BY <1>3, <2>1, <2>2 DEF Reopened
  <2>3. CASE flag = "retry"
    <3>1. new = Durable!WithRetry(rs) /\ Durable!CanRetry(rs, disk.status) BY <1>2, <2>1, <2>3 DEF Reopened, MayReopen, Fields
    <3>2. rs # <<>> /\ Durable!LastOf(rs).verdict = "clear" BY <3>1 DEF Durable!CanRetry, Durable!LastIncomplete
    <3>3. PICK rec : new = Durable!ReplaceLast(rs, rec) /\ rec = [Durable!LastOf(rs) EXCEPT !.status = "pending"]
      BY <3>1 DEF Durable!WithRetry
    <3>4. Durable!LastOf(rs) \in DP!RoundRecord BY <1>1, <1>4, <3>2, <3>3
    <3>5. rec.status = "pending" /\ rec.verdict = "clear" BY <3>2, <3>3, <3>4 DEF DP!RoundRecord
    <3>6. Restarted(Len(rs))
      BY <1>4, <1>6, <2>3, <3>2, <3>3, <3>5 DEF Restarted, OldVerdict, NewVerdict, NewStatus
    <3> QED BY <1>4, <3>2, <3>3, <3>6
  <2>4. CASE flag = "reopen"
    <3>1. new = Durable!WithReopen(rs) /\ Durable!CanReopen(rs, disk.status) BY <1>2, <2>1, <2>4 DEF Reopened, MayReopen, Fields
    <3>2. rs # <<>> /\ Durable!LastOf(rs).verdict \in {"transport_failed", "provider_refused"}
      BY <3>1 DEF Durable!CanReopen, Durable!LastIncomplete
    <3>3. PICK rec : /\ new = Durable!ReplaceLast(rs, rec)
                     /\ rec = [Durable!LastOf(rs) EXCEPT !.status = "pending", !.verdict = Durable!NoAttempt]
      BY <3>1 DEF Durable!WithReopen
    <3>4. Durable!LastOf(rs) \in DP!RoundRecord BY <1>1, <1>4, <3>2, <3>3
    <3>5. rec.status = "pending" /\ rec.verdict = Durable!NoAttempt BY <3>3, <3>4 DEF DP!RoundRecord
    <3>6. Restarted(Len(rs))
      BY <1>4, <1>6, <2>4, <3>2, <3>3, <3>5 DEF Restarted, OldVerdict, NewVerdict, NewStatus
    <3> QED BY <1>4, <3>2, <3>3, <3>6
  <2> QED BY <2>2, <2>3, <2>4
<1>7. CASE SaveEvaluation
  <2>1. Durable!WantsEvaluation(rs, disk.status) /\ disk' = mem BY <1>7 DEF SaveEvaluation, Control, Held
  <2>2. PICK o \in Durable!Outcomes, lat \in Latencies : EvaluationOf(o, lat) BY <1>7 DEF SaveEvaluation, Control, Held
  <2>3. rs # <<>> /\ Durable!HasPending(rs) /\ Durable!LastOf(rs).verdict \in Durable!Evaluable
    BY <2>1 DEF Durable!WantsEvaluation, Durable!HasPending
  <2>4. new = Durable!ReplaceLast(rs, Durable!EvaluatedRound(Durable!LastOf(rs), o, lat)) /\ new = mem.rounds
    BY <2>1, <2>2 DEF EvaluationOf, Durable!WithEvaluation
  <2>5. Durable!LastOf(rs) \in DP!RoundRecord BY <1>1, <1>4, <2>3, <2>4
  <2>6. Durable!NextRound(rs) = Len(rs) BY <2>1, <2>3, CurIsARound DEF Control
  <2>7. /\ rs[Len(rs)] = Durable!LastOf(rs) /\ Len(rs) \in DOMAIN rs
        /\ new[Len(rs)] = Durable!EvaluatedRound(Durable!LastOf(rs), o, lat)
    BY <1>4, <2>3, <2>4
  <2>8. /\ new[Len(rs)].status # "pending"
        /\ \/ new[Len(rs)].verdict = rs[Len(rs)].verdict
           \/ new[Len(rs)].verdict = "confirmed_violation" /\ new[Len(rs)].status = "contract_violation"
    BY <2>5, <2>7, OutcomeIs
  <2>9. Measured(Len(rs))
    BY <1>7, <2>1, <2>3, <2>6, <2>7, <2>8 DEF Measured, OldVerdict, NewVerdict, NewStatus
  <2> QED BY <1>4, <2>3, <2>4, <2>9
<1>8. CASE ApplyAndSave
  <2> DEFINE opened == Durable!Opened(rs, Durable!NextRound(rs))
             rec == [Durable!LastOf(opened) EXCEPT !.verdict = verdict, !.status = Durable!AttemptRoundStatus(verdict)]
  <2>1. mem = disk /\ Durable!WantsGeneration(rs, disk.status)
    BY <1>8 DEF ApplyAndSave, Control, Held, Generating
  <2>2. new = Durable!ReplaceLast(opened, rec) BY <1>2, <1>8, <2>1 DEF ApplyAndSave, Fields, Durable!WithAttempt
  <2>3. CASE Durable!HasPending(rs)
    <3>1. rs # <<>> /\ opened = rs /\ Durable!LastOf(rs).verdict = Durable!NoAttempt
      BY <2>1, <2>3 DEF Durable!Opened, Durable!HasPending, Durable!WantsGeneration
    <3>2. Durable!LastOf(rs) \in DP!RoundRecord BY <1>1, <1>4, <2>2, <3>1
    <3>3. rec.verdict = verdict /\ rec.status = Durable!AttemptRoundStatus(verdict) BY <3>1, <3>2 DEF DP!RoundRecord
    <3>4. Cur = Len(rs) BY <2>1, <2>3, CurIsARound DEF Cur, Control
    <3> HIDE DEF rec, opened
    <3>5. Attempted(Len(rs))
      BY <1>4, <1>8, <2>2, <3>1, <3>3, <3>4 DEF Attempted, OldVerdict, NewVerdict, NewStatus
    <3> QED BY <1>4, <2>2, <3>1, <3>5
  <2>4. CASE ~Durable!HasPending(rs)
    <3>1. opened = Append(rs, Durable!NewRound(Durable!NextRound(rs))) BY <2>4 DEF Durable!Opened
    <3>2. Durable!LastOf(opened) = Durable!NewRound(Durable!NextRound(rs)) /\ Len(opened) = Len(rs) + 1
      BY <1>1, <3>1 DEF Durable!LastOf
    <3>3. rec.verdict = verdict /\ rec.status = Durable!AttemptRoundStatus(verdict) BY <3>2 DEF Durable!NewRound
    <3>4. Cur = Len(rs) + 1 BY <2>1, <2>4, CurIsARound DEF Cur, Control
    <3> HIDE DEF rec
    <3>5. /\ DOMAIN new = 1..(Len(rs) + 1) /\ new[Len(rs) + 1] = rec
          /\ \A i \in 1..Len(rs) : new[i] = rs[i]
      <4> DEFINE first == Durable!NewRound(Durable!NextRound(rs))
                 longer == Append(rs, first)
      <4>1. new = [longer EXCEPT ![Len(rs) + 1] = rec] BY <2>2, <3>1, <3>2 DEF Durable!ReplaceLast
      <4> HIDE DEF first
      <4>2. rs \in Seq(DP!RoundRecord \cup {first}) BY <1>1
      <4>3. /\ DOMAIN longer = 1..(Len(rs) + 1)
            /\ \A i \in 1..Len(rs) : longer[i] = rs[i]
        BY <1>1, <4>2
      <4> HIDE DEF longer, new
      <4>4. Len(rs) + 1 \in DOMAIN longer BY <1>1, <4>3
      <4>5. DOMAIN new = DOMAIN longer /\ new[Len(rs) + 1] = rec BY <4>1, <4>4
      <4>6. ASSUME NEW i \in 1..Len(rs) PROVE new[i] = rs[i]
        <5>1. i # Len(rs) + 1 /\ i \in DOMAIN longer BY <1>1, <4>3
        <5> QED BY <4>1, <4>3, <5>1
      <4> QED BY <4>3, <4>5, <4>6
    <3>6. Attempted(Len(rs) + 1)
      BY <1>1, <1>8, <3>3, <3>4, <3>5 DEF Attempted, OldVerdict, NewVerdict, NewStatus
    <3> QED BY <1>1, <3>5, <3>6
  <2> QED BY <2>3, <2>4
<1>9. pc \in {"ready", "request"} => mem = disk BY DEF Control, Held, Generating, Requesting
<1>10. CASE Finish \/ Crash BY <1>3, <1>9, <1>10 DEF Finish, Crash
<1>11. CASE Onward \/ Ends BY <1>3, <1>9, <1>11 DEF Onward, Ends
<1>12. CASE BeginEvaluation \/ CopyBest \/ \E o \in Durable!Outcomes, lat \in Latencies : FinishEvaluation(o, lat)
  BY <1>3, <1>12 DEF BeginEvaluation, CopyBest, FinishEvaluation
<1> QED BY <1>5, <1>6, <1>7, <1>8, <1>10, <1>11, <1>12, GenerationSteps DEF Next, Evaluation

LEMMA BookedKept ==
  ASSUME Control, Archive, Ledger, Next
  PROVE  Booked'
<1>1. ASSUME NEW r \in Round, ledger[r] = 1 PROVE ledger'[r] = 1
  <2>1. CASE TooLong BY <1>1, <2>1 DEF TooLong, LedgerRowUnlessThere, LedgerHas, LedgerRow, Archive, FilesOK
  <2>2. CASE Account
    BY <1>1, <2>2 DEF Account, LedgerRowUnlessThere, LedgerHas, LedgerRow, Archive, FilesOK, Ledger, Booking
  <2> QED BY <1>1, <2>1, <2>2, Writers
<1>2. {"clear", "audit_only", "review_required"} \cap Unbooked = {} BY DEF Unbooked, Durable!NoAttempt
<1>3. ASSUME NEW i \in DOMAIN disk'.rounds, NewVerdict(i) \notin Unbooked PROVE ledger'[i] = 1
  <2>1. i \in DOMAIN disk.rounds => i \in Round BY RoundsAre DEF Control
  <2>2. i \in DOMAIN disk.rounds /\ OldVerdict(i) \notin Unbooked => ledger'[i] = 1
    BY <1>1, <2>1 DEF Ledger, Booked, OldVerdict
  <2>3. CASE i \in DOMAIN disk.rounds /\ disk'.rounds[i] = disk.rounds[i]
    BY <1>3, <2>2, <2>3 DEF OldVerdict, NewVerdict
  <2>4. CASE Attempted(i)
    BY <1>3, <2>4 DEF Attempted, ApplyAndSave, files, Ledger, Booking, Unbooked
  <2>5. CASE Reviewed(i) BY <1>2, <2>2, <2>5 DEF Reviewed
  <2>6. CASE Restarted(i) BY <1>2, <1>3, <2>2, <2>6 DEF Restarted, Unbooked
  <2>7. CASE Measured(i) BY <1>2, <2>2, <2>7 DEF Measured, Durable!Evaluable
  <2> QED BY <2>3, <2>4, <2>5, <2>6, <2>7, RecordSteps
<1> QED BY <1>3 DEF Booked, NewVerdict

LEMMA NextArchive == Control /\ Archive /\ Ledger /\ [Next]_vars => Archive' /\ Ledger'
BY FilesKept, ArchivingKept, BookingKept, BookedKept, StutterArchive DEF Archive, Ledger

LEMMA ArchiveAlways == Spec => [](Control /\ Archive /\ Ledger)
<1>1. Init => Control /\ Archive /\ Ledger BY InitControl, InitArchive
<1>2. Control /\ Archive /\ Ledger /\ [Next]_vars => Control' /\ Archive' /\ Ledger'
  BY NextControl, NextArchive
<1> QED BY <1>1, <1>2, PTL DEF Spec

\* There is never a second ledger row for a round, none before its response is
\* archived, and none missing once the attempt is recorded.
THEOREM LedgerAlwaysMatches == Spec => []LedgerMatchesArchive
<1>1. Control /\ Archive /\ Ledger => LedgerMatchesArchive
  <2> SUFFICES ASSUME Control, Archive, Ledger, NEW r \in Round
               PROVE  /\ ledger[r] <= 1
                      /\ ledger[r] = 1 => resp[r] \in {"candidate", "malformed"} \/ r \in overlong
                      /\ Recorded(r) /\ disk.rounds[r].verdict \notin {"transport_failed", "provider_refused"}
                           => ledger[r] = 1
    BY DEF LedgerMatchesArchive
  <2>1. ledger[r] <= 1 BY DEF Archive, FilesOK
  <2>2. ledger[r] = 1 => resp[r] \in {"candidate", "malformed"} \/ r \in overlong BY DEF Ledger, Booking, Archived
  <2>3. Recorded(r) /\ disk.rounds[r].verdict \notin {"transport_failed", "provider_refused"} => ledger[r] = 1
    BY DEF Ledger, Booked, Unbooked, Recorded
  <2> QED BY <2>1, <2>2, <2>3
<1> QED BY <1>1, ArchiveAlways, PTL

\* A response that is archived, or being archived, is never paid for again.
THEOREM NeverASecondRequest == Spec => NoSecondRequest
<1> DEFINE A == \A r \in Round : resp[r] # "absent" => /\ billed'[r] = billed[r]
                                                       /\ Len(log'[r]) = Len(log[r])
                                                       /\ resp[r] # "torn" => resp'[r] = resp[r]
<1>1. ASSUME Control, Archive, Ledger, Next PROVE A
  <2> SUFFICES ASSUME NEW r \in Round, resp[r] # "absent"
               PROVE  /\ billed'[r] = billed[r]
                      /\ Len(log'[r]) = Len(log[r])
                      /\ resp[r] # "torn" => resp'[r] = resp[r]
    OBVIOUS
  <2> USE <1>1 DEF Archive, Archiving, Requesting
  <2>1. billed'[r] = billed[r]
    <3>1. CASE Crash BY <3>1 DEF Crash, FilesOK
    <3>2. ASSUME NEW a, NEW charge, Answer(a, charge) PROVE billed'[r] = billed[r] BY <3>2 DEF Answer, FilesOK
    <3> QED BY <3>1, <3>2, Writers
  <2>2. Len(log'[r]) = Len(log[r])
    <3>1. CASE log' # log
      <4>1. r = Cur => ~Send BY DEF Send
      <4>2. /\ Len(log'[Cur]) = Len(log[Cur]) \/ Send
            /\ log' = [log EXCEPT ![Cur] = log'[Cur]]
        BY <3>1, LogSteps DEF Logs
      <4> QED BY <4>1, <4>2 DEF FilesOK
    <3> QED BY <3>1
  <2>3. resp[r] # "torn" => resp'[r] = resp[r]
    BY Writers DEF OpenArchive, FillArchive, FilesOK
  <2> QED BY <2>1, <2>2, <2>3
<1>2. Control /\ Archive /\ Ledger /\ [Next]_vars => [A]_<<billed, log, resp>>
  BY <1>1 DEF vars, files, environment
<1> QED BY <1>2, ArchiveAlways, PTL DEF Spec, NoSecondRequest
-----------------------------------------------------------------------------
(* Evaluation revisions and what the state says of them *)

Evidences == Durable!Outcomes \cup {"started"}
StatusOf(e) == IF e = "bad_suite" THEN "timing_error" ELSE e

\* Verdicts of rounds that were never evaluated.
Unevaluated == {Durable!NoAttempt, "transport_failed", "provider_refused", "format_error", "review_required"}

\* The revision a state names last for a round is finished and says what its status says.
BackedIn(st) ==
  \A r \in Round : st.revs[r] # <<>> =>
    /\ r \in DOMAIN st.rounds /\ st.rounds[r].verdict \notin Unevaluated
    /\ Last(st.revs[r]) \in DOMAIN evals[r] /\ evals[r][Last(st.revs[r])] # "started"
    /\ st.rounds[r].status # "pending" => st.rounds[r].status = StatusOf(evals[r][Last(st.revs[r])])

Evidence ==
  /\ evals \in [Round -> Seq(Evidences)]
  /\ disk.revs \in [Round -> Seq(Nat)]
  /\ pc = "evaluating" => evals[Cur] # <<>> /\ evals[Cur][Len(evals[Cur])] = "started"
  /\ BackedIn(disk)
  /\ pc \in {"copy", "save"} => /\ mem.revs \in [Round -> Seq(Nat)]
                                /\ mem.revs[Durable!NextRound(disk.rounds)] # <<>>
                                /\ BackedIn(mem)

\* Where the process evaluates, its round is one of the protocol's.
LEMMA CurWhenEvaluating ==
  ASSUME Control, pc = "evaluating" \/ (pc = "ready" /\ Durable!WantsEvaluation(mem.rounds, mem.status))
  PROVE  /\ Cur \in Round /\ mem = disk /\ Durable!WantsEvaluation(disk.rounds, disk.status)
         /\ Cur = Len(disk.rounds) /\ disk.rounds # <<>>
<1>1. mem = disk /\ Durable!WantsEvaluation(disk.rounds, disk.status) BY DEF Control, Held
<1>2. Durable!HasPending(disk.rounds) BY <1>1 DEF Durable!WantsEvaluation
<1> QED BY <1>1, <1>2, CurIsARound DEF Control, Cur, Durable!HasPending

LEMMA WorkingIsLast ==
  ASSUME NEW r \in Round, evals[r] \in Seq(Evidences), evals[r] # <<>>, evals[r][Len(evals[r])] = "started"
  PROVE  Working(r) = Len(evals[r]) /\ Len(evals[r]) \in DOMAIN evals[r]
<1>1. Len(evals[r]) \in DOMAIN evals[r] /\ \A j \in DOMAIN evals[r] : j <= Len(evals[r]) OBVIOUS
<1>2. \A i \in DOMAIN evals[r] :
        evals[r][i] = "started" /\ (\A j \in DOMAIN evals[r] : evals[r][j] = "started" => j <= i) => i = Len(evals[r])
  BY <1>1
<1> QED BY <1>1, <1>2 DEF Working

\* The steps that write revisions: a new one, or the outcome of the newest.
LEMMA EvalSteps ==
  ASSUME Control, Evidence, Next, evals' # evals
  PROVE  /\ Cur \in Round /\ Cur = Len(disk.rounds) /\ disk.rounds # <<>> /\ UNCHANGED disk
         /\ \/ BeginEvaluation /\ evals' = [evals EXCEPT ![Cur] = Append(evals[Cur], "started")]
            \/ /\ pc = "evaluating" /\ evals[Cur][Len(evals[Cur])] = "started" /\ Len(evals[Cur]) \in DOMAIN evals[Cur]
               /\ \E o \in Durable!Outcomes, lat \in Latencies :
                    FinishEvaluation(o, lat) /\ evals' = [evals EXCEPT ![Cur] = [evals[Cur] EXCEPT ![Len(evals[Cur])] = o]]
<1>1. BeginEvaluation \/ \E o \in Durable!Outcomes, lat \in Latencies : FinishEvaluation(o, lat)
  BY DEF Next, Generation, Evaluation, Start, Finish, Crash, Review, TooLong, BeginRequest, Pause, Send, Answer,
     RecordAnswer, OpenArchive, FillArchive, Account, ReuseArchive, Parse, FillCandidate, ReuseVerdict, Check,
     FillRecord, ApplyAndSave, CopyBest, SaveEvaluation, files
<1>2. Cur \in Round /\ Cur = Len(disk.rounds) /\ disk.rounds # <<>>
  BY <1>1, CurWhenEvaluating DEF BeginEvaluation, FinishEvaluation
<1>3. evals[Cur] \in Seq(Evidences) BY <1>2 DEF Evidence
<1>4. CASE BeginEvaluation
  <2>1. NextRevision(Cur) \notin DOMAIN evals[Cur] BY <1>3 DEF NextRevision
  <2> QED BY <1>2, <1>4, <2>1 DEF BeginEvaluation
<1>5. ASSUME NEW o \in Durable!Outcomes, NEW lat \in Latencies, FinishEvaluation(o, lat)
      PROVE  /\ UNCHANGED disk /\ pc = "evaluating"
             /\ evals[Cur][Len(evals[Cur])] = "started" /\ Len(evals[Cur]) \in DOMAIN evals[Cur]
             /\ evals' = [evals EXCEPT ![Cur] = [evals[Cur] EXCEPT ![Len(evals[Cur])] = o]]
  <2>1. evals[Cur] # <<>> /\ evals[Cur][Len(evals[Cur])] = "started" BY <1>5 DEF FinishEvaluation, Evidence
  <2>2. Working(Cur) = Len(evals[Cur]) /\ Len(evals[Cur]) \in DOMAIN evals[Cur] BY <1>2, <1>3, <2>1, WorkingIsLast
  <2> QED BY <1>5, <2>1, <2>2 DEF FinishEvaluation
<1> QED BY <1>1, <1>2, <1>4, <1>5

LEMMA EvidenceStays ==
  ASSUME Control, Evidence, Next
  PROVE  /\ evals' \in [Round -> Seq(Evidences)]
         /\ \A r \in Round : DOMAIN evals[r] \subseteq DOMAIN evals'[r] /\ Len(evals'[r]) >= Len(evals[r])
         /\ \A r \in Round : \A i \in DOMAIN evals[r] : evals'[r][i] # evals[r][i] =>
              i = Len(evals[r]) /\ pc = "evaluating" /\ r = Cur /\ evals[r][i] = "started"
<1>1. evals \in [Round -> Seq(Evidences)] BY DEF Evidence
<1>2. CASE evals' = evals
  <2>1. \A r \in Round : Len(evals[r]) \in Nat BY <1>1
  <2> QED BY <1>1, <1>2, <2>1
<1>3. CASE evals' # evals
  <2>0. Cur \in Round BY <1>3, EvalSteps
  <2> DEFINE s == evals[Cur]
  <2>1. s \in Seq(Evidences) /\ "started" \in Evidences BY <1>1, <2>0 DEF Evidences
  <2>2. CASE evals' = [evals EXCEPT ![Cur] = Append(s, "started")]
    <3>1. /\ Append(s, "started") \in Seq(Evidences) /\ Len(Append(s, "started")) = Len(s) + 1
          /\ DOMAIN s = 1..Len(s) /\ DOMAIN Append(s, "started") = 1..(Len(s) + 1) /\ Len(s) \in Nat
          /\ \A i \in DOMAIN s : Append(s, "started")[i] = s[i]
      BY <2>1
    <3>2. /\ evals'[Cur] = Append(s, "started") /\ \A r \in Round : r # Cur => evals'[r] = evals[r]
          /\ evals' \in [Round -> Seq(Evidences)]
      BY <1>1, <2>0, <2>2, <3>1
    <3>3. \A r \in Round : Len(evals[r]) \in Nat BY <1>1
    <3> HIDE DEF s
    <3> QED BY <3>1, <3>2, <3>3 DEF s
  <2>3. ASSUME pc = "evaluating", s[Len(s)] = "started", Len(s) \in DOMAIN s,
               NEW o \in Durable!Outcomes, evals' = [evals EXCEPT ![Cur] = [s EXCEPT ![Len(s)] = o]]
        PROVE  /\ evals' \in [Round -> Seq(Evidences)]
               /\ \A r \in Round : DOMAIN evals[r] \subseteq DOMAIN evals'[r] /\ Len(evals'[r]) >= Len(evals[r])
               /\ \A r \in Round : \A i \in DOMAIN evals[r] : evals'[r][i] # evals[r][i] =>
                    i = Len(evals[r]) /\ pc = "evaluating" /\ r = Cur /\ evals[r][i] = "started"
    <3>1. /\ [s EXCEPT ![Len(s)] = o] \in Seq(Evidences) /\ Len([s EXCEPT ![Len(s)] = o]) = Len(s)
          /\ DOMAIN [s EXCEPT ![Len(s)] = o] = DOMAIN s
          /\ \A i \in DOMAIN s : i # Len(s) => [s EXCEPT ![Len(s)] = o][i] = s[i]
      BY <2>1, <2>3 DEF Evidences
    <3>2. /\ evals'[Cur] = [s EXCEPT ![Len(s)] = o] /\ \A r \in Round : r # Cur => evals'[r] = evals[r]
          /\ evals' \in [Round -> Seq(Evidences)]
      BY <1>1, <2>0, <2>3, <3>1
    <3>3. \A r \in Round : Len(evals[r]) \in Nat BY <1>1
    <3> HIDE DEF s
    <3> QED BY <2>3, <3>1, <3>2, <3>3 DEF s
  <2> QED BY <1>3, <2>2, <2>3, EvalSteps
<1> QED BY <1>2, <1>3

\* Which steps change the revisions and the costs of the saved state.
LEMMA StateSteps ==
  ASSUME Control, Next, ~SaveEvaluation
  PROVE  /\ disk'.revs = disk.revs
         /\ disk'.cost # disk.cost =>
              \/ /\ ApplyAndSave
                 /\ disk'.cost = [disk.cost EXCEPT ![Cur] = IF Cur \in overlong THEN [status |-> "not_sent", tokens |-> 0]
                                                            ELSE AttemptCost(log[Cur])]
              \/ /\ Start("reopen") /\ Durable!CanReopen(disk.rounds, disk.status)
                 /\ disk'.cost = [disk.cost EXCEPT ![Durable!LastOf(disk.rounds).round] = NoCost]
<1>1. DOMAIN disk = Fields BY DEF Control, Held
<1>2. pc \in {"ready", "request"} => mem = disk BY DEF Control, Held, Generating, Requesting
<1> DEFINE Goal == /\ disk'.revs = disk.revs
                   /\ disk'.cost # disk.cost =>
                        \/ /\ ApplyAndSave
                           /\ disk'.cost = [disk.cost EXCEPT ![Cur] = IF Cur \in overlong
                                                                      THEN [status |-> "not_sent", tokens |-> 0]
                                                                      ELSE AttemptCost(log[Cur])]
                        \/ /\ Start("reopen") /\ Durable!CanReopen(disk.rounds, disk.status)
                           /\ disk'.cost = [disk.cost EXCEPT ![Durable!LastOf(disk.rounds).round] = NoCost]
<1>3. CASE disk' = disk BY <1>3
<1>4. ASSUME NEW d, Review(d) PROVE Goal BY <1>1, <1>4 DEF Review, Fields
<1>5. ASSUME NEW flag \in {"resume", "retry", "reopen"}, Start(flag) PROVE Goal
  <2>1. disk' = Reopened(disk, flag) /\ MayReopen(disk, flag) BY <1>5 DEF Start
  <2>2. CASE flag = "resume" BY <1>3, <2>1, <2>2 DEF Reopened
  <2>3. CASE flag = "retry" BY <1>1, <2>1, <2>3 DEF Reopened, Fields
  <2>4. CASE flag = "reopen" BY <1>1, <1>5, <2>1, <2>4 DEF Reopened, MayReopen, Fields
  <2> QED BY <2>2, <2>3, <2>4
<1>6. CASE ApplyAndSave
  <2>1. mem = disk BY <1>6 DEF ApplyAndSave, Control, Held, Generating
  <2>2. disk'.revs = disk.revs /\ disk'.cost = [disk.cost EXCEPT ![Cur] = IF Cur \in overlong
                                                          THEN [status |-> "not_sent", tokens |-> 0]
                                                          ELSE AttemptCost(log[Cur])]
    BY <1>1, <1>6, <2>1 DEF ApplyAndSave, Fields
  <2> QED BY <1>6, <2>2
<1>7. CASE Onward \/ Ends BY <1>2, <1>3, <1>7 DEF Onward, Ends
<1>8. CASE Finish \/ Crash BY <1>2, <1>3, <1>8 DEF Finish, Crash
<1>9. CASE BeginEvaluation \/ CopyBest \/ \E o \in Durable!Outcomes, lat \in Latencies : FinishEvaluation(o, lat)
  BY <1>3, <1>9 DEF BeginEvaluation, CopyBest, FinishEvaluation
<1>10. Goal BY <1>4, <1>5, <1>6, <1>7, <1>8, <1>9, GenerationSteps DEF Next, Evaluation
<1> QED BY <1>10

\* A finished revision stays what it is.
LEMMA BackedStays ==
  ASSUME Control, Evidence, Next, NEW r \in Round, NEW i \in DOMAIN evals[r], evals[r][i] # "started"
  PROVE  i \in DOMAIN evals'[r] /\ evals'[r][i] = evals[r][i]
BY EvidenceStays

LEMMA BackedKept ==
  ASSUME Control, Evidence, Next
  PROVE  BackedIn(disk)'
<1>1. CASE SaveEvaluation
  <2>1. BackedIn(mem) /\ disk' = mem /\ evals' = evals BY <1>1 DEF SaveEvaluation, Evidence, files
  <2> QED BY <2>1 DEF BackedIn
<1>2. CASE ~SaveEvaluation
  <2>1. disk'.revs = disk.revs BY <1>2, StateSteps
  <2>2. ASSUME NEW r \in Round, disk.revs[r] # <<>>
        PROVE  /\ r \in DOMAIN disk'.rounds /\ NewVerdict(r) \notin Unevaluated
               /\ Last(disk.revs[r]) \in DOMAIN evals'[r] /\ evals'[r][Last(disk.revs[r])] # "started"
               /\ NewStatus(r) # "pending" => NewStatus(r) = StatusOf(evals'[r][Last(disk.revs[r])])
    <3>1. /\ r \in DOMAIN disk.rounds /\ OldVerdict(r) \notin Unevaluated
          /\ Last(disk.revs[r]) \in DOMAIN evals[r] /\ evals[r][Last(disk.revs[r])] # "started"
          /\ disk.rounds[r].status # "pending" => disk.rounds[r].status = StatusOf(evals[r][Last(disk.revs[r])])
      BY <2>2 DEF Evidence, BackedIn, OldVerdict
    <3>2. Last(disk.revs[r]) \in DOMAIN evals'[r] /\ evals'[r][Last(disk.revs[r])] = evals[r][Last(disk.revs[r])]
      BY <3>1, BackedStays
    <3>3. r \in DOMAIN disk'.rounds BY <3>1, RecordSteps
    <3>4. CASE disk'.rounds[r] = disk.rounds[r]
      BY <3>1, <3>2, <3>3, <3>4 DEF OldVerdict, NewVerdict, NewStatus
    <3>5. ~Attempted(r) BY <3>1 DEF Attempted, Unevaluated
    <3>6. ~Reviewed(r) BY <3>1 DEF Reviewed, Unevaluated
    <3>7. CASE Restarted(r)
      BY <3>1, <3>2, <3>3, <3>7 DEF Restarted, Unevaluated, Durable!NoAttempt
    <3>8. ~Measured(r) BY <1>2 DEF Measured
    <3> QED BY <3>3, <3>4, <3>5, <3>6, <3>7, <3>8, RecordSteps
  <2> QED BY <2>1, <2>2 DEF BackedIn, NewVerdict, NewStatus
<1> QED BY <1>1, <1>2

\* The result in memory is the one whose revision it adds.
LEMMA FinishedIsBacked ==
  ASSUME Control, Evidence, Next, NEW o \in Durable!Outcomes, NEW lat \in Latencies, FinishEvaluation(o, lat)
  PROVE  /\ mem'.revs \in [Round -> Seq(Nat)]
         /\ mem'.revs[Durable!NextRound(disk'.rounds)] # <<>>
         /\ BackedIn(mem)'
<1> DEFINE s == evals[Cur]
           n == Len(s)
           rec == Durable!EvaluatedRound(Durable!LastOf(disk.rounds), o, lat)
<1>0. pc = "evaluating" /\ UNCHANGED disk BY DEF FinishEvaluation
<1>1. /\ Cur \in Round /\ mem = disk /\ Cur = Len(disk.rounds) /\ disk.rounds # <<>>
      /\ Durable!LastOf(disk.rounds).verdict \in Durable!Evaluable
  BY <1>0, CurWhenEvaluating DEF Durable!WantsEvaluation
<1>2. s \in Seq(Evidences) /\ s # <<>> /\ s[n] = "started" BY <1>0, <1>1 DEF Evidence
<1>3. Working(Cur) = n /\ n \in DOMAIN s /\ n \in Nat BY <1>1, <1>2, WorkingIsLast
<1>4. evals' = [evals EXCEPT ![Cur] = [s EXCEPT ![n] = o]] BY <1>3 DEF FinishEvaluation
<1>5. evals'[Cur] = [s EXCEPT ![n] = o] /\ \A r \in Round : r # Cur => evals'[r] = evals[r]
  BY <1>1, <1>4 DEF Evidence
<1>6. n \in DOMAIN evals'[Cur] /\ evals'[Cur][n] = o
  <2> HIDE DEF s, n
  <2> QED BY <1>2, <1>3, <1>5
<1>7. DOMAIN mem = Fields /\ mem.revs \in [Round -> Seq(Nat)] BY <1>1 DEF Control, Held, Evidence
<1>8. mem'.rounds = Durable!ReplaceLast(disk.rounds, rec) BY <1>1, <1>7 DEF FinishEvaluation, Fields, Durable!WithEvaluation
<1>9. mem'.revs = [mem.revs EXCEPT ![Cur] = Append(mem.revs[Cur], n)]
  BY <1>3, <1>7 DEF FinishEvaluation, Fields, RevisionsWith
<1>10. /\ mem'.revs \in [Round -> Seq(Nat)] /\ mem'.revs[Cur] = Append(mem.revs[Cur], n)
       /\ \A r \in Round : r # Cur => mem'.revs[r] = disk.revs[r]
  <2> HIDE DEF n
  <2>1. Append(mem.revs[Cur], n) \in Seq(Nat) BY <1>1, <1>3, <1>7
  <2> QED BY <1>1, <1>7, <1>9, <2>1
<1>11. Append(mem.revs[Cur], n) # <<>> /\ Last(Append(mem.revs[Cur], n)) = n
  <2> HIDE DEF n
  <2>1. mem.revs[Cur] \in Seq(Nat) BY <1>1, <1>7
  <2> QED BY <1>3, <2>1 DEF Last
<1>12. /\ DOMAIN mem'.rounds = DOMAIN disk.rounds /\ Cur \in DOMAIN disk.rounds /\ mem'.rounds[Cur] = rec
       /\ \A i \in DOMAIN disk.rounds : i # Cur => mem'.rounds[i] = disk.rounds[i]
       /\ Durable!LastOf(disk.rounds) \in DP!RoundRecord
  <2>1. disk.rounds \in Seq(DP!RoundRecord) BY RoundsAre DEF Control
  <2> HIDE DEF rec
  <2> QED BY <1>1, <1>8, <2>1 DEF Durable!ReplaceLast, Durable!LastOf
<1>13. rec.status = StatusOf(o) /\ rec.verdict \notin Unevaluated /\ o # "started"
  <2>1. o # "started" BY SameAssumptions DEF Durable!Outcomes, DP!OrdinaryFailures
  <2>2. /\ rec.status = IF o = "bad_suite" THEN "timing_error" ELSE o
        /\ rec.verdict = IF o = "contract_violation" THEN "confirmed_violation" ELSE Durable!LastOf(disk.rounds).verdict
    BY <1>12, OutcomeIs
  <2> QED BY <1>1, <2>1, <2>2 DEF StatusOf, Unevaluated, Durable!Evaluable, Durable!NoAttempt
<1> HIDE DEF rec, n, s
<1>14. ASSUME NEW r \in Round, mem'.revs[r] # <<>>
       PROVE  /\ r \in DOMAIN mem'.rounds /\ mem'.rounds[r].verdict \notin Unevaluated
              /\ Last(mem'.revs[r]) \in DOMAIN evals'[r] /\ evals'[r][Last(mem'.revs[r])] # "started"
              /\ mem'.rounds[r].status # "pending" => mem'.rounds[r].status = StatusOf(evals'[r][Last(mem'.revs[r])])
  <2>1. CASE r = Cur BY <1>6, <1>10, <1>11, <1>12, <1>13, <2>1
  <2>2. CASE r # Cur
    <3>1. mem'.revs[r] = disk.revs[r] /\ evals'[r] = evals[r] BY <1>5, <1>10, <2>2
    <3>2. BackedIn(disk) /\ disk.revs[r] # <<>> BY <1>14, <3>1 DEF Evidence
    <3> QED BY <1>12, <2>2, <3>1, <3>2 DEF BackedIn
  <2> QED BY <2>1, <2>2
<1>15. BackedIn(mem)' BY <1>14 DEF BackedIn
<1>16. Durable!NextRound(disk'.rounds) = Cur BY <1>0, <1>1 DEF Cur
<1> QED BY <1>10, <1>11, <1>15, <1>16

\* A result in memory that is not saved comes from an evaluation.
LEMMA UnsavedIsEvaluated ==
  ASSUME Control, Next, pc' \in {"copy", "save"}
  PROVE  CopyBest \/ \E o \in Durable!Outcomes, lat \in Latencies : FinishEvaluation(o, lat)
BY DEF Next, Generation, Evaluation, Start, Finish, Crash, Review, TooLong, BeginRequest, Pause, Send, Answer, RecordAnswer,
       OpenArchive, FillArchive, Account, ReuseArchive, Parse, FillCandidate, ReuseVerdict, Check, FillRecord,
       ApplyAndSave, BeginEvaluation, SaveEvaluation, process, Down, Apply, Control, Held

LEMMA EvidenceKept ==
  ASSUME Control, Evidence, Next
  PROVE  Evidence'
<1>1. evals' \in [Round -> Seq(Evidences)] BY EvidenceStays
<1>2. disk'.revs \in [Round -> Seq(Nat)]
  BY StateSteps DEF SaveEvaluation, Evidence
<1>3. pc' = "evaluating" => evals'[Cur'] # <<>> /\ evals'[Cur'][Len(evals'[Cur'])] = "started"
  <2>1. ASSUME pc' = "evaluating" PROVE BeginEvaluation
    BY <2>1
    DEF Next, Generation, Evaluation, Start, Finish, Crash, Review, TooLong, BeginRequest, Pause, Send, Answer,
        RecordAnswer, OpenArchive, FillArchive, Account, ReuseArchive, Parse, FillCandidate, ReuseVerdict, Check,
        FillRecord, ApplyAndSave, FinishEvaluation, CopyBest, SaveEvaluation, process, Down, Apply, Control, Held
  <2>2. ASSUME BeginEvaluation PROVE evals'[Cur'] # <<>> /\ evals'[Cur'][Len(evals'[Cur'])] = "started"
    <3>1. Cur \in Round /\ Cur' = Cur BY <2>2, CurWhenEvaluating DEF BeginEvaluation, Cur
    <3>2. evals[Cur] \in Seq(Evidences) /\ "started" \in Evidences BY <3>1 DEF Evidence, Evidences
    <3>3. NextRevision(Cur) \notin DOMAIN evals[Cur] BY <3>2 DEF NextRevision
    <3>4. evals'[Cur] = Append(evals[Cur], "started") BY <2>2, <3>1, <3>3 DEF BeginEvaluation, Evidence
    <3> QED BY <3>1, <3>2, <3>4
  <2> QED BY <2>1, <2>2
<1>4. BackedIn(disk)' BY BackedKept
<1>5. pc' \in {"copy", "save"} => /\ mem'.revs \in [Round -> Seq(Nat)]
                                  /\ mem'.revs[Durable!NextRound(disk'.rounds)] # <<>>
                                  /\ BackedIn(mem)'
  <2>1. ASSUME pc' \in {"copy", "save"}
        PROVE  CopyBest \/ \E o \in Durable!Outcomes, lat \in Latencies : FinishEvaluation(o, lat)
    BY <2>1, UnsavedIsEvaluated
  <2>2. CASE CopyBest BY <2>2 DEF CopyBest, Evidence, BackedIn
  <2> QED BY <2>1, <2>2, FinishedIsBacked
<1> QED BY <1>1, <1>2, <1>3, <1>4, <1>5 DEF Evidence

LEMMA InitEvidence == Init => Evidence
<1> SUFFICES ASSUME Init PROVE Evidence OBVIOUS
<1>1. evals \in [Round -> Seq(Evidences)] /\ disk.revs \in [Round -> Seq(Nat)] BY DEF Init, NewState
<1>2. BackedIn(disk) BY DEF Init, NewState, BackedIn
<1>3. pc = "down" BY DEF Init
<1> QED BY <1>1, <1>2, <1>3 DEF Evidence

LEMMA NextEvidence == Control /\ Evidence /\ [Next]_vars => Evidence'
<1>1. Evidence /\ UNCHANGED vars => Evidence' BY DEF Evidence, BackedIn, Cur, vars, process, files
<1> QED BY <1>1, EvidenceKept

LEMMA EvidenceAlways == Spec => [](Control /\ Evidence)
<1>1. Init => Control /\ Evidence BY InitControl, InitEvidence
<1>2. Control /\ Evidence /\ [Next]_vars => Control' /\ Evidence' BY NextControl, NextEvidence
<1> QED BY <1>1, <1>2, PTL DEF Spec

\* What the state says of an evaluated round is what its newest listed revision says.
THEOREM EvidenceAlwaysBacks == Spec => []EvidenceBacksResult
<1>1. Control /\ Evidence => EvidenceBacksResult
  <2> SUFFICES ASSUME Control, Evidence, NEW r \in DOMAIN disk.rounds, disk.revs[r] # <<>>, disk.rounds[r].status # "pending"
               PROVE  LET rev == Last(disk.revs[r])
                          said == IF rev \in DOMAIN evals[r] THEN evals[r][rev] ELSE "started"
                      IN  disk.rounds[r].status = IF said = "bad_suite" THEN "timing_error" ELSE said
    BY DEF EvidenceBacksResult
  <2>1. r \in Round BY RoundsAre DEF Control
  <2> QED BY <2>1 DEF Evidence, BackedIn, StatusOf
<1> QED BY <1>1, EvidenceAlways, PTL

\* Whatever crashed or was never saved: no revision but the one being written changes.
THEOREM EvidenceIsAppendOnly == Spec => EvidenceAppendOnly
<1> DEFINE A == \A r \in Round :
                  /\ Len(evals'[r]) >= Len(evals[r])
                  /\ \A i \in DOMAIN evals[r] : evals'[r][i] # evals[r][i] =>
                       i = Len(evals[r]) /\ pc = "evaluating" /\ r = Cur /\ evals[r][i] = "started"
<1>1. Control /\ Evidence /\ [Next]_vars => [A]_evals BY EvidenceStays DEF vars, files
<1> QED BY <1>1, EvidenceAlways, PTL DEF Spec, EvidenceAppendOnly
-----------------------------------------------------------------------------
(* The compliance record and the recorded verdict *)

\* The record of a candidate is written once, before its verdict is recorded.
Judgement ==
  /\ pc = "fill_record" => comp[Cur] = "torn"
  /\ pc = "apply" /\ verdict \in CheckerVerdicts => comp[Cur] = verdict
  /\ \A i \in DOMAIN disk.rounds : OldVerdict(i) \in CheckerVerdicts => VerdictFrom(i, OldVerdict(i))

LEMMA CompStands ==
  ASSUME Control, Judgement, Next, NEW r \in Round, comp[r] \in CheckerVerdicts
  PROVE  comp'[r] = comp[r]
<1>1. comp' # comp => FillRecord \/ \E v \in Checks : Check(v)
  BY DEF Next, Generation, Evaluation, Start, Finish, Crash, Review, TooLong, BeginRequest, Pause, Send, Answer,
     RecordAnswer, OpenArchive, FillArchive, Account, ReuseArchive, Parse, FillCandidate, ReuseVerdict,
     ApplyAndSave, BeginEvaluation, FinishEvaluation, CopyBest, SaveEvaluation, files
<1>2. comp \in [Round -> CheckerVerdicts \cup {"absent", "torn"}] BY DEF Control, Judged
<1>3. {"absent", "torn"} \cap CheckerVerdicts = {} BY DEF CheckerVerdicts
<1>4. CASE FillRecord
  <2>1. comp[Cur] = "torn" BY <1>4 DEF FillRecord, Judgement
  <2> QED BY <1>2, <1>3, <1>4, <2>1 DEF FillRecord
<1>5. ASSUME NEW v \in Checks, Check(v) PROVE comp'[r] = comp[r]
  <2>1. comp[Cur] = "absent" BY <1>5 DEF Check, StoredVerdictStands
  <2> QED BY <1>2, <1>3, <1>5, <2>1 DEF Check
<1> QED BY <1>1, <1>4, <1>5

\* VerdictFrom of the next state.
NewVerdictFrom(r, v) ==
  \/ comp'[r] = v
  \/ comp'[r] = "review_required" /\ v \in {"clear", "confirmed_violation"}
  \/ comp'[r] \in Durable!Evaluable /\ v = "confirmed_violation" /\ "contract_violation" \in Range(evals'[r])

LEMMA VerdictFromKept ==
  ASSUME Control, Evidence, Judgement, Next, NEW r \in Round, NEW v \in CheckerVerdicts, VerdictFrom(r, v)
  PROVE  NewVerdictFrom(r, v)
<1>1. comp[r] \in CheckerVerdicts BY DEF VerdictFrom, CheckerVerdicts, Durable!Evaluable
<1>2. comp'[r] = comp[r] BY <1>1, CompStands
<1>3. "contract_violation" \in Range(evals[r]) => "contract_violation" \in Range(evals'[r])
  <2> SUFFICES ASSUME "contract_violation" \in Range(evals[r]) PROVE "contract_violation" \in Range(evals'[r]) OBVIOUS
  <2>1. PICK i \in DOMAIN evals[r] : evals[r][i] = "contract_violation" BY DEF Range
  <2>2. i \in DOMAIN evals'[r] /\ evals'[r][i] = "contract_violation" BY <2>1, BackedStays
  <2> QED BY <2>2 DEF Range
<1> QED BY <1>2, <1>3 DEF VerdictFrom, NewVerdictFrom

LEMMA RecordedVerdictKept ==
  ASSUME Control, Evidence, Judgement, Next, NEW i \in DOMAIN disk'.rounds, NewVerdict(i) \in CheckerVerdicts
  PROVE  NewVerdictFrom(i, NewVerdict(i))
<1>0. Control' BY NextControl
<1>1. i \in Round
  <2>1. DP!IInv' BY <1>0 DEF Control
  <2>2. DOMAIN disk'.rounds \subseteq Round
    BY <2>1, SameAssumptions DEF DP!IInv, DP!TypeOK, DP!RoundsInOrder, Round
  <2> QED BY <2>2
<1>2. i \in DOMAIN disk.rounds /\ OldVerdict(i) \in CheckerVerdicts => VerdictFrom(i, OldVerdict(i))
  BY DEF Judgement
<1>3. CASE i \in DOMAIN disk.rounds /\ NewVerdict(i) = OldVerdict(i)
  BY <1>1, <1>2, <1>3, VerdictFromKept
<1>4. CASE Attempted(i)
  <2>1. comp[i] = verdict /\ comp' = comp /\ NewVerdict(i) = verdict
    BY <1>4 DEF Attempted, ApplyAndSave, Judgement, files
  <2> QED BY <2>1 DEF NewVerdictFrom
<1>5. CASE Reviewed(i)
  <2>1. "review_required" \in CheckerVerdicts BY DEF CheckerVerdicts
  <2>2. comp[i] = "review_required" /\ comp' = comp
    BY <1>2, <1>5, <2>1 DEF Reviewed, VerdictFrom, Review, files, OldVerdict
  <2>3. NewVerdict(i) \in {"clear", "confirmed_violation"} BY <1>5 DEF Reviewed
  <2> QED BY <2>2, <2>3 DEF NewVerdictFrom
<1>6. CASE Restarted(i)
  <2>1. NewVerdict(i) # Durable!NoAttempt BY DEF CheckerVerdicts, Durable!NoAttempt
  <2> QED BY <1>3, <1>6, <2>1 DEF Restarted
<1>7. CASE Measured(i) /\ NewVerdict(i) # OldVerdict(i)
  <2>1. /\ SaveEvaluation /\ i = Durable!NextRound(disk.rounds) /\ OldVerdict(i) \in Durable!Evaluable
        /\ i \in DOMAIN disk.rounds
        /\ NewVerdict(i) = "confirmed_violation" /\ NewStatus(i) = "contract_violation"
    BY <1>7 DEF Measured
  <2>2. BackedIn(mem) /\ mem.revs[i] # <<>> /\ disk' = mem /\ UNCHANGED <<evals, comp>>
    BY <2>1 DEF Evidence, SaveEvaluation, files
  <2>3. PICK k \in DOMAIN evals[i] : "contract_violation" = StatusOf(evals[i][k])
    BY <1>1, <2>1, <2>2 DEF BackedIn, NewStatus
  <2>4. "contract_violation" \in Range(evals[i]) BY <2>3 DEF StatusOf, Range
  <2>5. OldVerdict(i) \in CheckerVerdicts BY <2>1 DEF CheckerVerdicts, Durable!Evaluable
  <2>6. comp[i] \in Durable!Evaluable \cup {"review_required"}
    BY <1>2, <2>1, <2>5 DEF VerdictFrom, Durable!Evaluable
  <2> QED BY <2>1, <2>2, <2>4, <2>6 DEF NewVerdictFrom
<1> QED BY <1>3, <1>4, <1>5, <1>6, <1>7, RecordSteps DEF OldVerdict, NewVerdict, Measured

LEMMA JudgementKept ==
  ASSUME Control, Archive, Evidence, Judgement, Next
  PROVE  Judgement'
<1>1. \A i \in DOMAIN disk'.rounds : NewVerdict(i) \in CheckerVerdicts => NewVerdictFrom(i, NewVerdict(i))
  BY RecordedVerdictKept
<1>2. UNCHANGED mem => Cur' = Cur BY DEF Cur
<1> DEFINE Here == /\ pc = "fill_record" => comp[Cur] = "torn"
                   /\ pc = "apply" /\ verdict \in CheckerVerdicts => comp[Cur] = verdict
<1>3. Here BY DEF Judgement
<1>4. {"format_error", "transport_failed", "provider_refused"} \cap CheckerVerdicts = {} BY DEF CheckerVerdicts
<1>11. Judgement' <=> Here' BY <1>1 DEF Judgement, OldVerdict, NewVerdict, VerdictFrom, NewVerdictFrom
<1> SUFFICES Here' BY <1>11
<1>5. CASE pc' \notin {"fill_record", "apply"} BY <1>5
<1>6. ASSUME NEW v, Check(v) PROVE Here'
  <2>1. pc \in Generating BY <1>6 DEF Check, Generating, Judging
  <2>2. Cur \in Round BY <2>1, CurWhenGenerating
  <2>3. comp'[Cur] = "torn" BY <1>6, <2>2 DEF Check, Control, Judged
  <2> QED BY <1>2, <1>6, <2>3 DEF Check
<1>7. CASE FillRecord
  <2>1. pc \in Generating BY <1>7 DEF FillRecord, Generating, Judging
  <2>2. Cur \in Round BY <2>1, CurWhenGenerating
  <2>3. comp'[Cur] = verdict BY <1>7, <2>2 DEF FillRecord, Control, Judged
  <2> QED BY <1>2, <1>7, <2>3 DEF FillRecord
<1>8. CASE ReuseVerdict
  <2>1. CASE comp[Cur] = "torn" BY <1>5, <1>8, <2>1 DEF ReuseVerdict, Down
  <2>2. CASE comp[Cur] # "torn" BY <1>2, <1>8, <2>2 DEF ReuseVerdict, Apply, files
  <2> QED BY <2>1, <2>2
<1>9. CASE TooLong \/ RecordAnswer \/ Parse
  <2>1. pc' = "apply" => verdict' \notin CheckerVerdicts BY <1>4, <1>9 DEF TooLong, RecordAnswer, Parse, Apply
  <2> QED BY <1>9, <2>1 DEF TooLong, RecordAnswer, Parse, Apply
<1>10. ASSUME NEW d, Review(d) PROVE Here' BY <1>2, <1>3, <1>10 DEF Review, process, files
<1> QED
  BY <1>5, <1>6, <1>7, <1>8, <1>9, <1>10
  DEF Next, Generation, Evaluation, Start, Finish, Crash, BeginRequest, Pause, Send, Answer, OpenArchive, FillArchive, Account,
      ReuseArchive, FillCandidate, ApplyAndSave, BeginEvaluation, FinishEvaluation, CopyBest, SaveEvaluation, Down

LEMMA JudgementAlways == Spec => [](Control /\ Archive /\ Ledger /\ Evidence /\ Judgement)
<1>1. Init => Judgement BY DEF Init, NewState, Judgement
<1>2. Judgement /\ UNCHANGED vars => Judgement'
  BY DEF Judgement, VerdictFrom, OldVerdict, Cur, vars, process, files
<1>3. Control /\ Archive /\ Evidence /\ Judgement /\ [Next]_vars => Judgement' BY <1>2, JudgementKept
<1> QED BY <1>1, <1>3, ArchiveAlways, EvidenceAlways, PTL DEF Spec

\* The first verdict on a candidate is never rewritten, and the recorded one is it
\* unless a reviewer or the evaluation decided.
THEOREM FirstVerdictAlwaysStands == Spec => FirstVerdictStands
<1> DEFINE A == \A r \in Round :
                  /\ comp[r] \in CheckerVerdicts => comp'[r] = comp[r]
                  /\ Recorded(r) /\ disk.rounds[r].verdict \in CheckerVerdicts => VerdictFrom(r, disk.rounds[r].verdict)
<1>1. Control /\ Archive /\ Ledger /\ Evidence /\ Judgement /\ [Next]_vars => [A]_<<comp, disk>>
  BY CompStands DEF Judgement, Recorded, OldVerdict, vars, files
<1> QED BY <1>1, JudgementAlways, PTL DEF Spec, FirstVerdictStands
-----------------------------------------------------------------------------
(* What the provider charged and what the transport log says of it *)

Known(e) == Cardinality({i \in DOMAIN e : e[i] = "known"})
Clear(e) == \A i \in DOMAIN e : e[i] \notin {"unknown", "sending"}
Settling(e) == /\ e # <<>> /\ e[Len(e)] = "sending"
               /\ \A i \in DOMAIN e : i # Len(e) => e[i] # "sending"
SoFar(e) == \A i \in DOMAIN e : e[i] # "unknown"

\* A log whose events are all settled counts what was charged; while a request is
\* under way, its predecessors do.
Charged ==
  /\ \A r \in Round : Clear(log[r]) => Known(log[r]) = billed[r]
  /\ pc \in {"await", "answered"} => Settling(log[Cur])
  /\ pc = "await" /\ SoFar(log[Cur]) => Known(log[Cur]) = billed[Cur]
  /\ pc = "answered" /\ SoFar(log[Cur]) =>
       /\ ChargeRecorded(answer) = "known" => Known(log[Cur]) + 1 = billed[Cur]
       /\ ChargeRecorded(answer) = "no" => Known(log[Cur]) = billed[Cur]
  /\ pc \in Generating \ {"await", "answered"} => \A i \in DOMAIN log[Cur] : log[Cur][i] # "sending"
  /\ \A r \in overlong : log[r] = <<>> /\ billed[r] = 0
  /\ \A r \in Round : resp[r] # "absent" => log[r] # <<>>
  /\ pc = "archive" \/ (pc = "apply" /\ Cur \notin overlong) => log[Cur] # <<>>

LEMMA KnownIsFinite ==
  ASSUME NEW e \in Events
  PROVE  IsFiniteSet({i \in DOMAIN e : e[i] = "known"}) /\ Known(e) \in Nat
<1>1. IsFiniteSet(1..Len(e)) BY FS_Interval DEF Events
<1>2. {i \in DOMAIN e : e[i] = "known"} \subseteq 1..Len(e) BY DEF Events
<1>3. IsFiniteSet({i \in DOMAIN e : e[i] = "known"}) BY <1>1, <1>2, FS_Subset
<1> QED BY <1>3, FS_CardinalityType DEF Known

\* Orphans count as unknown, so rebuilding a log changes no count.
LEMMA KnownRebuilt ==
  ASSUME NEW e \in Events
  PROVE  /\ Known(Rebuilt(e)) = Known(e) /\ (Clear(Rebuilt(e)) <=> Clear(e))
         /\ (Rebuilt(e) = <<>> <=> e = <<>>)
         /\ \A i \in DOMAIN Rebuilt(e) : Rebuilt(e)[i] # "sending"
<1>1. DOMAIN Rebuilt(e) = DOMAIN e BY DEF Rebuilt
<1>2. {i \in DOMAIN Rebuilt(e) : Rebuilt(e)[i] = "known"} = {i \in DOMAIN e : e[i] = "known"} BY <1>1, RebuiltIs
<1>3. Clear(Rebuilt(e)) <=> Clear(e) BY <1>1, RebuiltIs DEF Clear
<1>4. Rebuilt(e) = <<>> <=> e = <<>> BY RebuiltIs DEF Events
<1> QED BY <1>1, <1>2, <1>3, <1>4, RebuiltIs DEF Known

LEMMA KnownSent ==
  ASSUME NEW e \in Events, \A i \in DOMAIN e : e[i] # "sending"
  PROVE  LET s == Append(e, "sending")
         IN  /\ Settling(s) /\ Known(s) = Known(e) /\ (SoFar(s) => Clear(e)) /\ ~Clear(s)
             /\ s # <<>>
<1> DEFINE s == Append(e, "sending")
<1>1. /\ s \in Events /\ DOMAIN s = 1..(Len(e) + 1) /\ Len(s) = Len(e) + 1 /\ s[Len(e) + 1] = "sending"
      /\ \A i \in 1..Len(e) : s[i] = e[i]
      /\ DOMAIN e = 1..Len(e) /\ Len(e) \in Nat
  BY DEF Events, Charges
<1> HIDE DEF s
<1>2. {i \in DOMAIN s : s[i] = "known"} = {i \in DOMAIN e : e[i] = "known"} BY <1>1
<1>3. Settling(s) /\ ~Clear(s) BY <1>1 DEF Settling, Clear, Events
<1>4. SoFar(s) => Clear(e) BY <1>1 DEF SoFar, Clear
<1>5. s # <<>> BY <1>3 DEF Settling
<1> QED BY <1>2, <1>3, <1>4, <1>5 DEF Known, s

LEMMA KnownRecorded ==
  ASSUME NEW e \in Events, Settling(e), NEW c \in Charges \ {"sending"}
  PROVE  LET s == [e EXCEPT ![CHOOSE i \in DOMAIN e : e[i] = "sending"] = c]
         IN  /\ s # <<>> /\ \A i \in DOMAIN s : s[i] # "sending"
             /\ Known(s) = IF c = "known" THEN Known(e) + 1 ELSE Known(e)
             /\ Clear(s) => SoFar(e) /\ c # "unknown"
<1> DEFINE n == Len(e)
           s == [e EXCEPT ![n] = c]
           K == {i \in DOMAIN e : e[i] = "known"}
<1>1. n \in DOMAIN e /\ DOMAIN e = 1..n /\ e[n] = "sending" BY DEF Settling, Events
<1>2. (CHOOSE i \in DOMAIN e : e[i] = "sending") = n BY <1>1 DEF Settling
<1>3. DOMAIN s = DOMAIN e /\ s[n] = c /\ \A i \in DOMAIN e : i # n => s[i] = e[i] BY <1>1
<1> HIDE DEF s, n
<1>4. s # <<>> /\ \A i \in DOMAIN s : s[i] # "sending" BY <1>1, <1>3 DEF Settling, n
<1>5. {i \in DOMAIN s : s[i] = "known"} = IF c = "known" THEN K \cup {n} ELSE K BY <1>1, <1>3
<1>6. IsFiniteSet(K) /\ n \notin K BY <1>1, KnownIsFinite
<1>7. Cardinality(K \cup {n}) = Cardinality(K) + 1 BY <1>6, FS_AddElement
<1>8. Known(s) = IF c = "known" THEN Known(e) + 1 ELSE Known(e) BY <1>5, <1>7 DEF Known
<1>9. Clear(s) => SoFar(e) /\ c # "unknown" BY <1>1, <1>3 DEF Clear, SoFar
<1> QED BY <1>2, <1>4, <1>8, <1>9 DEF s

\* What a step does to the log of the round it works on.
LEMMA LogOfCur ==
  ASSUME Control, Archive, Charged, Next, Logs
  PROVE  /\ Cur \in Round /\ Cur \notin overlong /\ log[Cur] \in Events /\ \A r \in Round : r # Cur => log'[r] = log[r]
         /\ log'[Cur] = <<>> => log[Cur] = <<>>
         /\ Clear(log'[Cur]) => Known(log'[Cur]) = billed[Cur]
         /\ Send => Settling(log'[Cur]) /\ (SoFar(log'[Cur]) => Known(log'[Cur]) = billed[Cur])
         /\ ~Send => \A i \in DOMAIN log'[Cur] : log'[Cur][i] # "sending"
         /\ RecordAnswer => log'[Cur] # <<>>
<1>0. FilesOK BY DEF Archive
<1> DEFINE e == log[Cur]
           s == log'[Cur]
<1>1. Cur \in Round /\ log' = [log EXCEPT ![Cur] = s] BY <1>0, LogSteps
<1>2. log \in [Round -> Events] BY <1>0 DEF FilesOK
<1>3. e \in Events /\ \A r \in Round : r # Cur => log'[r] = log[r] BY <1>1, <1>2
<1>4. \/ BeginRequest /\ s = Rebuilt(e)
      \/ ReuseArchive /\ s = Rebuilt(e)
      \/ Send /\ s = Append(e, "sending")
      \/ RecordAnswer /\ s = [e EXCEPT ![CHOOSE i \in DOMAIN e : e[i] = "sending"] = ChargeRecorded(answer)]
  BY <1>0, LogSteps
<1>5. Clear(e) => Known(e) = billed[Cur] BY <1>1 DEF Charged
<1>6. CASE BeginRequest /\ s = Rebuilt(e)
  <2>1. Cur \notin overlong /\ ~Send /\ ~RecordAnswer BY <1>6 DEF BeginRequest, Send, RecordAnswer
  <2> QED BY <1>1, <1>3, <1>5, <1>6, <2>1, KnownRebuilt
<1>7. CASE ReuseArchive /\ s = Rebuilt(e)
  <2>1. Cur \notin overlong /\ ~Send /\ ~RecordAnswer BY <1>7 DEF ReuseArchive, Send, RecordAnswer
  <2> QED BY <1>1, <1>3, <1>5, <1>7, <2>1, KnownRebuilt
<1>8. CASE Send /\ s = Append(e, "sending")
  <2>1. Cur \notin overlong /\ ~RecordAnswer /\ \A i \in DOMAIN e : e[i] # "sending"
    BY <1>8 DEF Send, RecordAnswer, Archive, Archiving, Charged, Generating, Requesting
  <2>2. Settling(s) /\ Known(s) = Known(e) /\ (SoFar(s) => Clear(e)) /\ ~Clear(s) /\ s # <<>>
    BY <1>3, <1>8, <2>1, KnownSent
  <2> QED BY <1>1, <1>3, <1>5, <1>8, <2>1, <2>2
<1>9. CASE RecordAnswer /\ s = [e EXCEPT ![CHOOSE i \in DOMAIN e : e[i] = "sending"] = ChargeRecorded(answer)]
  <2>1. Cur \notin overlong /\ ~Send /\ Settling(e)
    BY <1>9 DEF Send, RecordAnswer, Archive, Archiving, Charged, Requesting
  <2> DEFINE c == ChargeRecorded(answer)
  <2>2. c \in Charges \ {"sending"} BY ChargeIs
  <2>3. SoFar(e) => /\ c = "known" => Known(e) + 1 = billed[Cur]
                    /\ c = "no" => Known(e) = billed[Cur]
    BY <1>9 DEF RecordAnswer, Charged
  <2> HIDE DEF c
  <2>4. /\ s # <<>> /\ \A i \in DOMAIN s : s[i] # "sending"
        /\ Known(s) = IF c = "known" THEN Known(e) + 1 ELSE Known(e)
        /\ Clear(s) => SoFar(e) /\ c # "unknown"
    <3>1. s = [e EXCEPT ![CHOOSE i \in DOMAIN e : e[i] = "sending"] = c] BY <1>9 DEF c
    <3> HIDE DEF s, e
    <3> QED BY <1>3, <2>1, <2>2, <3>1, KnownRecorded
  <2>5. c \in {"known", "no", "unknown"} BY <2>2 DEF Charges
  <2> QED BY <1>1, <1>3, <2>1, <2>3, <2>4, <2>5
<1> QED BY <1>4, <1>6, <1>7, <1>8, <1>9

\* Only a request under way is charged.
LEMMA BilledSteps ==
  ASSUME Control, Archive, Next, billed' # billed
  PROVE  /\ pc = "await" /\ Cur \in Round /\ UNCHANGED <<log, disk, resp>>
         /\ \A r \in Round : r # Cur => billed'[r] = billed[r]
<1>1. Crash \/ \E a \in Answers, charge \in {0, 1} : Answer(a, charge) BY Writers
<1>2. CASE Crash
  <2>1. pc = "await" /\ billed' = [billed EXCEPT ![Cur] = @ + 1] BY <1>2 DEF Crash
  <2>2. Cur \in Round BY <2>1, CurWhenGenerating DEF Generating, Requesting
  <2> QED BY <1>2, <2>1, <2>2 DEF Crash, files, Archive, FilesOK
<1>3. ASSUME NEW a, NEW charge, Answer(a, charge)
      PROVE  /\ pc = "await" /\ Cur \in Round /\ UNCHANGED <<log, disk, resp>>
             /\ \A r \in Round : r # Cur => billed'[r] = billed[r]
  <2>1. pc = "await" BY <1>3 DEF Answer
  <2>2. Cur \in Round BY <2>1, CurWhenGenerating DEF Generating, Requesting
  <2> QED BY <1>3, <2>1, <2>2 DEF Answer, files, Archive, FilesOK
<1> QED BY <1>1, <1>2, <1>3

LEMMA ChargedRounds ==
  ASSUME Control, Archive, Charged, Next
  PROVE  /\ \A r \in Round : Clear(log'[r]) => Known(log'[r]) = billed'[r]
         /\ \A r \in overlong' : log'[r] = <<>> /\ billed'[r] = 0
         /\ \A r \in Round : resp'[r] # "absent" => log'[r] # <<>>
<1>0. FilesOK BY DEF Archive
<1>1. UNCHANGED overlong /\ overlong \subseteq Round BY <1>0, Writers DEF FilesOK
<1>2. log \in [Round -> Events] /\ resp \in [Round -> {"absent", "torn", "candidate", "malformed"}]
  BY DEF Archive, FilesOK
<1>3. CASE log' # log
  <2>1. UNCHANGED <<billed, resp>> BY <1>0, <1>3, LogSteps DEF Logs
  <2>2. /\ Cur \in Round /\ Cur \notin overlong
        /\ log'[Cur] = <<>> => log[Cur] = <<>>
        /\ Clear(log'[Cur]) => Known(log'[Cur]) = billed[Cur]
        /\ \A r \in Round : r # Cur => log'[r] = log[r]
    BY <1>3, LogOfCur DEF Logs
  <2> QED BY <1>1, <2>1, <2>2 DEF Charged
<1>4. CASE log' = log /\ billed' # billed
  <2>1. /\ pc = "await" /\ Cur \in Round /\ UNCHANGED <<log, disk, resp>>
        /\ \A r \in Round : r # Cur => billed'[r] = billed[r]
    BY <1>4, BilledSteps
  <2>2. ~Clear(log[Cur])
    <3>1. Settling(log[Cur]) BY <2>1 DEF Charged
    <3>2. Len(log[Cur]) \in DOMAIN log[Cur] BY <1>2, <2>1, <3>1 DEF Settling, Events
    <3> QED BY <3>1, <3>2 DEF Settling, Clear
  <2>3. Cur \notin overlong BY <2>1 DEF Archive, Archiving, Requesting
  <2> QED BY <1>1, <2>1, <2>2, <2>3 DEF Charged
<1>5. CASE log' = log /\ billed' = billed
  <2>1. CASE resp' = resp BY <1>1, <1>5, <2>1 DEF Charged
  <2>2. CASE OpenArchive
    <3>1. pc = "archive" /\ resp' = [resp EXCEPT ![Cur] = "torn"] BY <2>2 DEF OpenArchive
    <3>2. log[Cur] # <<>> BY <3>1 DEF Charged
    <3> QED BY <1>1, <1>2, <1>5, <3>1, <3>2 DEF Charged
  <2>3. CASE FillArchive
    <3>1. resp[Cur] = "torn" /\ resp' = [resp EXCEPT ![Cur] = answer.text]
      BY <2>3 DEF FillArchive, Archive, Archiving, Requesting
    <3> QED BY <1>1, <1>2, <1>5, <3>1 DEF Charged
  <2> QED BY <2>1, <2>2, <2>3, Writers
<1> QED BY <1>3, <1>4, <1>5

\* Charged is kept: on disk by ChargedRounds, and where the process is, step by step.
LEMMA ChargedKept ==
  ASSUME Control, Archive, Charged, Next
  PROVE  Charged'
<1>0. FilesOK BY DEF Archive
<1> DEFINE Here ==
      /\ pc \in {"await", "answered"} => Settling(log[Cur])
      /\ pc = "await" /\ SoFar(log[Cur]) => Known(log[Cur]) = billed[Cur]
      /\ pc = "answered" /\ SoFar(log[Cur]) =>
           /\ ChargeRecorded(answer) = "known" => Known(log[Cur]) + 1 = billed[Cur]
           /\ ChargeRecorded(answer) = "no" => Known(log[Cur]) = billed[Cur]
      /\ pc \in Generating \ {"await", "answered"} => \A i \in DOMAIN log[Cur] : log[Cur][i] # "sending"
      /\ pc = "archive" \/ (pc = "apply" /\ Cur \notin overlong) => log[Cur] # <<>>
<1>1. Here BY DEF Charged
<1>2. Charged' <=> Here' BY ChargedRounds DEF Charged
<1> SUFFICES Here' BY <1>2
<1>3. UNCHANGED mem => Cur' = Cur BY DEF Cur
<1>4. UNCHANGED overlong BY Writers
<1> USE DEF Generating, Requesting, Judging
<1>5. CASE pc' \notin Generating BY <1>5
<1>6. CASE BeginRequest
  <2>1. \A i \in DOMAIN log'[Cur] : log'[Cur][i] # "sending" BY <1>6, LogOfCur DEF Logs, BeginRequest, Send
  <2> QED BY <1>3, <1>6, <2>1 DEF BeginRequest
<1>7. CASE ReuseArchive
  <2>1. CASE resp[Cur] = "torn" BY <1>5, <1>7, <2>1 DEF ReuseArchive, Down
  <2>2. CASE resp[Cur] # "torn"
    <3>1. \A i \in DOMAIN log'[Cur] : log'[Cur][i] # "sending" BY <1>7, <2>2, LogOfCur DEF Logs, ReuseArchive, Send
    <3> QED BY <1>3, <1>7, <2>2, <3>1 DEF ReuseArchive
  <2> QED BY <2>1, <2>2
<1>8. CASE Send
  <2>1. Settling(log'[Cur]) /\ (SoFar(log'[Cur]) => Known(log'[Cur]) = billed[Cur]) BY <1>8, LogOfCur DEF Logs
  <2>2. UNCHANGED billed BY <1>8 DEF Send, environment
  <2> QED BY <1>3, <1>8, <2>1, <2>2 DEF Send
<1>9. CASE RecordAnswer
  <2>1. log'[Cur] # <<>> /\ \A i \in DOMAIN log'[Cur] : log'[Cur][i] # "sending"
    BY <1>9, LogOfCur DEF Logs, RecordAnswer, Send
  <2>2. pc' \in {"archive", "apply", "request"} BY <1>9 DEF RecordAnswer, Apply
  <2> QED BY <1>3, <1>9, <2>1, <2>2 DEF RecordAnswer
<1>10. ASSUME NEW a \in Answers, NEW charge, Answer(a, charge) PROVE Here'
  <2>1. pc = "await" /\ pc' = "answered" /\ answer' = a /\ UNCHANGED <<mem, log>> BY <1>10 DEF Answer, files
  <2>2. Cur \in Round BY <2>1, CurWhenGenerating
  <2>3. billed'[Cur] = billed[Cur] + charge /\ charge \in ChargesOf(a) BY <1>0, <1>10, <2>2 DEF Answer, FilesOK
  <2>4. a \in Responses \cup Raised BY EnvironmentAssumption
  <2>5. /\ ChargeRecorded(a) = "known" => charge = 1
        /\ ChargeRecorded(a) = "no" => charge = 0
    BY <2>3, <2>4 DEF ChargeRecorded, ChargesOf, Responses, Raised
  <2>6. billed[Cur] \in Nat BY <1>0, <2>2 DEF FilesOK
  <2> QED BY <1>1, <1>3, <2>1, <2>3, <2>5, <2>6
<1>11. CASE TooLong
  <2>1. Cur \in overlong /\ pc' = "apply" /\ UNCHANGED <<mem, log>> BY <1>11 DEF TooLong, Apply
  <2>2. log[Cur] = <<>> BY <2>1 DEF Charged
  <2> QED BY <1>3, <1>4, <2>1, <2>2
\* What the log says stays what it is on the way from the archive to the record.
<1>12. ASSUME UNCHANGED <<mem, log>>, pc \in Generating \ {"await", "answered"},
              pc' \in Generating \ {"await", "answered", "archive"}, pc' = "apply" => Archived(Cur)
       PROVE  Here'
  <2>1. Cur \in Round BY <1>12, CurWhenGenerating
  <2>2. Archived(Cur) => log[Cur] # <<>> BY <2>1 DEF Archived, Charged
  <2> QED BY <1>1, <1>3, <1>12, <2>2
<1>13. pc \in Judging => Archived(Cur) BY DEF Archive, Archiving
<1>14. CASE OpenArchive \/ FillArchive \/ Account
  BY <1>12, <1>14 DEF OpenArchive, FillArchive, Account
<1>15. CASE Parse \/ FillCandidate \/ FillRecord
  BY <1>12, <1>13, <1>15 DEF Parse, FillCandidate, FillRecord, Apply
<1>16. ASSUME NEW v, Check(v) PROVE Here' BY <1>12, <1>13, <1>16 DEF Check
<1>17. CASE ReuseVerdict
  <2>1. CASE comp[Cur] = "torn" BY <1>5, <1>17, <2>1 DEF ReuseVerdict, Down
  <2>2. CASE comp[Cur] # "torn" BY <1>12, <1>13, <1>17, <2>2 DEF ReuseVerdict, Apply, files
  <2> QED BY <2>1, <2>2
<1>18. ASSUME NEW d, Review(d) PROVE Here' BY <1>5, <1>18 DEF Review, process
<1> QED
  BY <1>5, <1>6, <1>7, <1>8, <1>9, <1>10, <1>11, <1>14, <1>15, <1>16, <1>17, <1>18
  DEF Next, Generation, Evaluation, Start, Finish, Crash, Pause, ApplyAndSave, BeginEvaluation, FinishEvaluation, CopyBest,
      SaveEvaluation, Down
-----------------------------------------------------------------------------
(* What an attempt cost *)

CostFits(c, r) ==
  /\ c.status = "known" => c.tokens = billed[r]
  /\ c.status = "not_sent" => billed[r] = 0 /\ r \in overlong
  /\ c.status # "none"

\* The cost of an attempt on record is what was charged, and an evaluation leaves it.
Costed ==
  /\ DOMAIN disk.cost = Round
  /\ pc \in {"copy", "save"} => mem.cost = disk.cost
  /\ \A i \in DOMAIN disk.rounds : OldVerdict(i) # Durable!NoAttempt => CostFits(disk.cost[i], i)

\* A request is for a round without an attempt.
LEMMA UnattemptedCur ==
  ASSUME Control, pc \in Generating, Cur \in DOMAIN disk.rounds
  PROVE  OldVerdict(Cur) = Durable!NoAttempt
<1>1. mem = disk /\ Durable!WantsGeneration(disk.rounds, disk.status) BY CurWhenGenerating
<1>2. DOMAIN disk.rounds = 1..Len(disk.rounds) /\ Len(disk.rounds) \in Nat BY RoundsAre DEF Control
<1>3. Durable!HasPending(disk.rounds) /\ Cur = Len(disk.rounds)
  BY <1>1, <1>2, CurIsARound DEF Control, Cur
<1>4. Durable!LastOf(disk.rounds).verdict = Durable!NoAttempt BY <1>1, <1>3 DEF Durable!WantsGeneration
<1> QED BY <1>3, <1>4 DEF Durable!LastOf, OldVerdict

\* --resume-transport takes the attempt out of the round whose cost it clears.
LEMMA ReopenedRound ==
  ASSUME Control, Start("reopen"), Durable!CanReopen(disk.rounds, disk.status),
         Durable!LastOf(disk.rounds).round \in DOMAIN disk'.rounds
  PROVE  NewVerdict(Durable!LastOf(disk.rounds).round) = Durable!NoAttempt
<1> DEFINE rs == disk.rounds
           last == Durable!LastOf(rs)
<1>1. rs \in Seq(DP!RoundRecord) /\ Len(rs) \in Nat /\ DOMAIN rs = 1..Len(rs) BY RoundsAre DEF Control
<1>2. rs # <<>> BY DEF Durable!CanReopen, Durable!LastIncomplete
<1>3. last = rs[Len(rs)] /\ last \in DP!RoundRecord /\ Len(rs) \in DOMAIN rs BY <1>1, <1>2 DEF Durable!LastOf
<1>4. last.round = Len(rs) BY <1>3, SameAssumptions DEF Control, DP!IInv, DP!RoundsInOrder
<1>5. disk'.rounds = Durable!WithReopen(rs) BY DEF Start, Reopened, Control, Held, Fields
<1>6. disk'.rounds = [rs EXCEPT ![Len(rs)] = [last EXCEPT !.status = "pending", !.verdict = Durable!NoAttempt]]
  BY <1>5 DEF Durable!WithReopen, Durable!ReplaceLast
<1>7. [last EXCEPT !.status = "pending", !.verdict = Durable!NoAttempt].verdict = Durable!NoAttempt
  BY <1>3 DEF DP!RoundRecord
<1> HIDE DEF last
<1>8. disk'.rounds[Len(rs)].verdict = Durable!NoAttempt BY <1>3, <1>6, <1>7
<1> QED BY <1>4, <1>8 DEF NewVerdict, last

\* What is saved with an attempt is what was charged for it.
LEMMA CostOfAttempt ==
  ASSUME Control, Archive, Charged, ApplyAndSave
  PROVE  CostFits(IF Cur \in overlong THEN [status |-> "not_sent", tokens |-> 0] ELSE AttemptCost(log[Cur]), Cur)
<1>1. pc = "apply" /\ pc \in Generating \ {"await", "answered"} BY DEF ApplyAndSave, Generating, Requesting
<1>2. Cur \in Round BY <1>1, CurWhenGenerating
<1>3. CASE Cur \in overlong BY <1>3 DEF Charged, CostFits
<1>4. CASE Cur \notin overlong
  <2>1. log[Cur] # <<>> /\ \A i \in DOMAIN log[Cur] : log[Cur][i] # "sending" BY <1>1, <1>4 DEF Charged
  <2>2. CASE \E i \in DOMAIN log[Cur] : log[Cur][i] = "unknown" BY <1>4, <2>1, <2>2 DEF AttemptCost, CostFits
  <2>3. CASE ~\E i \in DOMAIN log[Cur] : log[Cur][i] = "unknown"
    <3>1. Known(log[Cur]) = billed[Cur] BY <1>2, <2>1, <2>3 DEF Charged, Clear
    <3>2. AttemptCost(log[Cur]) = [status |-> "known", tokens |-> Known(log[Cur])] BY <2>1, <2>3 DEF AttemptCost, Known
    <3> QED BY <1>4, <3>1, <3>2 DEF CostFits
  <2> QED BY <2>2, <2>3
<1> QED BY <1>3, <1>4

\* A recorded cost changes only with its attempt, and no charge comes after it.
LEMMA RecordedCostKept ==
  ASSUME Control, Archive, Costed, Next, NEW i \in DOMAIN disk.rounds, i \in DOMAIN disk'.rounds,
         OldVerdict(i) # Durable!NoAttempt, NewVerdict(i) # Durable!NoAttempt
  PROVE  disk'.cost[i] = disk.cost[i] /\ billed'[i] = billed[i] /\ UNCHANGED overlong
<1>1. i \in Round BY RoundsAre DEF Control
<1>2. pc \in Generating => i # Cur BY UnattemptedCur
<1>3. billed'[i] = billed[i]
  <2>1. CASE billed' # billed
    <3>1. pc = "await" /\ \A r \in Round : r # Cur => billed'[r] = billed[r] BY <2>1, BilledSteps
    <3> QED BY <1>1, <1>2, <3>1 DEF Generating, Requesting
  <2> QED BY <2>1
<1>4. disk'.cost[i] = disk.cost[i]
  <2>1. CASE SaveEvaluation BY <2>1 DEF SaveEvaluation, Costed
  <2>2. CASE ~SaveEvaluation /\ ApplyAndSave /\ disk'.cost # disk.cost
    <3>1. i # Cur BY <1>2, <2>2 DEF ApplyAndSave, Generating
    <3>2. ~Start("reopen") BY <2>2 DEF Start, ApplyAndSave
    <3> QED BY <1>1, <2>2, <3>1, <3>2, StateSteps DEF Costed
  <2>3. CASE ~SaveEvaluation /\ ~ApplyAndSave /\ disk'.cost # disk.cost
    <3>1. /\ Start("reopen") /\ Durable!CanReopen(disk.rounds, disk.status)
          /\ disk'.cost = [disk.cost EXCEPT ![Durable!LastOf(disk.rounds).round] = NoCost]
      BY <2>3, StateSteps
    <3>2. i # Durable!LastOf(disk.rounds).round BY <3>1, ReopenedRound
    <3> QED BY <1>1, <3>1, <3>2 DEF Costed
  <2> QED BY <2>1, <2>2, <2>3
<1> QED BY <1>3, <1>4, Writers

LEMMA CostedKept ==
  ASSUME Control, Archive, Charged, Costed, Next
  PROVE  Costed'
<1>1. DOMAIN disk'.cost = Round
  <2>1. CASE SaveEvaluation BY <2>1 DEF SaveEvaluation, Costed
  <2>2. CASE ~SaveEvaluation BY <2>2, StateSteps DEF Costed
  <2> QED BY <2>1, <2>2
<1>2. pc' \in {"copy", "save"} => mem'.cost = disk'.cost
  <2>1. ASSUME pc' \in {"copy", "save"}
        PROVE  CopyBest \/ \E o \in Durable!Outcomes, lat \in Latencies : FinishEvaluation(o, lat)
    BY <2>1, UnsavedIsEvaluated
  <2>2. CASE CopyBest BY <2>2 DEF CopyBest, Costed
  <2>3. ASSUME NEW o, NEW lat, FinishEvaluation(o, lat) PROVE mem'.cost = disk'.cost
    BY <2>3, CurWhenEvaluating DEF FinishEvaluation, Control, Held, Fields
  <2> QED BY <2>1, <2>2, <2>3
<1>3. ASSUME NEW i \in DOMAIN disk'.rounds, NewVerdict(i) # Durable!NoAttempt
      PROVE  /\ disk'.cost[i].status = "known" => disk'.cost[i].tokens = billed'[i]
             /\ disk'.cost[i].status = "not_sent" => billed'[i] = 0 /\ i \in overlong'
             /\ disk'.cost[i].status # "none"
  <2>1. CASE i \in DOMAIN disk.rounds /\ OldVerdict(i) # Durable!NoAttempt
    <3>1. disk'.cost[i] = disk.cost[i] /\ billed'[i] = billed[i] /\ UNCHANGED overlong BY <1>3, <2>1, RecordedCostKept
    <3>2. CostFits(disk.cost[i], i) BY <2>1 DEF Costed
    <3> QED BY <3>1, <3>2 DEF CostFits
  <2>2. CASE Attempted(i)
    <3>1. ApplyAndSave /\ i = Cur /\ UNCHANGED <<billed, overlong>> BY <2>2 DEF Attempted, ApplyAndSave, environment
    <3>2. Cur \in Round BY <3>1, CurWhenGenerating DEF ApplyAndSave, Generating
    <3>3. disk'.cost = [disk.cost EXCEPT ![Cur] = IF Cur \in overlong THEN [status |-> "not_sent", tokens |-> 0]
                                                  ELSE AttemptCost(log[Cur])]
      <4>1. mem = disk BY <3>1, CurWhenGenerating DEF ApplyAndSave, Generating
      <4> QED BY <3>1, <4>1 DEF ApplyAndSave, Control, Held, Fields
    <3>4. CostFits(disk'.cost[i], i) BY <3>1, <3>2, <3>3, CostOfAttempt DEF Costed
    <3> QED BY <3>1, <3>4 DEF CostFits
  <2>3. Reviewed(i) \/ Restarted(i) \/ Measured(i) => i \in DOMAIN disk.rounds /\ OldVerdict(i) # Durable!NoAttempt
    BY <1>3 DEF Reviewed, Restarted, Measured, Durable!NoAttempt, Durable!Evaluable
  <2>4. i \in DOMAIN disk.rounds /\ disk'.rounds[i] = disk.rounds[i] => OldVerdict(i) # Durable!NoAttempt
    BY <1>3 DEF OldVerdict, NewVerdict
  <2> QED BY <2>1, <2>2, <2>3, <2>4, RecordSteps
<1> QED BY <1>1, <1>2, <1>3 DEF Costed, CostFits, OldVerdict, NewVerdict

LEMMA CostAlways == Spec => [](Control /\ Archive /\ Ledger /\ Charged /\ Costed)
<1>1. Init => Charged /\ Costed
  <2> SUFFICES ASSUME Init PROVE Charged /\ Costed OBVIOUS
  <2>1. Known(<<>>) = 0
    <3>1. {i \in DOMAIN <<>> : <<>>[i] = "known"} = {} OBVIOUS
    <3> QED BY <3>1, FS_EmptySet DEF Known
  <2>2. Charged BY <2>1 DEF Init, Charged, Generating, Requesting, Judging
  <2>3. Costed BY DEF Init, NewState, Costed
  <2> QED BY <2>2, <2>3
<1>2. Charged /\ Costed /\ UNCHANGED vars => Charged' /\ Costed'
  BY DEF Charged, Costed, CostFits, OldVerdict, Cur, vars, process, files, environment
<1>3. Control /\ Archive /\ Charged /\ Costed /\ [Next]_vars => Charged' /\ Costed'
  BY <1>2, ChargedKept, CostedKept
<1> QED BY <1>1, <1>3, ArchiveAlways, PTL DEF Spec

\* A cost recorded as known is what the provider charged, whatever crashed between
\* sending a request and logging its end.
THEOREM CostIsAlwaysTrue == Spec => []CostIsTrue
<1>1. Costed => CostIsTrue BY DEF Costed, CostFits, CostIsTrue, Recorded, OldVerdict
<1> QED BY <1>1, CostAlways, PTL
=============================================================================
