-------------------------- MODULE TrajectoryRunner --------------------------
(***************************************************************************)
(* How one process runs one trajectory (orchestration/runner.py), durable  *)
(* step by durable step: the request, its transport log, the archived      *)
(* response, the usage ledger, the candidate, the compliance record, the   *)
(* evaluation revisions, best_valid/ and trajectory.json.  The process may *)
(* die between any two of these writes and, for the three files that are   *)
(* written in place and read back, between opening the file and filling    *)
(* it; a new process then resumes from what is on disk.  The trajectory    *)
(* lock (campaign.py) is why there is at most one such process.            *)
(*                                                                         *)
(* The in-memory transitions are those of Trajectory, and trajectory.json  *)
(* implements that module: what holds there survives every crash.          *)
(***************************************************************************)
EXTENDS Integers, Sequences, FiniteSets, SequencesExt

CONSTANTS
  Rounds, Latencies, Failures,   \* as in Trajectory
  Answers,                       \* the provider's answers considered
  Checks,                        \* the checker's verdicts considered
  MaxTransportRetries,           \* RunnerConfig.max_transport_retries
  MaxRateLimitRetries,           \* RunnerConfig.max_rate_limit_retries
  MaxDisturbances                \* bound of the model: crashes, pauses and operator re-openings together

ASSUME BoundsAssumption == MaxTransportRetries \in Nat /\ MaxRateLimitRetries \in Nat /\ MaxDisturbances \in Nat

VARIABLES
  (* trajectory.json and the process *)
  disk,       \* the saved TrajectoryState; the state of a new trajectory while there is no file
  mem,        \* the TrajectoryState of the running process
  pc,         \* where the process is; "down" when none runs
  retries,    \* failures counted by this call of _request_with_retries
  answer,     \* what provider.generate returned or raised
  verdict,    \* verdict of the attempt record about to be applied
  (* files of each round *)
  log,        \* transport.jsonl: by transport_attempt id, what its last event says
  resp,       \* response.json: absent, torn (opened, not filled) or the kind of its text
  ledger,     \* number of usage.jsonl rows
  cand,       \* impl_<dsl>.py: absent, torn or whole
  comp,       \* compliance.json: absent, torn or its verdict
  evals,      \* outcome in each eval_NNNN/, "started" until its evaluation.json exists
  bestdir,    \* round whose candidate is in best_valid/ (0: none)
  (* the environment *)
  overlong,   \* rounds whose rendered prompt exceeds total_prompt_max_chars
  billed,     \* tokens the provider really charged for each round
  disturbed   \* crashes, pauses and re-openings so far

process == <<mem, pc, retries, answer, verdict>>
files == <<log, resp, ledger, cand, comp, evals, bestdir>>
environment == <<overlong, billed, disturbed>>
vars == <<disk, process, files, environment>>

\* trajectory.json as a trajectory; nothing in this module adopts a re-evaluation.
Durable == INSTANCE Trajectory WITH rounds <- disk.rounds, status <- disk.status, best <- disk.best, adopted <- {}
-----------------------------------------------------------------------------
Round == 1..Rounds
NoCost == [status |-> "none", tokens |-> 0]
NewState == [rounds |-> <<>>, status |-> "in_progress", best |-> Durable!NoBest,
             cost |-> [r \in Round |-> NoCost],   \* cost and cost_status of the round's attempt
             revs |-> [r \in Round |-> <<>>]]     \* evaluation_revisions of the round

\* What Trajectory assumes of the protocol.
ASSUME ProtocolAssumption ==
  Rounds \in Nat \ {0} /\ Latencies \subseteq Nat \ {0} /\ Failures \subseteq Durable!OrdinaryFailures

\* The round of the step the process executes.
Cur == Durable!NextRound(mem.rounds)

CheckerVerdicts == {"clear", "audit_only", "confirmed_violation", "review_required"}

\* What generate may do: return a response, with or without the token count and
\* holding a candidate or not, or raise.  A rate limit and a quota are both HTTP
\* 429, told apart by the error text.
Responses == [kind : {"metered", "unmetered"}, text : {"candidate", "malformed"}]
Raised == [kind : {"failed_free", "failed_unknown", "rate_limited", "quota", "refused"}, text : {"none"}]
NoAnswer == [kind |-> "none", text |-> "none"]

ASSUME EnvironmentAssumption == Answers \subseteq Responses \cup Raised /\ Checks \subseteq CheckerVerdicts

\* Tokens the provider charges: one per generation it ran, which after a broken
\* connection nobody knows.
ChargesOf(a) ==
  CASE a \in Responses -> {1} [] a.kind = "failed_unknown" -> {0, 1} [] OTHER -> {0}

\* The charge the terminal event of an answer records: "known" is the usage of
\* a succeeded event, "no" and "unknown" the `charged` field of the others.
ChargeRecorded(a) ==
  CASE a.kind = "metered" -> "known" [] a.kind \in {"unmetered", "failed_unknown"} -> "unknown" [] OTHER -> "no"
Charges == {"sending", "known", "unknown", "no"}

\* durable_transport: a `sending` without a terminal event becomes an orphan of unknown charge.
\* Mutant of Rebuilt: forgets the orphans.
RebuiltWithoutOrphans(events) == SelectSeq(events, LAMBDA e : e # "sending")

Rebuilt(events) == [i \in DOMAIN events |-> IF events[i] = "sending" THEN "unknown" ELSE events[i]]

\* The transport id of the next request continues from the largest durable one.
\* Mutant of NextTransportId: every session numbers its requests from 1.
SessionTransportId(events, session) == session.other + session.rate + 1

NextTransportId(events, session) == Len(events) + 1

\* attempt_cost of the rebuilt transport records.
AttemptCost(events) ==
  CASE events = <<>> -> [status |-> "not_sent", tokens |-> 0]
    [] \E i \in DOMAIN events : events[i] = "unknown" -> [status |-> "unknown", tokens |-> 0]
    [] OTHER -> [status |-> "known", tokens |-> Cardinality({i \in DOMAIN events : events[i] = "known"})]

\* next_revision_name: one above the highest directory, whatever the state lists.
\* Mutant of NextRevision: one above what the state lists.
NextListedRevision(r) == Len(mem.revs[r]) + 1

NextRevision(r) == Len(evals[r]) + 1
-----------------------------------------------------------------------------
(* Starting and ending a process: campaign.py _run_one, TrajectoryRunner.run *)

\* The state a process continues from: --resume alone, --retry-incomplete, or
\* --resume-transport.
Reopened(st, flag) ==
  CASE flag = "retry" -> [st EXCEPT !.rounds = Durable!WithRetry(@), !.status = "in_progress"]
    [] flag = "reopen" -> [st EXCEPT !.rounds = Durable!WithReopen(@), !.status = "in_progress",
                                     !.cost[Durable!LastOf(st.rounds).round] = NoCost]
    [] OTHER -> st

\* Mutant of MayReopen: re-opens an incomplete round whatever made it incomplete.
MayReopenAny(st, flag) == flag = "resume" \/ Durable!LastIncomplete(st.rounds, st.status)

MayReopen(st, flag) ==
  CASE flag = "retry" -> Durable!CanRetry(st.rounds, st.status)
    [] flag = "reopen" -> Durable!CanReopen(st.rounds, st.status)
    [] OTHER -> TRUE

Disturb == disturbed < MaxDisturbances /\ disturbed' = disturbed + 1

NoRetries == [other |-> 0, rate |-> 0]
Down == pc' = "down" /\ mem' = NewState /\ answer' = NoAnswer /\ verdict' = Durable!NoAttempt /\ retries' = NoRetries

\* Load, re-open, and the save that run() begins with.  Between the first two and
\* the save nothing durable happens that a later step reads.
Start(flag) ==
  /\ pc = "down"
  /\ MayReopen(disk, flag)
  /\ IF flag = "resume" THEN UNCHANGED disturbed ELSE Disturb
  /\ mem' = Reopened(disk, flag)
  /\ disk' = mem'
  /\ pc' = "ready"
  /\ UNCHANGED <<retries, answer, verdict, files, overlong, billed>>

\* run() returns: next_action has nothing to do, or stop_after_rounds is reached
\* at a round boundary.
Finish ==
  /\ pc = "ready"
  /\ \/ ~Durable!WantsGeneration(mem.rounds, mem.status) /\ ~Durable!WantsEvaluation(mem.rounds, mem.status)
     \/ mem.rounds # <<>> /\ ~Durable!HasPending(mem.rounds) /\ mem.status = "in_progress"
  /\ disk' = mem
  /\ Down
  /\ UNCHANGED <<files, environment>>

\* The process is killed.  A request it waited for may have been charged.
Crash ==
  /\ pc # "down"
  /\ Disturb
  /\ billed' \in {billed} \cup (IF pc = "await" THEN {[billed EXCEPT ![Cur] = @ + 1]} ELSE {})
  /\ Down
  /\ UNCHANGED <<disk, files, overlong>>

\* `review-resolve` on a trajectory that no process runs.
Review(decision) ==
  /\ pc = "down"
  /\ Durable!CanReview(disk.rounds)
  /\ LET rs == Durable!WithReview(disk.rounds, decision)
     IN  disk' = [disk EXCEPT !.rounds = rs, !.status = Durable!Settled("in_progress", rs)]
  /\ UNCHANGED <<process, files, environment>>
-----------------------------------------------------------------------------
(* One generation attempt: _generate and _request_with_retries *)

\* Where _generate goes first.
Apply(v) == verdict' = v /\ pc' = "apply"

\* Mutant of ArchiveReused: reused only once its ledger row is written too.
ReusedWhenAccounted(r) == resp[r] # "absent" /\ ledger[r] > 0
ArchiveReused(r) == resp[r] # "absent"

\* Mutant of LedgerHas: a round has a row only after it is recorded.
LedgerHasRecorded(r) == ledger[r] > 0 /\ mem.cost[r] # NoCost
LedgerHas(r) == ledger[r] > 0

LedgerRow(r) == ledger' = [ledger EXCEPT ![r] = @ + 1]
LedgerRowUnlessThere(r) == IF LedgerHas(r) THEN UNCHANGED ledger ELSE LedgerRow(r)

\* The rendered prompt is too long: a not_sent ledger row, a format error.
TooLong ==
  /\ pc = "ready" /\ Durable!WantsGeneration(mem.rounds, mem.status)
  /\ Cur \in overlong
  /\ LedgerRowUnlessThere(Cur)
  /\ Apply("format_error")
  /\ UNCHANGED <<disk, mem, retries, answer, log, resp, cand, comp, evals, bestdir, environment>>

\* No archived response: the transport history is rebuilt and a request follows.
BeginRequest ==
  /\ pc = "ready" /\ Durable!WantsGeneration(mem.rounds, mem.status)
  /\ Cur \notin overlong
  /\ ~ArchiveReused(Cur)
  /\ log' = [log EXCEPT ![Cur] = Rebuilt(@)]
  /\ pc' = "request"
  /\ retries' = NoRetries
  /\ UNCHANGED <<disk, mem, answer, verdict, resp, ledger, cand, comp, evals, bestdir, environment>>

\* before_send raises StopRequested: nothing is sent, the process pauses.
Pause ==
  /\ pc = "request"
  /\ Disturb
  /\ disk' = mem
  /\ Down
  /\ UNCHANGED <<files, overlong, billed>>

Send ==
  /\ pc = "request"
  /\ log' = [log EXCEPT ![Cur] = LET id == NextTransportId(@, retries)
                                 IN  IF id \in DOMAIN @ THEN [@ EXCEPT ![id] = "sending"] ELSE Append(@, "sending")]
  /\ pc' = "await"
  /\ UNCHANGED <<disk, mem, retries, answer, verdict, resp, ledger, cand, comp, evals, bestdir, environment>>

\* The provider answers or the connection fails.
Answer(a, charge) ==
  /\ pc = "await"
  /\ charge \in ChargesOf(a)
  /\ billed' = [billed EXCEPT ![Cur] = @ + charge]
  /\ answer' = a
  /\ pc' = "answered"
  /\ UNCHANGED <<disk, mem, retries, verdict, files, overlong, disturbed>>

RetriesAfter(a) ==
  CASE a.kind = "rate_limited" -> [retries EXCEPT !.rate = @ + 1]
    [] a.kind \in {"failed_free", "failed_unknown"} -> [retries EXCEPT !.other = @ + 1]
    [] OTHER -> retries

GivesUp(session) == session.other > MaxTransportRetries \/ session.rate > MaxRateLimitRetries

\* The terminal event is logged; then archive, retry or give up.
RecordAnswer ==
  /\ pc = "answered"
  /\ log' = [log EXCEPT ![Cur] = [@ EXCEPT ![CHOOSE i \in DOMAIN @ : @[i] = "sending"] = ChargeRecorded(answer)]]
  /\ retries' = RetriesAfter(answer)
  /\ CASE answer \in Responses -> pc' = "archive" /\ UNCHANGED verdict
       [] answer.kind \in {"refused", "quota"} -> Apply("provider_refused")
       [] GivesUp(retries') -> Apply("transport_failed")
       [] OTHER -> pc' = "request" /\ UNCHANGED verdict
  /\ UNCHANGED <<disk, mem, answer, resp, ledger, cand, comp, evals, bestdir, environment>>

\* archive_response: the file is opened, then filled.
OpenArchive ==
  /\ pc = "archive"
  /\ resp' = [resp EXCEPT ![Cur] = "torn"]
  /\ pc' = "fill_archive"
  /\ UNCHANGED <<disk, mem, retries, answer, verdict, log, ledger, cand, comp, evals, bestdir, environment>>

FillArchive ==
  /\ pc = "fill_archive"
  /\ resp' = [resp EXCEPT ![Cur] = answer.text]
  /\ pc' = "account"
  /\ UNCHANGED <<disk, mem, retries, answer, verdict, log, ledger, cand, comp, evals, bestdir, environment>>

\* The ledger row: appended after a fresh response is archived, and by a resume
\* that reuses an archived response and finds no row.
Account ==
  /\ pc = "account"
  /\ IF answer \in Responses THEN LedgerRow(Cur) ELSE LedgerRowUnlessThere(Cur)
  /\ pc' = "parse"
  /\ UNCHANGED <<disk, mem, retries, answer, verdict, log, resp, cand, comp, evals, bestdir, environment>>

\* The archived response is reused.  A torn one does not parse: the exception
\* leaves run() and the process ends.
ReuseArchive ==
  /\ pc = "ready" /\ Durable!WantsGeneration(mem.rounds, mem.status)
  /\ Cur \notin overlong
  /\ ArchiveReused(Cur)
  /\ IF resp[Cur] = "torn"
     THEN Down /\ UNCHANGED log
     ELSE /\ log' = [log EXCEPT ![Cur] = Rebuilt(@)]
          /\ pc' = "account"
          /\ UNCHANGED <<mem, retries, answer, verdict>>
  /\ UNCHANGED <<disk, resp, ledger, cand, comp, evals, bestdir, environment>>
-----------------------------------------------------------------------------
(* The candidate and its compliance record *)

\* A response that is truncated or holds no candidate is a format error; a
\* candidate file that exists is kept.
Parse ==
  /\ pc = "parse"
  /\ CASE resp[Cur] = "malformed" -> Apply("format_error") /\ UNCHANGED cand
       [] resp[Cur] = "candidate" /\ cand[Cur] = "absent" ->
            pc' = "fill_candidate" /\ cand' = [cand EXCEPT ![Cur] = "torn"] /\ UNCHANGED verdict
       [] OTHER -> pc' = "check" /\ UNCHANGED <<cand, verdict>>
  /\ UNCHANGED <<disk, mem, retries, answer, log, resp, ledger, comp, evals, bestdir, environment>>

FillCandidate ==
  /\ pc = "fill_candidate"
  /\ cand' = [cand EXCEPT ![Cur] = "whole"]
  /\ pc' = "check"
  /\ UNCHANGED <<disk, mem, retries, answer, verdict, log, resp, ledger, comp, evals, bestdir, environment>>

\* Mutant of StoredVerdictStands: a resume checks the candidate again.
CheckedAgain(r) == comp[r] = "torn"
StoredVerdictStands(r) == comp[r] # "absent"

\* _compliance with a stored record: the first verdict stands; a torn record is
\* an exception.
ReuseVerdict ==
  /\ pc = "check"
  /\ StoredVerdictStands(Cur)
  /\ IF comp[Cur] = "torn"
     THEN Down
     ELSE Apply(comp[Cur]) /\ UNCHANGED <<mem, retries, answer>>
  /\ UNCHANGED <<disk, files, environment>>

\* _compliance without one: the checker in force gives v, and the record is
\* opened and filled.
Check(v) ==
  /\ pc = "check"
  /\ ~StoredVerdictStands(Cur)
  /\ comp' = [comp EXCEPT ![Cur] = "torn"]
  /\ verdict' = v
  /\ pc' = "fill_record"
  /\ UNCHANGED <<disk, mem, retries, answer, log, resp, ledger, cand, evals, bestdir, environment>>

FillRecord ==
  /\ pc = "fill_record"
  /\ comp' = [comp EXCEPT ![Cur] = verdict]
  /\ pc' = "apply"
  /\ UNCHANGED <<disk, mem, retries, answer, verdict, log, resp, ledger, cand, evals, bestdir, environment>>

\* apply_attempt and the save that ends the step.
ApplyAndSave ==
  /\ pc = "apply"
  /\ ~Durable!OpenRoundRaises(mem.rounds, mem.status, Cur)
  /\ LET rs == Durable!WithAttempt(mem.rounds, verdict)
         cost == IF Cur \in overlong THEN [status |-> "not_sent", tokens |-> 0] ELSE AttemptCost(log[Cur])
     IN  mem' = [mem EXCEPT !.rounds = rs, !.status = Durable!Settled(Durable!AttemptStatus(@, verdict), rs),
                            !.cost[Cur] = cost]
  /\ disk' = mem'
  /\ pc' = "ready"
  /\ answer' = NoAnswer /\ verdict' = Durable!NoAttempt /\ retries' = NoRetries
  /\ UNCHANGED <<files, environment>>
-----------------------------------------------------------------------------
(* One evaluation: _evaluate *)

\* A new revision directory, then the evaluator runs.
BeginEvaluation ==
  /\ pc = "ready" /\ Durable!WantsEvaluation(mem.rounds, mem.status)
  /\ evals' = [evals EXCEPT ![Cur] = LET rev == NextRevision(Cur)
                                     IN  IF rev \in DOMAIN @ THEN [@ EXCEPT ![rev] = "started"] ELSE Append(@, "started")]
  /\ pc' = "evaluating"
  /\ UNCHANGED <<disk, mem, retries, answer, verdict, log, resp, ledger, cand, comp, bestdir, environment>>

\* The revision the process works in is the one it started last.
Working(r) == CHOOSE i \in DOMAIN evals[r] : evals[r][i] = "started" /\ \A j \in DOMAIN evals[r] : evals[r][j] = "started" => j <= i

\* Mutant of RevisionsWith: the revision is not added when one is already listed.
RevisionsOnce(revs, rev) == IF revs = <<>> THEN <<rev>> ELSE revs
RevisionsWith(revs, rev) == Append(revs, rev)

\* evaluation.json is written and apply_evaluation called; a file that is not the
\* candidate cannot be valid.  A new best candidate is copied before the save.
FinishEvaluation(o, lat) ==
  /\ pc = "evaluating"
  /\ cand[Cur] = "torn" => o \in Failures \cup {"infrastructure_incomplete"}
  /\ evals' = [evals EXCEPT ![Cur][Working(Cur)] = o]
  /\ LET rs == Durable!WithEvaluation(mem.rounds, o, lat)
         better == Durable!Better(mem.best, o, Durable!LastOf(rs))
     IN  /\ mem' = [mem EXCEPT !.rounds = rs, !.best = better,
                               !.status = Durable!Settled(Durable!EvaluatedStatus(@, o), rs),
                               !.revs[Cur] = RevisionsWith(@, Working(Cur))]
         /\ pc' = IF o = "valid" /\ better.round = Cur THEN "copy" ELSE "save"
  /\ UNCHANGED <<disk, retries, answer, verdict, log, resp, ledger, cand, comp, bestdir, environment>>

CopyBest ==
  /\ pc = "copy"
  /\ bestdir' = mem.best.round
  /\ pc' = "save"
  /\ UNCHANGED <<disk, mem, retries, answer, verdict, log, resp, ledger, cand, comp, evals, environment>>

SaveEvaluation ==
  /\ pc = "save"
  /\ disk' = mem
  /\ pc' = "ready"
  /\ UNCHANGED <<mem, retries, answer, verdict, files, environment>>
-----------------------------------------------------------------------------
Init ==
  /\ disk = NewState
  /\ pc = "down" /\ mem = NewState /\ answer = NoAnswer /\ verdict = Durable!NoAttempt /\ retries = NoRetries
  /\ log = [r \in Round |-> <<>>] /\ evals = [r \in Round |-> <<>>]
  /\ resp = [r \in Round |-> "absent"] /\ cand = [r \in Round |-> "absent"] /\ comp = [r \in Round |-> "absent"]
  /\ ledger = [r \in Round |-> 0] /\ billed = [r \in Round |-> 0]
  /\ bestdir = 0 /\ disturbed = 0
  /\ overlong \in SUBSET Round

Generation ==
  \/ TooLong \/ BeginRequest \/ Pause \/ Send
  \/ \E a \in Answers, charge \in {0, 1} : Answer(a, charge)
  \/ RecordAnswer \/ OpenArchive \/ FillArchive \/ Account \/ ReuseArchive
  \/ Parse \/ FillCandidate \/ ReuseVerdict \/ (\E v \in Checks : Check(v)) \/ FillRecord
  \/ ApplyAndSave

Evaluation ==
  \/ BeginEvaluation
  \/ \E o \in Durable!Outcomes, lat \in Latencies : FinishEvaluation(o, lat)
  \/ CopyBest \/ SaveEvaluation

Next ==
  \/ \E flag \in {"resume", "retry", "reopen"} : Start(flag)
  \/ Finish \/ Crash
  \/ \E d \in {"compliant", "violation"} : Review(d)
  \/ Generation
  \/ Evaluation

Spec == Init /\ [][Next]_vars
-----------------------------------------------------------------------------
(* Properties *)

Recorded(r) == r \in DOMAIN disk.rounds /\ disk.rounds[r].verdict # Durable!NoAttempt

\* What an attempt cost is never wrong: over every crash between sending and
\* logging, lost response and re-opening, a cost recorded as known is what the
\* provider charged for the round, and only a round for which nothing was ever
\* sent is recorded as not sent.
CostIsTrue ==
  \A r \in Round : Recorded(r) =>
    /\ disk.cost[r].status = "known" => disk.cost[r].tokens = billed[r]
    /\ disk.cost[r].status = "not_sent" => billed[r] = 0 /\ r \in overlong
    /\ disk.cost[r].status # "none"

\* The usage ledger has one row per archived response (and one for a prompt that
\* was not sent): never two, and none missing once the attempt is recorded.
LedgerMatchesArchive ==
  \A r \in Round :
    /\ ledger[r] <= 1
    /\ ledger[r] = 1 => resp[r] \in {"candidate", "malformed"} \/ r \in overlong
    /\ Recorded(r) /\ disk.rounds[r].verdict \notin {"transport_failed", "provider_refused"} => ledger[r] = 1

\* A round whose response is being archived or is archived is never requested,
\* and so never charged, again.
NoSecondRequest ==
  [][\A r \in Round : resp[r] # "absent" => /\ billed'[r] = billed[r]
                                            /\ Len(log'[r]) = Len(log[r])
                                            /\ resp[r] # "torn" => resp'[r] = resp[r]]_<<billed, log, resp>>

\* trajectory.json goes only through the states of Trajectory, whatever the
\* process was doing when it died: each save is one transition or none.
ImplementsTrajectory == Durable!Spec

\* The first compliance verdict stands: compliance.json is never rewritten, even
\* by a resume under another checker, and the recorded verdict is the one it
\* holds unless a review decided or the evaluation confirmed a violation.
VerdictFrom(r, v) ==
  \/ comp[r] = v
  \/ comp[r] = "review_required" /\ v \in {"clear", "confirmed_violation"}
  \/ comp[r] \in Durable!Evaluable /\ v = "confirmed_violation" /\ "contract_violation" \in Range(evals[r])
FirstVerdictStands ==
  [][\A r \in Round :
       /\ comp[r] \in CheckerVerdicts => comp'[r] = comp[r]
       /\ Recorded(r) /\ disk.rounds[r].verdict \in CheckerVerdicts => VerdictFrom(r, disk.rounds[r].verdict)]_<<comp, disk>>

\* A recorded result is backed by evidence on disk: the revision the state names
\* for a round exists, is finished, and says what the round's status says.
EvidenceBacksResult ==
  \A r \in DOMAIN disk.rounds : disk.revs[r] # <<>> =>
    LET rev == Last(disk.revs[r])
        said == IF rev \in DOMAIN evals[r] THEN evals[r][rev] ELSE "started"
    IN  disk.rounds[r].status # "pending" =>
          disk.rounds[r].status = IF said = "bad_suite" THEN "timing_error" ELSE said

\* Earlier revisions are never overwritten, whether their evaluation finished,
\* crashed, or finished and was never saved: only the newest directory of the
\* round under evaluation changes.
EvidenceAppendOnly ==
  [][\A r \in Round :
       /\ Len(evals'[r]) >= Len(evals[r])
       /\ \A i \in DOMAIN evals[r] : evals'[r][i] # evals[r][i] =>
            i = Len(evals[r]) /\ pc = "evaluating" /\ r = Cur /\ evals[r][i] = "started"]_evals
-----------------------------------------------------------------------------
(* What comments and documents say and the code does not keep *)

\* What runner.py says of impl_<dsl>.py: it is the parsed candidate, so that is
\* what gets evaluated.  A process that dies while it writes the file leaves a
\* torn one, which every resume keeps.
EvaluatedIsParsed == pc = "evaluating" => cand[Cur] = "whole"

\* What ARTIFACT_POLICY.md says of best_valid/: it holds the fastest valid
\* candidate of a finished trajectory.  It is written before the state that makes
\* the candidate the best one, and a crash between the two lets the repeated
\* evaluation decide otherwise.
BestDirIsBest == pc = "down" /\ disk.status = "complete" => bestdir = disk.best.round
=============================================================================
