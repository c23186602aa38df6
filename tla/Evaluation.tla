----------------------------- MODULE Evaluation -----------------------------
(***************************************************************************)
(* Evaluations of candidates on one device (evaluation/launcher.py and     *)
(* evaluation/worker.py).  A launcher, a thread of some scheduler process  *)
(* or a `re-evaluate` command, takes the device lock and starts a worker   *)
(* process; the worker loads the candidate once and evaluates the cases of *)
(* the suite in order.  The worker may hang or die anywhere, the wall      *)
(* clock may kill it, and the launcher itself may be killed; what the      *)
(* launcher then says of the round it reads from the three files the       *)
(* worker leaves: progress.json, cases.jsonl and result.json.              *)
(***************************************************************************)
EXTENDS Integers, Sequences, FiniteSets

CONSTANTS
  Evaluations,            \* calls of SubprocessEvaluator.evaluate for this device
  N,                      \* cases of the suite
  CaptureFailureIsError,  \* capture_failure_policy: timing_error (formal) or time_eagerly_and_flag
  None                    \* no evaluation

ASSUME SuiteAssumption == N \in Nat \ {0} /\ CaptureFailureIsError \in BOOLEAN
ASSUME NoneAssumption == None \notin Evaluations

VARIABLES
  pc,          \* the launcher
  isolation,   \* detect_isolation: "bwrap" or "none"
  device,      \* the evaluation that holds the device lock
  worker,      \* its worker process: none, alive, exited, dead (killed or crashed)
  stage,       \* where the worker is, or was when it died
  pos,         \* the case it works on
  progress,    \* progress.json: whether it names a candidate phase
  cases,       \* cases.jsonl: the statuses of the finished cases
  global,      \* the status that stopped the whole suite before its first case
  file,        \* result.json: absent, torn or whole
  timedOut,    \* the wall clock killed the worker
  outcome,     \* what evaluate returned
  unrestored   \* history: the precision state could not be restored in this case

launcher == <<pc, isolation, device, timedOut, outcome>>
process == <<worker, stage, pos, global, unrestored>>
sandbox == <<progress, cases, file>>
vars == <<launcher, process, sandbox>>
-----------------------------------------------------------------------------
(* Suites *)

CaseStatuses == {"valid", "interface_error", "compile_error", "runtime_error", "numerical_error", "timing_error",
                 "contract_violation", "not_evaluated"}
SuiteStop == {"contract_violation", "compile_error"}

AllValid(cs) == Len(cs) = N /\ \A i \in DOMAIN cs : cs[i] = "valid"
FirstFailing(cs) == CHOOSE i \in DOMAIN cs : cs[i] # "valid" /\ \A j \in 1..(i - 1) : cs[j] = "valid"

\* The cases of the suite, those after the given ones not evaluated.
Filled(cs) == [i \in 1..N |-> IF i \in DOMAIN cs THEN cs[i] ELSE "not_evaluated"]

\* summarize_suite of a complete list of records.
SuiteStatus(cs) == IF AllValid(cs) THEN "valid" ELSE cs[FirstFailing(cs)]

NoOutcome == [status |-> "none", cases |-> <<>>]

\* The result a worker writes: the suite never started (the evaluator failed, or
\* a global check stopped it), or every case has a record.
WorkerResult(e) ==
  IF global[e] # "none"
  THEN [status |-> global[e], cases |-> IF global[e] = "infrastructure_incomplete" THEN <<>> ELSE Filled(<<>>)]
  ELSE [status |-> SuiteStatus(Filled(cases[e])), cases |-> Filled(cases[e])]

NamesCandidate(e) == progress[e] = "candidate"

\* classify_no_result: after the candidate was loaded the finished cases stand, the
\* next one is the failing one and the round is a runtime error.
\* Mutants of NoResult: the finished cases are summarized as they are, or lost.
NoResultSummarized(e) == [status |-> IF cases[e] # <<>> /\ \A i \in DOMAIN cases[e] : cases[e][i] = "valid"
                                     THEN "valid" ELSE "runtime_error",
                          cases |-> cases[e]]
NoResultForgets(e) == [status |-> "runtime_error", cases |-> Filled(<<"runtime_error">>)]
NoResult(e) ==
  IF NamesCandidate(e)
  THEN [status |-> "runtime_error",
        cases |-> Filled(IF Len(cases[e]) < N THEN Append(cases[e], "runtime_error") ELSE cases[e])]
  ELSE [status |-> "infrastructure_incomplete", cases |-> <<>>]

\* suite_check of state_machine.py: what it asks of a result whose status is valid.
SuiteCheck(res) == res.cases # <<>> /\ AllValid(res.cases)
-----------------------------------------------------------------------------
(* What may happen in a stage of the worker, and the status it gives a case *)

CaseStages == <<"first_execution", "numerical_checks", "timing">>
InCase(e) == \E i \in DOMAIN CaseStages : stage[e] = CaseStages[i]

\* Importing the module, its interface, the autotuner scan.
LoadEvents == {"ok", "tampered", "autotuner", "raises", "no_interface"}
GlobalStatus(event) ==
  CASE event \in {"tampered", "autotuner"} -> "contract_violation"
    [] event = "raises" -> "compile_error"
    [] event = "no_interface" -> "interface_error"
    [] OTHER -> "none"

\* What a call of the candidate may do, and what else the stage may find.  The
\* exception of a failed restore of the precision state passes through the same
\* handlers as the candidate's own.
Events(s) ==
  {"ok", "tampered", "unrestored", "raises", "config"} \cup
  (CASE s = "first_execution" -> {"raises_compile"}
     [] s = "numerical_checks" -> {"mismatch", "aliased"}
     [] OTHER -> {"capture_fails", "no_sample"})

\* The status with which the case ends, "none" when it goes on.
CaseStatus(s, event) ==
  CASE event \in {"tampered", "aliased"} -> "contract_violation"
    [] event = "raises_compile" -> "compile_error"
    [] event = "config" -> "interface_error"
    [] event = "mismatch" -> "numerical_error"
    [] event \in {"raises", "unrestored"} -> IF s = "timing" THEN "timing_error" ELSE "runtime_error"
    [] event = "no_sample" \/ (event = "capture_fails" /\ CaptureFailureIsError) -> "timing_error"
    [] OTHER -> IF s = "timing" THEN "valid" ELSE "none"

\* The progress marker of the next stage is opened, which empties it, then filled.
\* Mutant of Opened: the load stage has no marker.
OpenedInCases(s) == IF s = "load" THEN "none" ELSE "torn"
Opened(s) == "torn"

EnterStage(e, s) == stage' = [stage EXCEPT ![e] = s] /\ progress' = [progress EXCEPT ![e] = Opened(s)]
-----------------------------------------------------------------------------
(* The worker: run_job, run_case, main *)

Works(e) == pc[e] = "running" /\ worker[e] = "alive"
Runs(e, s) == Works(e) /\ stage[e] = s /\ progress[e] # "torn"

FillMarker(e) ==
  /\ Works(e) /\ progress[e] = "torn"
  /\ progress' = [progress EXCEPT ![e] = "candidate"]
  /\ UNCHANGED <<launcher, process, cases, file>>

\* The result file is opened; nothing else is written after it.
OpenResult(e) == file' = [file EXCEPT ![e] = "torn"]

\* Imports, the device, the reference; a failure is the evaluator's.
Boot(e) ==
  /\ Runs(e, "boot")
  /\ EnterStage(e, "load")
  /\ UNCHANGED <<launcher, worker, pos, global, unrestored, cases, file>>

BootFails(e) ==
  /\ Runs(e, "boot")
  /\ global' = [global EXCEPT ![e] = "infrastructure_incomplete"]
  /\ stage' = [stage EXCEPT ![e] = "write"]
  /\ OpenResult(e)
  /\ UNCHANGED <<launcher, worker, pos, unrestored, progress, cases>>

\* The candidate is imported; a global failure stops the suite before its first case.
Load(e, event) ==
  /\ Runs(e, "load")
  /\ global' = [global EXCEPT ![e] = GlobalStatus(event)]
  /\ IF global'[e] = "none"
     THEN EnterStage(e, "first_execution") /\ UNCHANGED file
     ELSE stage' = [stage EXCEPT ![e] = "write"] /\ OpenResult(e) /\ UNCHANGED progress
  /\ UNCHANGED <<launcher, worker, pos, unrestored, cases>>

\* Mutant of MoreCases: one case too many.
MoreCasesThan(p) == p <= N
MoreCases(p) == p < N

\* One stage of a case.  A finished case is appended to cases.jsonl before the next
\* one starts; a violation or a compile failure stops the suite.
RunStage(e, i, event) ==
  /\ Runs(e, CaseStages[i])
  /\ event \in Events(stage[e])
  /\ unrestored' = [unrestored EXCEPT ![e] = @ \/ event = "unrestored"]
  /\ LET s == CaseStatus(stage[e], event)
         goesOn == s \notin SuiteStop /\ MoreCases(pos[e])
     IN  IF s = "none"
         THEN EnterStage(e, CaseStages[i + 1]) /\ UNCHANGED <<cases, pos>>
         ELSE /\ cases' = [cases EXCEPT ![e] = Append(@, s)]
              /\ EnterStage(e, IF goesOn THEN "first_execution" ELSE "end")
              /\ pos' = [pos EXCEPT ![e] = IF goesOn THEN @ + 1 ELSE @]
  /\ UNCHANGED <<launcher, worker, global, file>>

\* The suite is summarized.
End(e) ==
  /\ Runs(e, "end")
  /\ stage' = [stage EXCEPT ![e] = "write"]
  /\ OpenResult(e)
  /\ UNCHANGED <<launcher, worker, pos, global, unrestored, progress, cases>>

WriteResult(e) ==
  /\ Works(e) /\ stage[e] = "write"
  /\ file' = [file EXCEPT ![e] = "whole"]
  /\ worker' = [worker EXCEPT ![e] = "exited"]
  /\ UNCHANGED <<launcher, stage, pos, global, unrestored, progress, cases>>

\* A crash, the OOM killer, or a candidate that ends the process.
Die(e) ==
  /\ Works(e)
  /\ worker' = [worker EXCEPT ![e] = "dead"]
  /\ UNCHANGED <<launcher, stage, pos, global, unrestored, sandbox>>
-----------------------------------------------------------------------------
(* The launcher: SubprocessEvaluator.evaluate *)

\* device_lock, then the worker starts in its fresh sandbox.
Start(e) ==
  /\ pc[e] = "lock" /\ device = None
  /\ device' = e
  /\ pc' = [pc EXCEPT ![e] = "running"]
  /\ worker' = [worker EXCEPT ![e] = "alive"]
  /\ UNCHANGED <<isolation, timedOut, outcome, stage, pos, global, unrestored, sandbox>>

\* The wall clock of subprocess.run: also when the worker has just finished and
\* nobody has noticed.
\* Mutant of WallClockApplies: only a worker that reached the candidate is timed.
WallClockAfterBoot(e) == stage[e] # "boot"
WallClockApplies(e) == worker[e] \in {"alive", "exited"}

Timeout(e) ==
  /\ pc[e] = "running" /\ ~timedOut[e]
  /\ WallClockApplies(e)
  /\ timedOut' = [timedOut EXCEPT ![e] = TRUE]
  /\ worker' = [worker EXCEPT ![e] = "dead"]
  /\ UNCHANGED <<pc, isolation, device, outcome, stage, pos, global, unrestored, sandbox>>

\* The worker and its sandbox are gone, or nobody will read what is left of them.
Forgotten(e) ==
  /\ stage' = [stage EXCEPT ![e] = "boot"] /\ pos' = [pos EXCEPT ![e] = 1]
  /\ progress' = [progress EXCEPT ![e] = "none"] /\ cases' = [cases EXCEPT ![e] = <<>>]
  /\ global' = [global EXCEPT ![e] = "none"] /\ file' = [file EXCEPT ![e] = "absent"]
  /\ timedOut' = [timedOut EXCEPT ![e] = FALSE] /\ unrestored' = [unrestored EXCEPT ![e] = FALSE]

\* The worker is gone: the lock is released, the files are read and the sandbox is
\* deleted.  A torn result.json is an exception unless the wall clock struck.
Collect(e) ==
  /\ pc[e] = "running" /\ worker[e] \in {"exited", "dead"}
  /\ device' = None
  /\ IF ~timedOut[e] /\ file[e] = "torn"
     THEN pc' = [pc EXCEPT ![e] = "raised"] /\ UNCHANGED outcome
     ELSE /\ pc' = [pc EXCEPT ![e] = "done"]
          /\ outcome' = [outcome EXCEPT ![e] = IF timedOut[e] \/ file[e] = "absent" THEN NoResult(e) ELSE WorkerResult(e)]
  /\ Forgotten(e)
  /\ UNCHANGED <<isolation, worker>>

\* Mutant of DiesWithLauncher: no --die-with-parent.
OutlivesLauncher(e) == FALSE
DiesWithLauncher(e) == isolation[e] = "bwrap"

\* The launcher is killed: the kernel releases the lock, and bwrap takes the worker
\* with it.  A worker that is left goes on in a sandbox nobody will read, until it ends.
Kill(e) ==
  /\ pc[e] \in {"lock", "running"}
  /\ pc' = [pc EXCEPT ![e] = "killed"]
  /\ device' = IF device = e THEN None ELSE device
  /\ worker' = [worker EXCEPT ![e] = IF @ = "alive" /\ DiesWithLauncher(e) THEN "dead" ELSE @]
  /\ Forgotten(e)
  /\ UNCHANGED <<isolation, outcome>>

OrphanEnds(e) ==
  /\ pc[e] = "killed" /\ worker[e] = "alive"
  /\ worker' = [worker EXCEPT ![e] = "dead"]
  /\ UNCHANGED <<launcher, stage, pos, global, unrestored, sandbox>>
-----------------------------------------------------------------------------
Init ==
  /\ isolation \in [Evaluations -> {"bwrap", "none"}]
  /\ pc = [e \in Evaluations |-> "lock"] /\ device = None
  /\ worker = [e \in Evaluations |-> "none"] /\ stage = [e \in Evaluations |-> "boot"]
  /\ pos = [e \in Evaluations |-> 1]
  /\ progress = [e \in Evaluations |-> "none"] /\ cases = [e \in Evaluations |-> <<>>]
  /\ global = [e \in Evaluations |-> "none"] /\ file = [e \in Evaluations |-> "absent"]
  /\ timedOut = [e \in Evaluations |-> FALSE] /\ unrestored = [e \in Evaluations |-> FALSE]
  /\ outcome = [e \in Evaluations |-> NoOutcome]

WorkerStep(e) ==
  \/ FillMarker(e) \/ Boot(e) \/ BootFails(e)
  \/ \E event \in LoadEvents : Load(e, event)
  \/ \E i \in DOMAIN CaseStages : \E event \in Events(CaseStages[i]) : RunStage(e, i, event)
  \/ End(e) \/ WriteResult(e) \/ Die(e)

Next == \E e \in Evaluations : WorkerStep(e) \/ Start(e) \/ Timeout(e) \/ Collect(e) \/ Kill(e) \/ OrphanEnds(e)

\* A launcher polls the lock and waits for its worker with a timeout; a worker may
\* hang for ever.
Fairness == \A e \in Evaluations : WF_vars(Start(e)) /\ WF_vars(Timeout(e)) /\ WF_vars(Collect(e))

Spec == Init /\ [][Next]_vars /\ Fairness
-----------------------------------------------------------------------------
(* Properties *)

Results == [status : (CaseStatuses \ {"not_evaluated"}) \cup {"infrastructure_incomplete", "none"}, cases : Seq(CaseStatuses)]

TypeOK ==
  /\ pc \in [Evaluations -> {"lock", "running", "done", "raised", "killed"}]
  /\ isolation \in [Evaluations -> {"bwrap", "none"}]
  /\ device \in Evaluations \cup {None}
  /\ worker \in [Evaluations -> {"none", "alive", "exited", "dead"}]
  /\ stage \in [Evaluations -> {"boot", "load", "first_execution", "numerical_checks", "timing", "end", "write"}]
  /\ pos \in [Evaluations -> 1..N]
  /\ progress \in [Evaluations -> {"none", "torn", "candidate"}]
  /\ cases \in [Evaluations -> Seq(CaseStatuses \ {"not_evaluated"})]
  /\ \A e \in Evaluations : Len(cases[e]) <= N
  /\ global \in [Evaluations -> {"none", "infrastructure_incomplete", "contract_violation", "compile_error", "interface_error"}]
  /\ file \in [Evaluations -> {"absent", "torn", "whole"}]
  /\ timedOut \in [Evaluations -> BOOLEAN] /\ unrestored \in [Evaluations -> BOOLEAN]
  /\ outcome \in [Evaluations -> Results]

\* Candidates of one device are timed one at a time: when two workers are alive,
\* one of them outlived a launcher that was killed without the bwrap sandbox.
Orphan(e) == pc[e] = "killed" /\ isolation[e] = "none"
WorkersAreExclusive ==
  \A e, f \in Evaluations : worker[e] = "alive" /\ worker[f] = "alive" => e = f \/ Orphan(e) \/ Orphan(f)

\* The evaluation e returns: its result is in outcome'[e], the sandbox it comes from
\* is still the unprimed one.
Returns(e) == pc[e] = "running" /\ pc'[e] = "done"

\* A round is valid only when the worker really finished every case of the suite
\* with a valid result, whatever raced with the wall clock, and then the state
\* machine's own check of the suite accepts the result.
ValidIsEarned ==
  [][\A e \in Evaluations : Returns(e) /\ outcome'[e].status = "valid" => AllValid(cases[e]) /\ SuiteCheck(outcome'[e])]_vars

\* The progress marker tells whose failure a missing result is: a worker that never
\* came to the candidate costs the candidate nothing, and one that did is the
\* candidate's failure, except when it dies inside the write of the marker.
BlameFollowsMarker ==
  [][\A e \in Evaluations : Returns(e) =>
       LET infra == outcome'[e].status = "infrastructure_incomplete"
           reached == stage[e] # "boot" /\ global[e] # "infrastructure_incomplete"
       IN  /\ ~reached => infra
           /\ infra => ~reached \/ progress[e] = "torn"]_vars

\* A worker that dies keeps the cases it finished, in the order of the suite; after
\* them one case at most is charged, and the others are not evaluated.
FinishedCasesStand ==
  [][\A e \in Evaluations : Returns(e) /\ outcome'[e].status # "infrastructure_incomplete" =>
       LET done == Len(cases[e])
           said == outcome'[e].cases
       IN  /\ Len(said) = N
           /\ \A i \in 1..done : said[i] = cases[e][i]
           /\ \A i \in (done + 1)..N : said[i] = "not_evaluated" \/ (i = done + 1 /\ said[i] = "runtime_error")]_vars

\* Whatever a candidate does, hanging included, its evaluation ends and the device
\* comes to the next one.
EveryEvaluationEnds == \A e \in Evaluations : pc[e] = "lock" ~> pc[e] \in {"done", "raised", "killed"}
-----------------------------------------------------------------------------
(* What comments and documents say and the code does not keep *)

\* What PROTOCOL_REVISION_4.md says of the precision guard: a restore that fails is
\* infrastructure_incomplete, never the candidate's.  The worker catches the exception
\* where it catches the candidate's own.
UnrestoredIsInfrastructure ==
  [][\A e \in Evaluations : Returns(e) /\ worker[e] = "exited" /\ unrestored[e] => outcome'[e].status = "infrastructure_incomplete"]_vars
=============================================================================
