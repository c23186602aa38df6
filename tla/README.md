# TileBench: TLA+ models, checks and proofs

TileBench compares kernel languages by letting language models write kernels and
timing them. Its core logic is the LLM v2 study (`src/tilebench/llm/v2/`): paid
requests, compliance verdicts, GPU evaluations and durable records, run by threads
that may be killed at any point and resumed by later processes. Around it are the
programs that turn runs into numbers: the benchmark engine, the Trainium measurement,
calibration and scoring, accounting, skill distillation and the first generation
pipeline. This directory models these parts and states what makes them correct:
nothing is paid twice or booked wrongly, no result is recorded that the evidence does
not back, no candidate is charged with a failure that is not its own, no number is
reported that was not measured, and nothing waits forever.

## 1. The system

### Parts, state and operations

| Component | State | Operations |
| --- | --- | --- |
| **Trajectory state machine** (`orchestration/state.py`, `state_machine.py`) | `TrajectoryState`: rounds (status, attempts, evaluation, revisions), trajectory status, `best_valid` | `next_action`, `open_round`, `apply_attempt`, `apply_evaluation`, `resolve_review`, `_close_if_finished` (pure functions on the record) |
| **Trajectory runner** (`orchestration/runner.py`, `providers/ledger.py`) | `trajectory.json`, and per round `transport.jsonl`, `response.json`, usage ledger rows, `impl_<dsl>.py`, `compliance.json`, `eval_NNNN/`; `best_valid/` | `run`, `step`, `_generate`, `_request_with_retries`, `_compliance`, `_evaluate`; resume from what is on disk |
| **Scheduler** (`orchestration/scheduler.py`) | `EvalBudget` (shared counter, thread-local flag), `AdaptiveLimiter` per model, STOP files, futures | `GatedProvider.before_send/generate`, `EvalTracker`, `run_scheduled` (pool, waiting for reviews, resubmission) |
| **Campaign** (`orchestration/campaign.py`) | campaign record per condition, language and model; `TrajectoryLock` per trajectory; what a trajectory pins (config, prices, evaluator, scoring profile) | `preflight`, `prepare_track`, `run_track_task`, `_run_one`, `_check_resume`, `retry_incomplete`, `reopen_transport_attempt` |
| **Device lock** (`orchestration/locks.py`) | an flock per device | `device_lock` (polled, taken across processes) |
| **Evaluation launcher and worker** (`evaluation/`) | sandbox with `progress.json`, `cases.jsonl`, `result.json`; a worker process | `SubprocessEvaluator.evaluate`, `classify_no_result`; `run_job`, `run_case` with precision and tampering guards, timing |
| **Command line** (`cli.py`) | none of its own | `run`, `review-resolve`, `re-evaluate [--adopt]`, `calibration-register`, and commands that plan, report or publish |
| **Providers** (`providers/`) | HTTP client, mock scripts | `generate`, error classification, billing and usage records |
| **Distillation** (`distillation/`, `skills/loader.py`) | observations, archived exchanges, syntheses, skills and their index | `extract_observations`, `synthesize`, `write_skill`, evidence access, `load_skill` |
| **Calibration, metrics** (`calibration/`, `metrics/`) | calibration directories, `calibration.yaml`, `arithmetic_modes.yaml` | `run_calibration`, validation, registration, `t_emp`, cost and E(B) curves |
| **Benchmark engine** (`core/engine.py`, `scripts/run_bench*.py`) | the summary CSV, rows of a suite | `run_benchmark_suite`, write or merge of the CSV, aggregation |
| **Trainium measurement** (`core/neuron_native.py`, `nki_*.py`) | profile directories, spec lock, manifest, tuning trace | `measure`, `profile_case_on_neuron` and its worker, `tune_or_cached` and replay |
| **First pipeline** (`llm/generate.py`, `evaluator.py`) | iteration directories: prompt, response, implementations, feedback | generate, evaluate, best so far |
| Candidate validation, prompts, contracts, tasks, manifests, identity/publication/telemetry | files | parsing, static checks, rendering, loading: pure functions of their inputs |
| Kernel profiling, data and hardware tables, operators | files, devices | command lines of profilers, tensors, kernels |

### How they interact

`campaign` builds jobs and hands them to `run_scheduled`. One pool thread runs one
trajectory: it takes the trajectory lock, loads `trajectory.json` (or creates it),
applies an operator intervention if asked, and loops `next_action` -> `step` ->
`save_state`. A generation goes through `GatedProvider`, which takes an evaluation
slot and then a provider slot before anything is sent. A cleared candidate keeps
its evaluation slot until `EvalTracker` has evaluated it. `SubprocessEvaluator`
takes the device lock, starts the worker (in `bwrap` when it is available) and
turns the worker's files, or their absence, into a result. A reviewer and an
operator act from other processes by `review-resolve`, `re-evaluate`, STOP files and
`calibration-register`. A finished Base campaign is the evidence that distillation may
read; its skill is injected into Enhanced trajectories. Calibration profiles are
registered per device, pinned by campaigns and read by the scoring. The engine measures
the operators apart from the study; the Trainium modules measure for it.

### What is hard

* **Crashes between two writes.** A step writes up to nine kinds of files. A resume
  has to decide from them what was already paid, judged and measured.
* **Two kinds of slot, one device, a pool.** The slot counter is shared, the flag
  that says who holds a slot is thread-local and its thread is reused; slots are
  taken in one class and released in four other places, exception handlers included.
* **Derived quantities.** Round numbers come from a count of closed rounds while
  reviews, retries, re-openings and adoptions turn closed rounds into open ones.
* **Blame.** Worker and candidate are one process; the launcher tells an evaluator
  failure from a candidate failure by marker files that may be torn.
* **Waiting.** Budget, provider limit, device, review: who waits holds something.
* **Two writers.** The operator's commands and a running process write the same
  `trajectory.json`, only one of them under the trajectory lock.
* **Bindings.** What a number depends on (code, prices, evaluator, profile, folds,
  winners of the tuner) is recorded at one time and compared at another.
* **Reuse.** Artifacts, observations, responses and tuned winners are reused over runs;
  a crash or a lost file must neither make a stale one pass nor block for good.
* **Partial measurements.** One side, one case or one call of many fails; the others
  are still reported.

`PROJECT.json` lists 40 hazards at the lines where they bite, each with the
property that catches it or the reason why none does.

### What makes each part correct

* Trajectory: rounds in order, status agrees with the rounds, attempt agrees with the
  round, the runner never meets its own `RuntimeError`s, history is final, `best_valid`
  is the fastest valid result and never regresses.
* Runner: a known cost is the true cost, one ledger row per archived response, no
  second request for an archived response, the first verdict stands, results are
  backed by evaluation revisions that are never overwritten, and `trajectory.json`
  goes only through the trajectory's own states.
* Scheduler: the budget is exact and bounds everything between request and result,
  provider counts are exact, nothing is held at rest, everything settles, STOP drains.
* Evaluation: workers exclude one another, a valid round is earned, blame follows the
  marker, finished cases stand, every evaluation ends.
* Campaign: one process per trajectory, every evaluation recorded under what the trajectory
  pins (and run under it, but for an evaluator installed after the process compared),
  nothing recorded is lost.
* Measurement: a reported time is that of identified, verified executions; a cell of the
  CSV belongs to its row; a replay runs the tuned winners; a target was measured on the
  device that the binding names, and registered; a spec directory whose manifest names all
  graphs of a `run()`, or none, is not spoilt for good.
* Authoring: an injected skill comes from admissible evidence only; the record of a paid
  answer is kept; a clean source was measured clean; no cost or E(B) says more than the
  counts it stands on.

## 2. Modules

| Module | Models | State -> code |
| --- | --- | --- |
| `Trajectory` | one trajectory as `trajectory.json` shows it, with all operator interventions. This is also the **abstract specification** of the runner | `rounds`, `status`, `best` are the fields of `TrajectoryState`; a round's `verdict` stands for its attempt list; `adopted` is a history variable |
| `TrajectoryRunner` | one process on one trajectory, durable write by durable write | `disk`/`mem` are the saved and the in-memory state, `pc` the place in `step`, one variable per file of a round; `billed` is what the provider really charged, which the program cannot see |
| `EvalBudget` | `EvalBudget.reserve/release` | `used` = `_used`, `held[w]` = the thread-local `_local.reserved` |
| `AdaptiveLimiter` | `AdaptiveLimiter`, as operators on a record | `limit`, `inFlight`, `paused`, the window counts |
| `Scheduler` | one scheduler process: threads, both bounds, the device, STOP files, reviews, resubmission, faults. INSTANCEs `EvalBudget`, EXTENDS `AdaptiveLimiter` | `phase[t]` is where a thread is, `stage[t]` and `left[t]` what its files hold, `worker[t]` the pool thread |
| `Evaluation` | launchers and workers of one device | `pc`, `device`, `timedOut` belong to `evaluate`; `worker`, `stage`, `pos`, `global` to the process; `progress`, `cases`, `file` are the three files |
| `Campaign` | several processes and the operator's commands on the trajectories of a campaign, with a changing host. INSTANCEs `Trajectory` for what a round does | `disk` is `trajectory.json`, `lock` the `TrajectoryLock`, `proc[p]` a process with the state it loaded, `command` an operator's command with the state *it* loaded; both keep the evaluator that a worker under way has imported, beside the one they compared; `ran` and `stale` are history |
| `Distillation` | evidence access, observations, exchanges, syntheses, skills, and what is injected | `file`/`source`/`folds` are the evidence, `out` the output directory with the records and the archived exchanges, `run` the distiller, `registry` the loader's view, `spent` the paid answers |
| `NkiProfiling` | `profile_case_on_neuron` with its lock, worker, manifest and strict reuse | `graph` is what `run()` of each target executes, `space` is the spec directory, `parent`/`orphan` the processes, `report` what the caller gets |
| `NkiAutotune` | the tuner, the exported trace and its replay | `tuned` is the cache, `trace` the exported records, `replay` the installed ones |
| `NeuronBench` | the measurement of a case on the native Neuron stack, which the engine calls, with the merging of a trace into executions | `side` is one `_measure`, `case` the row's `neuron_result` |
| `Benchmark` | the GPU case loop of the engine, the CSV of `run_bench.py`, summary and aggregation | `suite` is the run in progress, `csv` the file |
| `Scoring` | calibration directories, registration, declaration, targets, the binding a campaign pins and the one it is scored with | `dirs`, `manifest`, `declared`, `records`, `trajectories` are the files |
| `FirstPipeline` | the loop of `generate.py` with its cache and the evaluator subprocess | `dir` holds the iteration directories, `loop` the program's variables |
| `Accounting` | usage fields, price rules, request costs, cumulative cost and E(B) | `state` holds the rounds' charges and requests |
| `Absence` | `None`, where the code has no value yet or lost it; shared by the parts that one instance extends | |
| `Sums` | the sum of a finite family of numbers as the cardinality of its units, which a proof can use without induction | |
| `*_proofs` | the theorems about the module of that name. `Authoring_proofs` holds those about `Distillation`, `FirstPipeline` and `Accounting`, `Measurement_proofs` those about `NkiAutotune`, `NkiProfiling`, `NeuronBench`, `Scoring` and `Benchmark`, `Sums_proofs` the facts of sets, sums and sequences that several of them need | |
| `MC*` | the small instances | |

Composition: `TrajectoryRunner` INSTANCEs `Trajectory` over its durable variables
(`Durable == INSTANCE Trajectory WITH rounds <- disk.rounds, ...`), uses its
transition operators on the in-memory state, and the property
`ImplementsTrajectory == Durable!Spec` says that saves, crashes and resumes show
nothing on disk that the pure state machine could not do. `Scheduler` abstracts a
runner to the stage of its round, because the shared state depends on no more.
`Campaign` applies `Trajectory`'s operators to the state each process has loaded, so a
lost update is what the code would make of it. The other modules share no state with
these or with each other; their connection is by files whose content is an input there.
`MCMeasurement` and `MCAuthoring` check five and three of them side by side: a behaviour
explores one part, the variables of the others stay in an initial state. That is a way to
configure independent checks, not a composition. They EXTEND their parts, so that the runs
evaluate the assumptions of the theorems and check the very definitions these state.

The engine's Neuron branch calls `neuron_native` (`NeuronBench`).
`profile_case_on_neuron` (`NkiProfiling`) is the older orchestrator over torch-xla, which
the engine no longer calls and `adapters.py` names for the next protocol.

One action is one atomic step as other actors see it: in `TrajectoryRunner` one
durable write (or, for the three files written in place and read back, the opening
and the filling), in `Scheduler` one critical section of a condition variable or one
save, in `Evaluation` one file write, lock operation or process event. The `map` of
`PROJECT.json` names the source lines of every definition.

### Abstractions

* Latencies are small numbers, candidates and prompts have no content; a prompt is
  `overlong` or not, a response holds a candidate or not and carries usage or not.
* `billed` counts one token per generation the provider ran. A broken connection
  (`failed_unknown`) may or may not have been charged.
* A rate limit and an exhausted quota are two answers, since the code separates them.
* Waiting times, `Retry-After`, header arithmetic and the ramp interval are inputs
  (`roomy`, `sustained`) or left to the order of steps.
* `TrajectoryRunner` has at most one process per trajectory (what `TrajectoryLock` is
  for; `Campaign` shows it), and lets the operator commands act only while none runs.
* `Scheduler` has `wait_for_reviews` on. The pool has as many workers as trajectories,
  and an idle worker may take any resubmission.
* `Adopt` uses the protocol's number of rounds; `cli.py` calls `apply_evaluation`
  with its default, which is the same number in the study.
* `Evaluation`: the kernel kills the worker with its launcher under `bwrap`
  (`--die-with-parent`) in one step; an orphan's further stages are not followed,
  only that it still runs. A tampering or restore failure inside graph capture is
  reported by `measure` as a failed capture, and is that event here. A torn last line
  of `cases.jsonl` is skipped by its reader, so it equals a death before the append.
  Errors that `_progress` and `_append_case` swallow are not modelled. Two branches
  are unreachable and have no action: the handler for `PrecisionRestoreFailed` in
  `run_job` (see findings) and the undefined geometric mean of a valid suite.

* `Campaign`: a generation and its save are one step, an evaluation two. The durable
  writes between are `TrajectoryRunner`'s. A host change is a new version number of what
  the code fingerprints.
* `NkiProfiling`: a graph is a name with a build number, a NEFF's digest is that pair.
  `run()` of a target compiles and executes a sequence of graphs (`Launches`), some of them
  the other target's too, and may raise between any two of them. So timed NKI iterations may
  execute a pair that was compiled in, and is recorded for, the torch phase, as the code
  allows. A profiler session lists what was executed, a timed window is a range of that list.
  Parsing of its files is external.
* `NeuronBench`: a trace is a set of per-core copies, each with its flow, program, start and
  end. `load_executions` merges the copies of a flow into one interval from the first start to
  the last end, and raises on a flow of two programs. The mean of a trace counts by its sign.
* `Benchmark`: numerical comparison is an outcome. A backend that returns fewer outputs
  than the reference passes `verify`, as the `zip` of the code has it.
* `Scoring`: rates are small numbers, a digest is the content, a tolerance an integer.
* `Distillation`: a text is the set of what it was made from; the access rules read the
  fields of a state one by one, and let some pass that the file does not hold (`None`). An
  archived exchange is the number of the request it belongs to.
* `Accounting`: prices, tokens and budgets are small integers in one unit.

## 3. Runs

| Run | Instance | Question |
| --- | --- | --- |
| `trajectory` | 3 rounds, 2 latencies, 2 of the 5 ordinary failures | Does every order of rounds, reviews, retries, re-openings and adoptions keep numbering, status, attempts, `best_valid` and history consistent? |
| `runner` | 1 round; every answer and verdict; 1 transport and 1 rate-limit retry; 2 disturbances | Are cost, ledger, archive, compliance record and revisions true after a crash, pause or re-opening between any two writes? |
| `runner_rounds` | 2 rounds; metered candidates and unknown failures; every verdict; no retries; 2 disturbances | Does the runner implement `Trajectory`? |
| `scheduler` | 3 trajectories of 2 models, budget 2, limits 1..2, 1 round, 1 retry, 1 fault, resumed stages | Are slots and in-flight counts exact, do they bound the pipeline, is nothing held at rest? |
| `scheduler_live` | 2 trajectories of 2 models, budget 1, no fault | Does every trajectory come to rest, and does a stopped process drain? |
| `evaluation` | 2 evaluations, suites of 2 cases, each with or without `bwrap` | Exclusion, earned results, blame, finished cases, termination |
| `campaign` | 2 processes with three command lines (formal, formal without `--resume`, validation on another root), an operator with one command, 1 trajectory of 2 rounds, new or legacy; 1 disturbance | Exclusion, bindings, no loss |
| `measurement` | 2 profiling processes with 1 or 3 graphs per `run()` and 2 faults; 2 tuning runs; one case of 2 sides, 2 profiled calls, 1 fault; 3 cases, 3 backends, 3 runs, 1 fault; 2 devices, 2 calibration directories, 2 edits | Is what is reported what was measured, and does a directory recover? |
| `authoring` | 2 trajectories, 2 distiller runs, 1 change, 1 fault; 2 backends, 2 iterations, 2 runs; 2 operators, 2 rounds, 2 requests each, any count left out | Is injected evidence admissible, is paid work kept, are scores and costs true? |
| `scheduler_crash`, `campaign_reevaluate` | as the component's passing run, smaller where that shows it | Findings 1 and 2 |
| `scoring_pinned` | one device, two operators, two calibrations with different peaks | Finding 3 |

### The bounds and why they are enough

* **Three rounds**: the first, a middle one and the last behave differently (opening,
  closing the trajectory); a third round is needed for a best result that is neither.
* **Two latencies** give faster, slower and equal. The ordinary failures are treated
  alike by `apply_evaluation`: two of them show that they are not mixed up.
* **Two disturbances**: a crash and a crash during the recovery from it, or a
  crash and a re-opening. `MaxDisturbances` bounds only crashes, pauses and re-openings.
* **Three trajectories, two models**: two that compete for one provider, and one that
  shares only the budget with them. Budget 2 lets two pass and one wait; limits 1..2
  make halving and doubling happen. `SYMMETRY` swaps the two trajectories of one
  model, in the safety run only.
* **Two cases**: a suite goes on, stops or dies between two cases. Two evaluations are
  one that holds the device and one that waits.
* `MaxFaults` is 1: after one fault the properties that survive must hold, and those
  that need its absence say so (`faults > 0`).

* **Campaign**: two processes and a command are what two writers need; two rounds are one
  that is finished and one under way; versions up to 2 are "as pinned" and "changed".
* **Measurement**: two processes for the lock; two faults are a crash and a loss or a crash of
  the recovery. One graph per `run()`, or three, of which the targets have one in common and
  the baseline executes one twice. Traces of up to two copies at distances 0..2 are disjoint,
  touching, nested, overlapping and equal, of one flow or two, of one program or two; a trace
  of three copies has one execution in the gap between two copies of another. Inputs change
  from the first, the second or the last call. Three benchmark runs are write, merge and write
  again. Two devices and two directories let a profile be swapped, two edits let a digest be
  undone.
* **Authoring**: one admissible trajectory and one that differs from it in each field the
  access rules read; two runs are a first one and a reuse; two price bands and two
  requests make every combination of known, unknown and missing counts. At least one operator
  is supported and one has a target; without, every figure is absent.

Deadlock is checked except where the system stops: a complete trajectory, an
evaluation that has ended, `scheduler_crash`, whose counterexample is the stop, and the
runs whose parts end with their bounds (`campaign`, `measurement`, `authoring`).

### Fairness

Only weak fairness is assumed, and only where the code keeps going by itself.
`Scheduler`: threads (`EvalBudget.reserve` and `AdaptiveLimiter.acquire` wait on a
condition with a timeout of a second and look again; every request and evaluation has
a timeout; the device lock is polled), the end of a pause, the main thread's polling
loop. Nothing makes anyone create a STOP file, decide a review, or fail. Weak fairness
is enough for the instance because rounds and retries are finite: who overtakes a
waiting trajectory sooner or later has no rounds left. `Evaluation`: taking a free
lock, the wall clock, collecting a worker that is gone. The worker itself has no
fairness: a candidate may hang. The other modules state safety only and assume none;
`DirectoryRecovers` says by a counter that a clean run follows, without fairness.

### What the passing runs mean

Each property has a mutant in `PROJECT.json`: a plausible bug in one mapped definition
(a dropped guard, a boundary, a missing reset) that TLC finds to break the property.
The mutated forms stand beside the originals in the modules, marked "Mutant of".

## 4. Findings

1. `scheduler_crash`: a save that raises while the thread holds an evaluation slot
   leaks the slot; with all slots leaked the others wait forever (`runner.py:532`).
2. `campaign_reevaluate`: `re-evaluate` without `--adopt` promises to leave the recorded
   status, and saves the state it loaded before it evaluated; what a process recorded
   meanwhile is undone (`cli.py:567`).
3. `scoring_pinned`: `calibration-register` says of `--replace-frozen` that running campaigns
   keep their pinned binding (`cli.py:635-636`). The campaign record does: it is written once
   (`campaign.py:653-661`). Each trajectory pins the binding of the day it is created
   (`campaign.py:647`, `:781`), and is scored against the record's (`devtools.py:154`), with no
   more than a note (`:203-204`). The trace: one device, its frozen profile is replaced by
   another calibration with another peak after the campaign's first trajectory; the next one
   pins the new profile and is scored against the old one.

Each of these runs checks the one property that states what the document or comment says.

### Other disagreements

The modules end with a section of claims that comments and documents make and the code
does not keep. Put one of them in the cfg of its module's run, with the constants the
table names, and TLC shows the counterexample.

| Claim | What the text says, what the code does |
| --- | --- |
| `Trajectory!EvaluationFailureIsRetryable` | `RUNBOOK.md:95-97`: `--retry-incomplete` re-evaluates a round closed by an evaluation-side failure. `campaign.py:528` accepts a `clear` candidate only, no `audit_only` one |
| `TrajectoryRunner!EvaluatedIsParsed` | `runner.py:9`: `impl_<dsl>.py` is the parsed candidate. It is written in place and kept (`runner.py:421`): a crash inside the write leaves a partial one that is evaluated |
| `TrajectoryRunner!BestDirIsBest` | `ARTIFACT_POLICY.md:49`: `best_valid/` holds the fastest valid candidate. It is copied before the state is saved (`runner.py:561`): crash, slower repetition, wrong candidate |
| `Scheduler!ResolvedContinues` (`Resume = FALSE`) | `scheduler.py:430-431`: a resolved trajectory continues in this process. Without `--resume` it is refused (`campaign.py:757`) |
| `Evaluation!UnrestoredIsInfrastructure` | `PROTOCOL_REVISION_4.md:91`: an evaluator failure is never the candidate's. A failed restore of the precision state is caught with the candidate's exceptions (`worker.py:413`) |
| `Campaign!EvaluatedAsPinned` | `DECISIONS_REQUIRED.md:240`: a formal campaign is one evaluator fingerprint per device from start to end. It is compared when a process starts a trajectory (`campaign.py:755`); each evaluation is a new worker that imports what is on disk then (`launcher.py:364-377`), and the record names the fingerprint compared. `RoundsMatchBindings` says what holds |
| `Campaign!AdoptIsRecorded` | the evidence says that a revision was adopted before `apply_evaluation` may refuse it |
| `Campaign!TimedOneAtATime` | `locks.py:2-3`: one at a time per device. The lock lies below the out-root (`cli.py:551` takes the default one) |
| `NkiProfiling!WipedTogether` | `nki_orchestrator.py:374-379`: artifacts and cache are wiped together. With an override the cache stays |
| `NkiProfiling!ResultIsOfThisRun` | `nki_orchestrator.py:18-19`: correctness is re-verified every time. A worker that ends with status zero before it writes leaves the earlier result file to be read |
| `NkiProfiling!Recovers` with `Plans = {"ok"}`, `Overrides = {FALSE}` | `nki_artifact.py:285-288`: no target is left "unresolvable forever". A drifted graph makes strict reuse refuse and the fresh run hit its cache; `DirectoryRecovers` excludes drift |
| `NkiProfiling!NeverUnresolvable` | the same text, two other ways. (1) An NKI phase raises after the first of several graphs compiled: its pair is recorded (`nki_profile_worker.py:174`). The next run reuses the manifest, compiles the second graph and is refused as having a new pair (`nki_artifact.py:204`); every later one executes a graph that is in no recorded pair and is refused (`nki_orchestrator.py:472-478`). (2) With `MaxFaults = 3`, `Plans = {"ok", "wrong"}`, `Drifts = FALSE`, `Builds = {1}`: a run with an override dies, its worker goes on without an NKI phase and failed to verify torch. A later run of the same specification ends its own worker, the orphan overwrites the one `worker_result.json` (`nki_orchestrator.py:393`), and the parent reads that. Nothing is timed, so no trace is compared, and a manifest of torch alone is published. `validate_manifest_reuse` reads the targets the manifest names and accepts it; cache and dumps are kept, the NKI graph is a cache hit without a dump, no pair is new, the worker fails and the manifest stays: every further run repeats this. `DirectoryRecovers` excludes such manifests (`Partial`) |
| `NeuronBench!BusyIsOfUnions` | `neuron_intervals.py:7-8`: the copies of one execution are merged by union first. `load_executions` (`nki_timer.py:135-165`) has made one interval of them that contains the gap between two copies that do not overlap |
| `NkiAutotune!FastestIsChosen` | `nki_autotune.py:448-449`: the fastest is returned. After a failed `nki.benchmark` the rest of the sweep is timed by wall clock, and the two are compared |
| `Benchmark!RowsToldApart`, `RatioIsPerCase`, `SucceededHasResults`, `LoggedModeIsExecuted` | rows are matched by parameters of one size (`run_bench.py:140`), a ratio pairs cases by it (`aggregate_results.py:78-94`), a suite counts as succeeded without rows (`run_bench_all.py:209`), the logged timing mode is the requested one (`engine.py:196`) |
| `Distillation!SynthesisSourcesStand`, `Resumable` | `orchestrator.py:18-20`, `cli.py:288`: sources are verified again before a synthesis, and a run is resumed. A finished synthesis is reused by its own digest without that, and a file torn by a crash ends every further run |
| `Scoring!TargetIsOfDevice` | `empirical.py:293-294`: a campaign pins its device's calibration entry. The first record of a directory is taken for the trajectories of every device (`devtools.py:154`) |
| `Distillation!ExchangesAreKept` | `orchestrator.py:20-25`: persistence is append-only. `_archive_exchange` (`:202-209`) overwrites the archived request and answer at every new request for the same trajectory or synthesis, also after a crash between the archive and the record |
| `Distillation!ObservedIsIndexed`, `NoLeak` | the recorded hash is of the state the observation was extracted from, and no fold gets a skill distilled from its own operators. The hash check and the read are two steps, and the folds may be edited after the skill is written |
| `FirstPipeline!FeedbackIsOfThisRun` | `evaluator.py:60-61`: a runner that crashed has written no output. An earlier `feedback.json` is still there and is read |
| `Accounting!ExactIsComplete` | `cost.py:5`: exact costs. A field the provider leaves out counts as zero (`cost.py:99-103`) |
| `Accounting!MissingIsNotZero` | `usage.py:25-26`: of a missing field nothing is imputed as 0. A cached count that Anthropic left out is added as 0 (`:190-198`); the sum is called partial, and E(B) is computed from it without that status. `CostsAreSound` says what holds |

## 5. Proofs

All theorems are checked by `tlapm` for every value of the constants that satisfies the
named assumptions of the modules. TLC evaluates each of them on the instances of the runs.

| Module | Assumption | What it says, and why the code justifies it |
| --- | --- | --- |
| `Trajectory`, `Campaign` | `RoundsAssumption`, `LatenciesAssumption` | a protocol has at least one round, a latency is positive |
| `Trajectory` | `FailuresAssumption` | failures are statuses of `state.py` |
| `TrajectoryRunner` | `BoundsAssumption`, `ProtocolAssumption`, `EnvironmentAssumption` | bounds are numbers; answers and verdicts are those the providers and the checker can give |
| `Scheduler`, `AdaptiveLimiter` | `TrajectoriesAssumption`, `BoundsAssumption`, `LimitsAssumption` | a finite campaign, a cap of at least one, `min <= max` |
| `Evaluation` | `SuiteAssumption`, `NoneAssumption` | a suite has a case; no evaluation is called `None` |
| `Campaign` | `ProcessesAssumption`, `OperatorsAssumption`, `ReadinessAssumption` | operators are numbered; readiness is one of the records that `preflight` tells apart |
| `Distillation` | `TrajectoriesAssumption`, `ContentsAssumption`, `FoldsAssumption`, `NoneAssumption` | a file stays in its campaign when it is rewritten, fold tables name folds, `None` and `Torn` are no records |
| `FirstPipeline` | `ItersAssumption`, `EntriesAssumption`, `ScoresAssumption` | at least one iteration; a score is a number (it is a mean computed by a fold over the cases, whose type would need induction) |
| `Accounting` | `PredeclaredAssumption`, `UsagesAssumption`, `ReportsAssumption`, `NumbersAssumption` | finitely many operators; a round costs at least one output token; a provider may leave out the input, the cached and the output count and nothing else; efficiencies and budgets are numbers |
| `Accounting` | `RatesAssumption`, `LongContextAssumption` | rates are numbers; in the price snapshot a model that has a price for some input has exactly one for more, and no lower one |
| `NkiProfiling` | `CallsAssumption`, `RepeatAssumption`, `OverridesAssumption`, `ParentsAssumption` | numbers of calls are naturals, at least one is timed; an override is given or not |
| `NkiProfiling` | `LaunchesAssumption` | a `run()` executes at least one graph; only the NKI target's hold a kernel, and at least one of them does |
| `NkiProfiling` | `BuildsAssumption`, `AnswersAssumption` | a build is a file; an answer without pairs is no set of pairs, and no trace |
| `NeuronBench` | `LoopsAssumption`, `ChangesFromAssumption`, `TracesAssumption`, `NoIntervalAssumption` | numbers of calls are naturals, at least one is timed; an execution does not end before it starts (`_union_length` refuses one that does); `None` is no number and no interval |
| `Scoring` | `ModesAssumption`, `ProbedAssumption`, `RecordsAssumption`, `FilesAssumption` | declared modes exist, probes give points of the schema, records have names, `None` and `Open` are no profiles |
| `Benchmark` | `SelectionsAssumption` | a run selects among the known backends |

**`Trajectory_proofs`.** The inductive invariant `IInv` is the conjunction of `TypeOK`,
`RoundsInOrder`, `StatusMatchesRounds` and `AttemptMatchesRound`. None is inductive
alone: `RoundsInOrder` needs to know that an in-progress trajectory has no unresolved
last round (status), the status needs the attempts (an incomplete round may be
re-opened only by its verdict), and the numbering needs that the count of closed
rounds is the length of the sequence when nothing is pending (lemma on
`ClosedCount`). Every action replaces the last record or appends one; two lemmas
(`Replaced`, `Appended`) say what that does to the other records.
* `TypeCorrect`, `RoundsAlwaysInOrder`, `StatusAlwaysMatches`, `AttemptAlwaysMatches`:
  the conjuncts. `RunnerNeverRaises`: they imply that neither `next_action` nor
  `open_round` raises.
* `HistoryIsAlwaysFinal`: every step is `Legal` (it replaces the last record by one of
  the same round with a permitted verdict, or appends).
* `BestNeverEverRegresses`, and `BestIsAlwaysFastest` from `IInv` and itself: a step
  that is not an evaluation leaves no round valid that was not (`Quiet`), an evaluation
  compares with a best that dominates all valid rounds.

**`TrajectoryRunner_proofs`.** The durable protocol, for any number of rounds, retries
and disturbances. The invariant is layered; each layer is kept by every step given those
before it:
* `Control`: the invariant of `Trajectory_proofs` holds of what is on disk (its instance
  `DP`), between saves the process works on what it saved, and a result that is not saved
  yet is one evaluation of it. From it follow `RunnerImplementsTrajectory` (each save is
  one transition of `Trajectory` or none, each crash and each write of another file a
  stutter) and `ResumeNeverRaises`.
* `Archive` and `Ledger`: requests are for rounds without an archived response, a row is
  written once, after the archive (`NeverASecondRequest`, `LedgerAlwaysMatches`).
* `Evidence`: the newest revision the state names is finished, and what is in memory and
  not saved is backed as well (`EvidenceAlwaysBacks`, `EvidenceIsAppendOnly`).
* `Judgement`: what is about to be recorded is what the compliance record says
  (`FirstVerdictAlwaysStands`).
* `Charged` and `Costed`: a log whose events are all settled counts what was charged;
  while a request is under way its predecessors do, unless one of them is an orphan, whose
  charge stays unknown for good (`CostIsAlwaysTrue`).

`RecordSteps` says in which four ways a step changes a round of `trajectory.json`, and
`LogSteps` in which four ways one changes the transport log; the layers rest on them. The
lemmas `Same...` say that two instances of `Trajectory`, the runner's and the one of its
proofs, are instances of the same definitions.

**`Scheduler_proofs`.** `BudgetIsAlwaysExact`: for any finite set of trajectories, any
cap and any number of faults, the counter equals the number of flags and never exceeds
the cap. `BudgetInv` adds the types of the two variables and of the worker assignment;
the lemmas are one reservation and one release (`FS_AddElement`, `FS_RemoveElement`) and
that each action uses the budget in one of these ways. `TrajectoriesAlwaysHoldWhatTheyNeed`
is about who holds what: `HoldsInv` adds `SlotInv` (one running trajectory per worker, a
trajectory in the pipeline has its worker's flag, and without a fault no other worker has
one) and `FlightInv` (each limiter stays in its range and counts the trajectories that are
sending, up to one per fault). That slots bound the pipeline is then an injection from the
trajectories in it to the workers that hold a slot.

**`Evaluation_proofs`.** `IInv` is `TypeOK`, `LockInv` (who runs holds the device; who is
alive is run or orphaned) and `SandboxInv` (the files agree with the worker's stage, a
suite that ended is complete or stopped at a failure). The first failing case that
`summarize_suite` picks exists for suites of any length: shown by well-foundedness of
the strict subset ordering on a finite set of indices, without induction on the length.
* `EvaluationTypeCorrect`, `WorkersAlwaysExclusive`, `ValidIsAlwaysEarned`,
  `BlameAlwaysFollowsMarker`, `FinishedCasesAlwaysStand`.

**`Campaign_proofs`.** For any number of processes, operators, disturbances and commands.
`IInv` is `Owns` (who runs a trajectory holds its lock; a process that stops gives up its
own lock and no other) and `Fresh` (what a process holds in memory is what is on disk,
until a command of an operator may have saved the same file: only the commands write it
without the lock). `NextTaskIsLeft` gives `min` of the operators left by well-foundedness
of `<` on the naturals; every step of a process is an instance of `StepKeepsOwns` or
`GoneKeepsOwns`.
* `ShardsPartition`, `RunsAreAlwaysExclusive`.
* `RoundsAlwaysMatchBindings` and `NothingIsEverLost` need `Kept` beside it. What a formal
  process holds is on a fit host and pinned to the versions it compared (`ProcessOK`,
  `CommandOK`), and its worker's evaluator is no older; a record of other versions is excused
  only by a change that the state records, or because someone has saved who had not seen the last save (`stale`). That nothing
  is lost is a property of each save: what is written follows what is on disk (`Follows`,
  `Continues`), or the trajectory is in `stale` from then on. A complete trajectory has no
  step left (`CompleteIsClosed`), from the count of closed rounds of `Trajectory`.

**`Authoring_proofs`, `Distillation`.** For any trajectories, contents, fold tables, runs, edits
and faults.
* `DistillationIsTyped`: `Typed`, the types with what a run holds at each of its steps.
* `InjectionIsAlwaysAdmissible`: what an Enhanced trajectory is given rests on complete answers
  about complete, formal, not excluded Base trajectories, of operators that the fold table
  of the distilling run did not hold out. `Evidence` follows the evidence through the
  files: the scope of a run is what the access rules allowed under the fold table it read
  (`ScopeStands`), a recorded observation is of an identity that was allowed (`Sound`), a
  synthesis, and the manifest of a skill, is made of all observations of its scope and of no
  other (`Made`, `Vouches`). The reuse of finished records by a later run with another
  table is the reason why the chain has to be explicit.
* `PaidIsAlwaysKept`: every paid answer has a record on disk (accepted, partial or torn), held by the
  run, or was lost by a crash before it was recorded. `Paid` adds `Vacant`: whoever asks, asks for a place that is empty. The
  sum of `PaidIsKept` has five parts; `RecordAdded` and `RecordDropped` count what moves
  between them.

**`Authoring_proofs`, `FirstPipeline`.** For any backends, cases, iterations and programs.
* `PipelineIsTyped`: `Typed`.
* `CleanIsAlwaysMeasured`: a clean best, the source promoted at the end and one that a prompt
  shows were measured clean, and no clean result of the run is better. `Earned`: a feedback on the disk that is not fatal is of the sources
  beside it (`FilesGrounded`), sources are written only where no such feedback stands
  (`Stage`), a best entry names a measured source that is still in its directory
  (`BestsGrounded`), no earlier clean result is better (`NoneBetter`), `final` is the best
  (`Promoted`), and a source that a prompt shows was measured (`ShownMeasured`).

**`Authoring_proofs`, `Accounting`.** For any operators, providers, prices, usages, budgets,
rounds and requests.
* `CostsAreAlwaysSound` (`AccountingInv`), whichever counts the provider leaves out. `told` says
  that no usage of a round lacks its cached count. A row with a known charge counts no more
  tokens than were charged, and as many if the provider is OpenAI or the count was told
  (`CountsTokens`); its dollar bound is no more than the price if the provider is Anthropic or
  the count was told, for OpenAI's input contains the cached tokens and is priced as uncached
  without it (`RowTrue`). The same holds of a round's record (`RoundRecordTrue`); every round
  but the last of an incomplete trajectory cost something (`TrajectoryTrue`). The rest follows
  without another step of the protocol, for a trajectory no charged token of which was left
  out (`Whole`): a cumulative cost is that of the real charges (`CumulativeTrue`), it grows
  from round to round (`CumulativeGrows`), so the rounds a budget pays for are a prefix and
  E(B) is unknown or the best efficiency among them (`EfficiencyTrue`). Sums over rounds,
  requests and operators are `Total` of `Sums`; means are compared by the totals of two
  functions (`MeansTrue`).

**`Measurement_proofs`.** The five parts share no variable; each has its own invariant.
* `ReplayIsAlwaysExact` (`ReplayInv`): the trace that is exported is what the selector
  recorded, in which equal keys have equal configurations; what a replay has used so far is
  among the winners; it ends only when it has used all.
* `TimedIsAlwaysIdentified`, `ManifestIsAlwaysTrue` (`NkiInv`): one parent is inside; what is
  recorded of a target, in a result, a worker, an orphan or the manifest, is of graphs that a
  `run()` executes, without a kernel if the target is the baseline (`Own`, `OwnEntry`). A phase
  may compile any number of graphs and stop after any of them (`RunIs`, `PhaseDirIsCompiled`,
  `PhaseLeaves`). A window names at least one executed pair (`TimedIsOwn`), and what is
  published as timed are pairs of the targets timed in the same run, with a kernel exactly for
  the NKI target (`ExecutedIsOwn`). The hard case is the override, whose manifest names a file
  that was not compiled here: a parent with an override reads no result with an NKI time,
  unless a second worker has left a session, and then the trace is refused (`Standing`,
  `Ambiguous`).
* `DeviceTimeIsAlwaysEarned` (`NeuronInv`): a side has as many calls as were asked for, all
  counted in their phase (`Counts`), and its last call saw inputs that no call had
  overwritten (`Inputs`); a result with a time is of a side that verified. Loading keeps of
  each flow the interval from the first start to the last end of its copies (`MergedIs`,
  `LoadedIs`), and if no flow names two programs these are the recorded executions
  (`StretchIs`); the aggregates are shown of them and stated of the recorded copies
  (`AggregatesTrue`). The arithmetic does not depend on the length of a trace: a finite set with a linear order has an
  enumeration (`OrderExists`), the one-pass sweep over it keeps `CountedUpTo` (what is
  counted and the interval under way are the points covered so far), the union has at most
  as many points as the intervals together (`UnionBound`), and all of them lie between the
  first start and the last end (`SpanCovers`).
* `ScoringIsTyped`, `TargetIsAlwaysMeasured` (`ScoringInv`): the values that a directory's seal
  covers are those selected among the points observed there (`Seals`); what is registered or
  pinned for a device was of that device (`Registrations`, `Pins`). That a mode has a best
  point is `MaximalExists`, by well-foundedness of the strict subset ordering.
* `CellsAreAlwaysEarned`, `FrozenAlwaysStays` (`BenchInv`): every row's label fits the cases its
  latencies are of (`IsRow`), the entry under way is of the case under way (`IsSuite`), a merge
  touches the columns of its own backends and adds no row.

**`Sums_proofs`.** What stands for induction over data, which the prover cannot do:
`MaximalExists` (a finite set with an irreflexive, transitive order has a maximal element, by
well-foundedness of the strict subset ordering), `SetInduction` (a set of naturals that holds
0 and every successor), `Iterates` (a step applied n times is a function on `0 .. n`),
`Enumerates` (a finite set with a linear order is a sequence in that order), and sums as
cardinalities of disjoint units (`TotalMono`, `TotalStrict`, `UnionBound`).

**Only model-checked.** Liveness (`EveryTrajectorySettles`, `StopDrains`,
`EveryEvaluationEnds`) and `ENABLED` are outside what the prover does. Every other invariant and
every action property of a passing run is a theorem but `DirectoryRecovers`, which TLC checks
with one graph per `run()` and with three. `FirstPipeline`'s score is a fold whose
value for every input would need induction over data; elsewhere a module states such a value
by a function, a set or a cardinality.

## 6. Not modelled, and why

* HTTP adapters, candidate validation (AST checks), prompt rendering, contracts, tasks,
  identity, publication and telemetry: pure functions or I/O without shared state. What
  the models see of them is an input (`Answers`, `Checks`, `overlong`, `Readiness`).
* Numerics: comparison of outputs, statistics of timings, roofline and speed-of-light
  formulas are outcomes or small numbers.
* Kernel profiling (`profiling/`), hardware tables, tensor construction and the operators:
  sequential, without state between steps.
* Plan resolution, preregistration, deviations and reports of the campaign only read.
* The contents of `bwrap`'s view, archiving and job fingerprints of the evaluation.

## 7. Plan

What could follow:

1. **Proofs**: `DirectoryRecovers` for any number of graphs per `run()`; and that
   `NeverUnresolvable` would hold if `validate_manifest_reuse` asked for every target of the
   specification and a refused reuse dropped the manifest (the repairs it suggests).
2. **Blame, continued**: what a violation in a case after a failing one does to the round
   (`worker.py:35` against `DECISIONS_REQUIRED.md` E7).
3. **Prompts**: the request hash covers earlier results; an adopted re-evaluation between
   a crash and the resume makes the archived response of the next round a mismatch.
4. **Two models, one throttled**: a trajectory sleeps out a 429 with its evaluation slot;
   a model with time would say how long the others wait.
