------------------------------ MODULE Campaign ------------------------------
(***************************************************************************)
(* Several processes on the trajectories of one campaign                   *)
(* (orchestration/campaign.py), beside the operator's commands that edit   *)
(* the same trajectory.json (review-resolve, re-evaluate and               *)
(* calibration-register of cli.py).                                        *)
(*                                                                         *)
(* A process checks the gates, reads the manifests once, takes its shard   *)
(* of the operators and runs one trajectory after another, each under its  *)
(* own non-blocking lock.  A trajectory pins what it was created under; a  *)
(* resume compares.  The operator's commands load, work and save without   *)
(* the lock.  What a round does is Trajectory's; a generation and its save *)
(* are one step here, an evaluation two.                                   *)
(***************************************************************************)
EXTENDS Integers, Sequences, FiniteSets

CONSTANTS
  Processes,
  Operators,     \* the operators' positions in the sorted list: 0..n-1, one trajectory each
  Options,       \* the command lines in use: run type, --shard i/n (<<1, 1>>: none), --resume,
                 \* --allow-evaluator-change, --out-root
  Rounds,
  Readiness,     \* the states of approvals, folds and host the campaign may start in
  MaxVersion,    \* how often each item of the host may change
  MaxCommands,   \* commands of the operator
  MaxDisturbances,   \* changes of the host, crashes and re-opened rounds
  Latencies,
  None

ASSUME ProcessesAssumption == None \notin Processes
ASSUME OperatorsAssumption == Operators \subseteq Nat
ASSUME RoundsAssumption == Rounds \in Nat \ {0}
ASSUME LatenciesAssumption == Latencies \subseteq Nat \ {0}
ASSUME ReadinessAssumption ==
  Readiness \subseteq [approval : {"missing", "draft", "approved"}, folds : BOOLEAN, host : {"unfit", "bare", "sandboxed"}]

VARIABLES
  host,       \* the versions of what is installed, and the registered empirical profile
  ready,      \* approvals, folds and the machine
  pinned,     \* pricing version of campaign_<condition>_<dsl>_<model>.json, 0: not created
  disk,       \* trajectory.json of each operator
  lock,       \* TrajectoryLock
  proc,       \* the processes
  command,    \* the operator's command in progress
  device,     \* the device lock below each out-root
  ran,        \* history: what each recorded evaluation ran under, and what its evidence says
  stale,      \* history: trajectories saved by someone who had not seen the last save
  counts      \* history: disturbances and commands so far

vars == <<host, ready, pinned, disk, lock, proc, command, device, ran, stale, counts>>

T == INSTANCE Trajectory WITH Failures <- {},
                              rounds <- <<>>, status <- "in_progress", best <- 0, adopted <- {}
-----------------------------------------------------------------------------
(* Gates *)

Items == {"config", "evaluator", "pricing", "scoring"}
NotRecorded == 0       \* a binding a legacy state does not have
RunTypes == {"formal", "validation"}

ScoringReady == host.profile = "frozen"

\* preflight: what blocks a live run.  A validation run accepts drafts, candidate
\* models, open folds (base), any profile and a bare host.
Blockers(runType, condition) ==
  LET formal == runType = "formal"
  IN  {g \in {"approval", "folds", "scoring", "host"} :
         CASE g = "approval" -> ready.approval = "missing" \/ (formal /\ ready.approval # "approved")
           [] g = "folds" -> ~ready.folds /\ (formal \/ condition = "enhanced")
           [] g = "scoring" -> formal /\ ~ScoringReady
           [] g = "host" -> ready.host = "unfit" \/ (formal /\ ready.host # "sandboxed")}

ShardOperators(shard, ops) == {p \in ops : p % shard[2] = shard[1] - 1}
-----------------------------------------------------------------------------
(* A trajectory and its resume *)

Versions == [Items -> NotRecorded..MaxVersion]
NoState == [runType |-> None]
NewState(runType, versions) ==
  [runType |-> runType, bind |-> versions, rounds |-> <<>>, status |-> "in_progress", best |-> T!NoBest,
   revs |-> [r \in 1..Rounds |-> {}], changes |-> {}]

\* Mutant of MayResume: the scoring binding is not compared.
MayResumeUnscored(st, runType, now, allow) ==
  /\ st.runType = runType
  /\ st.bind["config"] = now["config"]
  /\ runType = "formal" => \A i \in {"pricing", "evaluator"} : st.bind[i] = now[i]
  /\ st.bind["evaluator"] \in {now["evaluator"], NotRecorded} \/ allow

\* _check_resume: a formal trajectory resumes under exactly what it pins (a
\* binding that was never recorded cannot be verified); a validation one needs a
\* flag for another evaluator and records the rest.
MayResume(st, runType, now, allow) ==
  /\ st.runType = runType
  /\ st.bind["config"] = now["config"]
  /\ runType = "formal" => \A i \in {"pricing", "scoring", "evaluator"} : st.bind[i] = now[i]
  /\ st.bind["evaluator"] \in {now["evaluator"], NotRecorded} \/ allow

Resumed(st, now) ==
  [st EXCEPT !.bind = now,
             !.changes = IF st.bind["evaluator"] \in {now["evaluator"], NotRecorded} THEN @
                         ELSE @ \cup {<<st.bind["evaluator"], now["evaluator"]>>}]

\* --retry-incomplete
Reopened(st, retry) ==
  IF retry /\ T!CanRetry(st.rounds, st.status)
  THEN [st EXCEPT !.rounds = T!WithRetry(@), !.status = "in_progress"] ELSE st
-----------------------------------------------------------------------------
(* A campaign process *)

\* now: the versions compared and pinned; worker: the evaluator its last worker imported.
Off == [pc |-> "off", opt |-> None, now |-> None, todo |-> {}, task |-> None, mem |-> NoState, worker |-> NotRecorded]
Loaded(p) == proc[p].pc \in {"running", "evaluating"}
InstalledVersions == [i \in Items |-> host[i]]

Disturb ==
  /\ counts.disturbances < MaxDisturbances
  /\ counts' = [counts EXCEPT !.disturbances = @ + 1]

\* prepare_track: gates, the campaign record (created once, compared by a formal
\* process), the versions in force, the tasks of the shard.
Prepare(p, o) ==
  /\ proc[p] = Off
  /\ Blockers(o.runType, "base") = {}
  /\ pinned # 0 /\ o.runType = "formal" => pinned = host["pricing"]
  /\ pinned' = IF pinned = 0 THEN host["pricing"] ELSE pinned
  /\ proc' = [proc EXCEPT ![p] = [Off EXCEPT !.pc = "ready", !.opt = o, !.now = InstalledVersions,
                                             !.todo = ShardOperators(o.shard, Operators)]]
  /\ UNCHANGED <<host, ready, disk, lock, command, device, ran, stale, counts>>

\* The tasks are taken in the order of the sorted operators.
NextTask(p) == CHOOSE t \in proc[p].todo : \A u \in proc[p].todo : t <= u

\* Mutant of Acquired: the lock is asked for and the answer not looked at.
AcquiredAnyway(t) == t \in Operators
Acquired(t) == lock[t] = None

\* A trajectory another process owns is skipped.
Skip(p) ==
  /\ proc[p].pc = "ready" /\ proc[p].todo # {}
  /\ ~Acquired(NextTask(p))
  /\ proc' = [proc EXCEPT ![p].todo = @ \ {NextTask(p)}]
  /\ UNCHANGED <<host, ready, pinned, disk, lock, command, device, ran, stale, counts>>

\* A process that stops, by an exception or a kill: the system drops its locks.
Gone(p) ==
  /\ proc' = [proc EXCEPT ![p] = Off]
  /\ lock' = [t \in Operators |-> IF lock[t] = p THEN None ELSE lock[t]]
  /\ device' = [r \in DOMAIN device |-> IF device[r] = p THEN None ELSE device[r]]

\* Mutant of Refused: a first run starts over a trajectory that exists.
RefusedOnlyByBindings(p, t, now) ==
  disk[t] # NoState /\ proc[p].opt.resume /\ ~MayResume(disk[t], proc[p].opt.runType, now, proc[p].opt.allow)

Refused(p, t, now) ==
  disk[t] # NoState /\ (~proc[p].opt.resume \/ ~MayResume(disk[t], proc[p].opt.runType, now, proc[p].opt.allow))

\* run_track_task and _run_one up to the first save of run: the evaluator's
\* fingerprint is taken now, everything else when the track was prepared.  A
\* refusal is an exception that ends the sequential process.
Start(p, retry) ==
  /\ proc[p].pc = "ready" /\ proc[p].todo # {}
  /\ Acquired(NextTask(p))
  /\ IF retry THEN Disturb ELSE UNCHANGED counts
  /\ LET t == NextTask(p)
         now == [proc[p].now EXCEPT !["evaluator"] = host["evaluator"]]
         st == IF disk[t] = NoState \/ ~proc[p].opt.resume THEN NewState(proc[p].opt.runType, now)
               ELSE Reopened(Resumed(disk[t], now), retry)
     IN  IF Refused(p, t, now)
         THEN Gone(p) /\ UNCHANGED disk
         ELSE /\ lock' = [lock EXCEPT ![t] = p]
              /\ proc' = [proc EXCEPT ![p] = [proc[p] EXCEPT !.pc = "running", !.todo = proc[p].todo \ {t},
                                                             !.now = now, !.task = t, !.mem = st]]
              /\ disk' = [disk EXCEPT ![t] = st]
              /\ UNCHANGED device
  /\ UNCHANGED <<host, ready, pinned, command, ran, stale>>

\* What anyone who loaded st saves is stale once the file says something else.
Save(t, st, next) ==
  /\ disk' = [disk EXCEPT ![t] = next]
  /\ stale' = IF disk[t] = st THEN stale ELSE stale \cup {t}

Generate(p, v) ==
  /\ proc[p].pc = "running"
  /\ LET st == proc[p].mem
         rs == T!WithAttempt(st.rounds, v)
         next == [st EXCEPT !.rounds = rs, !.status = T!Settled(T!AttemptStatus(@, v), rs)]
     IN  /\ T!WantsGeneration(st.rounds, st.status)
         /\ proc' = [proc EXCEPT ![p].mem = next]
         /\ Save(proc[p].task, st, next)
  /\ UNCHANGED <<host, ready, pinned, lock, command, device, ran, counts>>

\* The device lock below the process's own out-root, then a worker process, which
\* imports the evaluator that is on disk by now; nothing is compared again.
BeginEvaluation(p) ==
  /\ proc[p].pc = "running"
  /\ T!WantsEvaluation(proc[p].mem.rounds, proc[p].mem.status)
  /\ device[proc[p].opt.root] = None
  /\ device' = [device EXCEPT ![proc[p].opt.root] = p]
  /\ proc' = [proc EXCEPT ![p].pc = "evaluating", ![p].worker = host["evaluator"]]
  /\ UNCHANGED <<host, ready, pinned, disk, lock, command, ran, stale, counts>>

NextRevision(t, r) == Cardinality({x \in ran : x.task = t /\ x.round = r}) + 1

\* What an evaluation leaves in the state, and in the history of evaluations.
WithResult(st, r, o, lat, rev) ==
  LET rs == [st.rounds EXCEPT ![r] = T!EvaluatedRound([st.rounds[r] EXCEPT !.status = "pending"], o, lat)]
  IN  [st EXCEPT !.rounds = rs, !.status = T!Settled(T!EvaluatedStatus(@, o), rs),
                 !.best = T!Better(@, o, rs[r]), !.revs[r] = @ \cup {rev}]

\* An evaluation ran under the evaluator its worker imported and the other versions
\* the process had taken; its META.json names those the process had compared.
Evaluation(t, r, rev, meta, worker, by) ==
  [task |-> t, round |-> r, rev |-> rev, meta |-> meta, versions |-> [meta EXCEPT !["evaluator"] = worker], by |-> by]

EndEvaluation(p, o, lat) ==
  /\ proc[p].pc = "evaluating"
  /\ LET st == proc[p].mem
         r == Len(st.rounds)
         rev == NextRevision(proc[p].task, r)
         next == WithResult(st, r, o, lat, rev)
     IN  /\ proc' = [proc EXCEPT ![p].mem = next, ![p].pc = "running"]
         /\ Save(proc[p].task, st, next)
         /\ ran' = ran \cup {Evaluation(proc[p].task, r, rev, proc[p].now, proc[p].worker, "run")}
  /\ device' = [device EXCEPT ![proc[p].opt.root] = None]
  /\ UNCHANGED <<host, ready, pinned, lock, command, counts>>

\* run returns: the last save, then the lock is released.  The trajectory is
\* complete, waits, or has closed stop_after_rounds rounds.
Return(p) ==
  /\ proc[p].pc = "running"
  /\ LET st == proc[p].mem
     IN  ~T!WantsEvaluation(st.rounds, st.status) /\ (T!WantsGeneration(st.rounds, st.status) => ~T!HasPending(st.rounds) /\ st.rounds # <<>>)
  /\ Save(proc[p].task, proc[p].mem, proc[p].mem)
  /\ lock' = [lock EXCEPT ![proc[p].task] = None]
  /\ proc' = [proc EXCEPT ![p] = [@ EXCEPT !.pc = "ready", !.task = None, !.mem = NoState]]
  /\ UNCHANGED <<host, ready, pinned, command, device, ran, counts>>

\* Every task is done, the summary is written.
Exit(p) ==
  /\ proc[p].pc = "ready" /\ proc[p].todo = {}
  /\ Gone(p)
  /\ UNCHANGED <<host, ready, pinned, disk, command, ran, stale, counts>>

Crash(p) ==
  /\ proc[p] # Off
  /\ Disturb
  /\ Gone(p)
  /\ UNCHANGED <<host, ready, pinned, disk, command, ran, stale>>
-----------------------------------------------------------------------------
(* The operator: commands that load trajectory.json, work, and save it *)

Idle == [cmd |-> "none"]
Operator == "operator"

Begin(cmd) ==
  /\ command = Idle
  /\ counts.commands < MaxCommands
  /\ counts' = [counts EXCEPT !.commands = @ + 1]
  /\ command' = cmd
  /\ UNCHANGED <<host, ready, pinned, disk, lock, proc, device, ran, stale>>

End == command' = Idle /\ UNCHANGED <<host, ready, pinned, lock, proc, counts>>

LoadReview(t) ==
  /\ disk[t] # NoState
  /\ T!CanReview(disk[t].rounds)
  /\ Begin([cmd |-> "review", task |-> t, mem |-> disk[t]])

\* review-resolve: a decision, or a recheck of the stored candidate that comes
\* out clear, is saved; a recheck that does not leaves only its own file.
SaveReview(decision) ==
  /\ command.cmd = "review"
  /\ LET st == command.mem
         rs == T!WithReview(st.rounds, decision)
     IN  Save(command.task, st, [st EXCEPT !.rounds = rs, !.status = T!Settled("in_progress", rs)])
  /\ End /\ UNCHANGED <<device, ran>>
LeaveReview == command.cmd = "review" /\ End /\ UNCHANGED <<disk, device, ran, stale>>

\* re-evaluate: any round with a parsable candidate, under what is installed now,
\* on the device lock of the default root.
LoadReevaluation(t, r, adopt) ==
  /\ disk[t] # NoState
  /\ r \in DOMAIN disk[t].rounds
  /\ disk[t].rounds[r].verdict \in T!Evaluable \cup {"review_required", "confirmed_violation"}
  /\ Begin([cmd |-> "load", task |-> t, mem |-> disk[t], round |-> r, adopt |-> adopt, now |-> InstalledVersions,
            worker |-> NotRecorded])

Reevaluate ==
  /\ command.cmd = "load"
  /\ device["default"] = None
  /\ device' = [device EXCEPT !["default"] = Operator]
  /\ command' = [command EXCEPT !.cmd = "measure", !.worker = host["evaluator"]]
  /\ UNCHANGED <<host, ready, pinned, disk, lock, proc, ran, stale, counts>>

\* apply_evaluation accepts only the last round of a trajectory that is not
\* complete, with an evaluable attempt.
AdoptRaises(st, r) ==
  \/ st.status = "complete" \/ r # Len(st.rounds)
  \/ st.rounds[r].verdict \notin T!Evaluable

\* The evidence is written before the state is touched; what was loaded is saved,
\* with the new revision listed and, if adopted, its result.
SaveReevaluation(o, lat) ==
  /\ command.cmd = "measure"
  /\ LET st == command.mem
         t == command.task
         r == command.round
         rev == NextRevision(t, r)
         raises == command.adopt /\ AdoptRaises(st, r)
         next == IF command.adopt THEN WithResult(st, r, o, lat, rev) ELSE [st EXCEPT !.revs[r] = @ \cup {rev}]
     IN  /\ ran' = ran \cup {Evaluation(t, r, rev, command.now, command.worker, IF command.adopt THEN "adopt" ELSE "record")}
         /\ IF raises THEN UNCHANGED <<disk, stale>> ELSE Save(t, st, next)
  /\ device' = [device EXCEPT !["default"] = None]
  /\ End
-----------------------------------------------------------------------------
(* The host: new code, prices and manifests, and a newly registered profile *)

Change ==
  /\ Disturb
  /\ UNCHANGED <<ready, pinned, disk, lock, proc, command, device, ran, stale>>

Install(item) ==
  /\ item # "scoring" /\ host[item] < MaxVersion
  /\ Change
  /\ host' = [host EXCEPT ![item] = @ + 1]

\* calibration-register: a frozen profile is replaced only on request.
Register(status, replace) ==
  /\ host["scoring"] < MaxVersion
  /\ host.profile = "frozen" => replace
  /\ Change
  /\ host' = [host EXCEPT !["scoring"] = @ + 1, !.profile = status]
-----------------------------------------------------------------------------
\* A trajectory of an earlier release: one valid round, no recorded evaluator or
\* scoring binding.
Legacy ==
  LET rec == [T!NewRound(1) EXCEPT !.status = "valid", !.verdict = "clear", !.lat = 1]
  IN  [NewState("validation", [i \in Items |-> IF i \in {"evaluator", "scoring"} THEN NotRecorded ELSE 1])
         EXCEPT !.rounds = <<rec>>, !.best = [round |-> 1, lat |-> 1]]

Init ==
  /\ host = [i \in Items \cup {"profile"} |-> IF i = "profile" THEN "frozen" ELSE 1]
  /\ ready \in Readiness
  /\ pinned = 0
  /\ disk \in {[t \in Operators |-> NoState], [t \in Operators |-> IF t = 0 THEN Legacy ELSE NoState]}
  /\ lock = [t \in Operators |-> None]
  /\ proc = [p \in Processes |-> Off]
  /\ command = Idle
  /\ device = [r \in {"default", "other"} |-> None]
  /\ ran = {} /\ stale = {}
  /\ counts = [disturbances |-> 0, commands |-> 0]

Process(p) ==
  \/ \E o \in Options : Prepare(p, o)
  \/ Skip(p)
  \/ \E retry \in BOOLEAN : Start(p, retry)
  \/ \E v \in {"clear", "review_required"} : Generate(p, v)
  \/ BeginEvaluation(p)
  \/ \E o \in {"valid", "infrastructure_incomplete"}, lat \in Latencies : EndEvaluation(p, o, lat)
  \/ Return(p) \/ Exit(p) \/ Crash(p)

Command ==
  \/ \E t \in Operators : LoadReview(t)
  \/ \E d \in {"compliant", "violation"} : SaveReview(d)
  \/ LeaveReview
  \/ \E t \in Operators, r \in 1..Rounds, adopt \in BOOLEAN : LoadReevaluation(t, r, adopt)
  \/ Reevaluate
  \/ \E o \in {"valid", "infrastructure_incomplete"}, lat \in Latencies : SaveReevaluation(o, lat)

Next ==
  \/ \E p \in Processes : Process(p)
  \/ Command
  \/ \E i \in Items : Install(i)
  \/ \E s \in {"candidate", "frozen"}, replace \in BOOLEAN : Register(s, replace)

Spec == Init /\ [][Next]_vars
-----------------------------------------------------------------------------
(* Properties *)

\* Two processes never run the same trajectory, shards of one division share no
\* operator and leave none out, and a process that runs a trajectory for which
\* nobody else saved works on what is saved.
RunsAreExclusive ==
  /\ \A p, q \in Processes : Loaded(p) /\ Loaded(q) /\ p # q => proc[p].task # proc[q].task
  /\ \A n, m \in 1..3 :
       /\ UNION {ShardOperators(<<i, n>>, 0..m) : i \in 1..n} = 0..m
       /\ \A i, j \in 1..n : i # j => ShardOperators(<<i, n>>, 0..m) \cap ShardOperators(<<j, n>>, 0..m) = {}
  /\ \A p \in Processes : Loaded(p) => proc[p].mem = disk[proc[p].task] \/ proc[p].task \in stale
                                         \/ command # Idle \/ counts.commands > 0

\* Whatever was installed, registered or re-priced between the processes that ran
\* it: the META.json of every evaluation of a formal trajectory names what the
\* trajectory pins, and the evaluation ran under it on a host that passes every
\* gate, but for an evaluator installed after its process had compared; and every
\* evaluator that the evidence of a validation trajectory names is the pinned one,
\* one its changes name, or older than the first record.
RoundsMatchBindings ==
  \A x \in ran : x.by = "run" /\ x.task \notin stale =>
    LET st == disk[x.task]
    IN  /\ x.versions["config"] = st.bind["config"]
        /\ st.runType = "formal" =>
             /\ x.meta = st.bind /\ ready = [approval |-> "approved", folds |-> TRUE, host |-> "sandboxed"]
             /\ \A i \in Items \ {"evaluator"} : x.versions[i] = st.bind[i]
             /\ x.versions["evaluator"] >= st.bind["evaluator"]
        /\ x.meta["evaluator"] # st.bind["evaluator"] =>
             \E c \in st.changes : c[1] = x.meta["evaluator"]

\* What a later state keeps of an earlier one.
Continues(st, next) ==
  /\ Len(st.rounds) <= Len(next.rounds)
  /\ \A i \in DOMAIN st.rounds : st.rounds[i].verdict # T!NoAttempt => next.rounds[i].verdict # T!NoAttempt
  /\ \A i \in DOMAIN st.rounds : i < Len(st.rounds) => next.rounds[i] = st.rounds[i]
  /\ \A r \in 1..Rounds : st.revs[r] \subseteq next.revs[r]
  /\ st.changes \subseteq next.changes
  /\ st.status = "complete" => next.status = "complete"

\* Nothing recorded is lost, unless an operator's command and a run overlap on the
\* trajectory: rounds, attempts, revisions and evaluator changes stay through
\* every resume, crash, review and re-evaluation.
NothingIsLost ==
  [][\A t \in Operators : disk[t] # NoState /\ t \notin stale' => Continues(disk[t], disk'[t])]_disk
-----------------------------------------------------------------------------
(* What comments and documents say and the code does not keep *)

\* "The round's recorded status is left as it is unless --adopt is given", says
\* re-evaluate.  It saves the state it loaded before the evaluation, so a round
\* that ended meanwhile is pending, or gone, again.
RecordedStatusIsKept ==
  [][\A t \in Operators :
       command.cmd = "measure" /\ ~command.adopt /\ disk'[t] # disk[t] /\ command'.cmd = "none" =>
         disk'[t].rounds = disk[t].rounds]_<<disk, command>>

\* "A formal campaign is one evaluator fingerprint per device from start to end",
\* and META.json names the fingerprint of the evaluation.  It is compared when a
\* process starts a trajectory; each worker imports what is on disk when it starts.
EvaluatedAsPinned ==
  \A x \in ran : x.by = "run" /\ x.task \notin stale /\ disk[x.task].runType = "formal" => x.versions = disk[x.task].bind

\* A revision whose META.json says that it was adopted is the recorded one.
AdoptIsRecorded ==
  \A x \in ran : x.by = "adopt" /\ x.task \notin stale => x.rev \in disk[x.task].revs[x.round]

\* "candidates of one device are timed one at a time", by "every process on the
\* host that follows the protocol".
TimedOneAtATime ==
  Cardinality({p \in Processes : proc[p].pc = "evaluating"} \cup
              (IF command.cmd = "measure" THEN {Operator} ELSE {})) <= 1
=============================================================================
