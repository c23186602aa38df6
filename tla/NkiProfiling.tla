---------------------------- MODULE NkiProfiling ----------------------------
(***************************************************************************)
(* Profiling one benchmark case on Trainium with exact artifact identity   *)
(* (core/nki_orchestrator.py, nki_profile_worker.py, nki_artifact.py and   *)
(* nki_profile_spec.py).                                                   *)
(*                                                                         *)
(* A parent process pins down the launch specification, takes the lock of  *)
(* the private directory that the specification names, decides whether the *)
(* directory's manifest can be reused, launches a worker subprocess that   *)
(* compiles, verifies and times, matches what the runtime executed with    *)
(* what was compiled, and writes the manifest.  The directory outlives the *)
(* runs; workers outlive parents that die; the compiler dumps an artifact  *)
(* only when its private cache does not hold the graph.  One run() of a    *)
(* target compiles and executes several graphs, some of them the other     *)
(* target's too.                                                           *)
(***************************************************************************)
EXTENDS Absence, Integers, Sequences, FiniteSets, SequencesExt, Functions

CONSTANTS
  Parents,      \* processes that profile the same case
  Launches,     \* the graphs, in order, that one run() of each target executes
  Builds,       \* what a compilation of one graph may give
  Plans,        \* how a phase of a worker may go
  Drifts,       \* may run() execute other graphs under one specification?
  Overrides,    \* may $NKI_NEFF_PATH be set?
  Warmup, Repeat,
  MaxFaults,    \* what may go wrong in a behaviour
  Refused       \* an answer that names no pairs, for an identity error

\* Calls are counted, the override is set or not, None is no process.
ASSUME CallsAssumption == Warmup \in Nat /\ Repeat \in Nat
ASSUME RepeatAssumption == Repeat > 0   \* without a timed iteration there is no time
ASSUME OverridesAssumption == Overrides \subseteq BOOLEAN
ASSUME ParentsAssumption == None \notin Parents

VARIABLES
  space,     \* the private directory: dumps, cache, manifest, worker_result, runtime sessions
  holder,    \* who holds the lock of the directory
  parent,    \* the parents
  orphan,    \* a worker whose parent died
  graph,     \* the graphs that run() of each target executes
  report,    \* the last result handed to the engine
  trouble    \* history: what went wrong so far, in this run, the runs since that did not time both targets

nkiVars == <<space, holder, parent, orphan, graph, report, trouble>>

Targets == {"torch", "nki"}
\* The HLO of a graph holds the marker of a native kernel.  "torch3" and "nki3" are
\* what a target compiles after a drift, "plain" a run() without its kernels, "late" is
\* compiled in a timed iteration, "given" is the file of the override, outside the directory.
Graphs == {"torch", "torch2", "torch3", "shared", "nki", "nki2", "nki3", "plain", "late", "given"}
Marked == {"nki", "nki2", "nki3", "given"}
DriftsTo == [t \in Targets |-> IF t = "nki" THEN "nki3" ELSE "torch3"]

\* A run() executes graphs; only the NKI target's hold kernels, and they do.
ASSUME LaunchesAssumption ==
  \A launch \in Launches :
    /\ launch \in [Targets -> Seq({"torch", "torch2", "shared", "nki", "nki2"})]
    /\ launch["torch"] # <<>> /\ \A i \in DOMAIN launch["torch"] : launch["torch"][i] \notin Marked
    /\ \E i \in DOMAIN launch["nki"] : launch["nki"][i] \in Marked
Incomplete == 0         \* a dumped HLO without its NEFF

\* A build is a file; an answer that names no pairs is no set of pairs, and no trace.
ASSUME BuildsAssumption == Incomplete \notin Builds
ASSUME AnswersAssumption ==
  /\ \A pairs \in SUBSET (Graphs \X Builds) : pairs \notin {None, Refused}
  /\ Refused \notin [by : Parents \cup {None}, execs : Seq(Graphs \X Builds)]

\* An artifact pair is a graph and the build that its hashes name.
PairsOf(dumps) == {<<g, dumps[g]>> : g \in {h \in DOMAIN dumps : dumps[h] # Incomplete}}
HasMarked(pairs) == \E a \in pairs : a[1] \in Marked
With(dumps, gs, b) == [h \in DOMAIN dumps \cup gs |-> IF h \in gs THEN b ELSE dumps[h]]
Without(dumps, g) == Restrict(dumps, DOMAIN dumps \ {g})
NoFiles == [g \in {} |-> None]
-----------------------------------------------------------------------------
(* Identity of artifacts *)

\* discover_pairs' rejections: an HLO with the marker and no NEFF.
OrphanMarker(dumps) == \E g \in DOMAIN dumps : g \in Marked /\ dumps[g] = Incomplete

PhaseMarkers(pairs, target) == IF HasMarked(pairs) = (target = "nki") THEN pairs ELSE Refused

\* resolve_phase_pairs: what appeared during the phase.
PhasePairs(dumps, pre, target) ==
  LET new == {a \in PairsOf(dumps) : a[1] \notin pre}
  IN  IF OrphanMarker(dumps) \/ new = {} THEN Refused ELSE PhaseMarkers(new, target)

\* resolve_expected_pairs: what the manifest names, and nothing new.
ExpectedPairs(dumps, pre, stems, target) ==
  IF (\E a \in PairsOf(dumps) : a[1] \notin pre) \/ ~ stems \subseteq {a[1] : a \in PairsOf(dumps)}
  THEN Refused
  ELSE PhaseMarkers({a \in PairsOf(dumps) : a[1] \in stems}, target)

\* validate_pair below the directory, and the hash comparison of its callers.
Present(dumps, pairs) == pairs \subseteq PairsOf(dumps)

\* validate_manifest_reuse, to the pairs of each reusable target.
ReusablePairs(dumps, m) ==
  LET use == {t \in DOMAIN m : m[t] # {}}
  IN  IF \/ \E t \in DOMAIN m : m[t] = None
         \/ "nki" \in DOMAIN m /\ ~HasMarked(m["nki"])
         \/ \E t \in use : ~Present(dumps, m[t])
         \/ use = {}
      THEN Refused ELSE Restrict(m, use)
-----------------------------------------------------------------------------
(* A worker.  It verifies one run(), resolves the pairs, then warms up and times.       *)

\* What a phase reports: the check, the pairs (None: no identity), the timed windows.
Entry(ok, pairs, windows) == [ok |-> ok, pairs |-> pairs, windows |-> windows]
NoEntry == [absent |-> TRUE]

\* _timed_windows: what each timed run() of len executions covers, [begin, end), after n
\* executions; the last one may execute one graph more.
WindowsAfter(n, len, more) ==
  [i \in 1..Repeat |-> <<n + len * (Warmup + i), n + len * (Warmup + i + 1) + IF i = Repeat THEN more ELSE 0>>]

NewWorker(p, expected, nki) ==
  [by |-> p, pc |-> "torch", expected |-> expected, nki |-> nki, entries |-> [t \in Targets |-> NoEntry],
   execs |-> <<>>, inspect |-> TRUE]

\* A compilation dumps the graphs that the cache does not hold.
Compiled(dir, gs, b) ==
  LET new == gs \ DOMAIN dir.cache
  IN  [dir EXCEPT !.dumps = With(@, new, b), !.cache = With(@, new, b)]
Loaded(dir, g) == <<g, dir.cache[g]>>

\* _run_phase: how run() may go.  "raise": once it compiled and executed its first k
\* graphs; "half": in the compiler after them, with a dump that is not complete; "wrong": the
\* output does not verify; "tired": a timed iteration raises; "vary": the last one executes
\* a graph more; "fallback": without its kernels.
Raising == {"raise", "half"}
Reached(plan, n) == IF plan = "raise" THEN 0..n ELSE IF plan = "half" THEN 0..(n - 1) ELSE {n}
RunOf(t, plan) ==
  IF plan = "fallback" THEN [i \in DOMAIN graph[t] |-> IF graph[t][i] \in Marked THEN "plain" ELSE graph[t][i]]
  ELSE graph[t]

PhaseDir(dir, run, plan, k, b) ==
  LET done == Compiled(dir, {run[i] : i \in 1..k}, b)
  IN  IF plan = "half" /\ run[k + 1] \notin DOMAIN done.cache
      THEN [done EXCEPT !.dumps = With(@, {run[k + 1]}, Incomplete)] ELSE done

Phase(dir, w, t, plan, k, b) ==
  LET pre == DOMAIN dir.dumps
      run == RunOf(t, plan)
      done == PhaseDir(dir, run, plan, k, b)
      raised == plan \in Raising
      expected == IF t \in DOMAIN w.expected THEN {a[1] : a \in w.expected[t]} ELSE {}
      pairs == IF raised THEN {a \in PairsOf(done.dumps) : a[1] \notin pre}
               ELSE IF expected # {} THEN ExpectedPairs(done.dumps, pre, expected, t)
               ELSE PhasePairs(done.dumps, pre, t)
      ok == ~raised /\ plan # "wrong"
      timed == ok /\ pairs # Refused
      varies == timed /\ plan = "vary"
      last == IF varies THEN Compiled(done, {"late"}, b) ELSE done
      calls == IF timed THEN 1 + Warmup + Repeat ELSE 1
      runs == [i \in 1 .. (IF raised THEN k ELSE calls * Len(run)) |-> Loaded(done, run[((i - 1) % Len(run)) + 1])]
  IN  [dir |-> last, refused |-> pairs = Refused \/ plan = "tired",
       execs |-> w.execs \o runs \o (IF varies THEN <<Loaded(last, "late")>> ELSE <<>>),
       entry |-> Entry(ok, pairs, IF timed THEN WindowsAfter(Len(w.execs), Len(run), IF varies THEN 1 ELSE 0) ELSE <<>>)]

\* An identity error is the torch baseline's own, and takes the NKI phase down.
Stepped(w, t, ph) ==
  [w EXCEPT !.execs = ph.execs,
            !.entries[t] = IF ph.refused THEN Entry(FALSE, None, <<>>) ELSE ph.entry,
            !.pc = IF t = "torch" THEN (IF w.nki THEN "nki" ELSE "end")
                   ELSE IF ph.refused THEN "failed" ELSE "end"]

\* The result the worker leaves; ok and the exit status depend on the NKI check only.
Result(w, fresh) ==
  [error |-> w.pc = "failed", ok |-> w.entries["nki"] = NoEntry \/ w.entries["nki"].ok,
   entries |-> w.entries, count |-> Len(w.execs), fresh |-> fresh]
NoResult == [missing |-> TRUE]
-----------------------------------------------------------------------------
(* The runtime trace *)

\* The graphs of a window, as a multiset.
Pattern(execs) == [a \in Range(execs) |-> Cardinality({i \in DOMAIN execs : execs[i] = a})]

\* time_windows, to the executed pairs; no range, one that is empty or out of bounds, or
\* two patterns refuse.
Timed(execs, windows) ==
  LET at(i) == SubSeq(execs, windows[i][1] + 1, windows[i][2])
  IN  IF \/ windows = <<>>
         \/ \E i \in DOMAIN windows : windows[i][1] >= windows[i][2] \/ windows[i][2] > Len(execs)
         \/ \E i, j \in DOMAIN windows : Pattern(at(i)) # Pattern(at(j))
      THEN Refused ELSE Range(at(1))
-----------------------------------------------------------------------------
(* Parents *)

Outside == [pc |-> "out"]
MaxDry == 3      \* bound on the count of runs that timed less than they should
Quiet == trouble.now = 0

\* One more thing that went wrong.
Fault ==
  /\ trouble.total < MaxFaults
  /\ trouble' = [trouble EXCEPT !.total = @ + 1, !.now = 1, !.dry = 0]

\* A run ends; a quiet one that timed nothing counts.
Ended(timed) ==
  trouble' = [trouble EXCEPT !.now = IF orphan = None THEN 0 ELSE 1,
                             !.dry = IF timed THEN 0 ELSE IF Quiet THEN (IF @ < MaxDry THEN @ + 1 ELSE @) ELSE 0]

\* The selector's failure, and every refusal, is an exception of the case.
Raises(p) ==
  /\ report' = [kind |-> "error", by |-> p]
  /\ parent' = [parent EXCEPT ![p] = Outside]
  /\ holder' = None
  /\ Ended(FALSE)

\* The selector of the autotuned case could not verify its winner: nothing was locked.
SelectorFails(p) ==
  /\ parent[p] = Outside
  /\ Fault
  /\ report' = [kind |-> "error", by |-> p]
  /\ UNCHANGED <<space, holder, parent, orphan, graph>>

\* Mutant of Kept: the cache survives a run that does not reuse.
KeptCache(dir, reuse, given) ==
  IF reuse # Refused THEN dir ELSE [dir EXCEPT !.dumps = NoFiles]

\* What a run keeps of the directory: everything on reuse; else nothing, but the
\* cache if an override is given.
Kept(dir, reuse, given) ==
  IF reuse # Refused THEN dir
  ELSE [dir EXCEPT !.dumps = NoFiles, !.cache = IF given THEN @ ELSE NoFiles]

\* Mutant of Free: the lock is shared.
FreeForAll(p) == parent[p] = Outside
Free(p) == parent[p] = Outside /\ holder = None

\* spec_lock, the override, the reuse decision, the wipe and the worker's launch.
Prepare(p, given) ==
  /\ Free(p)
  /\ IF given THEN Fault ELSE UNCHANGED trouble
  /\ LET reuse == IF given \/ space.manifest = None THEN Refused
                  ELSE ReusablePairs(space.dumps, space.manifest)
         dir == Kept(space, reuse, given)
     IN  /\ space' = [dir EXCEPT !.sessions = {},
                                 !.manifest = IF ~given /\ reuse = Refused THEN None ELSE @,
                                 !.result = IF @ = NoResult THEN @ ELSE [@ EXCEPT !.fresh = FALSE]]
         /\ parent' = [parent EXCEPT ![p] =
              [pc |-> "running", reuse |-> reuse, given |-> given,
               worker |-> NewWorker(p, IF reuse = Refused THEN NoFiles ELSE reuse, ~given)]]
  /\ holder' = p
  /\ UNCHANGED <<orphan, graph, report>>

\* One phase of the worker of p.
WorkerPhase(p, plan, k, b) ==
  /\ parent[p].pc = "running"
  /\ parent[p].worker.pc \in Targets
  /\ plan # "fallback" \/ parent[p].worker.pc = "nki"
  /\ k \in Reached(plan, Len(graph[parent[p].worker.pc]))
  /\ IF plan = "ok" THEN UNCHANGED trouble ELSE Fault
  /\ LET w == parent[p].worker
         ph == Phase(space, w, w.pc, plan, k, b)
     IN  /\ space' = ph.dir
         /\ parent' = [parent EXCEPT ![p].worker = Stepped(w, w.pc, ph)]
  /\ UNCHANGED <<holder, orphan, graph, report>>

\* The worker writes its result and exits; the runtime leaves the session's trace,
\* which may have lost an event.
Session(w, lost) == [by |-> w.by, execs |-> IF lost THEN Tail(w.execs) ELSE w.execs]

WorkerEnds(p, lost) ==
  /\ parent[p].pc = "running"
  /\ parent[p].worker.pc \in {"end", "failed"}
  /\ LET w == parent[p].worker
     IN  /\ lost => w.execs # <<>>
         /\ space' = [space EXCEPT !.result = Result(w, TRUE), !.sessions = @ \cup {Session(w, lost)}]
         /\ parent' = [parent EXCEPT ![p].pc = "read", ![p].worker = [rc |-> IF w.pc = "end" /\ Result(w, TRUE).ok THEN 0 ELSE 1]]
  /\ IF lost THEN Fault ELSE UNCHANGED trouble
  /\ UNCHANGED <<holder, orphan, graph, report>>

\* The worker is killed: no result, no trace, and an exit status.
WorkerKilled(p) ==
  /\ parent[p].pc = "running"
  /\ Fault
  /\ parent' = [parent EXCEPT ![p].pc = "read", ![p].worker = [rc |-> 1]]
  /\ UNCHANGED <<space, holder, orphan, graph, report>>

\* _read_result and _launch_worker: a missing result, an error, or an exit status
\* that contradicts it.
Read(p) ==
  /\ parent[p].pc = "read"
  /\ LET r == space.result
     IN  IF r = NoResult \/ r.error \/ (parent[p].worker.rc # 0 /\ r.ok)
         THEN Raises(p) /\ UNCHANGED <<space, orphan, graph>>
         ELSE /\ parent' = [parent EXCEPT ![p].pc = "publish", ![p].worker = r]
              /\ UNCHANGED <<space, holder, orphan, graph, report, trouble>>
-----------------------------------------------------------------------------
(* What the parent makes of a result *)

\* The targets a result has; the timed ones have an identity and verified.
Recorded(r) == {t \in Targets : r.entries[t] # NoEntry}
ToTime(r) == {t \in Recorded(r) : r.entries[t].ok /\ r.entries[t].pairs \notin {None, {}}}

\* The pairs are validated again, and compared with the reused manifest's.
Revalidates(dumps, r, reuse) ==
  \A t \in ToTime(r) :
    /\ Present(dumps, r.entries[t].pairs)
    /\ reuse # Refused /\ t \in DOMAIN reuse => r.entries[t].pairs = reuse[t]

\* Mutant of Executed: whatever the runtime executed is taken.
ExecutedAnything(r, execs, t) == Timed(execs, r.entries[t].windows)

\* What the timed iterations executed: only pairs of the targets this run times, a graph
\* with a kernel for the NKI target and none for the baseline.
Executed(r, execs, t) ==
  LET pairs == Timed(execs, r.entries[t].windows)
  IN  IF \/ pairs = Refused
         \/ ~ pairs \subseteq UNION {r.entries[u].pairs : u \in ToTime(r)}
         \/ HasMarked(pairs) # (t = "nki")
      THEN Refused ELSE pairs

\* The trace that belongs to the result: exactly one session, of as many executions.
Trace(r) ==
  IF Cardinality(space.sessions) # 1 THEN Refused
  ELSE LET s == CHOOSE x \in space.sessions : TRUE
       IN  IF Len(s.execs) = r.count THEN s ELSE Refused

Times(r) == [t \in ToTime(r) |-> Executed(r, Trace(r).execs, t)]
Untrusted(p, r) ==
  \/ ~Revalidates(space.dumps, r, parent[p].reuse)
  \/ ToTime(r) # {} /\ (Trace(r) = Refused \/ \E t \in ToTime(r) : Times(r)[t] = Refused)

\* The manifest and the result for the engine; the override's file is recorded, timed
\* by another tool and never reported as a verified result.
Publish(p) ==
  /\ parent[p].pc = "publish"
  /\ LET r == parent[p].worker
         targets == [t \in Recorded(r) |-> r.entries[t].pairs]
     IN  IF Untrusted(p, r)
         THEN Raises(p) /\ UNCHANGED space
         ELSE /\ space' = [space EXCEPT !.manifest =
                             IF parent[p].given THEN With(targets, {"nki"}, {<<"given", 1>>}) ELSE targets]
              /\ report' = [kind |-> "result", by |-> p, times |-> Times(r),
                            unverified |-> parent[p].given, fresh |-> r.fresh]
              /\ parent' = [parent EXCEPT ![p] = Outside]
              /\ holder' = None
              /\ Ended(ToTime(r) = Targets)
  /\ UNCHANGED <<orphan, graph>>
-----------------------------------------------------------------------------
(* Failures of the surroundings *)

\* A parent dies; the system drops its lock, its worker goes on alone.
ParentDies(p) ==
  /\ parent[p] # Outside
  /\ Fault
  /\ orphan' = IF parent[p].pc = "running" /\ orphan = None THEN [parent[p].worker EXCEPT !.by = None] ELSE orphan
  /\ parent' = [parent EXCEPT ![p] = Outside]
  /\ holder' = None
  /\ UNCHANGED <<space, graph, report>>

\* The orphan's phases and its end change the directory that others may use by now.
OrphanPhase(b) ==
  /\ orphan # None /\ orphan.pc \in Targets
  /\ LET ph == Phase(space, orphan, orphan.pc, "ok", Len(graph[orphan.pc]), b)
     IN  space' = ph.dir /\ orphan' = Stepped(orphan, orphan.pc, ph)
  /\ UNCHANGED <<holder, parent, graph, report, trouble>>

OrphanEnds ==
  /\ orphan # None /\ orphan.pc \notin Targets
  /\ space' = [space EXCEPT !.result = Result(orphan, FALSE), !.sessions = @ \cup {Session(orphan, FALSE)}]
  /\ orphan' = None
  /\ UNCHANGED <<holder, parent, graph, report, trouble>>

\* A file of the directory, or an entry of the cache, is removed between two runs.
Lose(where, g) ==
  /\ holder = None
  /\ g \in DOMAIN space[where]
  /\ Fault
  /\ space' = [space EXCEPT ![where] = Without(@, g)]
  /\ UNCHANGED <<holder, parent, orphan, graph, report>>

\* The last graph of run() is another one from now on, for a reason the specification does
\* not name.
Steady(t) == graph[t][Len(graph[t])] # DriftsTo[t]
Drift(t) ==
  /\ Drifts /\ Steady(t)
  /\ Fault
  /\ graph' = [graph EXCEPT ![t] = Append(Front(@), DriftsTo[t])]
  /\ UNCHANGED <<space, holder, parent, orphan, report>>
-----------------------------------------------------------------------------
NkiInit ==
  /\ space = [dumps |-> NoFiles, cache |-> NoFiles, manifest |-> None, result |-> NoResult, sessions |-> {}]
  /\ holder = None
  /\ parent = [p \in Parents |-> Outside]
  /\ orphan = None
  /\ graph \in Launches
  /\ report = [kind |-> "none"]
  /\ trouble = [total |-> 0, now |-> 0, dry |-> 0]

Lengths == UNION {0 .. Len(launch[t]) : launch \in Launches, t \in Targets}

NkiNext ==
  \/ \E p \in Parents :
       \/ SelectorFails(p)
       \/ \E given \in Overrides : Prepare(p, given)
       \/ \E plan \in Plans, k \in Lengths, b \in Builds : WorkerPhase(p, plan, k, b)
       \/ \E lost \in BOOLEAN : WorkerEnds(p, lost)
       \/ WorkerKilled(p) \/ Read(p) \/ Publish(p) \/ ParentDies(p)
  \/ \E b \in Builds : OrphanPhase(b)
  \/ OrphanEnds
  \/ \E where \in {"dumps", "cache"}, g \in Graphs : Lose(where, g)
  \/ \E t \in Targets : Drift(t)

NkiSpec == NkiInit /\ [][NkiNext]_nkiVars
-----------------------------------------------------------------------------
(* Properties *)

\* The graphs that run() of a target ever executes by itself.
Runnable == {DriftsTo[t] : t \in Targets} \cup UNION {Range(launch[t]) : launch \in Launches, t \in Targets}

\* Only the holder of the spec's lock is inside, and the latency of a target is that of at
\* least one graph, of graphs of the targets' own runs only, one with a kernel for the NKI
\* target and none for the baseline: whatever was lost, killed, orphaned, rebuilt or dropped
\* before.  (A graph that both targets execute may be in both latencies.)
TimedIsIdentified ==
  /\ \A p \in Parents : parent[p] # Outside => holder = p
  /\ report.kind = "result" => \A t \in DOMAIN report.times :
       /\ report.times[t] # {} /\ \A a \in report.times[t] : a[1] \in Runnable
       /\ HasMarked(report.times[t]) = (t = "nki")

\* What the manifest that a timed result leaves behind says of its files is true until a file
\* or the directory is touched again: every timed graph is a pair of a target that was timed in
\* the same run, a kernel's one of the NKI target, and its files are there.
TrueManifest ==
  report' # report /\ report'.kind = "result" =>
    \A t \in DOMAIN report'.times : \A a \in report'.times[t] :
      /\ \E u \in DOMAIN report'.times : a \in space'.manifest[u]
      /\ a[1] \in Marked => a \in space'.manifest["nki"]
      /\ a \in PairsOf(space'.dumps)
ManifestIsTrue == [][TrueManifest]_nkiVars

\* A directory is not spoilt for good: at most two runs in a row in which nothing goes wrong
\* time less than both targets, the next one does.
Recovers == trouble.dry < MaxDry

\* A manifest that is taken for reusable while it has no NKI target, or names some graphs
\* of a target's run() and another one nowhere.
Partial(m) ==
  LET named == {a[1] : a \in UNION {m[t] : t \in DOMAIN m}}
  IN  /\ None \notin {m[t] : t \in DOMAIN m}
      /\ \/ "nki" \notin DOMAIN m
         \/ \E t \in DOMAIN m : m[t] # {} /\ ~ Range(graph[t]) \subseteq named

\* That holds whatever was killed, lost or interrupted, while run() executes what it always did,
\* and unless the manifest is partial (NeverUnresolvable below).
DirectoryRecovers ==
  (\A t \in Targets : Steady(t)) /\ (space.manifest = None \/ ~Partial(space.manifest)) => Recovers
-----------------------------------------------------------------------------
(* What comments and documents say and the code does not keep *)

\* "artifacts + cache are wiped together so the private CWD is guaranteed to receive this run's
\* dumps", says the comment of a fresh run.  A run with an override wipes the artifacts only.
WipedTogether ==
  \A p \in Parents : parent[p].pc = "running" /\ parent[p].reuse = Refused /\ parent[p].worker.pc = "torch" /\ orphan = None =>
    DOMAIN space.cache \subseteq DOMAIN space.dumps

\* A target is never left "unresolvable forever" by "a stale dump + compile-cache hit", says
\* validate_manifest_reuse.  It reads the targets and the pairs that the manifest names.  (1) A
\* run() that raises between two of its graphs leaves a manifest with the first one's pair: the
\* next run is refused for the new pair, or takes the dump that was not complete for an old one,
\* and every later run executes a graph that is in no manifest.  (2) An orphan of a run with an
\* override may overwrite the result that a later run is about to read, and it has no NKI
\* target: the manifest is reused, its dumps and cache are kept, and the NKI graph is never new.
NeverUnresolvable == (\A t \in Targets : Steady(t)) => Recovers

\* "correctness is re-verified every time", but the result file of an earlier run is still
\* there when a worker is killed before it writes its own.
ResultIsOfThisRun == report.kind = "result" => report.fresh
=============================================================================
