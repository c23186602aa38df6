------------------------- MODULE Measurement_proofs -------------------------
(***************************************************************************)
(* What turns a run into a number, for every value of the constants: the   *)
(* replay of tuned kernels (NkiAutotune), the identity of what was timed   *)
(* on Trainium (NkiProfiling), calibration and scoring (Scoring), the GPU  *)
(* benchmark and its CSV (Benchmark), and the device time of the native    *)
(* Trainium stack (NeuronBench).                                           *)
(***************************************************************************)
EXTENDS NkiAutotune, NkiProfiling, NeuronBench, Scoring, Benchmark, Sums_proofs, SequenceTheorems

-----------------------------------------------------------------------------
(* NkiAutotune: a replay runs the winners *)

\* A trace is a sequence of records that have a key and a configuration.
TraceOf(tr) ==
  /\ tr \in Seq(ToSet(tr))
  /\ \A r \in ToSet(tr) : r = [key |-> r.key, config |-> r.config]

\* Recording a winner adds it to those recorded, and nothing else.
LEMMA RecordAdds ==
  ASSUME NEW tr, TraceOf(tr), NEW key, NEW cfg
  PROVE  /\ TraceOf(WithRecord(tr, key, cfg))
         /\ ToSet(WithRecord(tr, key, cfg)) = ToSet(tr) \cup {[key |-> key, config |-> cfg]}
<1> DEFINE rec == [key |-> key, config |-> cfg]
<1>1. tr \in Seq(ToSet(tr)) /\ ToSet(tr) = {tr[i] : i \in 1 .. Len(tr)}
  BY DEF TraceOf, ToSet
<1>2. CASE Contains(tr, rec)
  <2>1. rec \in ToSet(tr)
    BY <1>1, <1>2 DEF Contains
  <2> QED BY <1>2, <2>1 DEF WithRecord
<1>3. CASE ~Contains(tr, rec)
  <2>1. WithRecord(tr, key, cfg) = Append(tr, rec)
    BY <1>3 DEF WithRecord
  <2>2. tr \in Seq(ToSet(tr) \cup {rec})
    BY <1>1
  <2>3. /\ Len(Append(tr, rec)) = Len(tr) + 1
        /\ \A i \in 1 .. Len(tr) : Append(tr, rec)[i] = tr[i]
        /\ Append(tr, rec)[Len(tr) + 1] = rec
        /\ Append(tr, rec) \in Seq(ToSet(tr) \cup {rec})
    BY <2>2
  <2>4. ToSet(Append(tr, rec)) = ToSet(tr) \cup {rec}
    <3>1. ToSet(Append(tr, rec)) = {Append(tr, rec)[i] : i \in 1 .. Len(tr) + 1}
      BY <2>3 DEF ToSet
    <3>2. Len(tr) \in Nat
      BY <1>1
    <3> QED BY <1>1, <2>3, <3>1, <3>2
  <2>5. rec = [key |-> rec.key, config |-> rec.config]
    OBVIOUS
  <2> HIDE DEF rec
  <2>6. TraceOf(Append(tr, rec))
    BY <2>3, <2>4, <2>5 DEF TraceOf
  <2> QED BY <2>1, <2>4, <2>6 DEF rec
<1> QED BY <1>2, <1>3

\* The profiling process used what it consumed, of the winners, and records the same.
Replaying ==
  /\ replay = [records |-> winners, consumed |-> used]
  /\ TraceOf(winners) /\ ~Conflicting(winners)
  /\ used = ToSet(trace) /\ used \subseteq ToSet(winners)
  /\ \A u \in used : Cardinality(Matching(u.config)) = 1

ReplayInv ==
  /\ TraceOf(trace)
  /\ process = "selector" => used = {}
  /\ process \in {"profile", "done"} => Replaying
  /\ process = "done" => used = ToSet(winners)

LEMMA ReplayInvIsExact == ReplayInv => ReplayIsExact
BY DEF ReplayInv, Replaying, ReplayIsExact, Conflicting

LEMMA EmptyTrace == TraceOf(<<>>) /\ ToSet(<<>>) = {}
<1>1. ToSet(<<>>) = {}
  BY DEF ToSet
<1> QED BY <1>1 DEF TraceOf

LEMMA AutotuneInitReplay == AutotuneInit => ReplayInv
BY EmptyTrace DEF AutotuneInit, ReplayInv

LEMMA SelectorReplay ==
  ASSUME ReplayInv, process = "selector", process' \in {"selector", "failed"}, used' = used, TraceOf(trace')
  PROVE  ReplayInv'
BY DEF ReplayInv

LEMMA ExportReplay ==
  ASSUME ReplayInv, NEW path \in Paths, NEW found \in Spaces, Export(path, found)
  PROVE  ReplayInv'
<1>1. /\ trace' = <<>> /\ used' = {} /\ winners' = trace /\ replay' = Installed(trace)
      /\ process' = IF Conflicting(trace) THEN "failed" ELSE "profile"
  BY DEF Export, ReplayInv
<1>2. replay' = [records |-> winners', consumed |-> used']
  BY <1>1 DEF Installed
<1>3. process' = "profile" => Replaying'
  BY <1>1, <1>2, EmptyTrace DEF Replaying, ReplayInv
<1> QED BY <1>1, <1>3, EmptyTrace DEF ReplayInv

LEMMA ReplayReplay == ASSUME ReplayInv, Replay PROVE ReplayInv'
<1>1. process = "profile" /\ Replaying /\ TraceOf(trace)
  BY DEF Replay, ReplayInv
<1>2. CASE Usable(NextKey) = {}
  BY <1>1, <1>2 DEF Replay, Fails, ReplayInv
<1>3. CASE Usable(NextKey) # {}
  <2>1. PICK r \in Usable(NextKey) :
          /\ replay' = [replay EXCEPT !.consumed = @ \cup {r}]
          /\ trace' = WithRecord(trace, NextKey, r.config)
          /\ used' = used \cup {[key |-> NextKey, config |-> r.config]}
          /\ UNCHANGED <<process, code, winners>>
    BY <1>3 DEF Replay
  <2>2. r \in ToSet(winners) /\ r.key = NextKey /\ Cardinality(Matching(r.config)) = 1
    BY <1>1, <2>1 DEF Usable, RecordOf, Replaying
  <2>3. r = [key |-> NextKey, config |-> r.config]
    BY <1>1, <2>2 DEF Replaying, TraceOf
  <2>4. replay' = [records |-> winners, consumed |-> used \cup {r}] /\ used' = used \cup {r}
    BY <1>1, <2>1, <2>3 DEF Replaying
  <2>5. TraceOf(trace') /\ ToSet(trace') = used'
    BY <1>1, <2>1, <2>3, <2>4, RecordAdds DEF Replaying
  <2>6. \A u \in used' : Cardinality(Matching(u.config)) = 1
    BY <1>1, <2>2, <2>4 DEF Replaying
  <2>7. Replaying'
    BY <1>1, <2>1, <2>2, <2>4, <2>5, <2>6 DEF Replaying, Matching
  <2> QED BY <1>1, <2>1, <2>5, <2>7 DEF ReplayInv
<1> QED BY <1>2, <1>3

LEMMA FinishReplay == ASSUME ReplayInv, Finish PROVE ReplayInv'
<1>1. process = "profile" /\ Replaying /\ process' \in {"done", "failed"}
  BY DEF Finish, ReplayInv
<1>2. UNCHANGED <<trace, replay, winners, used, code>>
  BY DEF Finish
<1>3. process' = "done" => used = ToSet(winners)
  BY <1>1 DEF Finish, AllConsumed, Replaying
<1>4. Replaying'
  BY <1>1, <1>2 DEF Replaying, Matching
<1> QED BY <1>1, <1>2, <1>3, <1>4 DEF ReplayInv

LEMMA AutotuneNextReplay == ASSUME ReplayInv, [AutotuneNext]_autotuneVars PROVE ReplayInv'
<1>1. CASE Cached
  BY <1>1, RecordAdds, SelectorReplay DEF Cached, ReplayInv
<1>2. CASE Sweep
  BY <1>2, SelectorReplay DEF Sweep, ReplayInv
<1>3. CASE TimeCandidate
  BY <1>3, SelectorReplay DEF TimeCandidate, ReplayInv
<1>4. CASE Choose
  BY <1>4, RecordAdds, SelectorReplay DEF Choose, Fails, ReplayInv
<1>5. CASE \E path \in Paths, found \in Spaces : Export(path, found)
  BY <1>5, ExportReplay
<1>6. CASE Replay \/ Finish
  BY <1>6, ReplayReplay, FinishReplay
<1>7. CASE UNCHANGED autotuneVars
  BY <1>7 DEF autotuneVars, ReplayInv, Replaying, Matching
<1> QED BY <1>1, <1>2, <1>3, <1>4, <1>5, <1>6, <1>7 DEF AutotuneNext

\* A profile that is not refused ran exactly the winners of the selector, each of them
\* unmistakable in the search space of the day (nki_autotune.py, _replay_lookup and
\* assert_tuning_replay_consumed), for any tuner calls, search spaces and timings.
THEOREM ReplayIsAlwaysExact == AutotuneSpec => []ReplayIsExact
<1>1. AutotuneInit => ReplayInv
  BY AutotuneInitReplay
<1>2. ReplayInv /\ [AutotuneNext]_autotuneVars => ReplayInv'
  BY AutotuneNextReplay
<1>3. ReplayInv => ReplayIsExact
  BY ReplayInvIsExact
<1> QED BY <1>1, <1>2, <1>3, PTL DEF AutotuneSpec

-----------------------------------------------------------------------------
(* NkiProfiling: a time is of the graphs of run(), a manifest is true      *)

\* The graphs that run() of a target executes, before and after a drift.
Own(t) == IF t = "nki" THEN Runnable ELSE Runnable \ Marked
OwnPairs(t, pairs) == \A a \in pairs : a[1] \in Own(t)

\* What a phase reported: pairs of its target's graphs, and windows if it was timed.
OwnEntry(t, e) ==
  e.pairs = None \/ (OwnPairs(t, e.pairs) /\ (e.ok => e.windows \in Seq(Nat \X Nat)))
Entries(es) ==
  /\ es = [t \in Targets |-> es[t]]
  /\ \A t \in Targets : es[t] = NoEntry \/ OwnEntry(t, es[t])

IsResultFile(r) ==
  Entries(r.entries) /\ (~r.ok => r.entries["nki"] # NoEntry /\ ~r.entries["nki"].ok)

IsWorker(w) ==
  /\ w = [by |-> w.by, pc |-> w.pc, expected |-> w.expected, nki |-> w.nki, entries |-> w.entries,
          execs |-> w.execs, inspect |-> w.inspect]
  /\ \A t \in DOMAIN w.expected : OwnPairs(t, w.expected[t])
  /\ Entries(w.entries)
  /\ w.execs \in Seq(Graphs \X Builds)

\* Compiled files are of graphs of run(); a manifest names the override's file at most beside.
IsCompiled(s) ==
  /\ s = [dumps |-> s.dumps, cache |-> s.cache, manifest |-> s.manifest, result |-> s.result, sessions |-> s.sessions]
  /\ "given" \notin DOMAIN s.dumps
  /\ DOMAIN s.cache \subseteq Graphs /\ \A g \in DOMAIN s.cache : s.cache[g] \in Builds
IsManifest(m) ==
  m # None => \A t \in DOMAIN m : m[t] # None => \A a \in m[t] : a[1] \in Own(t) \cup {"given"}
IsSpace(s) ==
  /\ IsCompiled(s) /\ IsManifest(s.manifest) /\ IsFiniteSet(s.sessions)
  /\ s.result # NoResult => IsResultFile(s.result)

\* Two sessions left a trace, so neither is trusted.
Ambiguous(s) == \E x, y \in s.sessions : x # y

\* Parent p in state x, in directory s: with the override's file, no result that it may
\* publish has an NKI time.
Standing(p, x, s) ==
  /\ x = [pc |-> x.pc, reuse |-> x.reuse, given |-> x.given, worker |-> x.worker]
  /\ x.pc = "running" =>
       /\ IsWorker(x.worker) /\ x.worker.by = p
       /\ x.given => ~x.worker.nki /\ x.worker.pc # "nki" /\ x.worker.entries["nki"] = NoEntry
  /\ x.pc = "read" /\ x.given /\ x.worker.rc = 0 =>
       /\ \E y \in s.sessions : y.by = p
       /\ s.result.entries["nki"] = NoEntry \/ Ambiguous(s)
  /\ x.pc = "publish" =>
       Entries(x.worker.entries) /\ (x.given => "nki" \notin ToTime(x.worker) \/ Ambiguous(s))

ParentsInv ==
  /\ parent = [p \in Parents |-> parent[p]]
  /\ \A p \in Parents : parent[p] # Outside => holder = p /\ Standing(p, parent[p], space)
OrphanInv == orphan # None => IsWorker(orphan) /\ orphan.by = None
GraphInv ==
  /\ graph = [t \in Targets |-> graph[t]]
  /\ \A t \in Targets : graph[t] \in Seq(Own(t)) /\ graph[t] # <<>>
ReportInv ==
  report.kind = "result" => \A t \in DOMAIN report.times :
    /\ \A a \in report.times[t] : a[1] \in Runnable
    /\ report.times[t] # {} /\ HasMarked(report.times[t]) = (t = "nki")

NkiInv == IsSpace(space) /\ ParentsInv /\ OrphanInv /\ GraphInv /\ ReportInv

LEMMA NkiInvIdentifies == NkiInv => TimedIsIdentified
BY DEF NkiInv, ParentsInv, ReportInv, TimedIsIdentified

\* Only one parent is inside.
LEMMA Alone ==
  ASSUME NkiInv, NEW p \in Parents, parent[p] # Outside \/ holder = None, NEW q \in Parents, q # p
  PROVE  parent[q] = Outside
BY ParentsAssumption DEF NkiInv, ParentsInv

\* A step of the one parent that is inside or enters.
LEMMA ParentStep ==
  ASSUME NkiInv, NEW p \in Parents, parent[p] # Outside \/ holder = None, NEW x, parent' = [parent EXCEPT ![p] = x],
         x # Outside => holder' = p /\ Standing(p, x, space'),
         IsSpace(space'), OrphanInv', ReportInv', graph' = graph
  PROVE  NkiInv'
<1>1. \A q \in Parents : q # p => parent'[q] = Outside
  BY Alone DEF NkiInv, ParentsInv
<1>2. parent' = [q \in Parents |-> parent'[q]] /\ parent'[p] = x
  BY DEF NkiInv, ParentsInv
<1>3. ParentsInv'
  BY <1>1, <1>2 DEF ParentsInv
<1>4. GraphInv'
  BY DEF NkiInv, GraphInv
<1> QED BY <1>3, <1>4 DEF NkiInv

LEMMA RunningIsStanding ==
  ASSUME NkiInv, NEW p \in Parents, NEW pc, parent[p].pc = pc, pc # "out"
  PROVE  parent[p] # Outside /\ holder = p /\ Standing(p, parent[p], space)
<1>1. parent[p] # Outside
  BY DEF Outside
<1> QED BY <1>1 DEF NkiInv, ParentsInv
-----------------------------------------------------------------------------
\* What run() executes of itself is neither the override's file nor compiled late.
LEMMA RunnableAre == Runnable \subseteq Graphs \ {"plain", "late", "given"}
<1>1. ASSUME NEW launch \in Launches, NEW t \in Targets PROVE Range(launch[t]) \subseteq {"torch", "torch2", "shared", "nki", "nki2"}
  <2>1. launch[t] \in Seq({"torch", "torch2", "shared", "nki", "nki2"})
    BY LaunchesAssumption
  <2> QED BY <2>1 DEF Range
<1>2. ASSUME NEW t \in Targets PROVE DriftsTo[t] \in {"torch3", "nki3"}
  BY DEF DriftsTo, Targets
<1>3. ASSUME NEW g \in Runnable PROVE g \in {"torch", "torch2", "torch3", "shared", "nki", "nki2", "nki3"}
  <2>1. \/ \E t \in Targets : g = DriftsTo[t]
        \/ \E launch \in Launches, t \in Targets : g \in Range(launch[t])
    BY DEF Runnable
  <2> QED BY <1>1, <1>2, <2>1
<1> QED BY <1>3 DEF Graphs

\* The graphs of one run() in a phase.
IsRun(t, run) ==
  /\ run \in Seq(Graphs \ {"given"}) /\ Len(run) \in Nat \ {0}
  /\ \/ \A i \in DOMAIN run : run[i] \in Own(t)
     \/ t = "nki" /\ \A i \in DOMAIN run : run[i] \notin Marked

LEMMA RunIs ==
  ASSUME GraphInv, NEW t \in Targets, NEW plan, plan = "fallback" => t = "nki"
  PROVE  /\ IsRun(t, RunOf(t, plan)) /\ Len(RunOf(t, plan)) = Len(graph[t])
         /\ plan # "fallback" => \A i \in DOMAIN RunOf(t, plan) : RunOf(t, plan)[i] \in Own(t)
<1> DEFINE g == graph[t]
<1>1. g \in Seq(Own(t)) /\ g # <<>>
  BY DEF GraphInv
<1>2. Own(t) \subseteq Graphs \ {"given"}
  BY RunnableAre DEF Own
<1> HIDE DEF g
<1>3. g \in Seq(Graphs \ {"given"}) /\ Len(g) \in Nat \ {0} /\ DOMAIN g = 1 .. Len(g) /\ \A i \in DOMAIN g : g[i] \in Own(t)
  BY <1>1, <1>2
<1>4. CASE plan # "fallback"
  BY <1>3, <1>4 DEF RunOf, IsRun, g
<1>5. CASE plan = "fallback"
  <2> DEFINE run == [i \in 1 .. Len(g) |-> IF g[i] \in Marked THEN "plain" ELSE g[i]]
  <2>1. RunOf(t, plan) = run /\ t = "nki"
    BY <1>3, <1>5 DEF RunOf, g
  <2>2. \A i \in 1 .. Len(g) : run[i] \in Graphs \ {"given"} /\ run[i] \notin Marked
    BY <1>2, <1>3 DEF Graphs, Marked
  <2>3. run \in Seq(Graphs \ {"given"}) /\ Len(run) = Len(g) /\ DOMAIN run = 1 .. Len(g)
    BY <1>3, <2>2
  <2> HIDE DEF run
  <2> QED BY <1>3, <1>5, <2>1, <2>2, <2>3 DEF IsRun, g
<1> QED BY <1>4, <1>5
-----------------------------------------------------------------------------
\* Compiling.
LEMMA CompiledIsCompiled ==
  ASSUME NEW s, IsCompiled(s), NEW gs, gs \subseteq Graphs \ {"given"}, NEW b \in Builds
  PROVE  /\ IsCompiled(Compiled(s, gs, b))
         /\ Compiled(s, gs, b).manifest = s.manifest /\ Compiled(s, gs, b).result = s.result
         /\ Compiled(s, gs, b).sessions = s.sessions
         /\ DOMAIN Compiled(s, gs, b).dumps \subseteq DOMAIN s.dumps \cup gs
         /\ \A g \in gs : Loaded(Compiled(s, gs, b), g) \in Graphs \X Builds
<1> DEFINE t == Compiled(s, gs, b)
           new == gs \ DOMAIN s.cache
<1>1. t = [s EXCEPT !.dumps = With(s.dumps, new, b), !.cache = With(s.cache, new, b)]
  BY DEF Compiled
<1>2. t = [dumps |-> With(s.dumps, new, b), cache |-> With(s.cache, new, b), manifest |-> s.manifest,
           result |-> s.result, sessions |-> s.sessions]
  BY <1>1 DEF IsCompiled
<1> HIDE DEF t
<1>3. DOMAIN t.dumps = DOMAIN s.dumps \cup new
  BY <1>2 DEF With
<1>4. /\ DOMAIN t.cache = DOMAIN s.cache \cup new /\ \A g \in new : t.cache[g] = b
      /\ \A h \in DOMAIN s.cache : t.cache[h] = s.cache[h]
  BY <1>2 DEF With
<1>5. IsCompiled(t)
  BY <1>2, <1>3, <1>4 DEF IsCompiled
<1>6. \A g \in gs : g \in DOMAIN t.cache
  BY <1>4
<1>7. \A g \in gs : Loaded(t, g) \in Graphs \X Builds
  BY <1>5, <1>6 DEF Loaded, IsCompiled
<1> QED BY <1>2, <1>3, <1>5, <1>7 DEF t

LEMMA PhaseDirIsCompiled ==
  ASSUME NEW s, IsCompiled(s), NEW t, NEW run, IsRun(t, run), NEW b \in Builds, NEW plan, NEW k \in Reached(plan, Len(run))
  PROVE  /\ IsCompiled(PhaseDir(s, run, plan, k, b))
         /\ PhaseDir(s, run, plan, k, b).manifest = s.manifest /\ PhaseDir(s, run, plan, k, b).result = s.result
         /\ PhaseDir(s, run, plan, k, b).sessions = s.sessions
         /\ DOMAIN PhaseDir(s, run, plan, k, b).dumps \subseteq DOMAIN s.dumps \cup {run[i] : i \in DOMAIN run}
         /\ \A i \in 1 .. k : Loaded(PhaseDir(s, run, plan, k, b), run[i]) \in Graphs \X Builds
         /\ k \in 0 .. Len(run)
<1> DEFINE gs == {run[i] : i \in 1 .. k}
           built == Compiled(s, gs, b)
           d == PhaseDir(s, run, plan, k, b)
<1>1. /\ run \in Seq(Graphs \ {"given"}) /\ Len(run) \in Nat \ {0} /\ DOMAIN run = 1 .. Len(run)
      /\ \A i \in 1 .. Len(run) : run[i] \in Graphs \ {"given"}
  BY DEF IsRun
<1>2. k \in 0 .. Len(run) /\ (plan = "half" => k + 1 \in 1 .. Len(run))
  <2> DEFINE l == Len(run)
  <2>1. l \in Nat \ {0} /\ k \in Reached(plan, l)
    BY <1>1
  <2> HIDE DEF l
  <2>2. CASE plan = "raise"
    BY <2>1, <2>2 DEF Reached, l
  <2>3. CASE plan = "half"
    <3>1. k \in 0 .. (l - 1)
      BY <2>1, <2>3 DEF Reached
    <3>2. k \in 0 .. l /\ k + 1 \in 1 .. l
      BY <2>1, <3>1
    <3> QED BY <3>2 DEF l
  <2>4. CASE plan \notin {"raise", "half"}
    BY <2>1, <2>4 DEF Reached, l
  <2> QED BY <2>2, <2>3, <2>4
<1>3. gs \subseteq Graphs \ {"given"} /\ gs \subseteq {run[i] : i \in DOMAIN run}
  BY <1>1, <1>2
<1>4. /\ IsCompiled(built) /\ built.manifest = s.manifest /\ built.result = s.result /\ built.sessions = s.sessions
      /\ DOMAIN built.dumps \subseteq DOMAIN s.dumps \cup gs
      /\ \A g \in gs : Loaded(built, g) \in Graphs \X Builds
  <2> HIDE DEF gs
  <2> QED BY <1>3, CompiledIsCompiled
<1>5. d = IF plan = "half" /\ run[k + 1] \notin DOMAIN built.cache
          THEN [built EXCEPT !.dumps = With(built.dumps, {run[k + 1]}, Incomplete)] ELSE built
  BY DEF PhaseDir
<1>6. \A i \in 1 .. k : run[i] \in gs
  OBVIOUS
<1> HIDE DEF built, d, gs
<1>7. CASE plan = "half" /\ run[k + 1] \notin DOMAIN built.cache
  <2>1. d = [dumps |-> With(built.dumps, {run[k + 1]}, Incomplete), cache |-> built.cache, manifest |-> built.manifest,
             result |-> built.result, sessions |-> built.sessions]
    BY <1>4, <1>5, <1>7 DEF IsCompiled
  <2>2. DOMAIN d.dumps = DOMAIN built.dumps \cup {run[k + 1]}
    BY <2>1 DEF With
  <2>3. run[k + 1] \in Graphs \ {"given"} /\ k + 1 \in DOMAIN run
    BY <1>1, <1>2, <1>7
  <2>4. IsCompiled(d)
    BY <1>4, <2>1, <2>2, <2>3 DEF IsCompiled
  <2>5. \A g : Loaded(d, g) = Loaded(built, g)
    BY <2>1 DEF Loaded
  <2> QED BY <1>2, <1>3, <1>4, <1>6, <2>1, <2>2, <2>3, <2>4, <2>5 DEF d
<1>8. CASE ~(plan = "half" /\ run[k + 1] \notin DOMAIN built.cache)
  BY <1>2, <1>3, <1>4, <1>5, <1>6, <1>8 DEF d
<1> QED BY <1>7, <1>8

\* A phase resolves pairs of its target's own graphs, or none.
LEMMA ResolvedAreOwn ==
  ASSUME NEW t \in Targets, NEW run, IsRun(t, run),
         NEW pre, NEW dumps, DOMAIN dumps \subseteq pre \cup {run[i] : i \in DOMAIN run}
  PROVE  PhasePairs(dumps, pre, t) = Refused \/ OwnPairs(t, PhasePairs(dumps, pre, t))
<1> DEFINE new == {a \in PairsOf(dumps) : a[1] \notin pre}
<1>1. \A a \in PairsOf(dumps) : a[1] \in DOMAIN dumps
  BY DEF PairsOf
<1>2. \A a \in new : \E i \in DOMAIN run : a[1] = run[i]
  BY <1>1
<1>3. PhasePairs(dumps, pre, t) = Refused \/ (PhasePairs(dumps, pre, t) = new /\ HasMarked(new) = (t = "nki"))
  BY DEF PhasePairs, PhaseMarkers
<1> HIDE DEF new
<1>4. ASSUME HasMarked(new) = (t = "nki") PROVE OwnPairs(t, new)
  <2>1. CASE \A i \in DOMAIN run : run[i] \in Own(t)
    BY <1>2, <2>1 DEF OwnPairs
  <2>2. CASE t = "nki" /\ \A i \in DOMAIN run : run[i] \notin Marked
    BY <1>2, <1>4, <2>2 DEF HasMarked
  <2> QED BY <2>1, <2>2 DEF IsRun
<1> QED BY <1>3, <1>4

LEMMA ExpectedAreOwn ==
  ASSUME NEW t, NEW stems, stems \subseteq Own(t), NEW pre, NEW dumps
  PROVE  ExpectedPairs(dumps, pre, stems, t) = Refused \/ OwnPairs(t, ExpectedPairs(dumps, pre, stems, t))
BY DEF ExpectedPairs, PhaseMarkers, OwnPairs

\* The executions of a phase, of n graphs.
RunsOf(run, built, n) == [i \in 1 .. n |-> Loaded(built, run[((i - 1) % Len(run)) + 1])]

LEMMA RunsAre ==
  ASSUME NEW run, Len(run) \in Nat \ {0}, NEW built, NEW k \in 0 .. Len(run), NEW n \in Nat,
         n <= k \/ k = Len(run), \A i \in 1 .. k : Loaded(built, run[i]) \in Graphs \X Builds
  PROVE  RunsOf(run, built, n) \in Seq(Graphs \X Builds)
<1>1. ASSUME NEW i \in 1 .. n PROVE ((i - 1) % Len(run)) + 1 \in 1 .. k
  <2> DEFINE l == Len(run)
  <2>1. l \in Nat \ {0} /\ i - 1 \in Nat
    OBVIOUS
  <2> HIDE DEF l
  <2>2. (i - 1) % l \in 0 .. (l - 1)
    BY <2>1
  <2>3. i - 1 < l => (i - 1) % l = i - 1
    BY <2>1
  <2> QED BY <2>1, <2>2, <2>3 DEF l
<1>2. \A i \in 1 .. n : RunsOf(run, built, n)[i] \in Graphs \X Builds
  BY <1>1 DEF RunsOf
<1> QED BY <1>2 DEF RunsOf

LEMMA ProductIsNat == ASSUME NEW a \in Nat, NEW b \in Nat PROVE a * b \in Nat
OBVIOUS

LEMMA WindowsAre == ASSUME NEW n \in Nat, NEW l \in Nat, NEW more \in Nat PROVE WindowsAfter(n, l, more) \in Seq(Nat \X Nat)
<1>1. \A i \in 1 .. Repeat : Warmup + i \in Nat /\ Warmup + i + 1 \in Nat
  BY CallsAssumption
<1>2. \A i \in 1 .. Repeat : l * (Warmup + i) \in Nat /\ l * (Warmup + i + 1) \in Nat
  BY <1>1, ProductIsNat
<1>3. \A i \in 1 .. Repeat : <<n + l * (Warmup + i), n + l * (Warmup + i + 1) + IF i = Repeat THEN more ELSE 0>> \in Nat \X Nat
  BY <1>2
<1> QED BY <1>3, CallsAssumption DEF WindowsAfter

\* What a phase leaves.
LEMMA PhaseLeaves ==
  ASSUME GraphInv, NEW s, IsCompiled(s), NEW w, IsWorker(w), NEW t \in Targets, NEW plan, NEW b \in Builds,
         plan = "fallback" => t = "nki", NEW k \in Reached(plan, Len(graph[t]))
  PROVE  LET ph == Phase(s, w, t, plan, k, b)
         IN  /\ IsCompiled(ph.dir) /\ ph.dir.manifest = s.manifest /\ ph.dir.result = s.result
             /\ ph.dir.sessions = s.sessions
             /\ ph.execs \in Seq(Graphs \X Builds)
             /\ ph.refused \/ OwnEntry(t, ph.entry)
<1> DEFINE pre == DOMAIN s.dumps
           run == RunOf(t, plan)
           built == PhaseDir(s, run, plan, k, b)
           raised == plan \in Raising
           expected == IF t \in DOMAIN w.expected THEN {a[1] : a \in w.expected[t]} ELSE {}
           pairs == IF raised THEN {a \in PairsOf(built.dumps) : a[1] \notin pre}
                    ELSE IF expected # {} THEN ExpectedPairs(built.dumps, pre, expected, t)
                    ELSE PhasePairs(built.dumps, pre, t)
           ok == ~raised /\ plan # "wrong"
           timed == ok /\ pairs # Refused
           varies == timed /\ plan = "vary"
           last == IF varies THEN Compiled(built, {"late"}, b) ELSE built
           times == IF timed THEN 1 + Warmup + Repeat ELSE 1
           n == IF raised THEN k ELSE times * Len(run)
           more == IF varies THEN <<Loaded(last, "late")>> ELSE <<>>
           windows == IF timed THEN WindowsAfter(Len(w.execs), Len(run), IF varies THEN 1 ELSE 0) ELSE <<>>
           ph == Phase(s, w, t, plan, k, b)
<1>1. /\ ph.dir = last /\ ph.execs = w.execs \o RunsOf(run, built, n) \o more
      /\ ph.refused = (pairs = Refused \/ plan = "tired")
      /\ ph.entry = Entry(ok, pairs, windows)
  BY DEF Phase, RunsOf
<1>2. IsRun(t, run) /\ Len(run) = Len(graph[t]) /\ (plan # "fallback" => \A i \in DOMAIN run : run[i] \in Own(t))
  BY RunIs
<1> HIDE DEF run
<1>3. /\ IsCompiled(built) /\ built.manifest = s.manifest /\ built.result = s.result /\ built.sessions = s.sessions
      /\ DOMAIN built.dumps \subseteq pre \cup {run[i] : i \in DOMAIN run}
      /\ \A i \in 1 .. k : Loaded(built, run[i]) \in Graphs \X Builds
      /\ k \in 0 .. Len(run)
  BY <1>2, PhaseDirIsCompiled
<1> HIDE DEF built
<1>4. {"late"} \subseteq Graphs \ {"given"}
  BY DEF Graphs
<1>5. /\ IsCompiled(last) /\ last.manifest = s.manifest /\ last.result = s.result /\ last.sessions = s.sessions
      /\ varies => Loaded(last, "late") \in Graphs \X Builds
  <2> HIDE DEF varies
  <2>1. CASE varies
    <3> DEFINE gs == {"late"}
    <3>1. last = Compiled(built, gs, b) /\ "late" \in gs /\ gs \subseteq Graphs \ {"given"}
      BY <1>4, <2>1
    <3> HIDE DEF last, gs
    <3>2. /\ IsCompiled(last) /\ last.manifest = built.manifest /\ last.result = built.result /\ last.sessions = built.sessions
          /\ \A g \in gs : Loaded(last, g) \in Graphs \X Builds
      BY <1>3, <3>1, CompiledIsCompiled
    <3> QED BY <1>3, <3>1, <3>2
  <2>2. CASE ~varies
    BY <1>3, <2>2
  <2> QED BY <2>1, <2>2
<1> HIDE DEF last
<1>6. RunsOf(run, built, n) \in Seq(Graphs \X Builds)
  <2>1. Len(run) \in Nat \ {0}
    BY <1>2 DEF IsRun
  <2>2. times \in Nat
    BY CallsAssumption
  <2> HIDE DEF times, timed
  <2>3. n \in Nat
    BY <1>3, <2>1, <2>2, ProductIsNat
  <2>4. n <= k \/ k = Len(run)
    <3>1. CASE raised
      BY <1>3, <3>1
    <3>2. CASE ~raised
      BY <1>2, <3>2 DEF Reached, Raising
    <3> QED BY <3>1, <3>2
  <2> HIDE DEF n
  <2> QED BY <1>3, <2>1, <2>3, <2>4, RunsAre
<1> HIDE DEF n
<1>7. ph.execs \in Seq(Graphs \X Builds)
  <2>1. w.execs \in Seq(Graphs \X Builds)
    BY DEF IsWorker
  <2> HIDE DEF varies
  <2>2. more \in Seq(Graphs \X Builds)
    BY <1>5
  <2> HIDE DEF more
  <2>3. w.execs \o RunsOf(run, built, n) \in Seq(Graphs \X Builds)
    BY <1>6, <2>1
  <2> QED BY <1>1, <2>2, <2>3
<1> HIDE DEF more
<1>8. pairs = Refused \/ OwnPairs(t, pairs)
  <2>1. CASE raised
    <3>1. \A a \in PairsOf(built.dumps) : a[1] \in DOMAIN built.dumps
      BY DEF PairsOf
    <3>2. \A i \in DOMAIN run : run[i] \in Own(t)
      BY <1>2, <2>1 DEF Raising
    <3> QED BY <1>3, <2>1, <3>1, <3>2 DEF OwnPairs
  <2>2. CASE ~raised /\ expected # {}
    <3>1. expected \subseteq Own(t)
      BY DEF IsWorker, OwnPairs
    <3> HIDE DEF expected
    <3> QED BY <2>2, <3>1, ExpectedAreOwn
  <2>3. CASE ~raised /\ expected = {}
    BY <1>2, <1>3, <2>3, ResolvedAreOwn
  <2> QED BY <2>1, <2>2, <2>3
<1> HIDE DEF pairs, ok
<1>9. pairs = Refused \/ OwnEntry(t, ph.entry)
  <2> SUFFICES ASSUME pairs # Refused PROVE OwnEntry(t, ph.entry)
    OBVIOUS
  <2>1. ph.entry.pairs = pairs /\ ph.entry.ok = ok /\ ph.entry.windows = windows
    BY <1>1 DEF Entry
  <2>2. Len(w.execs) \in Nat /\ Len(run) \in Nat
    BY <1>2 DEF IsWorker, IsRun
  <2>3. ok => windows \in Seq(Nat \X Nat)
    <3> HIDE DEF varies
    <3>1. (IF varies THEN 1 ELSE 0) \in Nat
      OBVIOUS
    <3> QED BY <2>2, <3>1, WindowsAre
  <2> QED BY <1>8, <2>1, <2>3 DEF OwnEntry
<1> QED BY <1>1, <1>3, <1>5, <1>7, <1>9

\* A worker after a phase.
LEMMA SteppedIsWorker ==
  ASSUME GraphInv, NEW s, IsCompiled(s), NEW w, IsWorker(w), NEW t \in Targets, NEW plan, NEW b \in Builds,
         plan = "fallback" => t = "nki", NEW k \in Reached(plan, Len(graph[t]))
  PROVE  LET v == Stepped(w, t, Phase(s, w, t, plan, k, b))
         IN  /\ IsWorker(v) /\ v.by = w.by /\ v.nki = w.nki
             /\ t = "torch" => v.entries["nki"] = w.entries["nki"]
             /\ t = "torch" /\ ~w.nki => v.pc = "end"
<1> DEFINE ph == Phase(s, w, t, plan, k, b)
           e == IF ph.refused THEN Entry(FALSE, None, <<>>) ELSE ph.entry
           pc == IF t = "torch" THEN (IF w.nki THEN "nki" ELSE "end") ELSE IF ph.refused THEN "failed" ELSE "end"
           v == Stepped(w, t, ph)
<1>1. ph.execs \in Seq(Graphs \X Builds) /\ (ph.refused \/ OwnEntry(t, ph.entry))
  BY PhaseLeaves
<1>2. OwnEntry(t, e)
  <2> HIDE DEF ph
  <2>1. OwnEntry(t, Entry(FALSE, None, <<>>))
    BY DEF OwnEntry, Entry
  <2> QED BY <1>1, <2>1
<1> HIDE DEF ph
<1>3. v = [w EXCEPT !.execs = ph.execs, !.entries = [w.entries EXCEPT ![t] = e], !.pc = pc]
  BY DEF Stepped, IsWorker
<1> HIDE DEF e, pc
<1>4. v = [by |-> w.by, pc |-> pc, expected |-> w.expected, nki |-> w.nki, entries |-> [w.entries EXCEPT ![t] = e],
           execs |-> ph.execs, inspect |-> w.inspect]
  BY <1>3 DEF IsWorker
<1> HIDE DEF v
<1>5. w.entries = [u \in Targets |-> w.entries[u]] /\ \A u \in Targets : w.entries[u] = NoEntry \/ OwnEntry(u, w.entries[u])
  BY DEF IsWorker, Entries
<1>6. v.entries[t] = e /\ \A u \in Targets : u # t => v.entries[u] = w.entries[u]
  BY <1>4, <1>5
<1>7. Entries(v.entries)
  <2>1. v.entries = [u \in Targets |-> v.entries[u]]
    BY <1>4, <1>5
  <2> QED BY <1>2, <1>5, <1>6, <2>1 DEF Entries
<1>8. IsWorker(v)
  BY <1>1, <1>4, <1>7 DEF IsWorker
<1>9. t = "torch" => v.entries["nki"] = w.entries["nki"]
  BY <1>6 DEF Targets
<1>10. t = "torch" /\ ~w.nki => v.pc = "end"
  BY <1>4 DEF pc
<1> QED BY <1>4, <1>8, <1>9, <1>10 DEF v, ph

\* Files come and go below a parent.
LEMMA FilesMove ==
  ASSUME NEW s, IsSpace(s), NEW r, IsCompiled(r), r.manifest = s.manifest, r.result = s.result, r.sessions = s.sessions
  PROVE  IsSpace(r) /\ \A p, x : Standing(p, x, s) => Standing(p, x, r)
<1>1. IsSpace(r)
  BY DEF IsSpace
<1>2. Ambiguous(r) <=> Ambiguous(s)
  BY DEF Ambiguous
<1> QED BY <1>1, <1>2 DEF Standing

LEMMA PrepareInv ==
  ASSUME NkiInv, NEW p \in Parents, NEW given \in Overrides, Prepare(p, given) PROVE NkiInv'
<1> DEFINE reuse == IF given \/ space.manifest = None THEN Refused ELSE ReusablePairs(space.dumps, space.manifest)
           dir == Kept(space, reuse, given)
           w == NewWorker(p, IF reuse = Refused THEN NoFiles ELSE reuse, ~given)
           x == [pc |-> "running", reuse |-> reuse, given |-> given, worker |-> w]
<1>1. /\ parent[p] = Outside /\ holder = None /\ holder' = p
      /\ parent' = [parent EXCEPT ![p] = x]
      /\ UNCHANGED <<orphan, graph, report>>
  BY DEF Prepare, Free
<1>2. space' = [dir EXCEPT !.sessions = {}, !.manifest = IF ~given /\ reuse = Refused THEN None ELSE @,
                           !.result = IF @ = NoResult THEN @ ELSE [@ EXCEPT !.fresh = FALSE]]
  BY DEF Prepare
<1>3. IsCompiled(space) /\ IsManifest(space.manifest) /\ (space.result # NoResult => IsResultFile(space.result))
  BY DEF NkiInv, IsSpace
<1>4. reuse # Refused => \A t \in DOMAIN reuse : OwnPairs(t, reuse[t])
  <2> SUFFICES ASSUME reuse # Refused PROVE \A t \in DOMAIN reuse : OwnPairs(t, reuse[t])
    OBVIOUS
  <2> DEFINE m == space.manifest
             use == {t \in DOMAIN m : m[t] # {}}
  <2>1. m # None /\ reuse = ReusablePairs(space.dumps, m)
    OBVIOUS
  <2> HIDE DEF reuse
  <2>2. /\ \A t \in DOMAIN m : m[t] # None
        /\ \A t \in use : Present(space.dumps, m[t])
        /\ reuse = [t \in use |-> m[t]]
    BY <2>1 DEF ReusablePairs, Restrict
  <2>3. \A t \in use : \A a \in m[t] : a[1] \in Own(t) \cup {"given"} /\ a[1] \in DOMAIN space.dumps
    BY <1>3, <2>1, <2>2 DEF IsManifest, Present, PairsOf
  <2>4. "given" \notin DOMAIN space.dumps
    BY <1>3 DEF IsCompiled
  <2> QED BY <2>2, <2>3, <2>4 DEF OwnPairs
<1> HIDE DEF reuse
<1>5. /\ IsCompiled(dir) /\ dir.manifest = space.manifest /\ dir.result = space.result
  <2>1. CASE reuse # Refused
    BY <1>3, <2>1 DEF Kept
  <2>2. CASE reuse = Refused
    <3>1. dir = [space EXCEPT !.dumps = NoFiles, !.cache = IF given THEN space.cache ELSE NoFiles]
      BY <2>2 DEF Kept
    <3>2. dir = [dumps |-> NoFiles, cache |-> IF given THEN space.cache ELSE NoFiles, manifest |-> space.manifest,
                 result |-> space.result, sessions |-> space.sessions]
      BY <1>3, <3>1 DEF IsCompiled
    <3> HIDE DEF dir
    <3>3. DOMAIN NoFiles = {}
      BY DEF NoFiles
    <3> QED BY <1>3, <3>2, <3>3 DEF IsCompiled
  <2> QED BY <2>1, <2>2
<1> HIDE DEF dir
<1>6. space' = [dumps |-> dir.dumps, cache |-> dir.cache,
                manifest |-> IF ~given /\ reuse = Refused THEN None ELSE dir.manifest,
                result |-> IF dir.result = NoResult THEN dir.result ELSE [dir.result EXCEPT !.fresh = FALSE],
                sessions |-> {}]
  <2>1. dir = [dumps |-> dir.dumps, cache |-> dir.cache, manifest |-> dir.manifest, result |-> dir.result,
               sessions |-> dir.sessions]
    BY <1>5 DEF IsCompiled
  <2> QED BY <1>2, <2>1
<1>7. IsCompiled(space')
  BY <1>5, <1>6 DEF IsCompiled
<1>8. IsManifest(space'.manifest) /\ IsFiniteSet(space'.sessions)
  BY <1>3, <1>5, <1>6, FS_EmptySet DEF IsManifest
<1>9. space'.result # NoResult => IsResultFile(space'.result)
  <2> SUFFICES ASSUME space'.result # NoResult PROVE IsResultFile(space'.result)
    OBVIOUS
  <2>1. space'.result = [space.result EXCEPT !.fresh = FALSE] /\ IsResultFile(space.result)
    BY <1>3, <1>5, <1>6
  <2>2. space'.result.entries = space.result.entries /\ space'.result.ok = space.result.ok
    BY <2>1
  <2> QED BY <2>1, <2>2 DEF IsResultFile
<1>10. IsWorker(w) /\ w.by = p /\ w.nki = ~given /\ w.pc = "torch" /\ w.entries["nki"] = NoEntry
  <2> DEFINE expected == IF reuse = Refused THEN NoFiles ELSE reuse
  <2>1. \A t \in DOMAIN expected : OwnPairs(t, expected[t])
    BY <1>4 DEF NoFiles
  <2> HIDE DEF expected
  <2>2. w = [by |-> p, pc |-> "torch", expected |-> expected, nki |-> ~given, entries |-> [t \in Targets |-> NoEntry],
             execs |-> <<>>, inspect |-> TRUE]
    BY DEF NewWorker, expected
  <2> HIDE DEF w
  <2>3. Entries(w.entries) /\ w.entries["nki"] = NoEntry
    BY <2>2 DEF Entries, Targets
  <2>4. w.execs \in Seq(Graphs \X Builds)
    BY <2>2
  <2> QED BY <2>1, <2>2, <2>3, <2>4 DEF IsWorker
<1> HIDE DEF w
<1>11. Standing(p, x, space')
  BY <1>10, OverridesAssumption DEF Standing
<1> HIDE DEF x
<1>12. OrphanInv' /\ ReportInv'
  BY <1>1 DEF NkiInv, OrphanInv, ReportInv
<1> QED BY <1>1, <1>7, <1>8, <1>9, <1>11, <1>12, ParentStep DEF IsSpace

LEMMA WorkerPhaseInv ==
  ASSUME NkiInv, NEW p \in Parents, NEW plan, NEW k, NEW b \in Builds, WorkerPhase(p, plan, k, b) PROVE NkiInv'
<1> DEFINE w == parent[p].worker
           ph == Phase(space, w, w.pc, plan, k, b)
           v == Stepped(w, w.pc, ph)
           x == [parent[p] EXCEPT !.worker = v]
<1>1. /\ parent[p].pc = "running" /\ w.pc \in Targets /\ (plan = "fallback" => w.pc = "nki")
      /\ k \in Reached(plan, Len(graph[w.pc])) /\ space' = ph.dir /\ UNCHANGED <<holder, orphan, graph, report>>
  BY DEF WorkerPhase
<1>2. parent' = [parent EXCEPT ![p] = x]
  BY DEF WorkerPhase
<1>3. parent[p] # Outside /\ holder = p /\ Standing(p, parent[p], space)
  BY <1>1, RunningIsStanding
<1>4. IsWorker(w) /\ w.by = p /\ (parent[p].given => ~w.nki /\ w.pc # "nki" /\ w.entries["nki"] = NoEntry)
  BY <1>1, <1>3 DEF Standing
<1>5. GraphInv /\ IsSpace(space) /\ IsCompiled(space)
  BY DEF NkiInv, IsSpace
<1>6. /\ IsCompiled(ph.dir) /\ ph.dir.manifest = space.manifest /\ ph.dir.result = space.result
      /\ ph.dir.sessions = space.sessions
  BY <1>1, <1>4, <1>5, PhaseLeaves
<1>7. /\ IsWorker(v) /\ v.by = w.by /\ v.nki = w.nki
      /\ w.pc = "torch" => v.entries["nki"] = w.entries["nki"]
      /\ w.pc = "torch" /\ ~w.nki => v.pc = "end"
  BY <1>1, <1>4, <1>5, SteppedIsWorker
<1> HIDE DEF v, ph
<1>8. x = [pc |-> "running", reuse |-> parent[p].reuse, given |-> parent[p].given, worker |-> v]
  BY <1>1, <1>3 DEF Standing
<1> HIDE DEF x, w
<1>9. x.given => ~v.nki /\ v.pc # "nki" /\ v.entries["nki"] = NoEntry
  BY <1>1, <1>4, <1>7, <1>8 DEF Targets
<1>10. Standing(p, x, space')
  BY <1>4, <1>7, <1>8, <1>9 DEF Standing
<1>11. IsSpace(space')
  BY <1>1, <1>5, <1>6, FilesMove
<1>12. OrphanInv' /\ ReportInv'
  BY <1>1 DEF NkiInv, OrphanInv, ReportInv
<1> QED BY <1>1, <1>2, <1>3, <1>10, <1>11, <1>12, ParentStep

\* A parent moves on.
LEMMA StandingIsRecord ==
  ASSUME NEW p, NEW x, NEW s, Standing(p, x, s), NEW pc, NEW w,
         NEW y, y = [x EXCEPT !.pc = pc, !.worker = w]
  PROVE  y = [pc |-> pc, reuse |-> x.reuse, given |-> x.given, worker |-> w]
<1>1. x = [pc |-> x.pc, reuse |-> x.reuse, given |-> x.given, worker |-> x.worker]
  BY DEF Standing
<1> QED BY <1>1

\* The result a worker leaves.
LEMMA ResultIsResultFile ==
  ASSUME NEW w, IsWorker(w), NEW fresh PROVE IsResultFile(Result(w, fresh)) /\ Result(w, fresh).entries = w.entries
<1> DEFINE ok == w.entries["nki"] = NoEntry \/ w.entries["nki"].ok
<1>1. Result(w, fresh).entries = w.entries /\ Result(w, fresh).ok = ok
  BY DEF Result
<1>2. Entries(w.entries)
  BY DEF IsWorker
<1>3. ~ok => w.entries["nki"] # NoEntry /\ ~w.entries["nki"].ok
  OBVIOUS
<1> QED BY <1>1, <1>2, <1>3 DEF IsResultFile

LEMMA LeaveResult ==
  ASSUME IsSpace(space), NEW w, IsWorker(w), NEW fresh, NEW y,
         space' = [space EXCEPT !.result = Result(w, fresh), !.sessions = @ \cup {y}]
  PROVE  /\ IsSpace(space') /\ space'.result.entries = w.entries
         /\ space'.sessions = space.sessions \cup {y}
<1>1. space' = [dumps |-> space.dumps, cache |-> space.cache, manifest |-> space.manifest, result |-> Result(w, fresh),
                sessions |-> space.sessions \cup {y}]
  BY DEF IsSpace, IsCompiled
<1>2. IsCompiled(space')
  BY <1>1 DEF IsSpace, IsCompiled
<1>3. IsResultFile(Result(w, fresh)) /\ Result(w, fresh).entries = w.entries
  BY ResultIsResultFile
<1>4. IsFiniteSet(space'.sessions)
  BY <1>1, FS_AddElement DEF IsSpace
<1> QED BY <1>1, <1>2, <1>3, <1>4 DEF IsSpace

LEMMA WorkerEndsInv == ASSUME NkiInv, NEW p \in Parents, NEW lost \in BOOLEAN, WorkerEnds(p, lost) PROVE NkiInv'
<1> DEFINE w == parent[p].worker
           rc == IF w.pc = "end" /\ Result(w, TRUE).ok THEN 0 ELSE 1
           y == Session(w, lost)
           x == [parent[p] EXCEPT !.pc = "read", !.worker = [rc |-> rc]]
<1>1. /\ parent[p].pc = "running"
      /\ space' = [space EXCEPT !.result = Result(w, TRUE), !.sessions = @ \cup {y}]
      /\ UNCHANGED <<holder, orphan, graph, report>>
  BY DEF WorkerEnds
<1>2. parent' = [parent EXCEPT ![p] = x]
  BY DEF WorkerEnds
<1>3. parent[p] # Outside /\ holder = p /\ Standing(p, parent[p], space)
  BY <1>1, RunningIsStanding
<1>4. IsWorker(w) /\ w.by = p /\ (parent[p].given => w.entries["nki"] = NoEntry)
  BY <1>1, <1>3 DEF Standing
<1>5. y.by = p
  BY <1>4 DEF Session
<1> HIDE DEF rc, y
<1>6. x = [pc |-> "read", reuse |-> parent[p].reuse, given |-> parent[p].given, worker |-> [rc |-> rc]]
  BY <1>3, StandingIsRecord
<1>7. IsSpace(space') /\ space'.result.entries = w.entries /\ space'.sessions = space.sessions \cup {y}
  BY <1>1, <1>4, LeaveResult DEF NkiInv
<1> HIDE DEF x, w
<1>8. Standing(p, x, space')
  BY <1>4, <1>5, <1>6, <1>7 DEF Standing
<1>9. OrphanInv' /\ ReportInv'
  BY <1>1 DEF NkiInv, OrphanInv, ReportInv
<1> QED BY <1>1, <1>2, <1>3, <1>7, <1>8, <1>9, ParentStep

LEMMA WorkerKilledInv == ASSUME NkiInv, NEW p \in Parents, WorkerKilled(p) PROVE NkiInv'
<1> DEFINE x == [parent[p] EXCEPT !.pc = "read", !.worker = [rc |-> 1]]
<1>1. parent[p].pc = "running" /\ UNCHANGED <<space, holder, orphan, graph, report>>
  BY DEF WorkerKilled
<1>2. parent' = [parent EXCEPT ![p] = x]
  BY DEF WorkerKilled
<1>3. parent[p] # Outside /\ holder = p /\ Standing(p, parent[p], space)
  BY <1>1, RunningIsStanding
<1>4. x = [pc |-> "read", reuse |-> parent[p].reuse, given |-> parent[p].given, worker |-> [rc |-> 1]]
  BY <1>3, StandingIsRecord
<1> HIDE DEF x
<1>5. Standing(p, x, space)
  BY <1>4 DEF Standing
<1>6. IsSpace(space') /\ OrphanInv' /\ ReportInv'
  BY <1>1 DEF NkiInv, OrphanInv, ReportInv
<1> QED BY <1>1, <1>2, <1>3, <1>5, <1>6, ParentStep

\* A case that raises leaves the directory.
LEMMA RaisesInv ==
  ASSUME NkiInv, NEW p \in Parents, parent[p] # Outside, Raises(p), UNCHANGED <<space, orphan, graph>> PROVE NkiInv'
<1>1. parent' = [parent EXCEPT ![p] = Outside] /\ report'.kind = "error"
  BY DEF Raises
<1>2. IsSpace(space') /\ OrphanInv' /\ ReportInv'
  BY <1>1 DEF NkiInv, OrphanInv, ReportInv
<1> QED BY <1>1, <1>2, ParentStep

LEMMA ReadInv == ASSUME NkiInv, NEW p \in Parents, Read(p) PROVE NkiInv'
<1> DEFINE r == space.result
           x == [parent[p] EXCEPT !.pc = "publish", !.worker = r]
<1>1. parent[p].pc = "read"
  BY DEF Read
<1>2. parent[p] # Outside /\ holder = p /\ Standing(p, parent[p], space)
  BY <1>1, RunningIsStanding
<1>3. CASE Raises(p) /\ UNCHANGED <<space, orphan, graph>>
  BY <1>2, <1>3, RaisesInv
<1>4. CASE /\ ~(r = NoResult \/ r.error \/ (parent[p].worker.rc # 0 /\ r.ok))
           /\ parent' = [parent EXCEPT ![p] = x]
           /\ UNCHANGED <<space, holder, orphan, graph, report>>
  <2>1. IsResultFile(r)
    BY <1>4 DEF NkiInv, IsSpace
  <2>2. x = [pc |-> "publish", reuse |-> parent[p].reuse, given |-> parent[p].given, worker |-> r]
    BY <1>2, StandingIsRecord
  <2>3. parent[p].given => "nki" \notin ToTime(r) \/ Ambiguous(space)
    <3> SUFFICES ASSUME parent[p].given PROVE "nki" \notin ToTime(r) \/ Ambiguous(space)
      OBVIOUS
    <3>1. CASE parent[p].worker.rc = 0
      <4>1. r.entries["nki"] = NoEntry \/ Ambiguous(space)
        BY <1>1, <1>2, <3>1 DEF Standing
      <4> QED BY <4>1 DEF ToTime, Recorded
    <3>2. CASE parent[p].worker.rc # 0
      <4>1. ~r.ok
        BY <1>4, <3>2
      <4> QED BY <2>1, <4>1 DEF IsResultFile, ToTime
    <3> QED BY <3>1, <3>2
  <2> HIDE DEF x
  <2>4. Standing(p, x, space')
    BY <1>4, <2>1, <2>2, <2>3 DEF Standing, IsResultFile
  <2>5. IsSpace(space') /\ OrphanInv' /\ ReportInv'
    BY <1>4 DEF NkiInv, OrphanInv, ReportInv
  <2> QED BY <1>2, <1>4, <2>4, <2>5, ParentStep
<1> QED BY <1>3, <1>4 DEF Read
-----------------------------------------------------------------------------
\* A window that is not empty names a pair.
LEMMA WindowNamesOne == ASSUME NEW execs, NEW m \in Nat, NEW n \in Nat, m < n PROVE Range(SubSeq(execs, m + 1, n)) # {}
<1> DEFINE s == SubSeq(execs, m + 1, n)
           A == {execs[i] : i \in (m + 1) .. n}
<1>1. \A i \in (m + 1) .. n : execs[i] \in A
  OBVIOUS
<1> HIDE DEF A
<1>2. s \in Seq(A) /\ Len(s) = IF m + 1 <= n THEN n - (m + 1) + 1 ELSE 0
  BY <1>1, SubSeqProperties
<1> HIDE DEF s
<1>3. 1 \in DOMAIN s
  BY <1>2
<1> QED BY <1>3 DEF Range, s

\* An entry that was recorded is the target's own.
LEMMA EntryIsOwn ==
  ASSUME NEW es, Entries(es), NEW u \in Targets, es[u] # NoEntry
  PROVE  OwnEntry(u, es[u])
<1>1. \A t \in Targets : es[t] = NoEntry \/ OwnEntry(t, es[t])
  BY Zenon DEF Entries
<1> QED BY <1>1, Zenon

\* A target to time was recorded, with the pairs and the windows of its own.
LEMMA TimedIsOwn ==
  ASSUME NEW r, Entries(r.entries), NEW u \in ToTime(r)
  PROVE  u \in Targets /\ OwnPairs(u, r.entries[u].pairs) /\ r.entries[u].windows \in Seq(Nat \X Nat)
<1> DEFINE es == r.entries
<1>1. u \in Targets /\ es[u] # NoEntry /\ es[u].ok /\ es[u].pairs # None
  BY DEF ToTime, Recorded
<1>2. Entries(es)
  OBVIOUS
<1> HIDE DEF es
<1>3. OwnEntry(u, es[u])
  BY <1>1, <1>2, EntryIsOwn, Zenon
<1>4. OwnPairs(u, es[u].pairs) /\ es[u].windows \in Seq(Nat \X Nat)
  BY <1>1, <1>3 DEF OwnEntry
<1> QED BY <1>1, <1>4 DEF es

\* What was executed for a target is of pairs of timed targets, a kernel's of the NKI target's.
LEMMA ExecutedIsOwn ==
  ASSUME NEW r, Entries(r.entries), NEW t \in ToTime(r), NEW execs, Executed(r, execs, t) # Refused
  PROVE  /\ Executed(r, execs, t) # {} /\ \A a \in Executed(r, execs, t) : a[1] \in Runnable
         /\ HasMarked(Executed(r, execs, t)) = (t = "nki")
         /\ \A a \in Executed(r, execs, t) : \E u \in ToTime(r) : a \in r.entries[u].pairs /\ (a[1] \in Marked => u = "nki")
<1> DEFINE pairs == Executed(r, execs, t)
           windows == r.entries[t].windows
<1>1. /\ pairs = Timed(execs, windows) /\ pairs # Refused
      /\ pairs \subseteq UNION {r.entries[u].pairs : u \in ToTime(r)}
      /\ HasMarked(pairs) = (t = "nki")
  BY DEF Executed
<1>2. \A u \in ToTime(r) : u \in Targets /\ OwnPairs(u, r.entries[u].pairs) /\ r.entries[u].windows \in Seq(Nat \X Nat)
  BY TimedIsOwn
<1>3. windows \in Seq(Nat \X Nat)
  BY <1>2
<1> HIDE DEF pairs, windows
<1>4. /\ windows # <<>> /\ pairs = Range(SubSeq(execs, windows[1][1] + 1, windows[1][2]))
      /\ ~\E i \in DOMAIN windows : windows[i][1] >= windows[i][2] \/ windows[i][2] > Len(execs)
  BY <1>1, Zenon DEF Timed
<1>5. pairs # {}
  <2>1. 1 \in DOMAIN windows /\ windows[1] \in Nat \X Nat
    BY <1>3, <1>4
  <2>2. windows[1][1] \in Nat /\ windows[1][2] \in Nat /\ windows[1][1] < windows[1][2]
    BY <1>4, <2>1
  <2> QED BY <1>4, <2>2, WindowNamesOne
<1>6. ASSUME NEW a \in pairs
      PROVE  a[1] \in Runnable /\ \E u \in ToTime(r) : a \in r.entries[u].pairs /\ (a[1] \in Marked => u = "nki")
  <2>1. PICK u \in ToTime(r) : a \in r.entries[u].pairs
    BY <1>1
  <2>2. a[1] \in Own(u)
    BY <1>2, <2>1 DEF OwnPairs
  <2> QED BY <2>1, <2>2 DEF Own
<1> QED BY <1>1, <1>5, <1>6 DEF pairs

\* Two sessions are no trace.
LEMMA AmbiguousIsUntrusted == ASSUME IsSpace(space), NEW r, Ambiguous(space) PROVE Trace(r) = Refused
<1>1. CASE Cardinality(space.sessions) = 1
  BY <1>1, FS_Singleton DEF Ambiguous, IsSpace
<1>2. CASE Cardinality(space.sessions) # 1
  BY <1>2 DEF Trace
<1> QED BY <1>1, <1>2

LEMMA PublishInv == ASSUME NkiInv, NEW p \in Parents, Publish(p) PROVE NkiInv' /\ TrueManifest
<1> DEFINE r == parent[p].worker
           targets == [t \in Recorded(r) |-> r.entries[t].pairs]
           written == IF parent[p].given THEN With(targets, {"nki"}, {<<"given", 1>>}) ELSE targets
<1>1. parent[p].pc = "publish" /\ UNCHANGED <<orphan, graph>>
  BY DEF Publish
<1>2. parent[p] # Outside /\ holder = p /\ Standing(p, parent[p], space)
  BY <1>1, RunningIsStanding
<1>3. CASE Untrusted(p, r)
  <2>1. Raises(p) /\ space' = space
    BY <1>3 DEF Publish
  <2>2. report'.kind = "error"
    BY <2>1 DEF Raises
  <2> QED BY <1>1, <1>2, <2>1, <2>2, RaisesInv DEF TrueManifest
<1>4. CASE ~Untrusted(p, r)
  <2>1. /\ space' = [space EXCEPT !.manifest = written]
        /\ report' = [kind |-> "result", by |-> p, times |-> Times(r), unverified |-> parent[p].given, fresh |-> r.fresh]
        /\ parent' = [parent EXCEPT ![p] = Outside]
    BY <1>4 DEF Publish
  <2>2. Entries(r.entries) /\ (parent[p].given => "nki" \notin ToTime(r) \/ Ambiguous(space))
    BY <1>1, <1>2 DEF Standing
  <2>3. /\ Revalidates(space.dumps, r, parent[p].reuse)
        /\ ToTime(r) # {} => Trace(r) # Refused
        /\ \A t \in ToTime(r) : Times(r)[t] # Refused
    BY <1>4 DEF Untrusted
  <2>4. IsSpace(space)
    BY DEF NkiInv
  <2>5. parent[p].given => "nki" \notin ToTime(r)
    BY <2>2, <2>3, <2>4, AmbiguousIsUntrusted
  <2>6. DOMAIN Times(r) = ToTime(r) /\ \A t \in ToTime(r) : Times(r)[t] = Executed(r, Trace(r).execs, t)
    BY DEF Times
  <2>7. \A t \in ToTime(r) :
          /\ Times(r)[t] # {} /\ \A a \in Times(r)[t] : a[1] \in Runnable
          /\ HasMarked(Times(r)[t]) = (t = "nki")
          /\ \A a \in Times(r)[t] : \E u \in ToTime(r) : a \in r.entries[u].pairs /\ (a[1] \in Marked => u = "nki")
    BY <2>2, <2>3, <2>6, ExecutedIsOwn
  <2>8. \A t \in ToTime(r) : t \in Recorded(r) /\ r.entries[t].pairs \subseteq PairsOf(space.dumps)
    BY <2>3 DEF ToTime, Revalidates, Present
  <2>9. \A t \in ToTime(r) : t \in DOMAIN written /\ written[t] = r.entries[t].pairs
    <3>1. CASE parent[p].given
      <4>1. \A t \in ToTime(r) : t # "nki" /\ t \in Recorded(r)
        BY <2>5, <2>8, <3>1
      <4> HIDE DEF r
      <4>2. \A t \in Recorded(r) \ {"nki"} : t \in DOMAIN written /\ written[t] = r.entries[t].pairs
        BY <3>1 DEF With
      <4> QED BY <4>1, <4>2
    <3>2. CASE ~parent[p].given
      BY <2>8, <3>2
    <3> QED BY <3>1, <3>2
  <2>10. IsManifest(written)
    <3>1. \A t \in Recorded(r) : r.entries[t].pairs # None => OwnPairs(t, r.entries[t].pairs)
      BY <2>2 DEF Recorded, Entries, OwnEntry
    <3> HIDE DEF r
    <3>2. CASE parent[p].given
      <4>1. DOMAIN written = Recorded(r) \cup {"nki"} /\ written["nki"] = {<<"given", 1>>}
            /\ \A t \in Recorded(r) \ {"nki"} : written[t] = r.entries[t].pairs
        BY <3>2 DEF With
      <4> HIDE DEF written
      <4>2. \A t \in DOMAIN written : t = "nki" \/ t \in Recorded(r) \ {"nki"}
        BY <4>1
      <4>3. \A a \in written["nki"] : a[1] = "given"
        BY <4>1
      <4> QED BY <3>1, <4>1, <4>2, <4>3 DEF IsManifest, OwnPairs
    <3>3. CASE ~parent[p].given
      BY <3>1, <3>3 DEF IsManifest, OwnPairs
    <3> QED BY <3>2, <3>3
  <2> HIDE DEF written, r
  <2>11. /\ space' = [dumps |-> space.dumps, cache |-> space.cache, manifest |-> written, result |-> space.result,
                      sessions |-> space.sessions]
    BY <2>1, <2>4 DEF IsSpace, IsCompiled
  <2>12. IsSpace(space')
    BY <2>4, <2>10, <2>11 DEF IsSpace, IsCompiled
  <2>13. ReportInv'
    BY <2>1, <2>6, <2>7 DEF ReportInv
  <2>14. OrphanInv'
    BY <1>1 DEF NkiInv, OrphanInv
  <2>15. TrueManifest
    <3> SUFFICES ASSUME NEW t \in ToTime(r), NEW a \in Times(r)[t]
                 PROVE  /\ \E u \in ToTime(r) : a \in written[u]
                        /\ a[1] \in Marked => a \in written["nki"]
                        /\ a \in PairsOf(space.dumps)
      BY <2>1, <2>6, <2>11 DEF TrueManifest
    <3>1. PICK u \in ToTime(r) : a \in r.entries[u].pairs /\ (a[1] \in Marked => u = "nki")
      BY <2>7
    <3> QED BY <2>8, <2>9, <3>1
  <2> QED BY <1>1, <1>2, <2>1, <2>12, <2>13, <2>14, <2>15, ParentStep
<1> QED BY <1>3, <1>4
-----------------------------------------------------------------------------
\* A worker that goes on alone.
LEMMA ParentDiesInv == ASSUME NkiInv, NEW p \in Parents, ParentDies(p) PROVE NkiInv'
<1>1. /\ parent[p] # Outside /\ parent' = [parent EXCEPT ![p] = Outside] /\ UNCHANGED <<space, graph, report>>
      /\ orphan' = orphan \/ (parent[p].pc = "running" /\ orphan' = [parent[p].worker EXCEPT !.by = None])
  BY DEF ParentDies
<1>2. OrphanInv'
  <2>1. CASE orphan' = orphan
    BY <2>1 DEF NkiInv, OrphanInv
  <2>2. CASE parent[p].pc = "running" /\ orphan' = [parent[p].worker EXCEPT !.by = None]
    <3> DEFINE w == parent[p].worker
    <3>1. IsWorker(w)
      BY <1>1, <2>2 DEF NkiInv, ParentsInv, Standing
    <3>2. orphan' = [w EXCEPT !.by = None]
      BY <2>2
    <3> HIDE DEF w
    <3>3. orphan' = [by |-> None, pc |-> w.pc, expected |-> w.expected, nki |-> w.nki, entries |-> w.entries,
                     execs |-> w.execs, inspect |-> w.inspect]
      BY <3>1, <3>2 DEF IsWorker
    <3>4. IsWorker(orphan') /\ orphan'.by = None
      BY <3>1, <3>3 DEF IsWorker
    <3> QED BY <3>4 DEF OrphanInv
  <2> QED BY <1>1, <2>1, <2>2
<1>3. IsSpace(space') /\ ReportInv'
  BY <1>1 DEF NkiInv, ReportInv
<1> QED BY <1>1, <1>2, <1>3, ParentStep

\* Steps of the surroundings that leave the parents alone.
LEMMA SurroundingStep ==
  ASSUME NkiInv, UNCHANGED <<holder, parent, graph, report>>, IsSpace(space'), OrphanInv',
         \A p \in Parents : parent[p] # Outside /\ Standing(p, parent[p], space) => Standing(p, parent[p], space')
  PROVE  NkiInv'
<1>1. ParentsInv'
  BY DEF NkiInv, ParentsInv
<1>2. GraphInv' /\ ReportInv'
  BY DEF NkiInv, GraphInv, ReportInv
<1> QED BY <1>1, <1>2 DEF NkiInv

LEMMA OrphanPhaseInv == ASSUME NkiInv, NEW b \in Builds, OrphanPhase(b) PROVE NkiInv'
<1> DEFINE ph == Phase(space, orphan, orphan.pc, "ok", Len(graph[orphan.pc]), b)
           v == Stepped(orphan, orphan.pc, ph)
<1>1. /\ orphan # None /\ orphan.pc \in Targets /\ space' = ph.dir /\ orphan' = v
      /\ UNCHANGED <<holder, parent, graph, report>>
  BY DEF OrphanPhase
<1>2. IsWorker(orphan) /\ orphan.by = None /\ GraphInv /\ IsSpace(space) /\ IsCompiled(space)
  BY <1>1 DEF NkiInv, OrphanInv, IsSpace
<1> DEFINE k == Len(graph[orphan.pc])
<1>7. k \in Reached("ok", Len(graph[orphan.pc]))
  BY DEF Reached
<1>3. /\ IsCompiled(ph.dir) /\ ph.dir.manifest = space.manifest /\ ph.dir.result = space.result
      /\ ph.dir.sessions = space.sessions
  BY <1>1, <1>2, <1>7, PhaseLeaves
<1>4. IsWorker(v) /\ v.by = orphan.by
  BY <1>1, <1>2, <1>7, SteppedIsWorker
<1> HIDE DEF v, ph
<1>5. OrphanInv'
  BY <1>1, <1>2, <1>4 DEF OrphanInv
<1>6. IsSpace(space') /\ \A p, x : Standing(p, x, space) => Standing(p, x, space')
  BY <1>1, <1>2, <1>3, FilesMove
<1> QED BY <1>1, <1>5, <1>6, SurroundingStep

LEMMA OrphanEndsInv == ASSUME NkiInv, OrphanEnds PROVE NkiInv'
<1> DEFINE y == Session(orphan, FALSE)
<1>1. /\ orphan # None /\ orphan' = None
      /\ space' = [space EXCEPT !.result = Result(orphan, FALSE), !.sessions = @ \cup {y}]
      /\ UNCHANGED <<holder, parent, graph, report>>
  BY DEF OrphanEnds
<1>2. IsWorker(orphan) /\ y.by = None
  BY <1>1 DEF NkiInv, OrphanInv, Session
<1> HIDE DEF y
<1>3. IsSpace(space') /\ space'.sessions = space.sessions \cup {y}
  BY <1>1, <1>2, LeaveResult DEF NkiInv
<1>4. Ambiguous(space) => Ambiguous(space')
  BY <1>3 DEF Ambiguous
<1>5. ASSUME NEW p \in Parents, Standing(p, parent[p], space) PROVE Standing(p, parent[p], space')
  <2>1. (\E z \in space.sessions : z.by = p) => (\E z \in space'.sessions : z.by = p) /\ Ambiguous(space')
    <3> SUFFICES ASSUME NEW z \in space.sessions, z.by = p
                 PROVE  (\E u \in space'.sessions : u.by = p) /\ Ambiguous(space')
      OBVIOUS
    <3>1. z # y
      BY <1>2, ParentsAssumption
    <3> QED BY <1>3, <3>1 DEF Ambiguous
  <2> QED BY <1>4, <1>5, <2>1 DEF Standing
<1>6. OrphanInv'
  BY <1>1 DEF OrphanInv
<1> QED BY <1>1, <1>3, <1>5, <1>6, SurroundingStep

LEMMA LoseInv == ASSUME NkiInv, NEW where \in {"dumps", "cache"}, NEW g, Lose(where, g) PROVE NkiInv'
<1>1. /\ space' = [space EXCEPT ![where] = Without(@, g)] /\ UNCHANGED <<holder, parent, orphan, graph, report>>
  BY DEF Lose
<1>2. IsSpace(space) /\ IsCompiled(space)
  BY DEF NkiInv, IsSpace
<1>3. /\ IsCompiled(space') /\ space'.manifest = space.manifest /\ space'.result = space.result
      /\ space'.sessions = space.sessions
  <2>1. CASE where = "dumps"
    <3>1. space' = [dumps |-> Without(space.dumps, g), cache |-> space.cache, manifest |-> space.manifest,
                    result |-> space.result, sessions |-> space.sessions]
      BY <1>1, <1>2, <2>1 DEF IsCompiled
    <3>2. DOMAIN Without(space.dumps, g) \subseteq DOMAIN space.dumps
      BY DEF Without, Restrict
    <3> QED BY <1>2, <3>1, <3>2 DEF IsCompiled
  <2>2. CASE where = "cache"
    <3>1. space' = [dumps |-> space.dumps, cache |-> Without(space.cache, g), manifest |-> space.manifest,
                    result |-> space.result, sessions |-> space.sessions]
      BY <1>1, <1>2, <2>2 DEF IsCompiled
    <3>2. /\ DOMAIN Without(space.cache, g) \subseteq DOMAIN space.cache
          /\ \A h \in DOMAIN Without(space.cache, g) : Without(space.cache, g)[h] = space.cache[h]
      BY DEF Without, Restrict
    <3> QED BY <1>2, <3>1, <3>2 DEF IsCompiled
  <2> QED BY <2>1, <2>2
<1>4. IsSpace(space') /\ \A p, x : Standing(p, x, space) => Standing(p, x, space')
  BY <1>2, <1>3, FilesMove
<1>5. OrphanInv'
  BY <1>1 DEF NkiInv, OrphanInv
<1> QED BY <1>1, <1>4, <1>5, SurroundingStep

LEMMA DriftInv == ASSUME NkiInv, NEW t \in Targets, Drift(t) PROVE NkiInv'
<1> DEFINE g == Append(Front(graph[t]), DriftsTo[t])
<1>1. graph' = [graph EXCEPT ![t] = g] /\ UNCHANGED <<space, holder, parent, orphan, report>>
  BY DEF Drift
<1>2. graph[t] \in Seq(Own(t)) /\ graph[t] # <<>>
  BY DEF NkiInv, GraphInv
<1>3. Front(graph[t]) \in Seq(Own(t))
  BY <1>2 DEF Front
<1>4. DriftsTo[t] \in Own(t)
  BY DEF DriftsTo, Own, Runnable, Marked, Targets
<1>5. g \in Seq(Own(t)) /\ g # <<>>
  BY <1>3, <1>4
<1> HIDE DEF g
<1>6. GraphInv'
  BY <1>1, <1>5 DEF NkiInv, GraphInv
<1> QED BY <1>1, <1>6 DEF NkiInv, ParentsInv, OrphanInv, ReportInv

LEMMA NkiNextInv == ASSUME NkiInv, NkiNext PROVE NkiInv' /\ (report' = report \/ report'.kind = "error" \/ TrueManifest)
<1>1. ASSUME NEW p \in Parents, SelectorFails(p) PROVE NkiInv' /\ report'.kind = "error"
  BY <1>1 DEF SelectorFails, NkiInv, ParentsInv, OrphanInv, GraphInv, ReportInv
<1>2. ASSUME NEW p \in Parents, NEW given \in Overrides, Prepare(p, given) PROVE NkiInv' /\ report' = report
  BY <1>2, PrepareInv DEF Prepare
<1>3. ASSUME NEW p \in Parents, NEW plan \in Plans, NEW k \in Lengths, NEW b \in Builds, WorkerPhase(p, plan, k, b)
      PROVE  NkiInv' /\ report' = report
  BY <1>3, WorkerPhaseInv DEF WorkerPhase
<1>4. ASSUME NEW p \in Parents, NEW lost \in BOOLEAN, WorkerEnds(p, lost) PROVE NkiInv' /\ report' = report
  BY <1>4, WorkerEndsInv DEF WorkerEnds
<1>5. ASSUME NEW p \in Parents, WorkerKilled(p) PROVE NkiInv' /\ report' = report
  BY <1>5, WorkerKilledInv DEF WorkerKilled
<1>6. ASSUME NEW p \in Parents, Read(p) PROVE NkiInv' /\ (report' = report \/ report'.kind = "error")
  <2>1. report' = report \/ Raises(p)
    BY <1>6 DEF Read
  <2>2. Raises(p) => report'.kind = "error"
    BY DEF Raises
  <2> QED BY <1>6, <2>1, <2>2, ReadInv
<1>7. ASSUME NEW p \in Parents, Publish(p) PROVE NkiInv' /\ TrueManifest
  BY <1>7, PublishInv
<1>8. ASSUME NEW p \in Parents, ParentDies(p) PROVE NkiInv' /\ report' = report
  BY <1>8, ParentDiesInv DEF ParentDies
<1>9. ASSUME NEW b \in Builds, OrphanPhase(b) PROVE NkiInv' /\ report' = report
  BY <1>9, OrphanPhaseInv DEF OrphanPhase
<1>10. CASE OrphanEnds
  BY <1>10, OrphanEndsInv DEF OrphanEnds
<1>11. ASSUME NEW where \in {"dumps", "cache"}, NEW g \in Graphs, Lose(where, g) PROVE NkiInv' /\ report' = report
  BY <1>11, LoseInv DEF Lose
<1>12. ASSUME NEW t \in Targets, Drift(t) PROVE NkiInv' /\ report' = report
  BY <1>12, DriftInv DEF Drift
<1> QED BY <1>1, <1>2, <1>3, <1>4, <1>5, <1>6, <1>7, <1>8, <1>9, <1>10, <1>11, <1>12 DEF NkiNext

LEMMA NkiInitInv == NkiInit => NkiInv
<1> SUFFICES ASSUME NkiInit PROVE NkiInv
  OBVIOUS
<1>1. IsSpace(space)
  BY FS_EmptySet DEF NkiInit, IsSpace, IsCompiled, IsManifest, NoFiles
<1>2. ParentsInv /\ OrphanInv /\ ReportInv
  BY DEF NkiInit, ParentsInv, OrphanInv, ReportInv
<1>3. GraphInv
  <2>1. graph \in Launches
    BY DEF NkiInit
  <2>2. /\ graph = [t \in Targets |-> graph[t]]
        /\ \A t \in Targets : graph[t] \in Seq({"torch", "torch2", "shared", "nki", "nki2"}) /\ Range(graph[t]) \subseteq Runnable
    BY <2>1, LaunchesAssumption DEF Runnable
  <2>3. graph["torch"] # <<>> /\ (\A i \in DOMAIN graph["torch"] : graph["torch"][i] \notin Marked) /\ graph["nki"] # <<>>
    BY <2>1, LaunchesAssumption
  <2>4. ASSUME NEW t \in Targets PROVE graph[t] \in Seq(Own(t)) /\ graph[t] # <<>>
    <3>1. \A i \in DOMAIN graph[t] : graph[t][i] \in Runnable
      BY <2>2 DEF Range
    <3>2. \A i \in DOMAIN graph[t] : graph[t][i] \in Own(t)
      BY <2>3, <3>1 DEF Own, Targets
    <3> QED BY <2>2, <2>3, <3>2 DEF Targets
  <2> QED BY <2>2, <2>4 DEF GraphInv
<1> QED BY <1>1, <1>2, <1>3 DEF NkiInv

\* Only the holder of the directory's lock is inside, and a reported time is of graphs that
\* run() executes by itself, one with a kernel for the NKI target and none for the baseline
\* (nki_orchestrator.py, nki_artifact.py, nki_timer.py), for any processes, graphs of run(), builds,
\* counts of calls, faults, kills, orphans and drifts.
THEOREM TimedIsAlwaysIdentified == NkiSpec => []TimedIsIdentified
<1>1. NkiInit => NkiInv
  BY NkiInitInv
<1>2. NkiInv /\ [NkiNext]_nkiVars => NkiInv'
  <2>1. NkiInv /\ UNCHANGED nkiVars => NkiInv'
    BY DEF nkiVars, NkiInv, ParentsInv, OrphanInv, GraphInv, ReportInv
  <2> QED BY <2>1, NkiNextInv
<1>3. NkiInv => TimedIsIdentified
  BY NkiInvIdentifies
<1> QED BY <1>1, <1>2, <1>3, PTL DEF NkiSpec

\* Every graph beside a timed result is in the manifest, of a target timed in the same run (of
\* the NKI target if it holds a kernel), and on the disk
\* (nki_orchestrator.py, write of the manifest), even of a run with an override that finds an
\* older or an orphan's result.
THEOREM ManifestIsAlwaysTrue == NkiSpec => ManifestIsTrue
<1>1. NkiInit => NkiInv
  BY NkiInitInv
<1>2. NkiInv /\ [NkiNext]_nkiVars => NkiInv' /\ [TrueManifest]_nkiVars
  <2>1. NkiInv /\ UNCHANGED nkiVars => NkiInv'
    BY DEF nkiVars, NkiInv, ParentsInv, OrphanInv, GraphInv, ReportInv
  <2>2. report' = report \/ report'.kind = "error" => TrueManifest
    BY DEF TrueManifest
  <2> QED BY <2>1, <2>2, NkiNextInv
<1> QED BY <1>1, <1>2, PTL DEF NkiSpec, ManifestIsTrue

-----------------------------------------------------------------------------
(* Scoring: a target was measured *)

\* The value of a mode is the rate of a point that counts.
LEMMA SelectedIsCandidate ==
  ASSUME NEW mode, NEW ps \in Seq(ProbePoints)
  PROVE  Selected(mode, ps) = None \/ \E i \in Candidates(mode, ps) : Selected(mode, ps) = ps[i].rate
<1> DEFINE C == Candidates(mode, ps)
           best == CHOOSE i \in C : \A j \in C : ps[i].rate > ps[j].rate \/ (ps[i].rate = ps[j].rate /\ i <= j)
<1>1. CASE C = {}
  BY <1>1 DEF Selected
<1>2. CASE C # {}
  <2> DEFINE R == {p \in C \X C : ps[p[2]].rate > ps[p[1]].rate \/ (ps[p[2]].rate = ps[p[1]].rate /\ p[2] < p[1])}
  <2>1. C \subseteq DOMAIN ps
    BY DEF Candidates
  <2>2. IsFiniteSet(C) /\ C \subseteq Int
    BY <2>1, IndicesFinite
  <2>3. \A i \in C : ps[i].rate \in Nat
    <3>1. \A i \in DOMAIN ps : ps[i] \in ProbePoints
      OBVIOUS
    <3> QED BY <2>1, <3>1 DEF ProbePoints
  <2> HIDE DEF C
  <2>0. \A c, d \in C : <<c, d>> \in R <=> ps[d].rate > ps[c].rate \/ (ps[d].rate = ps[c].rate /\ d < c)
    OBVIOUS
  <2> HIDE DEF R
  <2>4. \A c, d, e \in C : <<c, d>> \in R /\ <<d, e>> \in R => <<c, e>> \in R
    <3> SUFFICES ASSUME NEW c \in C, NEW d \in C, NEW e \in C, <<c, d>> \in R, <<d, e>> \in R PROVE <<c, e>> \in R
      OBVIOUS
    <3>1. /\ ps[d].rate > ps[c].rate \/ (ps[d].rate = ps[c].rate /\ d < c)
          /\ ps[e].rate > ps[d].rate \/ (ps[e].rate = ps[d].rate /\ e < d)
      BY <2>0
    <3>2. c \in Int /\ d \in Int /\ e \in Int /\ ps[c].rate \in Nat /\ ps[d].rate \in Nat /\ ps[e].rate \in Nat
      BY <2>2, <2>3
    <3>3. ps[e].rate > ps[c].rate \/ (ps[e].rate = ps[c].rate /\ e < c)
      BY <3>1, <3>2
    <3> QED BY <2>0, <3>3
  <2>5. \A c \in C : <<c, c>> \notin R
    <3> SUFFICES ASSUME NEW c \in C, <<c, c>> \in R PROVE FALSE
      OBVIOUS
    <3>1. ps[c].rate > ps[c].rate \/ (ps[c].rate = ps[c].rate /\ c < c)
      BY <2>0
    <3>2. c \in Int /\ ps[c].rate \in Nat
      BY <2>2, <2>3
    <3> QED BY <3>1, <3>2
  <2>6. PICK c \in C : \A d \in C : <<c, d>> \notin R
    BY <1>2, <2>2, <2>4, <2>5, MaximalExists
  <2>7. \A j \in C : ps[c].rate > ps[j].rate \/ (ps[c].rate = ps[j].rate /\ c <= j)
    <3> SUFFICES ASSUME NEW j \in C PROVE ps[c].rate > ps[j].rate \/ (ps[c].rate = ps[j].rate /\ c <= j)
      OBVIOUS
    <3>1. ~(ps[j].rate > ps[c].rate \/ (ps[j].rate = ps[c].rate /\ j < c))
      BY <2>0, <2>6
    <3>2. c \in Int /\ j \in Int /\ ps[c].rate \in Nat /\ ps[j].rate \in Nat
      BY <2>2, <2>3
    <3> QED BY <3>1, <3>2
  <2>8. best \in C
    BY <2>7
  <2> HIDE DEF best
  <2>9. Selected(mode, ps) = None \/ Selected(mode, ps) = ps[best].rate
    BY DEF Selected, C, best
  <2> QED BY <2>8, <2>9 DEF C
<1> QED BY <1>1, <1>2

LEMMA SelectedType ==
  ASSUME NEW mode, NEW ps \in Seq(ProbePoints)
  PROVE  Selected(mode, ps) \in Rates
<1>1. \A i \in Candidates(mode, ps) : ps[i].rate \in Nat
  <2>1. \A i \in DOMAIN ps : ps[i] \in ProbePoints
    OBVIOUS
  <2> QED BY <2>1 DEF Candidates, ProbePoints
<1> QED BY <1>1, SelectedIsCandidate DEF Rates

\* The seal of a profile is the sheet that its directory's calibration made of what the
\* probes returned; edits change the content only.
Seals ==
  \A dir \in Directories : dirs[dir] \in Profiles =>
    \A m \in ModeNames : dirs[dir].seal.values[m] = Selected(m, points[dir][m])

\* What was registered for a device, or pinned by a record of it, was of that device.
OfDevice(entry, d) == entry.sha \in Profiles => entry.sha.content.device = d
Registrations == \A d \in Devices : OfDevice(manifest[d], d)
Pins == \A n \in RecordNames : records[n] # None => OfDevice(records[n], records[n].device)

ScoringInv == ScoringTypeOK /\ Seals /\ Registrations /\ Pins

\* Steps that leave calibrations, registrations and records alone.
LEMMA ScoringKept ==
  ASSUME ScoringInv, UNCHANGED <<dirs, manifest, records, points>>, ScoringTypeOK'
  PROVE  ScoringInv'
BY DEF ScoringInv, Seals, Registrations, Pins, OfDevice

LEMMA ScoringInitInv == ScoringInit => ScoringInv
<1> SUFFICES ASSUME ScoringInit PROVE ScoringInv
  OBVIOUS
<1>1. ScoringTypeOK
  <2>1. declared \in Declarations
    BY DEF ScoringInit, Declarations
  <2>2. manifest \in [Devices -> [profile : Directories \cup {None}, sha : Profiles \cup {None},
                                 status : {"none", "candidate", "frozen"}]]
    BY DEF ScoringInit, Unregistered
  <2>3. points \in [Directories -> [ModeNames -> Seq(ProbePoints)]]
    <3>1. <<>> \in Seq(ProbePoints)
      OBVIOUS
    <3> QED BY <3>1 DEF ScoringInit
  <2>4. records \in [RecordNames -> Bindings \cup {None}]
    BY DEF ScoringInit
  <2>5. trajectories \in [Operators -> [Devices -> [formal : BOOLEAN, binding : Bindings] \cup {None}]]
    BY DEF ScoringInit
  <2> QED BY <2>1, <2>2, <2>3, <2>4, <2>5 DEF ScoringInit, ScoringTypeOK
<1>2. Seals /\ Registrations /\ Pins
  BY FilesAssumption DEF ScoringInit, Unregistered, Seals, Registrations, Pins, OfDevice
<1> QED BY <1>1, <1>2 DEF ScoringInv

LEMMA StartCalibrationInv ==
  ASSUME ScoringInv, NEW d \in Devices, NEW dir \in Directories, NEW l \in ModeLists, NEW quick \in BOOLEAN,
         StartCalibration(d, dir, l, quick)
  PROVE  ScoringInv'
<1>1. /\ dirs' = [dirs EXCEPT ![dir] = Open]
      /\ calibrating' = [dir |-> dir, device |-> d, quick |-> quick, modes |-> l, results |-> <<>>]
      /\ UNCHANGED <<manifest, declared, records, trajectories, edits, points>>
  BY DEF StartCalibration
<1>2. <<>> \in Seq(Seq(ProbePoints))
  OBVIOUS
<1>3. ScoringTypeOK'
  BY <1>1, <1>2 DEF ScoringInv, ScoringTypeOK
<1>4. Seals'
  BY <1>1, FilesAssumption DEF ScoringInv, ScoringTypeOK, Seals
<1> QED BY <1>1, <1>3, <1>4 DEF ScoringInv, Registrations, Pins, OfDevice

LEMMA MeasureModeInv == ASSUME ScoringInv, MeasureMode PROVE ScoringInv'
<1> DEFINE Cals == [dir : Directories, device : Devices, quick : BOOLEAN, modes : ModeLists, results : Seq(Seq(ProbePoints))]
<1>1. calibrating \in Cals
  BY DEF MeasureMode, ScoringInv, ScoringTypeOK
<1>2. /\ calibrating.modes \in Seq(ModeNames) /\ Len(calibrating.results) \in Nat
      /\ Len(calibrating.results) + 1 \in 1 .. Len(calibrating.modes)
  BY <1>1, ModesAssumption DEF MeasureMode
<1>3. calibrating.modes[Len(calibrating.results) + 1] \in ModeNames
  BY <1>2
<1>4. PICK ps \in Probed[calibrating.modes[Len(calibrating.results) + 1]] \cup {<<>>} :
        calibrating' = [calibrating EXCEPT !.results = Append(@, ps)]
  BY DEF MeasureMode
<1> DEFINE mode == calibrating.modes[Len(calibrating.results) + 1]
<1>5. ps \in Seq(ProbePoints)
  <2>1. mode \in ModeNames
    BY <1>3
  <2>2. ps \in Probed[mode] \/ ps = <<>>
    BY <1>4
  <2> HIDE DEF mode
  <2>3. CASE ps \in Probed[mode]
    BY <2>1, <2>3, ProbedAssumption
  <2>4. CASE ps = <<>>
    BY <2>4
  <2> QED BY <2>2, <2>3, <2>4
<1>6. Append(calibrating.results, ps) \in Seq(Seq(ProbePoints))
  BY <1>1, <1>5
<1>7. calibrating' \in Cals
  BY <1>1, <1>4, <1>6
<1>8. UNCHANGED <<dirs, manifest, declared, records, trajectories, edits, points>>
  BY DEF MeasureMode
<1>9. ScoringTypeOK'
  BY <1>7, <1>8 DEF ScoringInv, ScoringTypeOK
<1> QED BY <1>8, <1>9, ScoringKept

LEMMA ResultType ==
  ASSUME ScoringInv, calibrating # None, Len(calibrating.results) = Len(calibrating.modes), NEW m \in ModeNames
  PROVE  ResultOf(m) \in Seq(ProbePoints)
<1> DEFINE of == {i \in DOMAIN calibrating.modes : calibrating.modes[i] = m}
<1>1. calibrating.modes \in Seq(ModeNames) /\ calibrating.results \in Seq(Seq(ProbePoints))
  BY ModesAssumption DEF ScoringInv, ScoringTypeOK
<1>2. CASE of = {}
  BY <1>2 DEF ResultOf
<1>3. CASE of # {}
  <2>1. IsFiniteSet(of) /\ of \subseteq Int
    BY <1>1, IndicesFinite
  <2>2. Max(of) \in of
    BY <1>3, <2>1, MaxIn
  <2>3. Max(of) \in DOMAIN calibrating.results
    BY <1>1, <2>2
  <2>4. calibrating.results[Max(of)] \in Seq(ProbePoints)
    BY <1>1, <2>3
  <2>5. ResultOf(m) = calibrating.results[Max(of)]
    BY <1>3 DEF ResultOf
  <2> QED BY <2>4, <2>5
<1> QED BY <1>2, <1>3

LEMMA FinishCalibrationInv == ASSUME ScoringInv, FinishCalibration PROVE ScoringInv'
<1> DEFINE made == [m \in ModeNames |-> ResultOf(m)]
           values == [m \in ModeNames |-> Selected(m, ResultOf(m))]
           sheet == [device |-> calibrating.device, quick |-> calibrating.quick, values |-> values]
<1>1. calibrating # None /\ calibrating.dir \in Directories /\ calibrating.device \in Devices /\ calibrating.quick \in BOOLEAN
  BY DEF FinishCalibration, ScoringInv, ScoringTypeOK
<1>2. \A m \in ModeNames : ResultOf(m) \in Seq(ProbePoints)
  BY ResultType DEF FinishCalibration
<1>3. made \in [ModeNames -> Seq(ProbePoints)]
  BY <1>2
<1>4. values \in [ModeNames -> Rates] /\ \A m \in ModeNames : values[m] = Selected(m, made[m])
  BY <1>2, SelectedType
<1>5. sheet \in Sheets /\ sheet.values = values
  BY <1>1, <1>4 DEF Sheets
<1>6. /\ dirs' = [dirs EXCEPT ![calibrating.dir] = [content |-> sheet, seal |-> sheet]]
      /\ points' = [points EXCEPT ![calibrating.dir] = made] /\ calibrating' = None
      /\ UNCHANGED <<manifest, declared, records, trajectories, edits>>
  BY DEF FinishCalibration, Sealed
<1> HIDE DEF made, values, sheet
<1>7. [content |-> sheet, seal |-> sheet] \in Profiles
  BY <1>5 DEF Profiles
<1>8. ScoringTypeOK'
  BY <1>1, <1>3, <1>6, <1>7 DEF ScoringInv, ScoringTypeOK
<1>9. Seals'
  <2> SUFFICES ASSUME NEW dir \in Directories, dirs'[dir] \in Profiles, NEW m \in ModeNames
               PROVE  dirs'[dir].seal.values[m] = Selected(m, points'[dir][m])
    BY DEF Seals
  <2>1. CASE dir = calibrating.dir
    BY <1>1, <1>4, <1>5, <1>6, <2>1 DEF ScoringInv, ScoringTypeOK
  <2>2. CASE dir # calibrating.dir
    BY <1>1, <1>6, <2>2 DEF ScoringInv, ScoringTypeOK, Seals
  <2> QED BY <2>1, <2>2
<1> QED BY <1>6, <1>8, <1>9 DEF ScoringInv, Registrations, Pins, OfDevice

LEMMA DieCalibratingInv == ASSUME ScoringInv, DieCalibrating PROVE ScoringInv'
BY DEF DieCalibrating, ScoringInv, ScoringTypeOK, Seals, Registrations, Pins, OfDevice

LEMMA EditProfileInv == ASSUME ScoringInv, NEW dir \in Directories, EditProfile(dir) PROVE ScoringInv'
<1>1. dirs[dir] \in Profiles
  BY DEF EditProfile, IsProfile, ScoringInv, ScoringTypeOK
<1>2. PICK m \in ModeNames :
        dirs' = [dirs EXCEPT ![dir].content.values[m] = IF @ = None THEN 1 ELSE @ + 1]
  BY DEF EditProfile
<1> DEFINE p == dirs[dir]
           values == [p.content.values EXCEPT ![m] = IF p.content.values[m] = None THEN 1 ELSE p.content.values[m] + 1]
           q == [p EXCEPT !.content = [p.content EXCEPT !.values = values]]
<1>3. dirs' = [dirs EXCEPT ![dir] = q]
  BY <1>1, <1>2 DEF ScoringInv, ScoringTypeOK, Profiles, Sheets
<1>4. values \in [ModeNames -> Rates]
  BY <1>1 DEF Profiles, Sheets, Rates
<1> HIDE DEF values
<1>5. q \in Profiles /\ q.seal = p.seal
  BY <1>1, <1>4 DEF Profiles, Sheets
<1> HIDE DEF q, p
<1>6. edits' \in Nat /\ UNCHANGED <<calibrating, manifest, declared, records, trajectories, points>>
  BY DEF EditProfile, Edit, ScoringInv, ScoringTypeOK
<1>7. ScoringTypeOK'
  BY <1>3, <1>5, <1>6 DEF ScoringInv, ScoringTypeOK
<1>8. Seals'
  BY <1>1, <1>3, <1>5, <1>6 DEF ScoringInv, ScoringTypeOK, Seals, p
<1> QED BY <1>6, <1>7, <1>8 DEF ScoringInv, Registrations, Pins, OfDevice

LEMMA RegisterInv ==
  ASSUME ScoringInv, NEW d \in Devices, NEW dir \in Directories, NEW s \in {"candidate", "frozen"}, NEW r \in BOOLEAN,
         Register(d, dir, s, r)
  PROVE  ScoringInv'
<1>1. dirs[dir] \in Profiles /\ dirs[dir].content.device = d
  BY DEF Register, IsProfile, ScoringInv, ScoringTypeOK
<1>2. /\ manifest' = [manifest EXCEPT ![d] = [profile |-> dir, sha |-> dirs[dir], status |-> s]]
      /\ UNCHANGED <<dirs, calibrating, declared, records, trajectories, points>> /\ edits' \in Nat
  BY DEF Register, Edit, ScoringInv, ScoringTypeOK
<1>3. ScoringTypeOK'
  BY <1>1, <1>2 DEF ScoringInv, ScoringTypeOK
<1>4. Registrations'
  BY <1>1, <1>2 DEF ScoringInv, ScoringTypeOK, Registrations, OfDevice
<1> QED BY <1>2, <1>3, <1>4 DEF ScoringInv, Seals, Pins, OfDevice

LEMMA DeclareInv == ASSUME ScoringInv, NEW op \in Operators, Declare(op) PROVE ScoringInv'
<1>1. PICK m \in Declarable, approved \in BOOLEAN : declared' = [declared EXCEPT ![op] = [mode |-> m, approved |-> approved]]
  BY DEF Declare
<1>2. declared' \in Declarations
  BY <1>1 DEF ScoringInv, ScoringTypeOK, Declarations
<1>3. UNCHANGED <<dirs, calibrating, manifest, records, trajectories, points>> /\ edits' \in Nat
  BY DEF Declare, Edit, ScoringInv, ScoringTypeOK
<1>4. ScoringTypeOK'
  BY <1>2, <1>3 DEF ScoringInv, ScoringTypeOK
<1> QED BY <1>3, <1>4, ScoringKept

LEMMA StartCampaignInv ==
  ASSUME ScoringInv, NEW d \in Devices, NEW n \in DOMAIN records, NEW formal \in BOOLEAN, NEW ops \in SUBSET Operators,
         StartCampaign(d, n, formal, ops)
  PROVE  ScoringInv'
<1>1. n \in RecordNames
  BY DEF ScoringInv, ScoringTypeOK
<1>2. Binding(d) \in Bindings /\ OfDevice(Binding(d), Binding(d).device)
  BY DEF Binding, Bindings, OfDevice, ScoringInv, ScoringTypeOK, Registrations
<1>3. /\ records' = [records EXCEPT ![n] = IF records[n] = None THEN Binding(d) ELSE records[n]]
      /\ trajectories' = [op \in Operators |-> [e \in Devices |->
                            IF op \in ops /\ e = d /\ trajectories[op][e] = None
                            THEN [formal |-> formal, binding |-> Binding(d)] ELSE trajectories[op][e]]]
      /\ UNCHANGED <<dirs, calibrating, manifest, declared, edits, points>>
  BY DEF StartCampaign
<1> HIDE DEF Binding
<1>4. trajectories' \in [Operators -> [Devices -> [formal : BOOLEAN, binding : Bindings] \cup {None}]]
  BY <1>2, <1>3 DEF ScoringInv, ScoringTypeOK
<1>5. records' \in [RecordNames -> Bindings \cup {None}]
  BY <1>1, <1>2, <1>3 DEF ScoringInv, ScoringTypeOK
<1>6. ScoringTypeOK'
  BY <1>3, <1>4, <1>5 DEF ScoringInv, ScoringTypeOK
<1>7. Pins'
  <2> SUFFICES ASSUME NEW k \in RecordNames, records'[k] # None PROVE OfDevice(records'[k], records'[k].device)
    BY DEF Pins, OfDevice
  <2>1. records'[k] = records[k] \/ records'[k] = Binding(d)
    BY <1>1, <1>3 DEF ScoringInv, ScoringTypeOK
  <2> QED BY <1>2, <2>1 DEF ScoringInv, Pins
<1> QED BY <1>3, <1>6, <1>7 DEF ScoringInv, Seals, Registrations, OfDevice

LEMMA ScoringNextInv == ASSUME ScoringInv, [ScoringNext]_scoringVars PROVE ScoringInv'
<1>1. CASE UNCHANGED scoringVars
  BY <1>1 DEF scoringVars, ScoringInv, ScoringTypeOK, Seals, Registrations, Pins, OfDevice
<1>2. CASE ScoringNext
  BY <1>2, StartCalibrationInv, MeasureModeInv, FinishCalibrationInv, DieCalibratingInv, EditProfileInv, RegisterInv,
     DeclareInv, StartCampaignInv DEF ScoringNext
<1> QED BY <1>1, <1>2

LEMMA FirstBindingType ==
  ASSUME ScoringInv, FirstBinding # None
  PROVE  FirstBinding \in Bindings /\ OfDevice(FirstBinding, FirstBinding.device)
<1> DEFINE named == {j \in DOMAIN Records : records[Records[j]] # None}
<1>1. named # {} /\ FirstBinding = records[Records[Min(named)]]
  BY DEF FirstBinding
<1>2. IsFiniteSet(named) /\ named \subseteq Int
  BY RecordsAssumption, IndicesFinite
<1>3. Min(named) \in named
  BY <1>1, <1>2, MinIn
<1>4. Records[Min(named)] \in RecordNames /\ records[Records[Min(named)]] # None
  BY <1>3 DEF RecordNames
<1> QED BY <1>1, <1>4 DEF ScoringInv, ScoringTypeOK, Pins

\* A value of a loaded profile was witnessed by the calibration of its directory.
LEMMA LoadedIsWitnessed ==
  ASSUME ScoringInv, NEW b \in Bindings, OfDevice(b, b.device), LoadProfile(b) # None
  PROVE  /\ b.profile \in Directories /\ LoadProfile(b) = dirs[b.profile]
         /\ dirs[b.profile].content.device = b.device /\ ~dirs[b.profile].content.quick
         /\ \A m \in ModeNames : dirs[b.profile].content.values[m] # None =>
              dirs[b.profile].content.values[m] \in Witnessed(b.profile, m)
<1>1. /\ b.profile # None /\ IsProfile(dirs[b.profile]) /\ dirs[b.profile] = b.sha
      /\ dirs[b.profile].seal = dirs[b.profile].content /\ ~dirs[b.profile].content.quick
      /\ LoadProfile(b) = dirs[b.profile]
  BY DEF LoadProfile, ValidProfile
<1>2. b.profile \in Directories
  BY <1>1 DEF Bindings
<1>3. dirs[b.profile] \in Profiles
  BY <1>1, <1>2 DEF IsProfile, ScoringInv, ScoringTypeOK
<1>4. dirs[b.profile].content.device = b.device
  BY <1>1, <1>3 DEF OfDevice
<1>5. ASSUME NEW m \in ModeNames, dirs[b.profile].content.values[m] # None
      PROVE  dirs[b.profile].content.values[m] \in Witnessed(b.profile, m)
  <2> DEFINE ps == points[b.profile][m]
  <2>1. ps \in Seq(ProbePoints)
    BY <1>2 DEF ScoringInv, ScoringTypeOK
  <2>2. dirs[b.profile].content.values[m] = Selected(m, ps)
    BY <1>1, <1>2, <1>3 DEF ScoringInv, Seals
  <2>3. PICK i \in Candidates(m, ps) : Selected(m, ps) = ps[i].rate
    BY <1>5, <2>1, <2>2, SelectedIsCandidate
  <2> QED BY <2>2, <2>3 DEF Witnessed, RatesOf, Candidates, ValidPoint
<1> QED BY <1>1, <1>2, <1>4, <1>5

\* A peak is a value of the profile, of a scoring mode of the unit.
LEMMA PeakIsValue ==
  ASSUME NEW p, NEW mode, NEW unit, Peak(p, mode, unit) # None
  PROVE  Peak(p, mode, unit) = p.content.values[mode] /\ Modes[mode].role = "scoring" /\ Modes[mode].unit = unit
BY DEF Peak

LEMMA ScoringInvIsMeasured == ScoringInv => TargetIsMeasured
<1> SUFFICES ASSUME ScoringInv, NEW op \in Operators, NEW d \in Devices, Scored(op, d) # None
             PROVE  LET b == FirstBinding
                        mode == declared[op].mode
                    IN /\ declared[op].approved
                       /\ dirs[b.profile].content.device = b.device /\ ~dirs[b.profile].content.quick
                       /\ \E bw \in Witnessed(b.profile, Bandwidth) :
                            IF mode = "memory_only" THEN Scored(op, d) = Work[op].Q \div bw
                            ELSE /\ Modes[mode].role = "scoring" /\ Modes[mode].unit = Work[op].unit
                                 /\ \E p \in Witnessed(b.profile, mode) :
                                      Scored(op, d) = Max({Work[op].F \div p, Work[op].Q \div bw})
  BY DEF TargetIsMeasured
<1> DEFINE b == FirstBinding
           p == LoadProfile(b)
           mode == declared[op].mode
           bandwidth == Peak(p, Bandwidth, "byte")
           peak == Peak(p, mode, Work[op].unit)
<1>1. b # None /\ Scored(op, d) = Target(op, p) /\ Target(op, p) # None
  BY DEF Scored
<1>2. /\ p # None /\ declared[op].approved /\ bandwidth # None
      /\ mode # "memory_only" => peak # None
      /\ Target(op, p) = IF mode = "memory_only" THEN Work[op].Q \div bandwidth
                         ELSE Max({Work[op].F \div peak, Work[op].Q \div bandwidth})
  <2> HIDE DEF p
  <2> QED BY <1>1 DEF Target
<1>3. b \in Bindings /\ OfDevice(b, b.device)
  BY <1>1, FirstBindingType
<1>4. /\ b.profile \in Directories /\ p = dirs[b.profile]
      /\ dirs[b.profile].content.device = b.device /\ ~dirs[b.profile].content.quick
      /\ \A m \in ModeNames : dirs[b.profile].content.values[m] # None =>
           dirs[b.profile].content.values[m] \in Witnessed(b.profile, m)
  <2>1. LoadProfile(b) # None
    BY <1>2
  <2> HIDE DEF b
  <2> QED BY <1>3, <2>1, LoadedIsWitnessed
<1> HIDE DEF p, b
<1>5. bandwidth \in Witnessed(b.profile, Bandwidth)
  <2>1. bandwidth = p.content.values[Bandwidth] /\ Bandwidth \in ModeNames
    BY <1>2, PeakIsValue, ModesAssumption
  <2> QED BY <1>2, <1>4, <2>1
<1>6. mode # "memory_only" =>
        peak \in Witnessed(b.profile, mode) /\ Modes[mode].role = "scoring" /\ Modes[mode].unit = Work[op].unit
  <2>1. mode \in ModeNames \cup {"memory_only"}
    BY ModesAssumption DEF ScoringInv, ScoringTypeOK, Declarations
  <2>2. peak # None => peak = p.content.values[mode] /\ Modes[mode].role = "scoring" /\ Modes[mode].unit = Work[op].unit
    BY PeakIsValue
  <2> QED BY <1>2, <1>4, <2>1, <2>2
<1> HIDE DEF bandwidth, peak
<1> QED BY <1>1, <1>2, <1>4, <1>5, <1>6 DEF b, p

\* The calibration directories, registrations, records and declarations hold what
\* schema.py and campaign.py let them hold, for any devices, modes, probes and edits.
THEOREM ScoringIsTyped == ScoringSpec => []ScoringTypeOK
<1>1. ScoringInit => ScoringInv
  BY ScoringInitInv
<1>2. ScoringInv /\ [ScoringNext]_scoringVars => ScoringInv'
  BY ScoringNextInv
<1>3. ScoringInv => ScoringTypeOK
  BY DEF ScoringInv
<1> QED BY <1>1, <1>2, <1>3, PTL DEF ScoringSpec

\* A target that the metrics command computes (empirical.py, devtools.py) stands on rates
\* that the full protocol observed on the device of the binding, in the directory it names,
\* whatever was registered, edited or declared since.
THEOREM TargetIsAlwaysMeasured == ScoringSpec => []TargetIsMeasured
<1>1. ScoringInit => ScoringInv
  BY ScoringInitInv
<1>2. ScoringInv /\ [ScoringNext]_scoringVars => ScoringInv'
  BY ScoringNextInv
<1>3. ScoringInv => TargetIsMeasured
  BY ScoringInvIsMeasured
<1> QED BY <1>1, <1>2, <1>3, PTL DEF ScoringSpec
-----------------------------------------------------------------------------
(* Benchmark: the cells of the CSV are earned, a TileLang run keeps the rest *)

\* The outcomes of a run that verify() accepts and that has a time.
Earned == {"good", "inplace", "fewer", "uncaptured"}

\* A result of the suite: what its backends measured was measured for its case.
IsEntry(e) ==
  /\ e = [case |-> e.case, torch |-> e.torch, ms |-> e.ms, ok |-> e.ok, timing |-> e.timing]
  /\ e.ms = [b \in ToSet(Backends) |-> e.ms[b]]
  /\ \A b \in ToSet(Backends) : e.ms[b] # None =>
       e.ms[b].case = e.case /\ e.ms[b].backend = b /\ e.ms[b].outcome \in Earned
IsResult(e) == IsEntry(e) /\ e.torch.case = e.case

\* The process of a driver, while it has one; its current entry is of its current case.
IsSuite(s) ==
  /\ s = [tool |-> s.tool, active |-> s.active, todo |-> s.todo, case |-> s.case, at |-> s.at, next |-> s.next,
          inputs |-> s.inputs, lost |-> s.lost, entry |-> s.entry, results |-> s.results, ops |-> s.ops,
          succeeded |-> s.succeeded, failed |-> s.failed]
  /\ ToSet(s.active) \subseteq ToSet(Backends)
  /\ s.results \in Seq(ToSet(s.results))
  /\ \A e \in ToSet(s.results) : IsResult(e)
  /\ s.at = "torch" => IsEntry(s.entry) /\ s.entry.case = s.case
  /\ s.at = "backend" => IsResult(s.entry) /\ s.entry.case = s.case

\* A latency of a case that a label and a dtype fit.
OfRow(label, dtype, cell) == Fits(label, cell.case) /\ Dtype(cell.case) = dtype

\* A row of the CSV: its label fits what was measured, its speedups are its own.
IsRow(row) ==
  /\ row = [label |-> row.label, dtype |-> row.dtype, torch |-> row.torch, ms |-> row.ms, speedup |-> row.speedup]
  /\ OfRow(row.label, row.dtype, row.torch)
  /\ \A b \in DOMAIN row.ms : row.ms[b] # None =>
       OfRow(row.label, row.dtype, row.ms[b]) /\ row.ms[b].backend = b /\ row.ms[b].outcome \in Earned
  /\ DOMAIN row.speedup = DOMAIN row.ms
  /\ \A b \in DOMAIN row.ms : row.speedup[b] = SpeedupOver(row.torch, row.ms[b])
IsTable(rows) == rows \in Seq(ToSet(rows)) /\ \A row \in ToSet(rows) : IsRow(row)

BenchInv == (suite # None => IsSuite(suite)) /\ (csv # None => IsTable(csv.rows))

LEMMA BenchInvEarns == BenchInv => CellsAreEarned
<1> SUFFICES ASSUME BenchInv, csv # None, NEW row \in ToSet(csv.rows)
             PROVE  /\ \A cell \in CellsOf(row) : Fits(row.label, cell.case) /\ Dtype(cell.case) = row.dtype
                    /\ \A b \in DOMAIN row.ms : row.ms[b] # None =>
                         row.ms[b].backend = b /\ row.ms[b].outcome \in {"good", "inplace", "fewer", "uncaptured"}
                    /\ \A b \in DOMAIN row.speedup : row.speedup[b] = SpeedupOver(row.torch, row.ms[b])
  BY DEF CellsAreEarned
<1>1. IsRow(row)
  BY DEF BenchInv, IsTable
<1>2. \A cell \in CellsOf(row) : OfRow(row.label, row.dtype, cell)
  BY <1>1 DEF IsRow, CellsOf
<1>3. \A b \in DOMAIN row.ms : row.ms[b] # None => row.ms[b].backend = b /\ row.ms[b].outcome \in Earned
  BY <1>1 DEF IsRow
<1>4. \A b \in DOMAIN row.speedup : row.speedup[b] = SpeedupOver(row.torch, row.ms[b])
  BY <1>1 DEF IsRow
<1> QED BY <1>2, <1>3, <1>4 DEF OfRow, Earned

\* A nonempty set of indices of a sequence has a last one.
LEMMA LastIndex ==
  ASSUME NEW D, NEW s \in Seq(D), NEW S, S \subseteq DOMAIN s, S # {}
  PROVE  \E i \in S : \A j \in S : j <= i
<1>1. IsFiniteSet(S) /\ S \subseteq Int
  BY IndicesFinite
<1> QED BY <1>1, MaxIn

\* The label that a result is written under fits its case.
LEMMA LabelFits == ASSUME NEW results, NEW r PROVE Fits(Label(results, r), r.case)
<1> DEFINE rows == IF csv = None THEN <<>> ELSE csv.rows
           matches == {i \in DOMAIN rows : rows[i].dtype = Dtype(r.case) /\ Fits(rows[i].label, r.case)}
<1>1. CASE Cardinality(matches) = 1
  <2>1. matches # {}
    BY <1>1, FS_EmptySet
  <2>2. (CHOOSE i \in matches : TRUE) \in matches
    BY <2>1
  <2>3. Label(results, r) = rows[CHOOSE i \in matches : TRUE].label
    BY <1>1 DEF Label
  <2> QED BY <2>2, <2>3
<1>2. CASE Cardinality(matches) # 1
  <2>1. Label(results, r) = Fallback(results, r)
    BY <1>2 DEF Label
  <2>2. CASE Varying(results) # {}
    <3>1. Fallback(results, r) = [k \in Varying(results) |-> Params(r.case)[k]]
      BY <2>2 DEF Fallback, Restrict
    <3>2. \A k \in Varying(results) : k # "n"
      BY DEF Varying
    <3> QED BY <2>1, <3>1, <3>2 DEF Fits
  <2>3. CASE Varying(results) = {}
    <3>1. Fallback(results, r) = [n |-> Size(r.case)]
      BY <2>3 DEF Fallback
    <3> QED BY <2>1, <3>1 DEF Fits
  <2> QED BY <2>2, <2>3
<1> QED BY <1>1, <1>2

\* The plain writer's rows.
LEMMA PlainRowsAreRows ==
  ASSUME NEW results, results \in Seq(ToSet(results)), \A e \in ToSet(results) : IsResult(e),
         NEW active, ToSet(active) \subseteq ToSet(Backends)
  PROVE  IsTable(PlainRows(results, active))
<1> DEFINE P == PlainRows(results, active)
<1>1. DOMAIN results = 1 .. Len(results) /\ Len(results) \in Nat
  OBVIOUS
<1>2. DOMAIN P = 1 .. Len(results)
  BY <1>1 DEF PlainRows
<1>3. ASSUME NEW i \in DOMAIN results PROVE IsRow(P[i])
  <2> DEFINE r == results[i]
             label == Label(results, r)
  <2>1. IsResult(r)
    BY DEF ToSet
  <2>2. P[i] = [label |-> label, dtype |-> Dtype(r.case), torch |-> r.torch,
                ms |-> [b \in ToSet(active) |-> r.ms[b]],
                speedup |-> [b \in ToSet(active) |-> SpeedupOver(r.torch, r.ms[b])]]
    BY DEF PlainRows
  <2>3. Fits(label, r.case)
    BY LabelFits
  <2> HIDE DEF r, label, P
  <2>4. OfRow(label, Dtype(r.case), r.torch)
    BY <2>1, <2>3 DEF OfRow, IsResult
  <2>5. \A b \in ToSet(active) : r.ms[b] # None =>
          OfRow(label, Dtype(r.case), r.ms[b]) /\ r.ms[b].backend = b /\ r.ms[b].outcome \in Earned
    BY <2>1, <2>3 DEF OfRow, IsResult, IsEntry
  <2> QED BY <2>2, <2>4, <2>5 DEF IsRow
<1>4. P \in Seq(ToSet(P))
  <2> HIDE DEF P
  <2>1. \A i \in 1 .. Len(results) : P[i] \in ToSet(P)
    BY <1>2 DEF ToSet
  <2>2. P = [i \in 1 .. Len(results) |-> P[i]]
    BY <1>2 DEF PlainRows, P
  <2> QED BY <1>1, <2>1, <2>2
<1>5. \A row \in ToSet(P) : IsRow(row)
  <2> HIDE DEF P
  <2> QED BY <1>1, <1>2, <1>3 DEF ToSet
<1> QED BY <1>4, <1>5 DEF IsTable

\* What is merged into row i is a result of it.
LEMMA RowOfKey ==
  ASSUME NEW rows, rows \in Seq(ToSet(rows)), NEW key, NEW i \in DOMAIN rows, RowAt(rows, key) = i
  PROVE  <<rows[i].label, rows[i].dtype>> = key
<1> DEFINE at == {j \in DOMAIN rows : <<rows[j].label, rows[j].dtype>> = key}
<1>1. at # {}
  <2>1. i # 0
    OBVIOUS
  <2> QED BY <2>1 DEF RowAt
<1>2. \E j \in at : \A k \in at : k <= j
  <2> HIDE DEF at
  <2>1. at \subseteq DOMAIN rows
    BY DEF at
  <2> QED BY <1>1, <2>1, LastIndex
<1>3. i = CHOOSE j \in at : \A k \in at : k <= j
  BY <1>1 DEF RowAt
<1>4. i \in at
  <2> HIDE DEF at
  <2> QED BY <1>2, <1>3
<1> QED BY <1>4

LEMMA MergedByRow ==
  ASSUME NEW results, NEW rows, Merged(results, rows) # None
  PROVE  Merged(results, rows) = [i \in DOMAIN rows |-> MergedRow(results, rows, i)]
BY DEF Merged

\* A merge changes the TileLang column of a row or nothing.
LEMMA MergedRowIsRow ==
  ASSUME NEW results, results \in Seq(ToSet(results)), \A e \in ToSet(results) : IsResult(e),
         "tilelang" \in ToSet(Backends), NEW rows, IsTable(rows), NEW i \in DOMAIN rows
  PROVE  /\ IsRow(MergedRow(results, rows, i))
         /\ MergedRow(results, rows, i).label = rows[i].label
         /\ MergedRow(results, rows, i).dtype = rows[i].dtype
         /\ MergedRow(results, rows, i).torch = rows[i].torch
         /\ DOMAIN MergedRow(results, rows, i).ms \ {"tilelang"} = DOMAIN rows[i].ms \ {"tilelang"}
         /\ \A b \in DOMAIN rows[i].ms \ {"tilelang"} : MergedRow(results, rows, i).ms[b] = rows[i].ms[b]
<1> DEFINE of == {j \in DOMAIN results : RowAt(rows, KeyOf(results, results[j])) = i}
           last == CHOOSE j \in of : \A k \in of : k <= j
           old == rows[i]
           new == MergedRow(results, rows, i)
<1>1. IsRow(old) /\ rows \in Seq(ToSet(rows))
  BY DEF IsTable, ToSet
<1>2. CASE of = {}
  <2>1. new = old
    BY <1>2 DEF MergedRow
  <2> QED BY <1>1, <2>1
<1>3. CASE of # {}
  <2> DEFINE r == results[last]
             ms == r.ms["tilelang"]
  <2>1. last \in of
    <3>1. of \subseteq DOMAIN results
      OBVIOUS
    <3> HIDE DEF of
    <3>2. \E j \in of : \A k \in of : k <= j
      BY <1>3, <3>1, LastIndex
    <3> QED BY <3>2
  <2>2. new = [old EXCEPT !.ms = WithColumn(@, "tilelang", ms),
                          !.speedup = WithColumn(@, "tilelang", SpeedupOver(old.torch, ms))]
    BY <1>3 DEF MergedRow, MergeBaseline
  <2>3. IsResult(r) /\ RowAt(rows, KeyOf(results, r)) = i
    <3>1. last \in DOMAIN results /\ RowAt(rows, KeyOf(results, results[last])) = i
      BY <2>1
    <3> HIDE DEF last
    <3> QED BY <3>1 DEF ToSet
  <2> HIDE DEF r, ms, old, new
  <2>4. old.label = Label(results, r) /\ old.dtype = Dtype(r.case)
    <3>1. <<rows[i].label, rows[i].dtype>> = KeyOf(results, r)
      BY <1>1, <2>3, RowOfKey
    <3> QED BY <3>1 DEF KeyOf, old
  <2>5. ms # None => OfRow(old.label, old.dtype, ms) /\ ms.backend = "tilelang" /\ ms.outcome \in Earned
    BY <2>3, <2>4, LabelFits DEF IsResult, IsEntry, OfRow, ms
  <2>6. new = [label |-> old.label, dtype |-> old.dtype, torch |-> old.torch,
               ms |-> WithColumn(old.ms, "tilelang", ms),
               speedup |-> WithColumn(old.speedup, "tilelang", SpeedupOver(old.torch, ms))]
    BY <1>1, <2>2 DEF IsRow
  <2>7. /\ DOMAIN new.ms = DOMAIN old.ms \cup {"tilelang"} /\ DOMAIN new.speedup = DOMAIN new.ms
        /\ new.ms["tilelang"] = ms /\ new.speedup["tilelang"] = SpeedupOver(old.torch, ms)
        /\ \A b \in DOMAIN old.ms \ {"tilelang"} : new.ms[b] = old.ms[b] /\ new.speedup[b] = old.speedup[b]
    BY <1>1, <2>6 DEF IsRow, WithColumn
  <2>8. new.label = old.label /\ new.dtype = old.dtype /\ new.torch = old.torch
    BY <2>6
  <2>9. new = [label |-> new.label, dtype |-> new.dtype, torch |-> new.torch, ms |-> new.ms, speedup |-> new.speedup]
    BY <2>6
  <2>10. \A b \in DOMAIN new.ms : new.ms[b] # None =>
           OfRow(new.label, new.dtype, new.ms[b]) /\ new.ms[b].backend = b /\ new.ms[b].outcome \in Earned
    <3>1. \A b \in DOMAIN new.ms : b = "tilelang" \/ b \in DOMAIN old.ms \ {"tilelang"}
      BY <2>7
    <3> QED BY <1>1, <2>5, <2>7, <2>8, <3>1 DEF IsRow
  <2>11. \A b \in DOMAIN new.ms : new.speedup[b] = SpeedupOver(new.torch, new.ms[b])
    <3>1. \A b \in DOMAIN new.ms : b = "tilelang" \/ b \in DOMAIN old.ms \ {"tilelang"}
      BY <2>7
    <3> QED BY <1>1, <2>7, <2>8, <3>1 DEF IsRow
  <2>12. IsRow(new)
    BY <1>1, <2>7, <2>8, <2>9, <2>10, <2>11 DEF IsRow
  <2> QED BY <2>7, <2>8, <2>12 DEF old, new
<1> QED BY <1>2, <1>3

LEMMA MergedAreRows ==
  ASSUME NEW results, results \in Seq(ToSet(results)), \A e \in ToSet(results) : IsResult(e),
         "tilelang" \in ToSet(Backends), NEW rows, IsTable(rows), Merged(results, rows) # None
  PROVE  IsTable(Merged(results, rows)) /\ Frozen(Merged(results, rows)) = Frozen(rows)
<1> DEFINE M == Merged(results, rows)
<1>1. M = [i \in DOMAIN rows |-> MergedRow(results, rows, i)]
  BY MergedByRow
<1>2. DOMAIN M = DOMAIN rows /\ DOMAIN rows = 1 .. Len(rows) /\ Len(rows) \in Nat
  BY <1>1 DEF IsTable
<1>3. \A i \in DOMAIN rows : M[i] = MergedRow(results, rows, i)
  BY <1>1
<1> HIDE DEF M
<1>4. \A i \in DOMAIN rows : IsRow(M[i])
  BY <1>3, MergedRowIsRow
<1>5. M \in Seq(ToSet(M))
  <2>1. \A i \in 1 .. Len(rows) : M[i] \in ToSet(M)
    BY <1>2 DEF ToSet
  <2>2. M = [i \in 1 .. Len(rows) |-> M[i]]
    BY <1>1, <1>2
  <2> QED BY <1>2, <2>1, <2>2
<1>6. IsTable(M)
  BY <1>2, <1>4, <1>5 DEF IsTable, ToSet
<1>7. ASSUME NEW i \in DOMAIN rows
      PROVE  /\ M[i].label = rows[i].label /\ M[i].dtype = rows[i].dtype /\ M[i].torch = rows[i].torch
             /\ Restrict(M[i].ms, DOMAIN M[i].ms \ {"tilelang"}) = Restrict(rows[i].ms, DOMAIN rows[i].ms \ {"tilelang"})
  <2>1. /\ M[i].label = rows[i].label /\ M[i].dtype = rows[i].dtype /\ M[i].torch = rows[i].torch
        /\ DOMAIN M[i].ms \ {"tilelang"} = DOMAIN rows[i].ms \ {"tilelang"}
        /\ \A b \in DOMAIN rows[i].ms \ {"tilelang"} : M[i].ms[b] = rows[i].ms[b]
    BY <1>3, MergedRowIsRow
  <2> QED BY <2>1 DEF Restrict
<1>8. Frozen(M) = Frozen(rows)
  BY <1>2, <1>7 DEF Frozen
<1> QED BY <1>6, <1>8 DEF M

\* Steps that leave the CSV alone.
LEMMA SuiteStep ==
  ASSUME BenchInv, csv' = csv, suite' # None => IsSuite(suite')
  PROVE  BenchInv'
BY DEF BenchInv

LEMMA NewSuiteIsSuite ==
  ASSUME NEW tool, NEW active, ToSet(active) \subseteq ToSet(Backends), NEW cases
  PROVE  IsSuite(NewSuite(tool, active, cases))
<1>1. <<>> \in Seq(ToSet(<<>>)) /\ ToSet(<<>>) = {}
  BY EmptyTrace
<1> QED BY <1>1 DEF NewSuite, IsSuite

\* Steps of the suite that keep its results, and have no entry or that of its case.
LEMMA SuiteMoves ==
  ASSUME NEW s, IsSuite(s), NEW t,
         t = [tool |-> s.tool, active |-> s.active, todo |-> t.todo, case |-> t.case, at |-> t.at, next |-> t.next,
              inputs |-> t.inputs, lost |-> t.lost, entry |-> t.entry, results |-> t.results, ops |-> t.ops,
              succeeded |-> t.succeeded, failed |-> t.failed],
         t.results = s.results \/ t.results = <<>>,
         t.at = "torch" => IsEntry(t.entry) /\ t.entry.case = t.case,
         t.at = "backend" => IsResult(t.entry) /\ t.entry.case = t.case
  PROVE  IsSuite(t)
<1>1. t.results \in Seq(ToSet(t.results)) /\ \A e \in ToSet(t.results) : IsResult(e)
  <2>1. s.results \in Seq(ToSet(s.results)) /\ \A e \in ToSet(s.results) : IsResult(e)
    BY DEF IsSuite
  <2>2. <<>> \in Seq(ToSet(<<>>)) /\ ToSet(<<>>) = {}
    BY EmptyTrace
  <2>3. CASE t.results = s.results
    BY ONLY <2>1, <2>3
  <2>4. CASE t.results = <<>>
    BY ONLY <2>2, <2>4
  <2> QED BY <2>3, <2>4
<1>2. t.active = s.active
  OBVIOUS
<1> QED BY <1>1, <1>2 DEF IsSuite

LEMMA NextCaseInv == ASSUME BenchInv, NEW supported \in BOOLEAN, NextCase(supported) PROVE BenchInv'
<1>1. IsSuite(suite) /\ suite.at = "case" /\ csv' = csv
  BY DEF NextCase, BenchInv
<1> DEFINE c == Head(suite.todo)
<1>2. CASE suite' = [suite EXCEPT !.todo = Tail(@), !.case = c, !.inputs = "pristine", !.entry = NewEntry(c), !.at = "torch"]
  <2> HIDE DEF c
  <2>1. IsEntry(NewEntry(c)) /\ NewEntry(c).case = c
    BY DEF NewEntry, IsEntry
  <2>2. /\ suite' = [tool |-> suite.tool, active |-> suite.active, todo |-> suite'.todo, case |-> c, at |-> "torch",
                     next |-> suite.next, inputs |-> "pristine", lost |-> suite.lost, entry |-> NewEntry(c),
                     results |-> suite.results, ops |-> suite.ops, succeeded |-> suite.succeeded, failed |-> suite.failed]
    BY <1>1, <1>2 DEF IsSuite
  <2>3. IsSuite(suite')
    BY <1>1, <2>1, <2>2, SuiteMoves
  <2> QED BY <1>1, <2>3, SuiteStep
<1>3. CASE suite' = [suite EXCEPT !.todo = Tail(@)]
  <2>1. suite' = [tool |-> suite.tool, active |-> suite.active, todo |-> suite'.todo, case |-> suite.case, at |-> "case",
                  next |-> suite.next, inputs |-> suite.inputs, lost |-> suite.lost, entry |-> suite.entry,
                  results |-> suite.results, ops |-> suite.ops, succeeded |-> suite.succeeded, failed |-> suite.failed]
    BY <1>1, <1>3 DEF IsSuite
  <2>2. IsSuite(suite')
    BY <1>1, <2>1, SuiteMoves
  <2> QED BY <1>1, <2>2, SuiteStep
<1> QED BY <1>2, <1>3 DEF NextCase

LEMMA TimeTorchInv == ASSUME BenchInv, NEW outcome, TimeTorch(outcome) PROVE BenchInv'
<1>1. IsSuite(suite) /\ suite.at = "torch" /\ csv' = csv
  BY DEF TimeTorch, BenchInv
<1>2. CASE SuiteFails
  <2>1. CASE suite' = None
    BY <1>1, <2>1, SuiteStep
  <2>2. CASE suite' = [suite EXCEPT !.failed = @ \cup {Head(suite.ops)}, !.ops = Tail(@), !.todo = AllCases,
                                    !.at = "operator", !.results = <<>>]
    <3>1. suite' = [tool |-> suite.tool, active |-> suite.active, todo |-> AllCases, case |-> suite.case,
                    at |-> "operator", next |-> suite.next, inputs |-> suite.inputs, lost |-> suite.lost,
                    entry |-> suite.entry, results |-> <<>>, ops |-> suite'.ops, succeeded |-> suite.succeeded,
                    failed |-> suite'.failed]
      BY <1>1, <2>2 DEF IsSuite
    <3>2. IsSuite(suite')
      BY <1>1, <3>1, SuiteMoves
    <3> QED BY <1>1, <3>2, SuiteStep
  <2> QED BY <1>2, <2>1, <2>2 DEF SuiteFails
<1>3. CASE suite' = [suite EXCEPT !.entry.torch = Measured("torch", outcome), !.at = "backend", !.next = 1]
  <2> DEFINE e == suite.entry
             f == [case |-> e.case, torch |-> Measured("torch", outcome), ms |-> e.ms, ok |-> e.ok, timing |-> e.timing]
  <2>1. IsEntry(e) /\ e.case = suite.case
    BY <1>1 DEF IsSuite
  <2>2. [e EXCEPT !.torch = Measured("torch", outcome)] = f
    BY <2>1 DEF IsEntry
  <2>3. Measured("torch", outcome).case = suite.case
    BY DEF Measured
  <2>4. IsResult(f) /\ f.case = suite.case
    BY <2>1, <2>3 DEF IsResult, IsEntry
  <2>5. suite' = [suite EXCEPT !.entry = f, !.at = "backend", !.next = 1]
    BY <1>3, <2>2
  <2> HIDE DEF f
  <2>6. suite' = [tool |-> suite.tool, active |-> suite.active, todo |-> suite.todo, case |-> suite.case,
                  at |-> "backend", next |-> 1, inputs |-> suite.inputs, lost |-> suite.lost, entry |-> f,
                  results |-> suite.results, ops |-> suite.ops, succeeded |-> suite.succeeded, failed |-> suite.failed]
    BY <1>1, <2>5 DEF IsSuite
  <2>7. IsSuite(suite')
    BY <1>1, <2>4, <2>6, SuiteMoves
  <2> QED BY <1>1, <2>7, SuiteStep
<1> QED BY <1>2, <1>3 DEF TimeTorch

\* Appending an element adds it to the elements, and nothing else.
LEMMA AppendAdds ==
  ASSUME NEW s, s \in Seq(ToSet(s)), NEW x
  PROVE  ToSet(Append(s, x)) = ToSet(s) \cup {x} /\ Append(s, x) \in Seq(ToSet(s) \cup {x})
<1> DEFINE t == Append(s, x)
<1>1. s \in Seq(ToSet(s) \cup {x}) /\ Len(s) \in Nat /\ ToSet(s) = {s[i] : i \in 1 .. Len(s)}
  BY DEF ToSet
<1>2. /\ t \in Seq(ToSet(s) \cup {x}) /\ Len(t) = Len(s) + 1
      /\ \A i \in 1 .. Len(s) : t[i] = s[i]
      /\ t[Len(s) + 1] = x
  BY <1>1
<1>3. ToSet(t) = {t[i] : i \in 1 .. Len(s) + 1}
  BY <1>2 DEF ToSet
<1> HIDE DEF t
<1>4. \A y \in ToSet(s) : y \in ToSet(t)
  <2>1. \A i \in 1 .. Len(s) : i \in 1 .. Len(s) + 1
    BY <1>1
  <2> QED BY <1>1, <1>2, <1>3, <2>1
<1>5. x \in ToSet(t)
  <2>1. Len(s) + 1 \in 1 .. Len(s) + 1
    BY <1>1
  <2> QED BY <1>2, <1>3, <2>1
<1>6. \A y \in ToSet(t) : y \in ToSet(s) \cup {x}
  <2>1. \A i \in 1 .. Len(s) + 1 : i \in 1 .. Len(s) \/ i = Len(s) + 1
    BY <1>1
  <2> QED BY <1>1, <1>2, <1>3, <2>1
<1>7. ToSet(t) = ToSet(s) \cup {x}
  BY <1>4, <1>5, <1>6
<1> QED BY <1>2, <1>7 DEF t

\* A backend's result joins an entry.
Joined(e, b, timed, cell) == [e EXCEPT !.ok[b] = timed, !.ms[b] = cell]

LEMMA BackendEntry ==
  ASSUME NEW e, IsResult(e), NEW b, NEW cell, NEW timed,
         cell # None => cell.case = e.case /\ cell.backend = b /\ cell.outcome \in Earned
  PROVE  IsResult(Joined(e, b, timed, cell)) /\ Joined(e, b, timed, cell).case = e.case
<1> DEFINE f == Joined(e, b, timed, cell)
<1>1. cell # None => cell.case = e.case /\ cell.backend = b /\ cell.outcome \in Earned
  OBVIOUS
<1>2. f = [e EXCEPT !.ok = [e.ok EXCEPT ![b] = timed], !.ms = [e.ms EXCEPT ![b] = cell]]
  BY DEF IsResult, IsEntry, Joined
<1> HIDE DEF f
<1>3. f = [case |-> e.case, torch |-> e.torch, ms |-> [e.ms EXCEPT ![b] = cell], ok |-> [e.ok EXCEPT ![b] = timed],
           timing |-> e.timing]
  BY <1>2 DEF IsResult, IsEntry
<1>4. /\ f.ms = [x \in ToSet(Backends) |-> f.ms[x]]
      /\ \A x \in ToSet(Backends) : f.ms[x] = e.ms[x] \/ (x = b /\ f.ms[x] = cell)
  <2>1. f.ms = [e.ms EXCEPT ![b] = cell]
    BY <1>3
  <2>2. e.ms = [x \in ToSet(Backends) |-> e.ms[x]]
    BY DEF IsResult, IsEntry
  <2> QED BY <2>1, <2>2
<1>5. \A x \in ToSet(Backends) : f.ms[x] # None =>
        f.ms[x].case = e.case /\ f.ms[x].backend = x /\ f.ms[x].outcome \in Earned
  BY <1>1, <1>4 DEF IsResult, IsEntry
<1>6. f.case = e.case /\ f.torch = e.torch /\ e.torch.case = e.case
      /\ f = [case |-> f.case, torch |-> f.torch, ms |-> f.ms, ok |-> f.ok, timing |-> f.timing]
  BY <1>3 DEF IsResult
<1> QED BY <1>4, <1>5, <1>6 DEF IsResult, IsEntry, f

\* Only what verify() accepts and could time has a latency.
LEMMA TimedIsEarned ==
  ASSUME NEW outcome, NEW inputs PROVE IsTimed(outcome, inputs) => outcome \in Earned
BY DEF IsTimed, Verified, Earned

LEMMA RunBackendInv == ASSUME BenchInv, NEW outcome, RunBackend(outcome) PROVE BenchInv'
<1>1. IsSuite(suite) /\ suite.at = "backend" /\ csv' = csv
  BY DEF RunBackend, BenchInv
<1> DEFINE b == Backends[suite.next]
           active == b \in ToSet(suite.active)
           went == IF suite.lost THEN "raises" ELSE outcome
           timed == IsTimed(went, suite.inputs)
           cell == IF timed THEN Measured(b, went) ELSE None
           joined == [suite.entry EXCEPT !.ok[b] = timed, !.ms[b] = cell]
           entry == IF active THEN joined ELSE suite.entry
           inputs == IF active /\ went = "inplace" THEN "changed" ELSE suite.inputs
           lost == suite.lost \/ (active /\ went = "lost")
           after == [suite EXCEPT !.entry = entry, !.next = suite.next + 1, !.inputs = inputs, !.lost = lost]
<1>2. suite' = IF suite.next < Len(Backends) THEN after
               ELSE [after EXCEPT !.results = Append(@, entry), !.entry = None, !.case = None, !.at = "case"]
  BY DEF RunBackend
<1>3. IsResult(entry) /\ entry.case = suite.case
  <2>1. IsResult(suite.entry) /\ suite.entry.case = suite.case
    BY <1>1 DEF IsSuite
  <2>2. timed => went \in Earned
    BY TimedIsEarned
  <2>3. cell # None => cell.case = suite.case /\ cell.backend = b /\ cell.outcome \in Earned
    <3>1. Measured(b, went).case = suite.case /\ Measured(b, went).backend = b /\ Measured(b, went).outcome = went
      BY DEF Measured
    <3> HIDE DEF b, went
    <3> QED BY <2>2, <3>1
  <2>4. IsResult(joined) /\ joined.case = suite.case
    <3>1. joined = Joined(suite.entry, b, timed, cell)
      BY DEF Joined
    <3> HIDE DEF b, timed, cell, joined
    <3> QED BY <2>1, <2>3, <3>1, BackendEntry
  <2> HIDE DEF joined, active
  <2> QED BY <2>1, <2>4
<1> HIDE DEF entry, inputs, lost
<1>4. after = [tool |-> suite.tool, active |-> suite.active, todo |-> suite.todo, case |-> suite.case, at |-> "backend",
               next |-> suite.next + 1, inputs |-> inputs, lost |-> lost, entry |-> entry, results |-> suite.results,
               ops |-> suite.ops, succeeded |-> suite.succeeded, failed |-> suite.failed]
  <2>1. suite = [tool |-> suite.tool, active |-> suite.active, todo |-> suite.todo, case |-> suite.case, at |-> suite.at,
                 next |-> suite.next, inputs |-> suite.inputs, lost |-> suite.lost, entry |-> suite.entry,
                 results |-> suite.results, ops |-> suite.ops, succeeded |-> suite.succeeded, failed |-> suite.failed]
    BY <1>1 DEF IsSuite
  <2>2. suite.at = "backend" /\ after = [suite EXCEPT !.entry = entry, !.next = suite.next + 1, !.inputs = inputs, !.lost = lost]
    BY <1>1
  <2> HIDE DEF after
  <2> QED BY <2>1, <2>2
<1>5. IsSuite(after)
  <2> HIDE DEF after
  <2> QED BY <1>1, <1>3, <1>4, SuiteMoves
<1> HIDE DEF after
<1>6. CASE suite' = after
  BY <1>1, <1>5, <1>6, SuiteStep
<1>7. CASE suite' = [after EXCEPT !.results = Append(@, entry), !.entry = None, !.case = None, !.at = "case"]
  <2> DEFINE finished == Append(suite.results, entry)
  <2>1. suite' = [tool |-> suite.tool, active |-> suite.active, todo |-> suite.todo, case |-> None, at |-> "case",
                  next |-> suite.next + 1, inputs |-> inputs, lost |-> lost, entry |-> None, results |-> finished,
                  ops |-> suite.ops, succeeded |-> suite.succeeded, failed |-> suite.failed]
    BY <1>4, <1>7
  <2>2. suite.results \in Seq(ToSet(suite.results)) /\ \A e \in ToSet(suite.results) : IsResult(e)
    BY <1>1 DEF IsSuite
  <2>3. finished \in Seq(ToSet(finished)) /\ \A e \in ToSet(finished) : IsResult(e)
    <3>1. ToSet(finished) = ToSet(suite.results) \cup {entry} /\ finished \in Seq(ToSet(suite.results) \cup {entry})
      BY <2>2, AppendAdds
    <3> QED BY <1>3, <2>2, <3>1
  <2> HIDE DEF finished
  <2>4. IsSuite(suite')
    BY <1>1, <2>1, <2>3 DEF IsSuite
  <2> QED BY <1>1, <2>4, SuiteStep
<1> QED BY <1>2, <1>6, <1>7

\* What the driver writes at the end is a table, and of a TileLang run, the old one but for
\* its column.
LEMMA NewRowsAreRows ==
  ASSUME BenchInv, suite # None, NewRows # None
  PROVE  IsTable(NewRows) /\ (Merges => Frozen(NewRows) = Frozen(csv.rows))
<1>1. /\ suite.results \in Seq(ToSet(suite.results)) /\ \A e \in ToSet(suite.results) : IsResult(e)
      /\ ToSet(suite.active) \subseteq ToSet(Backends)
  BY DEF BenchInv, IsSuite
<1>2. CASE Merges
  <2>1. NewRows = Merged(suite.results, csv.rows) /\ IsTable(csv.rows) /\ suite.active = <<"tilelang">>
    BY <1>2 DEF NewRows, Merges, BenchInv
  <2>2. "tilelang" \in ToSet(suite.active)
    BY <2>1 DEF ToSet
  <2> QED BY <1>1, <2>1, <2>2, MergedAreRows
<1>3. CASE ~Merges
  <2>1. NewRows = PlainRows(suite.results, suite.active)
    BY <1>3 DEF NewRows
  <2> QED BY <1>1, <1>3, <2>1, PlainRowsAreRows
<1> QED BY <1>2, <1>3

LEMMA WriteCsvInv == ASSUME BenchInv, WriteCsv PROVE BenchInv' /\ StaysFrozen
<1>1. suite # None /\ suite' = None
  BY DEF WriteCsv, Finished
<1>2. CASE csv' = csv
  BY <1>1, <1>2 DEF BenchInv, StaysFrozen
<1>3. CASE NewRows # None /\ csv' = [rows |-> NewRows, torn |-> FALSE]
  <2>1. IsTable(NewRows) /\ (Merges => Frozen(NewRows) = Frozen(csv.rows))
    BY <1>1, <1>3, NewRowsAreRows
  <2>2. csv'.rows = NewRows
    BY <1>3
  <2> QED BY <1>1, <2>1, <2>2 DEF BenchInv, StaysFrozen, Merges
<1> QED BY <1>2, <1>3 DEF WriteCsv

LEMMA KilledWritingInv == ASSUME BenchInv, NEW k \in Nat, KilledWriting(k) PROVE BenchInv' /\ StaysFrozen
<1> DEFINE rows == SubSeq(NewRows, 1, k)
<1>1. suite # None /\ suite' = None /\ csv' = [rows |-> rows, torn |-> TRUE] /\ k \in 0 .. (Len(NewRows) - 1) /\ NewRows # None
  BY DEF KilledWriting, Finished
<1>2. IsTable(NewRows)
  BY <1>1, NewRowsAreRows
<1>3. NewRows \in Seq(ToSet(NewRows)) /\ \A i \in 1 .. k : NewRows[i] \in ToSet(NewRows)
  BY <1>1, <1>2 DEF IsTable
<1>4. rows \in Seq(ToSet(NewRows)) /\ Len(rows) = k /\ \A i \in 1 .. k : rows[i] = NewRows[i]
  <2>1. rows \in Seq(ToSet(NewRows)) /\ Len(rows) = (IF 1 <= k THEN k - 1 + 1 ELSE 0)
        /\ \A i \in 1 .. k - 1 + 1 : rows[i] = NewRows[1 + i - 1]
    BY <1>3, SubSeqProperties
  <2> QED BY <2>1
<1> HIDE DEF rows
<1>5. ToSet(rows) \subseteq ToSet(NewRows) /\ rows \in Seq(ToSet(rows))
  <2>1. DOMAIN rows = 1 .. k /\ rows = [i \in 1 .. k |-> rows[i]]
    BY <1>4
  <2>2. ToSet(rows) = {rows[i] : i \in 1 .. k}
    BY <2>1 DEF ToSet
  <2> QED BY <1>3, <1>4, <2>1, <2>2
<1>6. IsTable(rows)
  BY <1>2, <1>5 DEF IsTable
<1> QED BY <1>1, <1>6 DEF BenchInv, StaysFrozen

LEMMA OperatorInv == ASSUME BenchInv, OperatorDone \/ NextOperator PROVE BenchInv'
<1>1. suite # None /\ IsSuite(suite) /\ csv' = csv
  BY DEF OperatorDone, NextOperator, Finished, BenchInv
<1>2. CASE OperatorDone
  <2>1. suite' = [tool |-> suite.tool, active |-> suite.active, todo |-> AllCases, case |-> suite.case,
                  at |-> "operator", next |-> suite.next, inputs |-> suite.inputs, lost |-> suite.lost,
                  entry |-> suite.entry, results |-> <<>>, ops |-> suite'.ops, succeeded |-> suite'.succeeded,
                  failed |-> suite.failed]
    BY <1>1, <1>2 DEF OperatorDone, IsSuite
  <2>2. IsSuite(suite')
    BY <1>1, <2>1, SuiteMoves
  <2> QED BY <1>1, <2>2, SuiteStep
<1>3. CASE NextOperator
  <2>1. suite' = [tool |-> suite.tool, active |-> suite.active, todo |-> suite.todo, case |-> suite.case,
                  at |-> "case", next |-> suite.next, inputs |-> suite.inputs, lost |-> suite.lost,
                  entry |-> suite.entry, results |-> suite.results, ops |-> suite.ops, succeeded |-> suite.succeeded,
                  failed |-> suite.failed]
    BY <1>1, <1>3 DEF NextOperator, IsSuite
  <2>2. IsSuite(suite')
    BY <1>1, <2>1, SuiteMoves
  <2> QED BY <1>1, <2>2, SuiteStep
<1> QED BY <1>2, <1>3

LEMMA BenchNextInv == ASSUME BenchInv, BenchNext PROVE BenchInv' /\ (csv' = csv \/ StaysFrozen)
<1>1. CASE \E active \in Selections, cases \in Indices : StartBench(active, cases)
  BY <1>1, SelectionsAssumption, NewSuiteIsSuite, SuiteStep DEF StartBench
<1>2. CASE StartAll
  BY <1>2, NewSuiteIsSuite, SuiteStep DEF StartAll
<1>3. CASE \E supported \in BOOLEAN : NextCase(supported)
  BY <1>3, NextCaseInv DEF NextCase
<1>4. CASE \E outcome \in {"good", "uncaptured", "untimed"} : TimeTorch(outcome)
  <2>1. PICK outcome \in {"good", "uncaptured", "untimed"} : TimeTorch(outcome)
    BY <1>4
  <2>2. csv' = csv
    BY <2>1 DEF TimeTorch
  <2> QED BY <2>1, <2>2, TimeTorchInv
<1>5. CASE \E outcome \in Faults \cup {"good"} : RunBackend(outcome)
  <2>1. PICK outcome \in Faults \cup {"good"} : RunBackend(outcome)
    BY <1>5
  <2>2. csv' = csv
    BY <2>1 DEF RunBackend
  <2> QED BY <2>1, <2>2, RunBackendInv
<1>6. CASE WriteCsv
  BY <1>6, WriteCsvInv
<1>7. CASE \E k \in 0..Len(Cases) : KilledWriting(k)
  <2>1. PICK k \in 0..Len(Cases) : KilledWriting(k)
    BY <1>7
  <2>2. k \in Nat
    BY <2>1 DEF KilledWriting
  <2> QED BY <2>1, <2>2, KilledWritingInv
<1>8. CASE OperatorDone \/ NextOperator
  BY <1>8, OperatorInv DEF OperatorDone, NextOperator
<1>9. CASE WriteManifest
  BY <1>9, SuiteStep DEF WriteManifest
<1> QED BY <1>1, <1>2, <1>3, <1>4, <1>5, <1>6, <1>7, <1>8, <1>9 DEF BenchNext

\* Every latency of the summary CSV was measured for a case that its row's label and dtype fit
\* and verified under its own column, and every speedup is of its own row (run_bench.py,
\* verifier.py), for any cases, backends and sequences of runs, merges, faults and kills.
THEOREM CellsAreAlwaysEarned == BenchSpec => []CellsAreEarned
<1>1. BenchInit => BenchInv
  BY DEF BenchInit, BenchInv
<1>2. BenchInv /\ [BenchNext]_benchVars => BenchInv'
  <2>1. BenchInv /\ UNCHANGED benchVars => BenchInv'
    BY DEF benchVars, BenchInv
  <2> QED BY <2>1, BenchNextInv
<1>3. BenchInv => CellsAreEarned
  BY BenchInvEarns
<1> QED BY <1>1, <1>2, <1>3, PTL DEF BenchSpec

\* "The frozen torch/triton/cutile columns are never touched" (_merge_into_csv of run_bench.py):
\* no run of TileLang alone changes a label, another backend's latency, or the set of rows.
THEOREM FrozenAlwaysStays == BenchSpec => FrozenStays
<1>1. BenchInit => BenchInv
  BY DEF BenchInit, BenchInv
<1>2. BenchInv /\ [BenchNext]_benchVars => BenchInv' /\ [StaysFrozen]_benchVars
  <2>1. BenchInv /\ UNCHANGED benchVars => BenchInv'
    BY DEF benchVars, BenchInv
  <2>2. csv' = csv => StaysFrozen
    BY DEF StaysFrozen
  <2> QED BY <2>1, <2>2, BenchNextInv
<1> QED BY <1>1, <1>2, PTL DEF BenchSpec, FrozenStays
-----------------------------------------------------------------------------
(* NeuronBench: the length of a union of intervals *)

\* A list of what has a start and an end: the copies of a trace, the executions of a call.
IsTrace(tr) ==
  tr \in Seq(ToSet(tr)) /\ \A e \in ToSet(tr) : e.start \in Nat /\ e.end \in Nat /\ e.start <= e.end

\* Intervals in order of their starts.
Ordered(ivs) ==
  /\ ivs \in Seq(Nat \X Nat)
  /\ \A i \in DOMAIN ivs : ivs[i][1] <= ivs[i][2]
  /\ \A i, j \in DOMAIN ivs : i < j => ivs[i][1] <= ivs[j][1]

\* The nanoseconds of an interval, and of the first n of several.
Points(iv) == iv[1] .. (iv[2] - 1)
Covered(es) == UNION {e.start .. (e.end - 1) : e \in es}
Hull(ivs, n) == UNION {Points(ivs[i]) : i \in 1 .. n}

\* What the pass knows after n intervals: it counted all they cover but the current interval, which lies behind.
CountedUpTo(ivs, n, acc) ==
  \E lo, hi \in Nat, closed \in SUBSET Nat :
    /\ IsFiniteSet(closed) /\ \A x \in closed : x < lo
    /\ acc.total = Cardinality(closed) /\ acc.cur = <<lo, hi>>
    /\ lo <= hi /\ lo <= ivs[n][1]
    /\ Hull(ivs, n) = closed \cup Points(<<lo, hi>>)

LEMMA CountedBy ==
  ASSUME NEW ivs, NEW n, NEW acc, NEW lo \in Nat, NEW hi \in Nat, NEW closed \in SUBSET Nat,
         IsFiniteSet(closed), \A x \in closed : x < lo, lo <= hi, lo <= ivs[n][1],
         Hull(ivs, n) = closed \cup Points(<<lo, hi>>),
         NEW total, total = Cardinality(closed), acc = [total |-> total, cur |-> <<lo, hi>>]
  PROVE  CountedUpTo(ivs, n, acc)
<1>1. acc.total = Cardinality(closed) /\ acc.cur = <<lo, hi>>
  OBVIOUS
<1> QED BY <1>1 DEF CountedUpTo

LEMMA PointsFinite ==
  ASSUME NEW lo \in Nat, NEW hi \in Nat, lo <= hi
  PROVE  /\ IsFiniteSet(Points(<<lo, hi>>)) /\ Cardinality(Points(<<lo, hi>>)) = hi - lo
         /\ Points(<<lo, hi>>) \subseteq Nat /\ \A x : x \in Points(<<lo, hi>>) <=> x \in Nat /\ lo <= x /\ x < hi
<1>1. lo \in Int /\ hi - 1 \in Int /\ (IF lo > hi - 1 THEN 0 ELSE hi - 1 - lo + 1) = hi - lo
  OBVIOUS
<1>2. IsFiniteSet(lo .. (hi - 1)) /\ Cardinality(lo .. (hi - 1)) = hi - lo
  BY <1>1, FS_Interval
<1>3. Points(<<lo, hi>>) = lo .. (hi - 1)
  BY DEF Points
<1> QED BY <1>2, <1>3

\* Closing the current interval counts its nanoseconds.
LEMMA Closing ==
  ASSUME NEW lo \in Nat, NEW hi \in Nat, lo <= hi,
         NEW closed \in SUBSET Nat, IsFiniteSet(closed), \A x \in closed : x < lo
  PROVE  /\ IsFiniteSet(closed \cup Points(<<lo, hi>>)) /\ closed \cup Points(<<lo, hi>>) \in SUBSET Nat
         /\ Cardinality(closed \cup Points(<<lo, hi>>)) = Cardinality(closed) + (hi - lo)
         /\ \A x \in closed \cup Points(<<lo, hi>>) : x < hi
<1>1. closed \cap Points(<<lo, hi>>) = {}
  BY PointsFinite
<1>2. Cardinality(closed \cap Points(<<lo, hi>>)) = 0
  BY <1>1, FS_EmptySet
<1>3. Cardinality(closed) \in Nat
  BY FS_CardinalityType
<1>4. /\ IsFiniteSet(closed \cup Points(<<lo, hi>>))
      /\ Cardinality(closed \cup Points(<<lo, hi>>)) = Cardinality(closed) + (hi - lo) - 0
  <2>1. IsFiniteSet(Points(<<lo, hi>>)) /\ Cardinality(Points(<<lo, hi>>)) = hi - lo
    BY PointsFinite
  <2>2. \A p : IsFiniteSet(p) => IsFiniteSet(closed \cup p)
                 /\ Cardinality(closed \cup p) = Cardinality(closed) + Cardinality(p) - Cardinality(closed \cap p)
    BY FS_Union
  <2> QED BY <1>2, <2>1, <2>2
<1>5. \A x \in closed \cup Points(<<lo, hi>>) : x \in Nat /\ x < hi
  <2> TAKE x \in closed \cup Points(<<lo, hi>>)
  <2>1. x \in Nat /\ (x < lo \/ (lo <= x /\ x < hi))
    BY PointsFinite
  <2> QED BY <2>1
<1>6. closed \cup Points(<<lo, hi>>) \in SUBSET Nat
  BY <1>5
<1>7. Cardinality(closed) + (hi - lo) - 0 = Cardinality(closed) + (hi - lo)
  BY <1>3
<1> QED BY <1>4, <1>5, <1>6, <1>7

LEMMA HullGrows ==
  ASSUME NEW ivs, NEW n \in Nat
  PROVE  Hull(ivs, n + 1) = Hull(ivs, n) \cup Points(ivs[n + 1])
<1>1. 1 .. n + 1 = (1 .. n) \cup {n + 1}
  OBVIOUS
<1> QED BY <1>1 DEF Hull

\* The first interval becomes the current one.
LEMMA FirstSwept ==
  ASSUME NEW ivs, Ordered(ivs), Len(ivs) > 0
  PROVE  CountedUpTo(ivs, 1, Swept([total |-> 0, cur |-> None], ivs[1]))
<1>1. 1 \in DOMAIN ivs /\ ivs[1] \in Nat \X Nat /\ ivs[1][1] <= ivs[1][2]
  BY DEF Ordered
<1>2. PICK lo \in Nat, hi \in Nat : ivs[1] = <<lo, hi>>
  BY <1>1
<1>3. Swept([total |-> 0, cur |-> None], ivs[1]) = [total |-> 0, cur |-> <<lo, hi>>]
  BY <1>2 DEF Swept, Length
<1>4. Hull(ivs, 1) = Points(<<lo, hi>>)
  <2>1. 1 .. 1 = {1}
    OBVIOUS
  <2> QED BY <1>2, <2>1 DEF Hull
<1>5. IsFiniteSet({}) /\ Cardinality({}) = 0
  BY FS_EmptySet
<1>6. {} \in SUBSET Nat /\ lo <= hi /\ lo <= ivs[1][1] /\ Hull(ivs, 1) = {} \cup Points(<<lo, hi>>)
  BY <1>1, <1>2, <1>4
<1> QED BY <1>3, <1>5, <1>6, CountedBy

\* Every further interval closes the current one or extends it.
LEMMA NextSwept ==
  ASSUME NEW ivs, Ordered(ivs), NEW n \in Nat, n > 0, n < Len(ivs), NEW acc, CountedUpTo(ivs, n, acc),
         acc = [total |-> acc.total, cur |-> acc.cur]
  PROVE  CountedUpTo(ivs, n + 1, Swept(acc, ivs[n + 1]))
<1>1. n \in DOMAIN ivs /\ n + 1 \in DOMAIN ivs /\ n < n + 1
  BY DEF Ordered
<1>2. PICK s \in Nat, e \in Nat : ivs[n + 1] = <<s, e>>
  BY <1>1 DEF Ordered
<1>3. PICK lo \in Nat, hi \in Nat, closed \in SUBSET Nat :
        /\ IsFiniteSet(closed) /\ \A x \in closed : x < lo
        /\ acc.total = Cardinality(closed) /\ acc.cur = <<lo, hi>>
        /\ lo <= hi /\ lo <= ivs[n][1]
        /\ Hull(ivs, n) = closed \cup Points(<<lo, hi>>)
  BY DEF CountedUpTo
<1>4. s <= e /\ lo <= s
  <2>1. ivs[n][1] \in Nat /\ ivs[n][1] <= s /\ s <= e
    BY <1>1, <1>2 DEF Ordered
  <2> QED BY <1>3, <2>1
<1>5. Hull(ivs, n + 1) = (closed \cup Points(<<lo, hi>>)) \cup Points(<<s, e>>)
  BY <1>2, <1>3, HullGrows
<1>6. acc.cur # None
  BY <1>3, NoIntervalAssumption
<1>7. ivs[n + 1][1] = s
  BY <1>2
<1>8. CASE s > hi
  <2>1. Swept(acc, ivs[n + 1]) = [total |-> Cardinality(closed) + (hi - lo), cur |-> <<s, e>>]
    BY <1>2, <1>3, <1>6, <1>8 DEF Swept, Length
  <2> DEFINE behind == closed \cup Points(<<lo, hi>>)
  <2>2. /\ IsFiniteSet(behind) /\ behind \in SUBSET Nat
        /\ Cardinality(behind) = Cardinality(closed) + (hi - lo)
        /\ \A x \in behind : x < hi
    BY <1>3, Closing
  <2>3. \A x \in behind : x < s
    BY <1>8, <2>2
  <2>4. Hull(ivs, n + 1) = behind \cup Points(<<s, e>>)
    BY <1>5
  <2> HIDE DEF behind
  <2>5. Swept(acc, ivs[n + 1]) = [total |-> Cardinality(behind), cur |-> <<s, e>>]
    BY <2>1, <2>2
  <2>6. s <= ivs[n + 1][1]
    BY <1>7
  <2> QED BY <1>4, <2>2, <2>3, <2>4, <2>5, <2>6, CountedBy
<1>9. CASE ~(s > hi)
  <2> DEFINE far == IF e > hi THEN e ELSE hi
  <2>1. Swept(acc, ivs[n + 1]) = [acc EXCEPT !.cur = <<lo, far>>]
    BY <1>2, <1>3, <1>6, <1>9 DEF Swept
  <2>2. Swept(acc, ivs[n + 1]) = [total |-> Cardinality(closed), cur |-> <<lo, far>>]
    <3> HIDE DEF far
    <3> QED BY <1>3, <2>1
  <2>3. far \in Nat /\ lo <= far
    BY <1>3, <1>4
  <2>4. Points(<<lo, hi>>) \cup Points(<<s, e>>) = Points(<<lo, far>>)
    <3>1. \A x \in Nat : (lo <= x /\ x < hi) \/ (s <= x /\ x < e) <=> lo <= x /\ x < far
      BY <1>3, <1>4, <1>9
    <3> HIDE DEF far
    <3> QED BY <1>3, <1>4, <2>3, <3>1, PointsFinite
  <2>5. Hull(ivs, n + 1) = closed \cup Points(<<lo, far>>)
    BY <1>5, <2>4
  <2> HIDE DEF far
  <2> QED BY <1>3, <1>4, <1>7, <2>2, <2>3, <2>5, CountedBy
<1> QED BY <1>8, <1>9

\* The pass is well defined.
Passes(ivs, acc) ==
  acc = [n \in 0 .. Len(ivs) |-> IF n = 0 THEN [total |-> 0, cur |-> None] ELSE Swept(acc[n - 1], ivs[n])]

LEMMA PassExists == ASSUME NEW ivs, Ordered(ivs) PROVE \E acc : Passes(ivs, acc)
<1> DEFINE A == [total : Int, cur : {None} \cup (Nat \X Nat)]
           N == Len(ivs)
           base == [total |-> 0, cur |-> None]
           next == [q \in A \X (1 .. N) |-> Swept(q[1], ivs[q[2]])]
<1>1. N \in Nat /\ base \in A
  BY DEF Ordered
<1>2. \A a \in A, iv \in Nat \X Nat : Swept(a, iv) \in A
  BY DEF Swept, Length
<1>3. \A i \in 1 .. N : ivs[i] \in Nat \X Nat
  BY DEF Ordered
<1>4. next \in [A \X (1 .. N) -> A]
  <2> HIDE DEF A, N
  <2> QED BY <1>2, <1>3
<1>5. PICK f \in [0 .. N -> A] : Iterated(f, N, base, next)
  <2> HIDE DEF A, N, base, next
  <2> QED BY <1>1, <1>4, Iterates
<1>6. \A n \in 1 .. N : f[n] = Swept(f[n - 1], ivs[n])
  <2> TAKE n \in 1 .. N
  <2>1. n - 1 \in 0 .. N
    BY <1>1
  <2>2. <<f[n - 1], n>> \in A \X (1 .. N)
    <3> HIDE DEF A, N
    <3> QED BY <2>1
  <2> QED
    <3> HIDE DEF A, N
    <3> QED BY <1>5, <2>2 DEF Iterated
<1>7. \A n \in 0 .. N : f[n] = IF n = 0 THEN base ELSE Swept(f[n - 1], ivs[n])
  <2>1. \A n \in 0 .. N : n = 0 \/ n \in 1 .. N
    BY <1>1
  <2> HIDE DEF A, N, base, next
  <2> QED BY <1>5, <1>6, <2>1 DEF Iterated
<1>8. f = [n \in 0 .. N |-> IF n = 0 THEN base ELSE Swept(f[n - 1], ivs[n])]
  <2> HIDE DEF A, N, base, next
  <2> QED BY <1>7
<1> QED BY <1>8 DEF Passes

LEMMA PassIs == ASSUME NEW ivs, Ordered(ivs) PROVE \E acc : Passes(ivs, acc) /\ Pass(ivs) = acc[Len(ivs)]
<1> DEFINE acc == CHOOSE acc : Passes(ivs, acc)
<1>1. Passes(ivs, acc)
  BY PassExists
<1>2. Pass(ivs) = acc[Len(ivs)]
  BY DEF Pass, Passes
<1> QED BY <1>1, <1>2

\* The pass over intervals in order computes how many nanoseconds they cover.
LEMMA PassCounts ==
  ASSUME NEW ivs, Ordered(ivs)
  PROVE  /\ IsFiniteSet(Hull(ivs, Len(ivs)))
         /\ Pass(ivs).total + Length(Pass(ivs).cur) = Cardinality(Hull(ivs, Len(ivs)))
<1>1. PICK acc : Passes(ivs, acc) /\ Pass(ivs) = acc[Len(ivs)]
  BY PassIs
<1>2. Len(ivs) \in Nat
  BY DEF Ordered
<1>3. acc[0] = [total |-> 0, cur |-> None] /\ \A n \in 1 .. Len(ivs) : acc[n] = Swept(acc[n - 1], ivs[n])
  <2>1. 0 \in 0 .. Len(ivs) /\ \A n \in 1 .. Len(ivs) : n \in 0 .. Len(ivs) /\ n # 0
    BY <1>2
  <2> QED BY <1>1, <2>1 DEF Passes
<1> DEFINE IsAcc(a) == a = [total |-> a.total, cur |-> a.cur]
           P == {n \in 0 .. Len(ivs) : IsAcc(acc[n]) /\ (n = 0 \/ CountedUpTo(ivs, n, acc[n]))}
<1>4. \A a, iv : IsAcc(a) => IsAcc(Swept(a, iv))
  BY DEF Swept
<1>5. 0 \in P
  BY <1>2, <1>3
<1> HIDE DEF IsAcc
<1>6. \A n \in 0 .. Len(ivs) : n < Len(ivs) /\ n \in P => n + 1 \in P
  <2> SUFFICES ASSUME NEW n \in 0 .. Len(ivs), n < Len(ivs), n \in P PROVE n + 1 \in P
    OBVIOUS
  <2>1. n + 1 \in 1 .. Len(ivs) /\ n + 1 \in 0 .. Len(ivs) /\ (n + 1) - 1 = n
    BY <1>2
  <2>2. acc[n + 1] = Swept(acc[n], ivs[n + 1])
    BY <1>3, <2>1
  <2>3. IsAcc(acc[n + 1])
    BY <1>4, <2>2
  <2>4. CASE n = 0
    <3>1. Len(ivs) > 0 /\ n + 1 = 1
      BY <1>2, <2>1, <2>4
    <3>2. CountedUpTo(ivs, 1, acc[1])
      BY <1>3, <2>2, <2>4, <3>1, FirstSwept
    <3> QED BY <2>1, <2>3, <3>1, <3>2
  <2>5. CASE n # 0
    <3>1. CountedUpTo(ivs, n, acc[n]) /\ n > 0 /\ n \in Nat
      BY <2>5
    <3>2. CountedUpTo(ivs, n + 1, acc[n + 1])
      BY <2>2, <3>1, NextSwept DEF IsAcc
    <3> QED BY <2>1, <2>3, <3>2
  <2> QED BY <2>4, <2>5
<1>7. 0 .. Len(ivs) \subseteq P
  <2> HIDE DEF P
  <2> QED BY <1>2, <1>5, <1>6, SetInduction
<1>8. CASE Len(ivs) = 0
  <2>1. Hull(ivs, Len(ivs)) = {}
    BY <1>8 DEF Hull
  <2> QED BY <1>1, <1>3, <1>8, <2>1, FS_EmptySet DEF Length
<1>9. CASE Len(ivs) # 0
  <2>1. CountedUpTo(ivs, Len(ivs), Pass(ivs))
    BY <1>1, <1>2, <1>7, <1>9
  <2>2. PICK lo \in Nat, hi \in Nat, closed \in SUBSET Nat :
        /\ IsFiniteSet(closed) /\ \A x \in closed : x < lo
        /\ Pass(ivs).total = Cardinality(closed) /\ Pass(ivs).cur = <<lo, hi>>
        /\ lo <= hi
        /\ Hull(ivs, Len(ivs)) = closed \cup Points(<<lo, hi>>)
    BY <2>1 DEF CountedUpTo
  <2>3. Length(Pass(ivs).cur) = hi - lo
    BY <2>2, NoIntervalAssumption DEF Length
  <2> QED BY <2>2, <2>3, Closing
<1> QED BY <1>8, <1>9
-----------------------------------------------------------------------------
(* NeuronBench: what a trace adds up to *)

LEMMA TraceIs ==
  ASSUME NEW tr, IsTrace(tr)
  PROVE  /\ Len(tr) \in Nat /\ DOMAIN tr = 1 .. Len(tr) /\ IsFiniteSet(DOMAIN tr)
         /\ ToSet(tr) = {tr[i] : i \in DOMAIN tr} /\ IsFiniteSet(ToSet(tr))
         /\ \A i \in DOMAIN tr : tr[i].start \in Nat /\ tr[i].end \in Nat /\ tr[i].start <= tr[i].end
<1>1. Len(tr) \in Nat /\ DOMAIN tr = 1 .. Len(tr)
  BY DEF IsTrace
<1>2. IsFiniteSet(DOMAIN tr)
  BY <1>1, FS_Interval
<1>3. ToSet(tr) = {tr[i] : i \in DOMAIN tr}
  BY DEF ToSet
<1>4. tr \in Surjection(DOMAIN tr, ToSet(tr))
  <2>1. tr \in [DOMAIN tr -> ToSet(tr)]
    BY <1>1, <1>3 DEF IsTrace
  <2> QED BY <1>3, <2>1 DEF Surjection
<1>5. IsFiniteSet(ToSet(tr))
  BY <1>2, <1>4, FS_Surjection
<1> QED BY <1>1, <1>2, <1>3, <1>5 DEF IsTrace

LEMMA BeforeIsOrder ==
  ASSUME NEW a \in Nat \X Nat, NEW b \in Nat \X Nat
  PROVE  /\ ~Before(a, a)
         /\ Before(a, b) \/ Before(b, a) \/ a = b
         /\ ~(Before(a, b) /\ Before(b, a))
         /\ \A c \in Nat \X Nat : Before(a, b) /\ Before(b, c) => Before(a, c)
         /\ ~Before(b, a) => a[1] <= b[1]
BY DEF Before

\* What a trace holds can be listed in the order of its intervals.
LEMMA OrderExists ==
  ASSUME NEW tr, IsTrace(tr), NEW D, D \subseteq DOMAIN tr
  PROVE  /\ Cardinality(D) \in Nat
         /\ \E p \in Bijection(1 .. Cardinality(D), D) : InOrder(tr, p)
<1> DEFINE iv == [i \in D |-> Interval(tr[i])]
           R == {q \in D \X D : Before(iv[q[1]], iv[q[2]]) \/ (iv[q[1]] = iv[q[2]] /\ q[1] < q[2])}
           N == Cardinality(D)
<1>1. IsFiniteSet(D) /\ D \subseteq Nat
  BY TraceIs, FS_Subset
<1>2. \A i \in D : iv[i] = Interval(tr[i]) /\ iv[i] \in Nat \X Nat
  BY TraceIs DEF Interval
<1>3. \A i, j \in D : <<i, j>> \in R <=> Before(iv[i], iv[j]) \/ (iv[i] = iv[j] /\ i < j)
  OBVIOUS
<1> HIDE DEF iv, R
<1>4. \A i, j, k \in D : <<i, j>> \in R /\ <<j, k>> \in R => <<i, k>> \in R
  <2> TAKE i, j, k \in D
  <2>1. i \in Nat /\ j \in Nat /\ k \in Nat /\ iv[i] \in Nat \X Nat /\ iv[j] \in Nat \X Nat /\ iv[k] \in Nat \X Nat
    BY <1>1, <1>2
  <2>2. Before(iv[i], iv[j]) /\ Before(iv[j], iv[k]) => Before(iv[i], iv[k])
    BY <2>1, BeforeIsOrder
  <2>3. i < j /\ j < k => i < k
    BY <2>1
  <2> QED BY <1>3, <2>2, <2>3
<1>5. \A i \in D : <<i, i>> \notin R
  <2> TAKE i \in D
  <2>1. ~Before(iv[i], iv[i]) /\ ~(i < i)
    BY <1>1, <1>2, BeforeIsOrder
  <2> QED BY <1>3, <2>1
<1>6. \A i, j \in D : i # j => <<i, j>> \in R \/ <<j, i>> \in R
  <2> TAKE i, j \in D
  <2>1. Before(iv[i], iv[j]) \/ Before(iv[j], iv[i]) \/ iv[i] = iv[j]
    BY <1>2, BeforeIsOrder
  <2>2. i # j => i < j \/ j < i
    BY <1>1
  <2> QED BY <1>3, <2>1, <2>2
<1>7. N \in Nat /\ \E p \in Bijection(1 .. N, D) : \A i, j \in 1 .. N : i < j => <<p[i], p[j]>> \in R
  BY <1>1, <1>4, <1>5, <1>6, Enumerates
<1>8. PICK p \in Bijection(1 .. N, D) : \A i, j \in 1 .. N : i < j => <<p[i], p[j]>> \in R
  BY <1>7
<1>9. p \in [1 .. N -> D] /\ DOMAIN p = 1 .. N
  BY <1>8 DEF Bijection, Injection
<1>10. \A i, j \in 1 .. N : i < j => ~Before(Interval(tr[p[j]]), Interval(tr[p[i]]))
  <2> TAKE i, j \in 1 .. N
  <2> HAVE i < j
  <2>1. p[i] \in D /\ p[j] \in D /\ <<p[i], p[j]>> \in R
    BY <1>8, <1>9
  <2>2. Before(iv[p[i]], iv[p[j]]) \/ iv[p[i]] = iv[p[j]]
    BY <1>3, <2>1
  <2>3. ~Before(iv[p[j]], iv[p[i]])
    BY <1>2, <2>1, <2>2, BeforeIsOrder
  <2> QED BY <1>2, <2>1, <2>3
<1>11. InOrder(tr, p)
  BY <1>9, <1>10 DEF InOrder
<1> QED BY <1>7, <1>8, <1>11

LEMMA SortedIs ==
  ASSUME NEW tr, IsTrace(tr), NEW D, D \subseteq DOMAIN tr
  PROVE  /\ Ordered(Sorted(tr, D))
         /\ Hull(Sorted(tr, D), Len(Sorted(tr, D))) = Covered({tr[i] : i \in D})
<1> DEFINE N == Cardinality(D)
           p == CHOOSE p \in Bijection(1 .. N, D) : InOrder(tr, p)
           ivs == [i \in 1 .. N |-> Interval(tr[p[i]])]
<1>1. N \in Nat /\ p \in Bijection(1 .. N, D) /\ InOrder(tr, p)
  BY OrderExists
<1>2. Sorted(tr, D) = ivs
  BY DEF Sorted
<1> HIDE DEF p, N
<1>3. p \in [1 .. N -> D] /\ DOMAIN p = 1 .. N /\ \A d \in D : \E i \in 1 .. N : p[i] = d
  BY <1>1 DEF Bijection, Injection, Surjection
<1>4. \A i \in 1 .. N : /\ ivs[i] = <<tr[p[i]].start, tr[p[i]].end>> /\ ivs[i] \in Nat \X Nat
                        /\ tr[p[i]].start <= tr[p[i]].end
  <2> TAKE i \in 1 .. N
  <2>1. p[i] \in DOMAIN tr
    BY <1>3
  <2> QED BY <2>1, TraceIs DEF Interval
<1>5. Len(ivs) = N /\ DOMAIN ivs = 1 .. N /\ ivs \in Seq(Nat \X Nat)
  <2>1. \A i \in 1 .. N : Interval(tr[p[i]]) \in Nat \X Nat
    BY <1>4
  <2>2. ivs \in [1 .. N -> Nat \X Nat]
    BY <2>1
  <2> HIDE DEF ivs
  <2> QED BY <1>1, <2>2
<1>6. \A i, j \in 1 .. N : i < j => ivs[i][1] <= ivs[j][1]
  <2> TAKE i, j \in 1 .. N
  <2> HAVE i < j
  <2>1. ~Before(Interval(tr[p[j]]), Interval(tr[p[i]]))
    BY <1>1, <1>3 DEF InOrder
  <2>2. ivs[i] = Interval(tr[p[i]]) /\ ivs[j] = Interval(tr[p[j]])
    OBVIOUS
  <2> HIDE DEF ivs
  <2> QED BY <1>4, <2>1, <2>2, BeforeIsOrder
<1> HIDE DEF ivs
<1>7. Ordered(ivs)
  <2>1. \A i \in 1 .. N : ivs[i][1] <= ivs[i][2]
    BY <1>4
  <2> QED BY <1>5, <1>6, <2>1 DEF Ordered
<1>8. \A i \in 1 .. N : Points(ivs[i]) = tr[p[i]].start .. (tr[p[i]].end - 1)
  BY <1>4 DEF Points
<1>9. Hull(ivs, N) = Covered({tr[i] : i \in D})
  <2>1. \A x : x \in Hull(ivs, N) <=> \E i \in 1 .. N : x \in tr[p[i]].start .. (tr[p[i]].end - 1)
    BY <1>8 DEF Hull
  <2>2. \A x : x \in Covered({tr[i] : i \in D}) <=> \E d \in D : x \in tr[d].start .. (tr[d].end - 1)
    BY DEF Covered
  <2> QED BY <1>3, <2>1, <2>2
<1> QED BY <1>2, <1>5, <1>7, <1>9

\* _union_length returns how many nanoseconds its intervals cover.
LEMMA UnionLengthCounts ==
  ASSUME NEW tr, IsTrace(tr), NEW D, D \subseteq DOMAIN tr
  PROVE  /\ IsFiniteSet(Covered({tr[i] : i \in D}))
         /\ UnionLength(tr, D) = Cardinality(Covered({tr[i] : i \in D}))
BY SortedIs, PassCounts DEF UnionLength

LEMMA ExecutionsAre ==
  ASSUME NEW tr, IsTrace(tr)
  PROVE  /\ IsFiniteSet(ExecutionIds(tr))
         /\ \A x : {tr[i] : i \in {i \in DOMAIN tr : Execution(tr[i]) = x}} = {e \in ToSet(tr) : Execution(e) = x}
         /\ \A e \in ToSet(tr) : Execution(e) \in ExecutionIds(tr)
<1> DEFINE ex == [e \in ToSet(tr) |-> Execution(e)]
<1>1. ex \in Surjection(ToSet(tr), ExecutionIds(tr))
  BY DEF Surjection, ExecutionIds
<1>2. IsFiniteSet(ExecutionIds(tr))
  <2> HIDE DEF ex
  <2> QED BY <1>1, TraceIs, FS_Surjection
<1>3. ToSet(tr) = {tr[i] : i \in DOMAIN tr}
  BY TraceIs
<1> QED BY <1>2, <1>3 DEF ExecutionIds

\* What an execution covers, on any core.
CoveredBy(tr) == [x \in ExecutionIds(tr) |-> Covered({e \in ToSet(tr) : Execution(e) = x})]

LEMMA CoveredOnce ==
  ASSUME NEW tr, IsTrace(tr)
  PROVE  /\ \A x \in ExecutionIds(tr) : IsFiniteSet(CoveredBy(tr)[x])
         /\ UNION {CoveredBy(tr)[x] : x \in ExecutionIds(tr)} = Covered(ToSet(tr))
         /\ BusySum(tr) = Total([x \in ExecutionIds(tr) |-> Cardinality(CoveredBy(tr)[x])])
<1> DEFINE X == ExecutionIds(tr)
           copies(x) == {i \in DOMAIN tr : Execution(tr[i]) = x}
<1>1. \A x \in X : CoveredBy(tr)[x] = Covered({e \in ToSet(tr) : Execution(e) = x})
  BY DEF CoveredBy
<1>2. \A x \in X : /\ IsFiniteSet(CoveredBy(tr)[x])
                   /\ UnionLength(tr, copies(x)) = Cardinality(CoveredBy(tr)[x])
  <2> TAKE x \in X
  <2>1. copies(x) \subseteq DOMAIN tr /\ {tr[i] : i \in copies(x)} = {e \in ToSet(tr) : Execution(e) = x}
    BY ExecutionsAre
  <2> HIDE DEF copies, X
  <2>2. /\ IsFiniteSet(Covered({tr[i] : i \in copies(x)}))
        /\ UnionLength(tr, copies(x)) = Cardinality(Covered({tr[i] : i \in copies(x)}))
    BY <2>1, UnionLengthCounts
  <2> QED BY <1>1, <2>1, <2>2
<1>3. [x \in X |-> UnionLength(tr, copies(x))] = [x \in X |-> Cardinality(CoveredBy(tr)[x])]
  <2> HIDE DEF copies, X
  <2> QED BY <1>2
<1>5. UNION {CoveredBy(tr)[x] : x \in X} = Covered(ToSet(tr))
  <2>1. \A es : \A t : t \in Covered(es) <=> \E e \in es : t \in e.start .. (e.end - 1)
    BY DEF Covered
  <2>2. ASSUME NEW t PROVE t \in UNION {CoveredBy(tr)[x] : x \in X} <=> t \in Covered(ToSet(tr))
    <3>1. \A e \in ToSet(tr) : Execution(e) \in X
      BY ExecutionsAre
    <3>2. t \in UNION {CoveredBy(tr)[x] : x \in X} <=> \E x \in X : t \in CoveredBy(tr)[x]
      OBVIOUS
    <3> HIDE DEF X
    <3>3. \A x \in X : t \in CoveredBy(tr)[x]
                       <=> \E e \in {e \in ToSet(tr) : Execution(e) = x} : t \in e.start .. (e.end - 1)
      <4> TAKE x \in X
      <4> DEFINE es == {e \in ToSet(tr) : Execution(e) = x}
      <4>1. CoveredBy(tr)[x] = Covered(es)
        BY <1>1
      <4>2. t \in Covered(es) <=> \E e \in es : t \in e.start .. (e.end - 1)
        <5> HIDE DEF es
        <5> QED BY <2>1
      <4> QED BY <4>1, <4>2
    <3>4. t \in UNION {CoveredBy(tr)[x] : x \in X} <=> \E e \in ToSet(tr) : t \in e.start .. (e.end - 1)
      BY <3>1, <3>2, <3>3
    <3> QED BY <2>1, <3>4
  <2> HIDE DEF X
  <2> QED BY <2>2
<1> QED BY <1>2, <1>3, <1>5 DEF BusySum

\* The nanoseconds of a trace lie between its first start and its last end.
LEMMA SpanCovers ==
  ASSUME NEW tr, IsTrace(tr), tr # <<>>
  PROVE  Cardinality(Covered(ToSet(tr))) <= Span(tr)
<1> DEFINE ends == {e.end : e \in ToSet(tr)}
           starts == {e.start : e \in ToSet(tr)}
           endOf == [e \in ToSet(tr) |-> e.end]
           startOf == [e \in ToSet(tr) |-> e.start]
<1>1. IsFiniteSet(ToSet(tr)) /\ 1 \in DOMAIN tr /\ tr[1] \in ToSet(tr)
  <2>1. Len(tr) \in Nat /\ Len(tr) # 0
    BY DEF IsTrace
  <2> QED BY <2>1, TraceIs
<1>2. \A e \in ToSet(tr) : e.start \in Nat /\ e.end \in Nat /\ e.start <= e.end
  BY DEF IsTrace
<1>3. IsFiniteSet(ends) /\ ends # {} /\ ends \subseteq Int
  <2>1. endOf \in Surjection(ToSet(tr), ends)
    BY DEF Surjection
  <2>2. IsFiniteSet(ends)
    <3> HIDE DEF endOf, ends
    <3> QED BY <1>1, <2>1, FS_Surjection
  <2> QED BY <1>1, <1>2, <2>2
<1>4. IsFiniteSet(starts) /\ starts # {} /\ starts \subseteq Int
  <2>1. startOf \in Surjection(ToSet(tr), starts)
    BY DEF Surjection
  <2>2. IsFiniteSet(starts)
    <3> HIDE DEF startOf, starts
    <3> QED BY <1>1, <2>1, FS_Surjection
  <2> QED BY <1>1, <1>2, <2>2
<1> DEFINE a == Min(starts)
           b == Max(ends)
<1>5. a \in Int /\ b \in Int /\ \A e \in ToSet(tr) : a <= e.start /\ e.end <= b
  <2>1. Min(starts) \in starts /\ \A x \in starts : Min(starts) <= x
    <3> HIDE DEF starts
    <3> QED BY <1>4, MinIn
  <2>2. Max(ends) \in ends /\ \A x \in ends : x <= Max(ends)
    <3> HIDE DEF ends
    <3> QED BY <1>3, MaxIn
  <2>3. \A e \in ToSet(tr) : e.start \in starts /\ e.end \in ends
    OBVIOUS
  <2> HIDE DEF starts, ends
  <2> QED BY <1>3, <1>4, <2>1, <2>2, <2>3
<1>6. Span(tr) = b - a
  BY DEF Span
<1> HIDE DEF a, b
<1>7. a <= b
  BY <1>1, <1>2, <1>5
<1>8. Covered(ToSet(tr)) \subseteq a .. (b - 1)
  <2> SUFFICES ASSUME NEW t \in Covered(ToSet(tr)) PROVE t \in a .. (b - 1)
    OBVIOUS
  <2>1. PICK e \in ToSet(tr) : t \in e.start .. (e.end - 1)
    BY DEF Covered
  <2> QED BY <1>2, <1>5, <2>1
<1>9. IsFiniteSet(a .. (b - 1)) /\ Cardinality(a .. (b - 1)) = b - a
  <2>1. b - 1 \in Int /\ (IF a > b - 1 THEN 0 ELSE b - 1 - a + 1) = b - a
    BY <1>5, <1>7
  <2> QED BY <1>5, <2>1, FS_Interval
<1>10. Cardinality(Covered(ToSet(tr))) <= Cardinality(a .. (b - 1))
  BY <1>8, <1>9, FS_Subset
<1> QED BY <1>6, <1>9, <1>10

\* What the sweep computes of a list of executions.
LEMMA ListAddsUp ==
  ASSUME NEW tr, IsTrace(tr), tr # <<>>
  PROVE  /\ BusySum(tr) = Total([x \in ExecutionIds(tr) |-> Cardinality(CoveredBy(tr)[x])]) /\ BusySum(tr) \in Nat
         /\ UnionLength(tr, DOMAIN tr) = Cardinality(UNION {CoveredBy(tr)[x] : x \in ExecutionIds(tr)})
         /\ UnionLength(tr, DOMAIN tr) <= BusySum(tr) /\ UnionLength(tr, DOMAIN tr) <= Span(tr)
<1> DEFINE X == ExecutionIds(tr)
           C == CoveredBy(tr)
           f == [x \in X |-> Cardinality(C[x])]
<1>1. IsFiniteSet(X) /\ \A x \in X : IsFiniteSet(C[x])
  BY ExecutionsAre, CoveredOnce
<1>2. UNION {C[x] : x \in X} = Covered(ToSet(tr)) /\ BusySum(tr) = Total(f)
  BY CoveredOnce
<1>3. C \in [X -> SUBSET UNION {C[x] : x \in X}]
  BY DEF CoveredBy
<1>4. f \in [X -> Nat]
  <2> HIDE DEF X, C
  <2> QED BY <1>1, FS_CardinalityType
<1> HIDE DEF X, C
<1>5. Cardinality(Covered(ToSet(tr))) <= Total(f)
  BY <1>1, <1>2, <1>3, UnionBound
<1>6. Total(f) \in Nat
  <2> HIDE DEF f
  <2> QED BY <1>1, <1>4, TotalType
<1>7. UnionLength(tr, DOMAIN tr) = Cardinality(Covered(ToSet(tr)))
  <2>1. {tr[i] : i \in DOMAIN tr} = ToSet(tr)
    BY TraceIs
  <2> QED BY <2>1, UnionLengthCounts
<1>8. Cardinality(Covered(ToSet(tr))) <= Span(tr)
  BY SpanCovers
<1>9. /\ BusySum(tr) = Total([x \in X |-> Cardinality(C[x])]) /\ BusySum(tr) \in Nat
      /\ UnionLength(tr, DOMAIN tr) = Cardinality(UNION {C[x] : x \in X})
      /\ UnionLength(tr, DOMAIN tr) <= BusySum(tr) /\ UnionLength(tr, DOMAIN tr) <= Span(tr)
  BY <1>2, <1>5, <1>6, <1>7, <1>8
<1> QED BY <1>9 DEF X, C
-----------------------------------------------------------------------------
(* NeuronBench: the executions of a trace *)

\* The merged copies of a flow reach from the first start to the last end.
LEMMA MergedIs ==
  ASSUME NEW tr, IsTrace(tr), NEW f \in Flows(tr)
  PROVE  /\ \E c \in Copies(tr, f) : MergedCopies(tr, f).model = c.model
         /\ MergedCopies(tr, f).flow = f
         /\ \E a \in Copies(tr, f) : a.start = MergedCopies(tr, f).start
         /\ \E b \in Copies(tr, f) : b.end = MergedCopies(tr, f).end
         /\ \A c \in Copies(tr, f) : MergedCopies(tr, f).start <= c.start /\ c.end <= MergedCopies(tr, f).end
         /\ MergedCopies(tr, f).start \in Nat /\ MergedCopies(tr, f).end \in Nat
         /\ MergedCopies(tr, f).start <= MergedCopies(tr, f).end
<1> DEFINE S == Copies(tr, f)
           starts == {c.start : c \in S}
           ends == {c.end : c \in S}
           startOf == [c \in S |-> c.start]
           endOf == [c \in S |-> c.end]
           m == MergedCopies(tr, f)
<1>1. IsFiniteSet(S) /\ S \subseteq ToSet(tr) /\ S # {}
  <2>1. IsFiniteSet(ToSet(tr))
    BY TraceIs
  <2>2. S \subseteq ToSet(tr) /\ S # {}
    BY DEF Copies, Flows
  <2> QED BY <2>1, <2>2, FS_Subset
<1>2. \A c \in S : c.start \in Nat /\ c.end \in Nat /\ c.start <= c.end
  BY <1>1 DEF IsTrace
<1>3. startOf \in Surjection(S, starts) /\ endOf \in Surjection(S, ends)
  BY DEF Surjection
<1>4. m.model = (CHOOSE c \in S : TRUE).model /\ m.flow = f /\ m.start = Min(starts) /\ m.end = Max(ends)
  BY DEF MergedCopies
<1> HIDE DEF startOf, endOf, S, m
<1>5. IsFiniteSet(starts) /\ starts # {} /\ starts \subseteq Int /\ IsFiniteSet(ends) /\ ends # {} /\ ends \subseteq Int
  <2>1. IsFiniteSet(starts) /\ IsFiniteSet(ends)
    <3> HIDE DEF starts, ends
    <3> QED BY <1>1, <1>3, FS_Surjection
  <2> QED BY <1>1, <1>2, <2>1
<1>6. /\ Min(starts) \in starts /\ \A n \in starts : Min(starts) <= n
      /\ Max(ends) \in ends /\ \A n \in ends : n <= Max(ends)
  <2> HIDE DEF starts, ends
  <2> QED BY <1>5, MinIn, MaxIn
<1>7. \A c \in S : m.start <= c.start /\ c.end <= m.end
  BY <1>4, <1>6
<1>8. PICK a \in S : a.start = m.start
  BY <1>4, <1>6
<1>9. PICK b \in S : b.end = m.end
  BY <1>4, <1>6
<1>10. m.start \in Nat /\ m.end \in Nat /\ m.start <= m.end
  BY <1>2, <1>7, <1>8, <1>9
<1>11. \E c \in S : m.model = c.model
  BY <1>1, <1>4
<1> QED BY <1>4, <1>7, <1>8, <1>9, <1>10, <1>11 DEF S, m

LEMMA ListOfSet ==
  ASSUME NEW S, IsFiniteSet(S)
  PROVE  SetToSeq(S) \in Seq(S) /\ ToSet(SetToSeq(S)) = S
<1> DEFINE n == Cardinality(S)
           q == SetToSeq(S)
<1>1. n \in Nat /\ ExistsBijection(1 .. n, S)
  BY FS_CardinalityType
<1>2. \E b \in [1 .. n -> S] : IsInjective(b)
  BY <1>1 DEF ExistsBijection, Bijection, Injection
<1>3. q \in [1 .. n -> S] /\ IsInjective(q)
  BY <1>2 DEF SetToSeq
<1> HIDE DEF q
<1>4. IsFiniteSet(1 .. n) /\ Cardinality(1 .. n) = n
  <2>1. 1 \in Int /\ n \in Int /\ (IF 1 > n THEN 0 ELSE n - 1 + 1) = n
    BY <1>1
  <2> HIDE DEF n
  <2> QED BY <2>1, FS_Interval
<1>5. q \in Injection(1 .. n, S)
  BY <1>3 DEF Injection
<1>6. q \in Surjection(1 .. n, S)
  BY <1>4, <1>5, FS_Injection
<1>7. q \in Seq(S) /\ DOMAIN q = 1 .. n
  <2> HIDE DEF n
  <2> QED BY <1>1, <1>3
<1>8. ToSet(q) = S
  BY <1>3, <1>6, <1>7 DEF ToSet, Surjection
<1> QED BY <1>7, <1>8 DEF q

\* load_executions lists one execution per flow.
LEMMA LoadedIs ==
  ASSUME NEW tr, IsTrace(tr)
  PROVE  /\ IsTrace(Executions(tr))
         /\ ToSet(Executions(tr)) = {MergedCopies(tr, f) : f \in Flows(tr)}
<1> DEFINE S == {MergedCopies(tr, f) : f \in Flows(tr)}
           flowOf == [c \in ToSet(tr) |-> c.flow]
           merged == [f \in Flows(tr) |-> MergedCopies(tr, f)]
<1>1. flowOf \in Surjection(ToSet(tr), Flows(tr)) /\ merged \in Surjection(Flows(tr), S)
  BY DEF Surjection, Flows
<1>2. IsFiniteSet(S)
  <2>1. IsFiniteSet(ToSet(tr))
    BY TraceIs
  <2> HIDE DEF S, flowOf, merged
  <2> QED BY <1>1, <2>1, FS_Surjection
<1>3. Executions(tr) = SetToSeq(S)
  BY DEF Executions
<1>4. \A e \in S : e.start \in Nat /\ e.end \in Nat /\ e.start <= e.end
  BY MergedIs
<1> HIDE DEF S
<1>5. Executions(tr) \in Seq(S) /\ ToSet(Executions(tr)) = S
  BY <1>2, <1>3, ListOfSet
<1> QED BY <1>4, <1>5 DEF IsTrace, S

\* The executions of a session that is not refused are those its copies name, each from
\* the first start of a copy to the last end of one.
LEMMA StretchIs ==
  ASSUME NEW tr, IsTrace(tr), ~Mixed(tr)
  PROVE  /\ ExecutionIds(Executions(tr)) = ExecutionIds(tr)
         /\ \A x \in ExecutionIds(tr) : CoveredBy(Executions(tr))[x] = Stretch(tr, x)
<1> DEFINE es == Executions(tr)
<1>1. IsTrace(es) /\ ToSet(es) = {MergedCopies(tr, f) : f \in Flows(tr)}
  BY LoadedIs
<1> HIDE DEF es
<1>2. \A c \in ToSet(tr) : c.flow \in Flows(tr) /\ Copies(tr, c.flow) = {d \in ToSet(tr) : Execution(d) = Execution(c)}
  BY DEF Flows, Copies, Execution, Mixed
<1>3. \A c \in ToSet(tr) : Execution(MergedCopies(tr, c.flow)) = Execution(c)
  <2> TAKE c \in ToSet(tr)
  <2>1. PICK d \in Copies(tr, c.flow) : MergedCopies(tr, c.flow).model = d.model
    BY <1>2, MergedIs
  <2>2. MergedCopies(tr, c.flow).flow = c.flow
    BY <1>2, MergedIs
  <2> QED BY <1>2, <2>1, <2>2 DEF Execution
<1>4. \A f \in Flows(tr) : \E c \in ToSet(tr) : c.flow = f
  BY DEF Flows
<1>5. ExecutionIds(es) = ExecutionIds(tr)
  <2>1. \A x : x \in ExecutionIds(es) <=> \E f \in Flows(tr) : x = Execution(MergedCopies(tr, f))
    BY <1>1 DEF ExecutionIds
  <2>2. \A x : x \in ExecutionIds(tr) <=> \E c \in ToSet(tr) : x = Execution(c)
    BY DEF ExecutionIds
  <2>3. \A x : x \in ExecutionIds(es) <=> x \in ExecutionIds(tr)
    BY <1>2, <1>3, <1>4, <2>1, <2>2
  <2> QED BY <2>3
<1>6. \A x \in ExecutionIds(tr) : CoveredBy(es)[x] = Stretch(tr, x)
  <2> SUFFICES ASSUME NEW x \in ExecutionIds(tr) PROVE CoveredBy(es)[x] = Stretch(tr, x)
    OBVIOUS
  <2>1. PICK c \in ToSet(tr) : x = Execution(c)
    BY DEF ExecutionIds
  <2> DEFINE m == MergedCopies(tr, c.flow)
             D == Copies(tr, c.flow)
  <2>2. D = {d \in ToSet(tr) : Execution(d) = x} /\ c.flow \in Flows(tr) /\ Execution(m) = x /\ m \in ToSet(es)
    BY <1>1, <1>2, <1>3, <2>1
  <2>3. {e \in ToSet(es) : Execution(e) = x} = {m}
    <3>1. \A f \in Flows(tr) : Execution(MergedCopies(tr, f)) = x => f = c.flow
      BY <2>1, MergedIs DEF Execution
    <3> QED BY <1>1, <2>2, <3>1
  <2>4. CoveredBy(es)[x] = m.start .. (m.end - 1)
    <3>1. CoveredBy(es)[x] = Covered({m})
      BY <1>5, <2>3 DEF CoveredBy
    <3> HIDE DEF m
    <3> QED BY <3>1 DEF Covered
  <2>5. Stretch(tr, x) = UNION {a.start .. (b.end - 1) : a, b \in D}
    BY <2>2 DEF Stretch
  <2>6. /\ \A d \in D : m.start <= d.start /\ d.end <= m.end /\ d.start \in Nat /\ d.end \in Nat
        /\ m.start \in Nat /\ m.end \in Nat
    BY <2>2, MergedIs DEF IsTrace
  <2>7. PICK a \in D : a.start = m.start
    BY <2>2, MergedIs
  <2>8. PICK b \in D : b.end = m.end
    BY <2>2, MergedIs
  <2> HIDE DEF m, D
  <2>9. \A t \in m.start .. (m.end - 1) : t \in a.start .. (b.end - 1)
    BY <2>7, <2>8
  <2>10. \A d, e \in D : \A t \in d.start .. (e.end - 1) : t \in m.start .. (m.end - 1)
    BY <2>6
  <2>11. \A t : t \in Stretch(tr, x) <=> \E d, e \in D : t \in d.start .. (e.end - 1)
    <3> DEFINE from(d, e) == d.start .. (e.end - 1)
    <3>1. Stretch(tr, x) = UNION {from(d, e) : d, e \in D}
      BY <2>5
    <3> HIDE DEF from
    <3>2. \A t : t \in Stretch(tr, x) <=> \E d, e \in D : t \in from(d, e)
      BY <3>1
    <3> QED BY <3>2 DEF from
  <2>12. \A t : t \in Stretch(tr, x) <=> t \in m.start .. (m.end - 1)
    BY <2>7, <2>8, <2>9, <2>10, <2>11
  <2> QED BY <2>4, <2>12
<1> QED BY <1>5, <1>6 DEF es

\* The numbers of a call, against the copies the profiler recorded.
LEMMA AggregatesTrue ==
  ASSUME NEW tr, IsTrace(tr), tr # <<>>, ~Mixed(tr)
  PROVE  AggregatesAreTrue(tr)
<1> DEFINE es == Executions(tr)
           X == ExecutionIds(tr)
<1>1. IsTrace(es) /\ ExecutionIds(es) = X /\ \A x \in X : CoveredBy(es)[x] = Stretch(tr, x)
  BY LoadedIs, StretchIs
<1>2. es # <<>>
  <2>1. Len(tr) \in Nat /\ Len(tr) # 0
    BY DEF IsTrace
  <2>2. tr[1] \in ToSet(tr)
    BY <2>1, TraceIs
  <2>3. ToSet(es) # {}
    <3>1. tr[1].flow \in Flows(tr)
      BY <2>2 DEF Flows
    <3>2. ToSet(es) = {MergedCopies(tr, f) : f \in Flows(tr)}
      BY LoadedIs
    <3> QED BY <3>1, <3>2
  <2> HIDE DEF es
  <2> QED BY <2>3 DEF ToSet
<1> HIDE DEF es, X
<1>3. [x \in X |-> Cardinality(CoveredBy(es)[x])] = [x \in X |-> Cardinality(Stretch(tr, x))]
  BY <1>1
<1>4. {CoveredBy(es)[x] : x \in X} = {Stretch(tr, x) : x \in X}
  BY <1>1
<1>5. /\ BusySum(es) = Total([x \in X |-> Cardinality(CoveredBy(es)[x])])
      /\ UnionLength(es, DOMAIN es) = Cardinality(UNION {CoveredBy(es)[x] : x \in X})
      /\ UnionLength(es, DOMAIN es) <= BusySum(es) /\ UnionLength(es, DOMAIN es) <= Span(es)
  BY <1>1, <1>2, ListAddsUp
<1>6. /\ BusySum(es) = Total([x \in X |-> Cardinality(Stretch(tr, x))])
      /\ UnionLength(es, DOMAIN es) = Cardinality(UNION {Stretch(tr, x) : x \in X})
  BY <1>3, <1>4, <1>5
<1> QED BY <1>5, <1>6 DEF AggregatesAreTrue, es, X
-----------------------------------------------------------------------------
(* NeuronBench: the calls of a measurement *)

\* The calls whose executions were loaded.
Profiled == {tr \in Traces : ~Mixed(tr)}

Sides ==
  [name : {"torch", "nki"}, phase : {"first", "warmup", "wall", "device", "judge"}, n : Nat, from : Nat, calls : Nat,
   inputs : {"pristine", "changed"}, mutates : BOOLEAN, right : BOOLEAN, iters : Seq(Profiled)]
Results == [ok : BOOLEAN, unsupported : BOOLEAN, ms : {None, 0, 1}]
MeasuredCases == [unresolved : BOOLEAN, next : {"torch", "nki", "end"}, got : [{"torch", "nki"} -> Results]]

\* A phase says how many calls were made before it, and how many of them were profiled.
Counts(s) ==
  /\ s.phase = "first" => s.n = 0 /\ s.calls = 0 /\ s.inputs = "pristine" /\ ~s.mutates /\ s.iters = <<>>
  /\ s.phase = "warmup" => s.n < NativeWarmup /\ s.calls = 1 + s.n /\ s.iters = <<>>
  /\ s.phase = "wall" => s.n < NativeRepeat /\ s.calls = 1 + NativeWarmup + s.n /\ s.iters = <<>>
  /\ s.phase = "device" =>
       s.n < NativeRepeat /\ s.calls = 1 + NativeWarmup + NativeRepeat + s.n /\ Len(s.iters) = s.n
  /\ s.phase = "judge" => s.calls = 1 + NativeWarmup + 2 * NativeRepeat /\ Len(s.iters) = NativeRepeat

\* Inputs a call overwrote stay overwritten, unless every call gets its own; a right
\* output was computed before that.
Inputs(s) ==
  /\ ~s.mutates /\ s.from > 0 /\ s.calls >= s.from => s.inputs = "changed"
  /\ s.right => s.mutates \/ s.from = 0 \/ s.from >= s.calls

SideInv == side # None => side \in Sides /\ Counts(side) /\ Inputs(side)

\* A result with a time is of a side that verified and is supported; an unresolved
\* baseline has none.
ResultInv(res) == res \in Results /\ (res.ms # None => res.ok /\ ~res.unsupported)
CaseInv ==
  case # None =>
    /\ case \in MeasuredCases
    /\ \A x \in {"torch", "nki"} : ResultInv(case.got[x])
    /\ case.unresolved => case.got["torch"] = Nothing /\ case.next # "torch"

NeuronInv ==
  /\ SideInv /\ CaseInv
  /\ side # None => case # None /\ case.next = side.name

LEMMA CallIs ==
  ASSUME NEW s \in Sides, NEW how
  PROVE  /\ Called(s, how) \in Sides
         /\ Called(s, how).calls = s.calls + 1
         /\ Called(s, how).inputs = IF s.from > 0 /\ s.calls + 1 >= s.from THEN "changed" ELSE Given(s)
         /\ Called(s, how).right = (how = "good" /\ Given(s) = "pristine")
         /\ Called(s, how).name = s.name /\ Called(s, how).phase = s.phase /\ Called(s, how).n = s.n
         /\ Called(s, how).from = s.from /\ Called(s, how).mutates = s.mutates /\ Called(s, how).iters = s.iters
<1>1. Given(s) \in {"pristine", "changed"}
  BY DEF Given, Sides
<1> DEFINE given == IF s.from > 0 /\ s.calls + 1 >= s.from THEN "changed" ELSE Given(s)
           verified == how = "good" /\ Given(s) = "pristine"
<1>2. given \in {"pristine", "changed"} /\ verified \in BOOLEAN /\ s.calls + 1 \in Nat
  BY <1>1 DEF Sides
<1>3. Called(s, how) = [s EXCEPT !.calls = s.calls + 1, !.inputs = given, !.right = verified]
  BY DEF Called
<1> HIDE DEF given, verified
<1>4. /\ Called(s, how) \in Sides
      /\ Called(s, how).calls = s.calls + 1 /\ Called(s, how).inputs = given /\ Called(s, how).right = verified
      /\ Called(s, how).name = s.name /\ Called(s, how).phase = s.phase /\ Called(s, how).n = s.n
      /\ Called(s, how).from = s.from /\ Called(s, how).mutates = s.mutates /\ Called(s, how).iters = s.iters
  BY <1>2, <1>3 DEF Sides
<1> QED BY <1>4 DEF given, verified

\* A call keeps what is known of the inputs.
LEMMA CallInputs ==
  ASSUME NEW s \in Sides, Inputs(s), NEW how
  PROVE  Inputs(Called(s, how))
<1>1. s.calls \in Nat /\ s.from \in Nat /\ s.inputs \in {"pristine", "changed"} /\ s.mutates \in BOOLEAN
  BY DEF Sides
<1>2. ~s.mutates /\ s.from > 0 /\ s.calls + 1 >= s.from => Called(s, how).inputs = "changed"
  BY CallIs
<1>3. Called(s, how).right => s.mutates \/ s.from = 0 \/ s.from >= s.calls + 1
  <2> SUFFICES ASSUME Called(s, how).right, ~s.mutates, s.from # 0 PROVE s.from >= s.calls + 1
    OBVIOUS
  <2>1. s.inputs = "pristine"
    BY CallIs DEF Given
  <2>2. ~(s.calls >= s.from)
    BY <1>1, <2>1 DEF Inputs
  <2> QED BY <1>1, <2>2
<1> QED BY <1>2, <1>3, CallIs DEF Inputs

\* The end of a side keeps the invariant if its result is one.
LEMMA SideEndsInv ==
  ASSUME NeuronInv, side # None, NEW res, ResultInv(res), SideEnds(res)
  PROVE  NeuronInv'
<1>1. /\ case \in MeasuredCases /\ side.name \in {"torch", "nki"} /\ case.next = side.name
      /\ \A x \in {"torch", "nki"} : ResultInv(case.got[x])
      /\ case.unresolved => case.got["torch"] = Nothing /\ case.next # "torch"
  BY DEF NeuronInv, SideInv, CaseInv, Sides
<1>2. /\ side' = None
      /\ case' = [case EXCEPT !.got[side.name] = res, !.next = IF side.name = "torch" THEN "nki" ELSE "end"]
  BY DEF SideEnds
<1>3. case.got \in [{"torch", "nki"} -> Results] /\ res \in Results
  BY <1>1 DEF MeasuredCases, ResultInv
<1>4. /\ case'.got = [case.got EXCEPT ![side.name] = res] /\ case'.unresolved = case.unresolved
      /\ case'.next = (IF side.name = "torch" THEN "nki" ELSE "end") /\ case' \in MeasuredCases
  BY <1>1, <1>2, <1>3 DEF MeasuredCases
<1>5. \A x \in {"torch", "nki"} : case'.got[x] = IF x = side.name THEN res ELSE case.got[x]
  BY <1>1, <1>3, <1>4
<1>6. \A x \in {"torch", "nki"} : ResultInv(case'.got[x])
  BY <1>1, <1>5
<1>7. case'.unresolved => case'.got["torch"] = Nothing /\ case'.next # "torch"
  BY <1>1, <1>4, <1>5
<1>8. CaseInv'
  BY <1>4, <1>6, <1>7 DEF CaseInv, ResultInv, MeasuredCases, Results, Nothing
<1> QED BY <1>2, <1>8 DEF NeuronInv, SideInv

LEMMA ResultsAre ==
  /\ ResultInv(Nothing) /\ ResultInv([Nothing EXCEPT !.unsupported = TRUE]) /\ ResultInv(Untimed)
  /\ \A m \in {0, 1} : ResultInv([Untimed EXCEPT !.ms = m])
BY DEF ResultInv, Results, Nothing, Untimed

\* A call that leaves the measurement running keeps the invariant if the new phase counts right.
LEMMA SideGoesOn ==
  ASSUME NeuronInv, side # None, UNCHANGED case, side' \in Sides, Counts(side'), Inputs(side'), side'.name = side.name
  PROVE  NeuronInv'
BY DEF NeuronInv, SideInv, CaseInv, Counts, Inputs, Sides, MeasuredCases, ResultInv, Results, Nothing

LEMMA FirstCallInv ==
  ASSUME NeuronInv, NEW how \in {"good", "wrong", "raises", "unsupported"}, FirstCall(how)
  PROVE  NeuronInv'
<1>1. side # None /\ side.phase = "first" /\ side \in Sides /\ Counts(side) /\ Inputs(side)
  BY DEF FirstCall, NeuronInv, SideInv
<1>2. CASE how # "good"
  <2>1. SideEnds(Nothing) \/ SideEnds([Nothing EXCEPT !.unsupported = TRUE])
    BY <1>2 DEF FirstCall
  <2> QED BY <1>1, <2>1, ResultsAre, SideEndsInv
<1>3. CASE how = "good"
  <2> DEFINE s == Called(side, how)
  <2>1. /\ side' = [s EXCEPT !.phase = IF NativeWarmup = 0 THEN "wall" ELSE "warmup", !.mutates = s.inputs = "changed"]
        /\ UNCHANGED case
    BY <1>3 DEF FirstCall
  <2>2. s \in Sides /\ s.calls = 1 /\ s.n = 0 /\ s.iters = <<>> /\ s.name = side.name /\ s.from = side.from
    BY <1>1, CallIs DEF Counts
  <2>3. Inputs(s)
    BY <1>1, CallInputs
  <2>4. s.inputs \in {"pristine", "changed"}
    BY <2>2 DEF Sides
  <2> HIDE DEF s
  <2>5. /\ side' \in Sides
        /\ side'.phase = (IF NativeWarmup = 0 THEN "wall" ELSE "warmup") /\ side'.mutates = (s.inputs = "changed")
        /\ side'.calls = 1 /\ side'.n = 0 /\ side'.iters = <<>> /\ side'.name = s.name /\ side'.from = s.from
        /\ side'.inputs = s.inputs /\ side'.right = s.right
    BY <2>1, <2>2 DEF Sides
  <2>6. Counts(side')
    BY <2>5, LoopsAssumption DEF Counts
  <2>7. Inputs(side')
    <3>1. side.from \in Nat /\ ~side.mutates /\ s.mutates = side.mutates
      BY <1>1, CallIs DEF Counts, Sides, s
    <3> QED BY <2>2, <2>3, <2>4, <2>5, <3>1 DEF Inputs
  <2> QED BY <1>1, <2>1, <2>2, <2>5, <2>6, <2>7, SideGoesOn
<1> QED BY <1>2, <1>3

LEMMA HostCallInv ==
  ASSUME NeuronInv, NEW how \in {"good", "wrong", "raises"}, HostCall(how)
  PROVE  NeuronInv'
<1>1. side # None /\ side.phase \in {"warmup", "wall"} /\ side \in Sides /\ Counts(side) /\ Inputs(side)
  BY DEF HostCall, NeuronInv, SideInv
<1>2. CASE how = "raises"
  BY <1>1, <1>2, ResultsAre, SideEndsInv DEF HostCall
<1>3. CASE how # "raises"
  <2> DEFINE s == Called(side, how)
             last == side.n + 1 = IF side.phase = "warmup" THEN NativeWarmup ELSE NativeRepeat
  <2>1. /\ side' = [s EXCEPT !.n = IF last THEN 0 ELSE @ + 1,
                             !.phase = IF last THEN IF side.phase = "warmup" THEN "wall" ELSE "device" ELSE @]
        /\ UNCHANGED case
    BY <1>3 DEF HostCall
  <2>2. /\ s \in Sides /\ s.calls = side.calls + 1 /\ s.n = side.n /\ s.iters = side.iters /\ s.name = side.name
        /\ s.phase = side.phase /\ Inputs(s)
    BY <1>1, CallIs, CallInputs
  <2>3. s.n \in Nat /\ s.phase \in {"warmup", "wall"}
    BY <1>1, <2>2 DEF Sides
  <2>4. last \in BOOLEAN
    OBVIOUS
  <2> DEFINE ph == IF last THEN IF side.phase = "warmup" THEN "wall" ELSE "device" ELSE side.phase
             m == IF last THEN 0 ELSE side.n + 1
  <2> HIDE DEF s, last
  <2>a. side' = [s EXCEPT !.n = m, !.phase = ph]
    BY <2>1, <2>2
  <2>b. m \in Nat /\ ph \in {"warmup", "wall", "device"} /\ side.iters = <<>>
    BY <1>1, <2>2, <2>3 DEF Counts
  <2>5. /\ side' \in Sides
        /\ side'.n = (IF last THEN 0 ELSE side.n + 1)
        /\ side'.phase = (IF last THEN IF side.phase = "warmup" THEN "wall" ELSE "device" ELSE side.phase)
        /\ side'.calls = side.calls + 1 /\ side'.iters = <<>> /\ side'.name = side.name
        /\ side'.from = s.from /\ side'.inputs = s.inputs /\ side'.right = s.right /\ side'.mutates = s.mutates
        /\ side'.calls = s.calls
    <3> HIDE DEF ph, m
    <3>1. /\ side' \in Sides /\ side'.n = m /\ side'.phase = ph
          /\ side'.calls = s.calls /\ side'.iters = s.iters /\ side'.name = s.name
          /\ side'.from = s.from /\ side'.inputs = s.inputs /\ side'.right = s.right /\ side'.mutates = s.mutates
      BY <2>a, <2>b, <2>2 DEF Sides
    <3> QED BY <2>b, <2>2, <3>1 DEF ph, m
  <2>6. Counts(side')
    <3>1. side.n \in Nat /\ side.calls \in Nat /\ Len(<<>>) = 0
      BY <1>1 DEF Sides
    <3>2. CASE side.phase = "warmup"
      <4>1. side.n < NativeWarmup /\ side.calls = 1 + side.n /\ (last <=> side.n + 1 = NativeWarmup)
        BY <1>1, <3>2 DEF Counts, last
      <4> QED BY <2>5, <3>1, <3>2, <4>1, LoopsAssumption DEF Counts
    <3>3. CASE side.phase = "wall"
      <4>1. side.n < NativeRepeat /\ side.calls = 1 + NativeWarmup + side.n /\ (last <=> side.n + 1 = NativeRepeat)
        BY <1>1, <3>3 DEF Counts, last
      <4> QED BY <2>5, <3>1, <3>3, <4>1, LoopsAssumption DEF Counts
    <3> QED BY <1>1, <3>2, <3>3
  <2>7. Inputs(side')
    BY <2>2, <2>5 DEF Inputs
  <2> QED BY <1>1, <2>1, <2>5, <2>6, <2>7, SideGoesOn
<1> QED BY <1>2, <1>3

LEMMA DeviceCallInv ==
  ASSUME NeuronInv, NEW how \in {"good", "wrong", "raises"}, NEW tr \in Traces, DeviceCall(how, tr)
  PROVE  NeuronInv'
<1>1. side # None /\ side.phase = "device" /\ side \in Sides /\ Counts(side) /\ Inputs(side)
  BY DEF DeviceCall, NeuronInv, SideInv
<1>2. CASE how = "raises" \/ Mixed(tr)
  BY <1>1, <1>2, ResultsAre, SideEndsInv DEF DeviceCall
<1>3. CASE how # "raises" /\ ~Mixed(tr)
  <2> DEFINE s == Called(side, how)
  <2>1. /\ side' = [s EXCEPT !.iters = Append(@, tr), !.n = @ + 1,
                             !.phase = IF side.n + 1 = NativeRepeat THEN "judge" ELSE @]
        /\ UNCHANGED case
    BY <1>3 DEF DeviceCall
  <2>2. /\ s \in Sides /\ s.calls = side.calls + 1 /\ s.n = side.n /\ s.iters = side.iters /\ s.name = side.name
        /\ s.phase = "device" /\ Inputs(s)
    BY <1>1, CallIs, CallInputs
  <2>3. s.n \in Nat /\ s.iters \in Seq(Profiled)
    BY <2>2 DEF Sides
  <2> HIDE DEF s
  <2>4. Append(s.iters, tr) \in Seq(Profiled) /\ Len(Append(s.iters, tr)) = Len(s.iters) + 1
    <3>1. tr \in Profiled
      BY <1>3 DEF Profiled
    <3> QED BY <2>3, <3>1
  <2> DEFINE ph == IF side.n + 1 = NativeRepeat THEN "judge" ELSE "device"
             its == Append(s.iters, tr)
  <2>a. side' = [s EXCEPT !.iters = its, !.n = side.n + 1, !.phase = ph]
    BY <2>1, <2>2
  <2>b. side.n + 1 \in Nat /\ ph \in {"device", "judge"} /\ its \in Seq(Profiled) /\ Len(its) = Len(side.iters) + 1
    BY <2>2, <2>3, <2>4
  <2>5. /\ side' \in Sides
        /\ side'.n = side.n + 1
        /\ side'.phase = (IF side.n + 1 = NativeRepeat THEN "judge" ELSE "device")
        /\ side'.calls = side.calls + 1 /\ Len(side'.iters) = Len(side.iters) + 1 /\ side'.name = side.name
        /\ side'.from = s.from /\ side'.inputs = s.inputs /\ side'.right = s.right /\ side'.mutates = s.mutates
        /\ side'.calls = s.calls
    <3> HIDE DEF ph, its
    <3>1. /\ side' \in Sides /\ side'.n = side.n + 1 /\ side'.phase = ph
          /\ side'.calls = s.calls /\ side'.iters = its /\ side'.name = s.name
          /\ side'.from = s.from /\ side'.inputs = s.inputs /\ side'.right = s.right /\ side'.mutates = s.mutates
      BY <2>a, <2>b, <2>2 DEF Sides
    <3> QED BY <2>b, <2>2, <3>1 DEF ph
  <2>6. Counts(side')
    <3>1. /\ side.n \in Nat /\ side.calls = 1 + NativeWarmup + NativeRepeat + side.n /\ Len(side.iters) = side.n
          /\ side.n < NativeRepeat
      BY <1>1 DEF Sides, Counts
    <3> QED BY <2>5, <3>1, LoopsAssumption DEF Counts
  <2>7. Inputs(side')
    BY <2>2, <2>5 DEF Inputs
  <2> QED BY <1>1, <2>1, <2>5, <2>6, <2>7, SideGoesOn
<1> QED BY <1>2, <1>3

LEMMA CaseStepInv ==
  ASSUME NeuronInv,
         \/ Judge \/ Escape \/ EndCase \/ UNCHANGED neuronVars
         \/ \E unresolved \in BOOLEAN : StartCase(unresolved)
         \/ \E from \in ChangesFrom : Measure(from)
  PROVE  NeuronInv'
<1>1. CASE Judge
  <2>1. side # None
    BY <1>1 DEF Judge
  <2>2. Mean(side) \in {0, 1}
    BY DEF Mean
  <2>3. \E res : ResultInv(res) /\ SideEnds(res)
    <3>1. ResultInv(IF Acceptable(side) THEN [Untimed EXCEPT !.ms = Mean(side)] ELSE Untimed)
      BY <2>2, ResultsAre
    <3> QED BY <1>1, <3>1 DEF Judge
  <2> QED BY <2>1, <2>3, SideEndsInv
<1>2. CASE Escape
  <2>1. side # None /\ side' = None /\ case' = [case EXCEPT !.next = "end"]
    BY <1>2 DEF Escape
  <2>2. case # None /\ case \in MeasuredCases
    BY <2>1 DEF NeuronInv, CaseInv
  <2>3. /\ case' \in MeasuredCases /\ case'.got = case.got /\ case'.unresolved = case.unresolved /\ case'.next = "end"
    BY <2>1, <2>2 DEF MeasuredCases
  <2>4. CaseInv'
    BY <2>2, <2>3 DEF NeuronInv, CaseInv, ResultInv, Results, MeasuredCases, Nothing
  <2> QED BY <2>1, <2>4 DEF NeuronInv, SideInv
<1>3. CASE EndCase
  <2>1. side' = None /\ case' = None
    BY <1>3 DEF EndCase
  <2> QED BY <2>1 DEF NeuronInv, SideInv, CaseInv
<1>4. CASE UNCHANGED neuronVars
  BY <1>4 DEF neuronVars, NeuronInv, SideInv, CaseInv, Counts, Inputs, Sides, MeasuredCases, ResultInv, Results, Nothing
<1>5. ASSUME NEW unresolved \in BOOLEAN, StartCase(unresolved) PROVE NeuronInv'
  <2>1. /\ case = None /\ side' = side
        /\ case' = [unresolved |-> unresolved, next |-> IF unresolved THEN "nki" ELSE "torch",
                    got |-> [x \in {"torch", "nki"} |-> Nothing]]
    BY <1>5 DEF StartCase
  <2>2. side = None
    BY <2>1 DEF NeuronInv
  <2>3. Nothing \in Results /\ ResultInv(Nothing)
    BY ResultsAre DEF ResultInv
  <2>4. /\ case' \in MeasuredCases /\ case'.unresolved = unresolved
        /\ case'.next = (IF unresolved THEN "nki" ELSE "torch") /\ \A x \in {"torch", "nki"} : case'.got[x] = Nothing
    BY <2>1, <2>3 DEF MeasuredCases
  <2>5. CaseInv'
    BY <2>3, <2>4 DEF CaseInv, ResultInv, Results, MeasuredCases, Nothing
  <2> QED BY <2>1, <2>2, <2>5 DEF NeuronInv, SideInv
<1>6. ASSUME NEW from \in ChangesFrom, Measure(from) PROVE NeuronInv'
  <2>1. case # None /\ case' = case /\ case.next \in {"torch", "nki"} /\ side' = NewSide(case.next, from) /\ from \in Nat
    BY <1>6, ChangesFromAssumption DEF Measure
  <2>2. side' \in Sides /\ side'.name = case.next /\ Counts(side') /\ Inputs(side')
    <3>1. <<>> \in Seq(Profiled) /\ Len(<<>>) = 0
      OBVIOUS
    <3> QED BY <2>1, <3>1 DEF NewSide, Sides, Counts, Inputs
  <2>3. SideInv'
    BY <2>2 DEF SideInv, Counts, Inputs, Sides
  <2>4. CaseInv'
    BY <2>1 DEF NeuronInv, CaseInv, ResultInv, Results, MeasuredCases, Nothing
  <2> QED BY <2>1, <2>2, <2>3, <2>4 DEF NeuronInv
<1> QED BY <1>1, <1>2, <1>3, <1>4, <1>5, <1>6

LEMMA NeuronInvInductive ==
  /\ NeuronInit => NeuronInv
  /\ NeuronInv /\ [NeuronNext]_neuronVars => NeuronInv'
<1>1. NeuronInit => NeuronInv
  BY DEF NeuronInit, NeuronInv, SideInv, CaseInv
<1>2. ASSUME NeuronInv, [NeuronNext]_neuronVars PROVE NeuronInv'
  BY <1>2, FirstCallInv, HostCallInv, DeviceCallInv, CaseStepInv DEF NeuronNext
<1> QED BY <1>1, <1>2

\* What the counts, the inputs and the traces of an accepted time say.
LEMMA AcceptedIsEarned ==
  ASSUME NeuronInv, side # None, side.phase = "judge", Acceptable(side)
  PROVE  /\ Len(side.iters) = NativeRepeat
         /\ side.calls = 1 + NativeWarmup + 2 * NativeRepeat
         /\ side.mutates \/ side.from = 0 \/ side.from >= side.calls
         /\ \A i \in DOMAIN side.iters : ExecutionIds(side.iters[i]) # {} /\ ~Mixed(side.iters[i])
         /\ \A i, j \in DOMAIN side.iters :
              ModelIds(Executions(side.iters[i])) = ModelIds(Executions(side.iters[j]))
         /\ \A i \in DOMAIN side.iters : AggregatesAreTrue(side.iters[i])
<1>1. side \in Sides /\ Counts(side) /\ Inputs(side)
  BY DEF NeuronInv, SideInv
<1>2. Len(side.iters) = NativeRepeat /\ side.calls = 1 + NativeWarmup + 2 * NativeRepeat
  BY <1>1 DEF Counts
<1>3. side.mutates \/ side.from = 0 \/ side.from >= side.calls
  BY <1>1 DEF Inputs, Acceptable
<1>4. \A i \in DOMAIN side.iters : IsTrace(side.iters[i]) /\ side.iters[i] # <<>> /\ ~Mixed(side.iters[i])
  <2>1. \A i \in DOMAIN side.iters : side.iters[i] \in Traces /\ ~Mixed(side.iters[i])
    <3>1. side.iters \in Seq(Profiled)
      BY <1>1 DEF Sides
    <3> QED BY <3>1 DEF Profiled
  <2> QED BY <2>1, TracesAssumption DEF IsTrace, Acceptable
<1>5. \A i \in DOMAIN side.iters : ExecutionIds(side.iters[i]) # {}
  <2> TAKE i \in DOMAIN side.iters
  <2>1. PICK tr : tr = side.iters[i] /\ IsTrace(tr) /\ tr # <<>>
    BY <1>4
  <2>2. Len(tr) \in Nat /\ Len(tr) # 0
    BY <2>1 DEF IsTrace
  <2>3. tr[1] \in ToSet(tr)
    BY <2>1, <2>2, TraceIs
  <2> QED BY <2>1, <2>3 DEF ExecutionIds
<1>6. \A i \in DOMAIN side.iters : AggregatesAreTrue(side.iters[i])
  BY <1>4, AggregatesTrue
<1> QED BY <1>2, <1>3, <1>4, <1>5, <1>6 DEF Acceptable

LEMMA NeuronInvEarns == NeuronInv => DeviceTimeIsEarned
<1> SUFFICES ASSUME NeuronInv PROVE DeviceTimeIsEarned
  OBVIOUS
<1>1. ASSUME case # None, Speedup
      PROVE  TorchStatus = "ok" /\ NkiStatus = "ok" /\ case.got["torch"].ok /\ case.got["nki"].ok
  <2>1. ResultInv(case.got["torch"]) /\ ResultInv(case.got["nki"]) /\ (case.unresolved => case.got["torch"] = Nothing)
    BY <1>1 DEF NeuronInv, CaseInv
  <2>2. HasTime(case.got["torch"]) /\ HasTime(case.got["nki"])
    BY <1>1 DEF Speedup
  <2>3. ~case.unresolved
    BY <2>1, <2>2 DEF HasTime, Nothing
  <2> QED BY <2>1, <2>2, <2>3 DEF HasTime, ResultInv, TorchStatus, NkiStatus
<1> QED BY <1>1, AcceptedIsEarned DEF DeviceTimeIsEarned

\* For every number of warm-up and timed calls and whatever the profiler records: an
\* accepted device time is of as many calls as were asked for, which all ran the same
\* programs, the last on inputs nobody had overwritten; its busy sum and its union are
\* those of the recorded copies, every execution from the first start of a copy to the last
\* end of one; and a speedup compares two verified, timed sides.
THEOREM DeviceTimeIsAlwaysEarned == NeuronSpec => []DeviceTimeIsEarned
<1>1. NeuronInv => DeviceTimeIsEarned
  BY NeuronInvEarns
<1> QED BY <1>1, NeuronInvInductive, PTL DEF NeuronSpec
=============================================================================
