---------------------------- MODULE NkiAutotune ----------------------------
(***************************************************************************)
(* The NKI tuner and the replay of its winners in another process          *)
(* (core/nki_autotune.py).                                                 *)
(*                                                                         *)
(* A selector process runs the operator once; every tuner call sweeps its  *)
(* search space, one candidate per step here, and records the winner.  The *)
(* exported trace is installed in the profiling process, which calls the   *)
(* operator again and must use those winners, every one of them, without   *)
(* timing anything.  Between the two the code may have changed.            *)
(***************************************************************************)
EXTENDS Absence, Integers, Sequences, FiniteSets, SequencesExt

CONSTANTS
  Paths,        \* the tuner calls of one run(): sequences of shape keys
  Spaces,       \* search spaces: sequences of candidates [form, config]
  DeviceTime,   \* what each config really takes on the device
  Overheads,    \* what the host adds to a wall-clock time
  Kinds,        \* "good", "no_benchmark" (only the wall clock can time it), "invalid"
  Runs          \* calls of run() in the profiling process

VARIABLES
  process,    \* "selector", "profile"; then "done" or "failed"
  timer,      \* the tuner's timing method
  tuned,      \* the tuner's cache, by canonical key
  trace,      \* _TUNING_TRACE
  replay,     \* _REPLAY
  sweep,      \* the sweep in progress
  calls,      \* tuner calls still to be made
  code,       \* the search space and which candidates fail
  winners,    \* history: what the selector chose
  used        \* history: configs the profiling process ran, with how each was obtained

autotuneVars == <<process, timer, tuned, trace, replay, sweep, calls, code, winners, used>>

\* canonical_shape_key and canonical_config: a tuple is a list, an object its public
\* fields; what identifies a winner is the value.
Canonical(key) == key.value
Config(cand) == cand.config

\* _record_trace: an identical record is not repeated.
WithRecord(tr, key, cfg) ==
  LET rec == [key |-> key, config |-> cfg]
  IN  IF Contains(tr, rec) THEN tr ELSE Append(tr, rec)

\* install_tuning_replay: duplicates collapse, a conflict refuses.
Conflicting(records) == \E r, s \in ToSet(records) : r.key = s.key /\ r.config # s.config
Installed(records) == [records |-> records, consumed |-> {}]

Fails(because) ==
  /\ process' = "failed"
  /\ UNCHANGED <<timer, tuned, trace, replay, sweep, calls, code, winners, used>>

NextKey == Canonical(Head(calls))
-----------------------------------------------------------------------------
(* A sweep *)

\* What one candidate gives: a time and the method in force after it.  "auto" turns
\* into "wallclock" for good the first time the device benchmark fails.
Timings(kind, method, cfg) ==
  LET benchmark == {[ms |-> DeviceTime[cfg], timer |-> method]}
      wallclock == {[ms |-> DeviceTime[cfg] + o, timer |-> "wallclock"] : o \in Overheads}
  IN  CASE method \in {"native", "benchmark"} -> IF kind = "good" THEN benchmark ELSE {}
        [] method = "wallclock" -> IF kind = "invalid" THEN {} ELSE wallclock
        [] OTHER -> IF kind = "good" THEN benchmark ELSE IF kind = "invalid" THEN {} ELSE wallclock

\* Who failed in "auto" had its benchmark tried first.
TimerAfterFailure(method) == IF method = "auto" THEN "wallclock" ELSE method

\* tune_or_cached without a replay: the cache, or a new sweep.
Cached ==
  /\ process = "selector" /\ calls # <<>> /\ sweep = None
  /\ NextKey \in DOMAIN tuned
  /\ trace' = WithRecord(trace, NextKey, tuned[NextKey])
  /\ calls' = Tail(calls)
  /\ UNCHANGED <<process, timer, tuned, replay, sweep, code, winners, used>>

Sweep ==
  /\ process = "selector" /\ calls # <<>> /\ sweep = None
  /\ NextKey \notin DOMAIN tuned
  /\ sweep' = [next |-> 1, best |-> None, ms |-> None]
  /\ UNCHANGED <<process, timer, tuned, trace, replay, calls, code, winners, used>>

\* A tie keeps the earlier candidate.
Faster(t) == sweep.best = None \/ t.ms < sweep.ms

TimeCandidate ==
  /\ process = "selector" /\ sweep # None
  /\ sweep.next <= Len(code.space)
  /\ LET cfg == Config(code.space[sweep.next])
         timings == Timings(code.kind[cfg], timer, cfg)
     IN  \/ /\ timings = {}
            /\ timer' = TimerAfterFailure(timer)
            /\ sweep' = [sweep EXCEPT !.next = @ + 1]
         \/ \E t \in timings :
              /\ timer' = t.timer
              /\ sweep' = IF Faster(t) THEN [next |-> sweep.next + 1, best |-> cfg, ms |-> t.ms]
                          ELSE [sweep EXCEPT !.next = @ + 1]
  /\ UNCHANGED <<process, tuned, trace, replay, calls, code, winners, used>>

\* No candidate left: the winner is recorded and cached, or the operator fails.
Choose ==
  /\ process = "selector" /\ sweep # None
  /\ sweep.next > Len(code.space)
  /\ IF sweep.best = None THEN Fails("all candidates failed")
     ELSE /\ trace' = WithRecord(trace, NextKey, sweep.best)
          /\ tuned' = [k \in DOMAIN tuned \cup {NextKey} |-> IF k = NextKey THEN sweep.best ELSE tuned[k]]
          /\ sweep' = None
          /\ calls' = Tail(calls)
          /\ UNCHANGED <<process, timer, replay, code, winners, used>>
-----------------------------------------------------------------------------
(* The profiling process: export, install, replay *)

RepeatedPath(path) == IF Runs = 1 THEN path ELSE path \o path

\* A fresh interpreter, with the code as it is by now.
Export(path, space) ==
  /\ process = "selector" /\ calls = <<>>
  /\ process' = IF Conflicting(trace) THEN "failed" ELSE "profile"
  /\ winners' = trace
  /\ replay' = Installed(trace)
  /\ trace' = <<>> /\ tuned' = <<>>
  /\ calls' = RepeatedPath(path)
  /\ code' = [code EXCEPT !.space = space]
  /\ UNCHANGED <<timer, sweep, used>>

RecordOf(key) == {r \in ToSet(replay.records) : r.key = key}
Matching(cfg) == {i \in DOMAIN code.space : Config(code.space[i]) = cfg}

\* Mutant of Usable: the first of several candidates that look like the winner is taken
\* for it, and an unknown key, or a winner that is gone, takes any candidate.
AnyCandidate(key) == {[r \in {"key", "config"} |-> IF r = "key" THEN key ELSE Config(code.space[i])] : i \in {1}}

\* _replay_lookup, strict: the recorded winner, if exactly one candidate is it.
Usable(key) == {r \in RecordOf(key) : Cardinality(Matching(r.config)) = 1}

Replay ==
  /\ process = "profile" /\ calls # <<>>
  /\ IF Usable(NextKey) = {} THEN Fails("no record, or no single candidate")
     ELSE \E r \in Usable(NextKey) :
            /\ replay' = [replay EXCEPT !.consumed = @ \cup {r}]
            /\ trace' = WithRecord(trace, NextKey, r.config)
            /\ used' = used \cup {[key |-> NextKey, config |-> r.config]}
            /\ calls' = Tail(calls)
            /\ UNCHANGED <<process, timer, tuned, sweep, code, winners>>

AllConsumed == calls = <<>> /\ replay.consumed = ToSet(replay.records)

\* assert_tuning_replay_consumed
Finish ==
  /\ process = "profile" /\ calls = <<>>
  /\ process' = IF AllConsumed THEN "done" ELSE "failed"
  /\ UNCHANGED <<timer, tuned, trace, replay, sweep, calls, code, winners, used>>
-----------------------------------------------------------------------------
Configs == DOMAIN DeviceTime

AutotuneInit ==
  /\ process = "selector"
  /\ timer \in {"auto", "native", "wallclock"}
  /\ tuned = <<>> /\ trace = <<>> /\ winners = <<>>
  /\ replay = None /\ sweep = None
  /\ calls \in Paths
  /\ code \in [space : Spaces, kind : [Configs -> Kinds]]
  /\ used = {}

AutotuneNext ==
  \/ Cached \/ Sweep \/ TimeCandidate \/ Choose
  \/ \E path \in Paths, space \in Spaces : Export(path, space)
  \/ Replay \/ Finish

AutotuneSpec == AutotuneInit /\ [][AutotuneNext]_autotuneVars
-----------------------------------------------------------------------------
(* Properties *)

\* A profile that is not refused ran the selector's winner for every key the selector tuned
\* and for no other, each one unmistakable in today's search space, and says so in a trace
\* of its own that equals the selector's.
ReplayIsExact ==
  /\ process = "done" =>
       /\ ToSet(trace) = ToSet(winners) /\ used = ToSet(winners)
       /\ \A u \in used : Cardinality(Matching(u.config)) = 1
  /\ process \in {"profile", "done"} =>
       \A u \in used : \A w \in ToSet(winners) : u.key = w.key => u.config = w.config
-----------------------------------------------------------------------------
(* What comments and documents say and the code does not keep *)

\* "Time every config in search_space once per shape_key and return the fastest", says
\* tune_or_cached: no candidate that the device can time is faster on it than the winner.
\* A candidate whose benchmark fails moves the rest of the sweep to the wall clock, whose
\* times, the same constant above the device's for all, are compared with the earlier ones.
FastestIsChosen ==
  process = "selector" =>
    \A w \in ToSet(trace), i \in DOMAIN code.space :
      LET c == Config(code.space[i])
      IN  code.kind[c] = "good" => DeviceTime[w.config] <= DeviceTime[c]
=============================================================================
