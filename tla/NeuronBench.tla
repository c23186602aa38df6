----------------------------- MODULE NeuronBench -----------------------------
(***************************************************************************)
(* The Trainium measurement of a case on the native PyTorch Neuron stack    *)
(* (core/neuron_native.py, neuron_intervals.py, the Neuron branch of        *)
(* core/engine.py): PyTorch eager, then NKI, each verified, warmed up,     *)
(* timed on the host, and timed again with every call in a profiler        *)
(* session of its own, whose device executions give the latency.           *)
(*                                                                         *)
(* A trace is what a session recorded: a sequence of executions' copies,   *)
(* [model, flow, start, end]; the copies of one execution on several cores *)
(* share its flow.                                                         *)
(***************************************************************************)
EXTENDS Absence, Sums, Sequences, SequencesExt

CONSTANTS
  Traces,        \* what the profiler may record of a call
  ChangesFrom,   \* from which of its calls on an implementation overwrites its inputs; 0: never
  NativeWarmup, NativeRepeat,
  MaxCases, MaxNativeFaults

VARIABLES
  case,     \* the case being measured: None, or whether its baseline is unresolved, and what each side got
  side,     \* the measurement under way, or None
  done      \* bounds: cases started, faults so far

neuronVars == <<case, side, done>>

\* The warm-up may be left out; statistics.fmean refuses a loop without a call.
ASSUME LoopsAssumption == NativeWarmup \in Nat /\ NativeRepeat \in Nat \ {0}
ASSUME ChangesFromAssumption == ChangesFrom \subseteq Nat
\* _union_length refuses an execution that ends before it starts: the call raises.
ASSUME TracesAssumption ==
  \A trace \in Traces : trace \in Seq(ToSet(trace)) /\ \A e \in ToSet(trace) : e.start \in Nat /\ e.end \in Nat /\ e.start <= e.end
ASSUME NoIntervalAssumption == None \notin Nat /\ None \notin Nat \X Nat
-----------------------------------------------------------------------------
(* nki_timer.load_executions *)

Flows(trace) == {c.flow : c \in ToSet(trace)}
Copies(trace, f) == {c \in ToSet(trace) : c.flow = f}

\* The copies of a flow name two models: the session is refused.
Mixed(trace) == \E a, b \in ToSet(trace) : a.flow = b.flow /\ a.model # b.model

\* The copies of a flow are one execution, from the first start to the last end.
MergedCopies(trace, f) ==
  [model |-> (CHOOSE c \in Copies(trace, f) : TRUE).model, flow |-> f,
   start |-> Min({c.start : c \in Copies(trace, f)}), end |-> Max({c.end : c \in Copies(trace, f)})]

\* One execution per flow, as a list; aggregate sorts it anew.
Executions(trace) == SetToSeq({MergedCopies(trace, f) : f \in Flows(trace)})
-----------------------------------------------------------------------------
(* neuron_intervals.py, over a list of executions *)

Interval(e) == <<e.start, e.end>>
Before(a, b) == a[1] < b[1] \/ (a[1] = b[1] /\ a[2] < b[2])

\* sorted: the intervals of those at the positions D, in order.
InOrder(es, p) == \A i, j \in DOMAIN p : i < j => ~Before(Interval(es[p[j]]), Interval(es[p[i]]))
Sorted(es, D) ==
  LET p == CHOOSE p \in Bijection(1 .. Cardinality(D), D) : InOrder(es, p)
  IN  [i \in 1 .. Cardinality(D) |-> Interval(es[p[i]])]

\* _union_length: one pass over the sorted intervals, extending or closing the current one.
Length(cur) == IF cur = None THEN 0 ELSE cur[2] - cur[1]
Swept(acc, iv) ==
  IF acc.cur = None \/ iv[1] > acc.cur[2] THEN [total |-> acc.total + Length(acc.cur), cur |-> iv]
  ELSE [acc EXCEPT !.cur = <<@[1], IF iv[2] > @[2] THEN iv[2] ELSE @[2]>>]
Pass(ivs) ==
  LET acc[n \in 0 .. Len(ivs)] == IF n = 0 THEN [total |-> 0, cur |-> None] ELSE Swept(acc[n - 1], ivs[n])
  IN  acc[Len(ivs)]
UnionLength(es, D) == LET last == Pass(Sorted(es, D)) IN last.total + Length(last.cur)

\* aggregate: what has one execution id is united, then the executions are summed.
Execution(e) == <<e.model, e.flow>>
ExecutionIds(es) == {Execution(e) : e \in ToSet(es)}
BusySum(es) ==
  Total([x \in ExecutionIds(es) |-> UnionLength(es, {i \in DOMAIN es : Execution(es[i]) = x})])
Span(es) == Max({e.end : e \in ToSet(es)}) - Min({e.start : e \in ToSet(es)})

\* model_ids of a call, as a multiset: one per execution.
ModelIds(es) ==
  [m \in {e.model : e \in ToSet(es)} |-> Cardinality({i \in DOMAIN es : es[i].model = m})]
-----------------------------------------------------------------------------
(* neuron_native._measure *)

NewSide(name, from) ==
  [name |-> name, phase |-> "first", n |-> 0, from |-> from, calls |-> 0, inputs |-> "pristine",
   mutates |-> FALSE, right |-> FALSE, iters |-> <<>>]

Nothing == [ok |-> FALSE, unsupported |-> FALSE, ms |-> None]

Outcome(how) ==
  IF how = "good" THEN UNCHANGED done
  ELSE done.faults < MaxNativeFaults /\ done' = [done EXCEPT !.faults = @ + 1]

\* args(): fresh inputs for every call, if the first one was seen to change its own.
Given(s) == IF s.mutates THEN "pristine" ELSE s.inputs

\* The measurement after a call: what became of its inputs, whether its output is the reference.
Called(s, how) ==
  [s EXCEPT !.calls = @ + 1,
            !.inputs = IF s.from > 0 /\ s.calls + 1 >= s.from THEN "changed" ELSE Given(s),
            !.right = how = "good" /\ Given(s) = "pristine"]

\* The result of a side goes into neuron_result; NKI follows PyTorch.
SideEnds(res) ==
  /\ side' = None
  /\ case' = [case EXCEPT !.got[side.name] = res, !.next = IF side.name = "torch" THEN "nki" ELSE "end"]

\* First call: compiles; its output must verify, its inputs are compared with the originals.
FirstCall(how) ==
  /\ side # None /\ side.phase = "first"
  /\ Outcome(how)
  /\ CASE how = "raises" -> SideEnds(Nothing)
       [] how = "unsupported" -> SideEnds([Nothing EXCEPT !.unsupported = TRUE])
       [] how = "wrong" -> SideEnds(Nothing)
       [] OTHER -> LET s == Called(side, how)
                   IN  /\ side' = [s EXCEPT !.phase = IF NativeWarmup = 0 THEN "wall" ELSE "warmup", !.mutates = s.inputs = "changed"]
                       /\ UNCHANGED case

\* A verified side whose loop raised, or whose device time is refused: ok without a time.
Untimed == [Nothing EXCEPT !.ok = TRUE]

\* Warm-up, then synchronized calls timed on the host.
HostCall(how) ==
  /\ side # None /\ side.phase \in {"warmup", "wall"}
  /\ Outcome(how)
  /\ IF how = "raises" THEN SideEnds(Untimed)
     ELSE LET s == Called(side, how)
              last == side.n + 1 = IF side.phase = "warmup" THEN NativeWarmup ELSE NativeRepeat
          IN  /\ side' = [s EXCEPT !.n = IF last THEN 0 ELSE @ + 1,
                                   !.phase = IF last THEN IF side.phase = "warmup" THEN "wall" ELSE "device"
                                             ELSE @]
              /\ UNCHANGED case

\* _device_call: a call inside its own profiler session, whose executions are loaded.
DeviceCall(how, trace) ==
  /\ side # None /\ side.phase = "device"
  /\ Outcome(how)
  /\ IF how = "raises" \/ Mixed(trace) THEN SideEnds(Untimed)
     ELSE LET s == Called(side, how)
          IN  /\ side' = [s EXCEPT !.iters = Append(@, trace), !.n = @ + 1,
                                   !.phase = IF side.n + 1 = NativeRepeat THEN "judge" ELSE @]
              /\ UNCHANGED case

\* Mutant of Acceptable: only the first call's output is verified.
AcceptableByTrace(s) ==
  /\ \A i \in DOMAIN s.iters : s.iters[i] # <<>>
  /\ \A i, j \in DOMAIN s.iters : ModelIds(Executions(s.iters[i])) = ModelIds(Executions(s.iters[j]))

\* The time is accepted only if the last profiled output verifies, every call ran
\* something, and all ran the same executables.
Acceptable(s) ==
  /\ s.right
  /\ \A i \in DOMAIN s.iters : s.iters[i] # <<>>
  /\ \A i, j \in DOMAIN s.iters : ModelIds(Executions(s.iters[i])) = ModelIds(Executions(s.iters[j]))

\* The mean of the calls' busy sums; what is formed from it depends on its sign alone.
Mean(s) == IF \E i \in DOMAIN s.iters : BusySum(Executions(s.iters[i])) > 0 THEN 1 ELSE 0

Judge ==
  /\ side # None /\ side.phase = "judge"
  /\ SideEnds(IF Acceptable(side) THEN [Untimed EXCEPT !.ms = Mean(side)] ELSE Untimed)
  /\ UNCHANGED done

\* What escapes _measure (moving the last output to the host, verify itself) ends the
\* case: NKI is not run after PyTorch, and what PyTorch got before is kept.
Escape ==
  /\ side # None /\ side.phase \in {"first", "judge"}
  /\ Outcome("escape")
  /\ side' = None /\ case' = [case EXCEPT !.next = "end"]
-----------------------------------------------------------------------------
(* The engine's case *)

StartCase(unresolved) ==
  /\ case = None /\ done.cases < MaxCases
  /\ case' = [unresolved |-> unresolved, next |-> IF unresolved THEN "nki" ELSE "torch",
              got |-> [x \in {"torch", "nki"} |-> Nothing]]
  /\ done' = [done EXCEPT !.cases = @ + 1]
  /\ UNCHANGED side

Measure(from) ==
  /\ case # None /\ side = None /\ case.next \in {"torch", "nki"}
  /\ side' = NewSide(case.next, from)
  /\ UNCHANGED <<case, done>>

\* speedup: needs both times, both positive.
HasTime(res) == res.ms # None /\ res.ms > 0
Speedup == HasTime(case.got["torch"]) /\ HasTime(case.got["nki"])

TorchStatus == IF case.unresolved THEN "unresolved" ELSE IF HasTime(case.got["torch"]) THEN "ok" ELSE "failed"
NkiStatus ==
  IF case.got["nki"].unsupported THEN "unsupported"
  ELSE IF case.got["nki"].ok /\ case.got["nki"].ms # None THEN "ok" ELSE "failed"

EndCase ==
  /\ case # None /\ side = None /\ case.next = "end"
  /\ case' = None
  /\ UNCHANGED <<side, done>>

NeuronInit == case = None /\ side = None /\ done = [cases |-> 0, faults |-> 0]

NeuronNext ==
  \/ \E unresolved \in BOOLEAN : StartCase(unresolved)
  \/ \E from \in ChangesFrom : Measure(from)
  \/ \E how \in {"good", "wrong", "raises", "unsupported"} : FirstCall(how)
  \/ \E how \in {"good", "wrong", "raises"} : HostCall(how)
  \/ \E how \in {"good", "wrong", "raises"}, trace \in Traces : DeviceCall(how, trace)
  \/ Judge
  \/ Escape
  \/ EndCase

NeuronSpec == NeuronInit /\ [][NeuronNext]_neuronVars
-----------------------------------------------------------------------------
(* Properties *)

\* The nanoseconds at which an execution was under way: a copy of it had started, and a
\* copy had not ended.
Stretch(trace, x) ==
  UNION {a.start .. (b.end - 1) : a, b \in {c \in ToSet(trace) : Execution(c) = x}}

\* What the numbers of a call say, against the copies the profiler recorded: the busy sum
\* counts the time from first start to last end of every execution once, the union every
\* such nanosecond once, and the union exceeds neither the busy sum nor the span.
AggregatesAreTrue(trace) ==
  LET es == Executions(trace)
      busy == BusySum(es)
      union == UnionLength(es, DOMAIN es)
  IN  /\ busy = Total([x \in ExecutionIds(trace) |-> Cardinality(Stretch(trace, x))])
      /\ union = Cardinality(UNION {Stretch(trace, x) : x \in ExecutionIds(trace)})
      /\ union <= busy /\ union <= Span(es)

\* A time that is about to be accepted was measured on NativeRepeat calls which all executed
\* something, of the same programs equally often, the last on inputs no call had overwritten
\* (an implementation that changes its inputs got fresh ones, or is refused), and its numbers are
\* those of the recorded copies, of which no two of one flow name different programs; and a speedup
\* stands on two sides that were both verified and timed, of a baseline that was run.
DeviceTimeIsEarned ==
  /\ side # None /\ side.phase = "judge" /\ Acceptable(side) =>
       /\ Len(side.iters) = NativeRepeat
       /\ side.calls = 1 + NativeWarmup + 2 * NativeRepeat
       /\ side.mutates \/ side.from = 0 \/ side.from >= side.calls
       /\ \A i \in DOMAIN side.iters : ExecutionIds(side.iters[i]) # {} /\ ~Mixed(side.iters[i])
       /\ \A i, j \in DOMAIN side.iters :
            ModelIds(Executions(side.iters[i])) = ModelIds(Executions(side.iters[j]))
       /\ \A i \in DOMAIN side.iters : AggregatesAreTrue(side.iters[i])
  /\ case # None /\ Speedup =>
       /\ TorchStatus = "ok" /\ NkiStatus = "ok"
       /\ case.got["torch"].ok /\ case.got["nki"].ok
-----------------------------------------------------------------------------
(* What a docstring says *)

\* neuron_intervals.py:7-8: busy_sum is the "sum over executions of each execution's duration,
\* where the per-core copies of one execution are merged (union) first".  It does not hold:
\* load_executions has merged the copies before, into one interval that contains the gap
\* between two copies that do not overlap.
BusyIsOfUnions ==
  side # None /\ side.phase = "judge" =>
    \A i \in DOMAIN side.iters :
      LET covered(x) == UNION {c.start .. (c.end - 1) : c \in {c \in ToSet(side.iters[i]) : Execution(c) = x}}
      IN  BusySum(Executions(side.iters[i]))
            = Total([x \in ExecutionIds(side.iters[i]) |-> Cardinality(covered(x))])
==============================================================================
