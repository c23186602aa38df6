------------------------------- MODULE Benchmark -------------------------------
(***************************************************************************)
(* The benchmark engine on a GPU host and the files its drivers keep       *)
(* (core/engine.py, timer.py, prepared_timer.py, verifier.py,              *)
(* scripts/run_bench.py, run_bench_all.py, aggregate_results.py).          *)
(*                                                                         *)
(* A driver's process runs the suite of an operator case by case: inputs,  *)
(* reference, PyTorch's time, then each backend's run, verification and    *)
(* time, all on the same input tensors.  run_bench writes the summary CSV  *)
(* of its namespace, whose rows are found again by their parameter label;  *)
(* a run of TileLang alone merges into it.                                 *)
(***************************************************************************)
EXTENDS Absence, Integers, Sequences, FiniteSets, SequencesExt, Functions

CONSTANTS
  Cases,        \* the operator's cases: a sequence of [params, dtype]
  Backends,     \* the GPU backends, in canonical order
  Selections,   \* the backend selections of run_bench: sequences
  Indices,      \* the case selections of run_bench: sequences of indices
  OperatorList, \* what one run_bench_all runs: a sequence
  Graph,        \* is CUDA graph timing requested, on a host that has it?
  Faults,       \* how a backend's run may go, apart from "good"
  MaxRuns, MaxBenchFaults

\* parse_backends and main refuse a selection of other backends than the host's.
ASSUME SelectionsAssumption == \A active \in Selections : ToSet(active) \subseteq ToSet(Backends)

VARIABLES
  csv,        \* the summary CSV: None, or its rows, and whether a writer was killed
  suite,      \* the process that benchmarks, or None
  listed,     \* summary.json of the last run_bench_all: None, or what it lists
  counts      \* bounds: runs started, faults so far

benchVars == <<csv, suite, listed, counts>>

Params(c) == Cases[c].params
Dtype(c) == Cases[c].dtype
\* infer_problem_size: a product, which different cases may share.
Size(c) == Params(c).rows * Params(c).cols
-----------------------------------------------------------------------------
(* Verification and timing of one backend *)

\* Whether verify() accepts: assert_close of every output that was returned with the
\* reference's, so an empty tuple passes ("fewer"), and what was computed
\* from inputs that an earlier run changed does not.
Verified(outcome, inputs) ==
  \/ outcome = "fewer"
  \/ outcome \in {"good", "inplace", "untimed", "uncaptured"} /\ inputs = "pristine"

\* Mutant of IsTimed: the time is taken whatever verify() says.
TimedAnyway(outcome, inputs) == outcome \notin {"raises", "untimed", "lost"}

\* Whether it gets a time: only if verified, and if the profile can be read.
IsTimed(outcome, inputs) == Verified(outcome, inputs) /\ outcome # "untimed"

\* _prepare_runner: a graph that cannot be captured is run eagerly; timing_mode only
\* looks at the request.
ExecutedMode(outcome) == IF Graph /\ outcome # "uncaptured" THEN "graph" ELSE "eager"
Logged == IF Graph THEN "graph" ELSE "eager"

\* A latency, by where it comes from.
Measured(backend, outcome) ==
  [run |-> counts.runs, backend |-> backend, case |-> suite.case, mode |-> ExecutedMode(outcome), outcome |-> outcome]
-----------------------------------------------------------------------------
(* The suite, one step per backend of a case *)

\* A step in which something goes wrong.
MayFault == counts.faults < MaxBenchFaults /\ counts' = [counts EXCEPT !.faults = @ + 1]
Normal(ok) == IF ok THEN UNCHANGED counts ELSE MayFault

\* The process of a driver: what it runs, what is left of the suite, what it has.
NewSuite(tool, active, cases) ==
  [tool |-> tool, active |-> active, todo |-> cases, case |-> None, at |-> "case", next |-> 1, inputs |-> "pristine",
   lost |-> FALSE, entry |-> None, results |-> <<>>, ops |-> IF tool = "all" THEN OperatorList ELSE <<>>,
   succeeded |-> <<>>, failed |-> {}]

\* run_bench: a selection of backends and of cases.
StartBench(active, cases) ==
  /\ suite = None /\ counts.runs < MaxRuns
  /\ suite' = NewSuite("bench", active, cases)
  /\ counts' = [counts EXCEPT !.runs = @ + 1]
  /\ UNCHANGED <<csv, listed>>

\* run_bench_all: every case of every operator, one process for all.
AllCases == [i \in DOMAIN Cases |-> i]
StartAll ==
  /\ suite = None /\ counts.runs < MaxRuns
  /\ suite' = NewSuite("all", Backends, AllCases)
  /\ counts' = [counts EXCEPT !.runs = @ + 1]
  /\ UNCHANGED <<csv, listed>>

\* Inputs and reference of the next case.  A case that raises is skipped; on a lost
\* device every call raises.
NewEntry(c) ==
  [case |-> c, torch |-> None, ms |-> [b \in ToSet(Backends) |-> None],
   ok |-> [b \in ToSet(Backends) |-> FALSE], timing |-> Logged]

NextCase(supported) ==
  /\ suite # None /\ suite.at = "case" /\ suite.todo # <<>>
  /\ Normal(supported \/ suite.lost)
  /\ LET c == Head(suite.todo)
     IN  suite' = IF supported /\ ~suite.lost
                  THEN [suite EXCEPT !.todo = Tail(@), !.case = c, !.inputs = "pristine",
                                     !.entry = NewEntry(c), !.at = "torch"]
                  ELSE [suite EXCEPT !.todo = Tail(@)]
  /\ UNCHANGED <<csv, listed>>

\* The baseline's time is outside every try: a failure ends the suite.
SuiteFails ==
  IF suite.tool = "bench" THEN suite' = None
  ELSE suite' = [suite EXCEPT !.failed = @ \cup {Head(suite.ops)}, !.ops = Tail(@), !.todo = AllCases,
                              !.at = "operator", !.results = <<>>]

TimeTorch(outcome) ==
  /\ suite # None /\ suite.at = "torch"
  /\ Normal(outcome = "good")
  /\ IF outcome = "untimed" THEN SuiteFails
     ELSE suite' = [suite EXCEPT !.entry.torch = Measured("torch", outcome), !.at = "backend", !.next = 1]
  /\ UNCHANGED <<csv, listed>>

\* A backend, in canonical order; whatever it raises is its own.
RunBackend(outcome) ==
  /\ suite # None /\ suite.at = "backend"
  /\ LET b == Backends[suite.next]
         active == b \in ToSet(suite.active)
         went == IF suite.lost THEN "raises" ELSE outcome
         entry == IF active
                  THEN [suite.entry EXCEPT !.ok[b] = IsTimed(went, suite.inputs),
                                           !.ms[b] = IF IsTimed(went, suite.inputs) THEN Measured(b, went) ELSE None]
                  ELSE suite.entry
         after == [suite EXCEPT !.entry = entry, !.next = @ + 1,
                                !.inputs = IF active /\ went = "inplace" THEN "changed" ELSE @,
                                !.lost = @ \/ (active /\ went = "lost")]
     IN  /\ ~active \/ suite.lost => outcome = "good"
         /\ suite' = IF suite.next < Len(Backends) THEN after
                     ELSE [after EXCEPT !.results = Append(@, entry), !.entry = None, !.case = None, !.at = "case"]
  /\ Normal(outcome = "good")
  /\ UNCHANGED <<csv, listed>>
-----------------------------------------------------------------------------
(* Labels of rows *)

\* The parameters that vary among the results of this run name a row; if none does, its size.
Varying(results) ==
  {k \in {"rows", "cols"} : \E r, s \in ToSet(results) : Params(r.case)[k] # Params(s.case)[k]}
Fallback(results, r) ==
  IF Varying(results) # {} THEN Restrict(Params(r.case), Varying(results)) ELSE [n |-> Size(r.case)]

Fits(label, c) ==
  \A k \in DOMAIN label : label[k] = IF k = "n" THEN Size(c) ELSE Params(c)[k]

\* _csv_aware_param_formatter: the one label of the CSV that fits, else the fallback.
Label(results, r) ==
  LET rows == IF csv = None THEN <<>> ELSE csv.rows
      matches == {i \in DOMAIN rows : rows[i].dtype = Dtype(r.case) /\ Fits(rows[i].label, r.case)}
  IN  IF Cardinality(matches) = 1 THEN rows[CHOOSE i \in matches : TRUE].label ELSE Fallback(results, r)
-----------------------------------------------------------------------------
(* The summary CSV *)

\* A speedup is written as the two latencies it divides; without a latency it is 0.
SpeedupOver(torch, ms) == IF ms = None \/ torch = None THEN None ELSE <<torch, ms>>

\* The plain writer: the columns of the selection only.
PlainRows(results, active) ==
  [i \in DOMAIN results |->
    LET r == results[i]
    IN  [label |-> Label(results, r), dtype |-> Dtype(r.case), torch |-> r.torch,
         ms |-> [b \in ToSet(active) |-> r.ms[b]],
         speedup |-> [b \in ToSet(active) |-> SpeedupOver(r.torch, r.ms[b])]]]

WithColumn(f, k, v) == [x \in DOMAIN f \cup {k} |-> IF x = k THEN v ELSE f[x]]

\* _merge_into_csv: the last row of a key and the last result for it count; None if a result has no row.
KeyOf(results, r) == <<Label(results, r), Dtype(r.case)>>
RowAt(rows, key) ==
  LET at == {i \in DOMAIN rows : <<rows[i].label, rows[i].dtype>> = key}
  IN  IF at = {} THEN 0 ELSE CHOOSE i \in at : \A j \in at : j <= i

MergeBaseline(row, r) == row.torch

MergedRow(results, rows, i) ==
  LET of == {j \in DOMAIN results : RowAt(rows, KeyOf(results, results[j])) = i}
      r == results[CHOOSE j \in of : \A k \in of : k <= j]
  IN  IF of = {} THEN rows[i]
      ELSE [rows[i] EXCEPT !.ms = WithColumn(@, "tilelang", r.ms["tilelang"]),
                           !.speedup = WithColumn(@, "tilelang", SpeedupOver(MergeBaseline(rows[i], r), r.ms["tilelang"]))]

Merged(results, rows) ==
  IF \E r \in ToSet(results) : RowAt(rows, KeyOf(results, r)) = 0 THEN None
  ELSE [i \in DOMAIN rows |-> MergedRow(results, rows, i)]

\* Mutant of Merges: a TileLang run writes a CSV of its own.
NeverMerges == FALSE
Merges == suite.active = <<"tilelang">> /\ csv # None

NewRows == IF Merges THEN Merged(suite.results, csv.rows) ELSE PlainRows(suite.results, suite.active)

Finished(tool) == suite # None /\ suite.tool = tool /\ suite.at = "case" /\ suite.todo = <<>>

\* run_bench's end: no results, or a refused merge, leave the CSV alone.
WriteCsv ==
  /\ Finished("bench")
  /\ csv' = IF suite.results = <<>> \/ NewRows = None THEN csv ELSE [rows |-> NewRows, torn |-> FALSE]
  /\ suite' = None
  /\ UNCHANGED <<listed, counts>>

\* The file is rewritten in place: a process that is killed leaves a prefix of it.
KilledWriting(k) ==
  /\ Finished("bench") /\ suite.results # <<>> /\ NewRows # None
  /\ k \in 0..(Len(NewRows) - 1)
  /\ MayFault
  /\ csv' = [rows |-> SubSeq(NewRows, 1, k), torn |-> TRUE]
  /\ suite' = None
  /\ UNCHANGED listed

\* run_bench_all: the results of an operator, whatever they are, are a success.
OperatorDone ==
  /\ Finished("all") /\ suite.ops # <<>>
  /\ suite' = [suite EXCEPT !.succeeded = Append(@, [op |-> Head(suite.ops), cases |-> Len(suite.results)]),
                            !.ops = Tail(@), !.todo = AllCases, !.results = <<>>, !.at = "operator"]
  /\ UNCHANGED <<csv, listed, counts>>

NextOperator ==
  /\ suite # None /\ suite.at = "operator" /\ suite.ops # <<>>
  /\ suite' = [suite EXCEPT !.at = "case"]
  /\ UNCHANGED <<csv, listed, counts>>

WriteManifest ==
  /\ suite # None /\ suite.at = "operator" /\ suite.ops = <<>>
  /\ listed' = [succeeded |-> suite.succeeded, failed |-> suite.failed]
  /\ suite' = None
  /\ UNCHANGED <<csv, counts>>
-----------------------------------------------------------------------------
(* aggregate_results: per dtype, each column over the rows that have it *)

Counted(rows, dtype, b) ==
  {i \in DOMAIN rows : rows[i].dtype = dtype /\
     IF b = "torch" THEN TRUE ELSE b \in DOMAIN rows[i].ms /\ rows[i].ms[b] # None}

\* _ratio of two means: the rows of its numerator and of its denominator.
Ratio(rows, dtype, num, den) == <<Counted(rows, dtype, num), Counted(rows, dtype, den)>>
-----------------------------------------------------------------------------
BenchInit ==
  /\ csv = None /\ suite = None /\ listed = None
  /\ counts = [runs |-> 0, faults |-> 0]

BenchNext ==
  \/ \E active \in Selections, cases \in Indices : StartBench(active, cases)
  \/ StartAll
  \/ \E supported \in BOOLEAN : NextCase(supported)
  \/ \E outcome \in {"good", "uncaptured", "untimed"} : TimeTorch(outcome)
  \/ \E outcome \in Faults \cup {"good"} : RunBackend(outcome)
  \/ WriteCsv
  \/ \E k \in 0..Len(Cases) : KilledWriting(k)
  \/ OperatorDone \/ NextOperator \/ WriteManifest

BenchSpec == BenchInit /\ [][BenchNext]_benchVars
-----------------------------------------------------------------------------
(* Properties *)

CellsOf(row) == {row.torch} \cup {row.ms[b] : b \in {x \in DOMAIN row.ms : row.ms[x] # None}}

\* Through any sequence of full, filtered and merging runs, kills and faults, every latency in the
\* summary CSV was measured for a case that the row's label and dtype fit and from a run that
\* verified, under its own column, and every speedup divides the baseline written in its own row
\* by the latency written in its own row.
CellsAreEarned ==
  csv # None => \A row \in ToSet(csv.rows) :
    /\ \A cell \in CellsOf(row) : Fits(row.label, cell.case) /\ Dtype(cell.case) = row.dtype
    /\ \A b \in DOMAIN row.ms : row.ms[b] # None =>
         row.ms[b].backend = b /\ row.ms[b].outcome \in {"good", "inplace", "fewer", "uncaptured"}
    /\ \A b \in DOMAIN row.speedup : row.speedup[b] = SpeedupOver(row.torch, row.ms[b])

Frozen(rows) == [i \in DOMAIN rows |-> [label |-> rows[i].label, dtype |-> rows[i].dtype, torch |-> rows[i].torch,
                                        ms |-> Restrict(rows[i].ms, DOMAIN rows[i].ms \ {"tilelang"})]]

\* "The frozen torch/triton/cutile columns are never touched": no run of TileLang alone, whatever
\* its cases and whatever became of them, changes a row's labels or another backend's latency, adds
\* a row or drops one; only a kill inside the rewriting can.
StaysFrozen ==
  csv # None /\ csv' # csv /\ ~csv'.torn /\ suite.active = <<"tilelang">> => Frozen(csv'.rows) = Frozen(csv.rows)
FrozenStays == [][StaysFrozen]_benchVars
-----------------------------------------------------------------------------
(* What comments and documents say and the code does not keep *)

\* "Rows are matched by (params, dtype)": two rows of a CSV that hold different cases have different
\* labels.  A filtered run hides the parameters that do not vary among its cases, and the next full
\* run takes over the labels that fit, for every case that they fit.
RowsToldApart ==
  csv # None => \A i, j \in DOMAIN csv.rows :
    <<csv.rows[i].label, csv.rows[i].dtype>> = <<csv.rows[j].label, csv.rows[j].dtype>> =>
      csv.rows[i].torch.case = csv.rows[j].torch.case

\* "ratio-of-geomeans, which equals the geometric mean of the per-case ratios": that needs the two
\* means to be over the same cases.
RatioIsPerCase ==
  csv # None => \A row \in ToSet(csv.rows), b \in ToSet(Backends) :
    LET ratio == Ratio(csv.rows, row.dtype, "torch", b)
    IN  ratio[2] # {} => ratio[1] = ratio[2]

\* An operator that run_bench_all lists as succeeded has results, as run_bench insists.
SucceededHasResults == listed # None => \A s \in ToSet(listed.succeeded) : s.cases > 0

\* "requested ... vs. executed timing mode": the logged mode is the one each latency was taken in.
LoggedModeIsExecuted ==
  suite # None => \A r \in ToSet(suite.results), b \in ToSet(Backends) :
    r.ms[b] # None => r.ms[b].mode = r.timing
=============================================================================
