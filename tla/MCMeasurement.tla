---------------------------- MODULE MCMeasurement ----------------------------
(* Small instances of what turns a run into a number: the legacy and the       *)
(* native measurement on Trainium, the replayed autotuner, the GPU benchmark   *)
(* and its CSV, and calibration and scoring.  They share no state, so a        *)
(* behaviour explores one of them, `part`; the others stay in an initial state *)
(* meanwhile.  Parts says which ones a configuration explores.                 *)
EXTENDS NkiProfiling, NkiAutotune, NeuronBench, Benchmark, Scoring, TLC

CONSTANTS Parts, p1, p2, d1, d2, c1, c2

VARIABLE part

\* Of the initial states of an unused part, one.
NkiUnused == graph = (CHOOSE launch \in Launches : TRUE)
AutotuneUnused ==
  /\ timer = "auto" /\ calls = (CHOOSE path \in Paths : TRUE)
  /\ code = (CHOOSE c \in [space : Spaces, kind : [Configs -> Kinds]] : TRUE)
ScoringUnused == declared = (CHOOSE x \in [Operators -> [mode : Declarable, approved : {TRUE}]] : TRUE)
-----------------------------------------------------------------------------
\* Two processes that profile one case; the graph may drift, the override may be set,
\* a phase may go wrong in every way a worker tells apart.
MCParents == {p1, p2}
MCPlans == {"ok", "raise", "half", "wrong", "tired", "vary", "fallback"}
\* One graph for each target; or three of each, of which they have one in common and one
\* is executed twice.
MCLaunches ==
  {[torch |-> <<"torch">>, nki |-> <<"nki">>],
   [torch |-> <<"torch", "shared", "torch">>, nki |-> <<"nki", "shared", "nki2">>]}

\* One or two tuner calls, keys equal up to their form; spaces that hold a config once, in
\* another place, or twice; config a is slow, c is fast.
Key(f, v) == [form |-> f, value |-> v]
Candidate(f, c) == [form |-> f, config |-> c]
MCPaths == {<<Key("tuple", "k1"), Key("list", "k1")>>, <<Key("tuple", "k1"), Key("tuple", "k2")>>, <<Key("tuple", "k2")>>}
MCSpaces ==
  {<<Candidate("ns", "a"), Candidate("ns", "b"), Candidate("ns", "c")>>, <<Candidate("ns", "c"), Candidate("ns", "b")>>,
   <<Candidate("ns", "b"), Candidate("dict", "b"), Candidate("ns", "a")>>}
MCDeviceTime == [c \in {"a", "b", "c"} |-> CASE c = "a" -> 3 [] c = "b" -> 2 [] OTHER -> 1]

\* Traces of one or two copies of executions, disjoint, touching, nested or overlapping, of
\* one flow or two, of one program or two; and an execution in the gap between two copies of another.
Copy(m, f, s, e) == [model |-> m, flow |-> f, start |-> s, end |-> e]
FirstCopies == {Copy("m1", 1, 0, e) : e \in {1, 3}}
NextCopies == {Copy(m, f, s, s + n) : m \in {"m1", "m2"}, f \in {1, 2}, s \in 0..2, n \in {0, 2}}
MCTraces ==
  {<<>>, <<Copy("m1", 1, 0, 1), Copy("m1", 1, 3, 4), Copy("m1", 2, 1, 2)>>}
    \cup {<<a>> : a \in FirstCopies} \cup {<<a, b>> : a \in FirstCopies, b \in NextCopies}
MCChangesFrom == {0, 1, 2, 6}

\* Three cases, two of one size, that three runs time in any selection.
Case(r, c) == [params |-> [rows |-> r, cols |-> c], dtype |-> "fp16"]
MCCases == <<Case(1, 2), Case(2, 1), Case(2, 2)>>
MCBackends == <<"triton", "cutile", "tilelang">>
MCSelections == {<<"triton", "cutile">>, <<"tilelang">>, <<"triton", "tilelang">>}
MCIndices == {<<1, 2, 3>>, <<1, 3>>, <<2>>}
MCOperatorList == <<"op1", "op2">>

\* Two devices that two calibration directories may serve; probes whose best point is not
\* admissible; two edits of any file.
Point(probe, busy, eligible, rate) ==
  [probe |-> probe, checked |-> TRUE, busy |-> busy, explained |-> FALSE, eligible |-> eligible, primary |-> TRUE, rate |-> rate]
Mode(unit) == [role |-> "scoring", unit |-> unit]
MCModes == [hbm |-> Mode("byte"), mma |-> Mode("FLOP")]
MCWork == [op \in {"add", "mul"} |-> [F |-> 4, Q |-> 4, unit |-> "FLOP"]]
MCProbed ==
  [hbm |-> {<<Point("copy", TRUE, FALSE, 4), Point("copy", TRUE, TRUE, 2), Point("copy", TRUE, TRUE, 2)>>},
   mma |-> {<<Point("m", FALSE, TRUE, 4), Point("m", TRUE, TRUE, 1)>>}]
MCDevices == {d1, d2}

\* For the replaced profile: one device, on which two calibrations may measure two peaks.
MCOneDevice == {d1}
MCTwoPeaks ==
  [MCProbed EXCEPT !.mma = {<<Point("m", TRUE, TRUE, rate)>> : rate \in {1, 2}}]
MCDirectories == {c1, c2}
MCModeLists == {<<"hbm", "mma">>}
MCRecords == <<"base">>

MCSymmetry == Permutations(MCParents) \cup Permutations(MCDevices) \cup Permutations(MCDirectories)
-----------------------------------------------------------------------------
Init ==
  /\ part \in Parts
  /\ NkiInit /\ AutotuneInit /\ NeuronInit /\ BenchInit /\ ScoringInit
  /\ part # "nki" => NkiUnused
  /\ part # "autotune" => AutotuneUnused
  /\ part # "scoring" => ScoringUnused

NkiStep == part = "nki" /\ NkiNext /\ UNCHANGED <<part, autotuneVars, neuronVars, benchVars, scoringVars>>
AutotuneStep == part = "autotune" /\ AutotuneNext /\ UNCHANGED <<part, nkiVars, neuronVars, benchVars, scoringVars>>
NeuronStep == part = "neuron" /\ NeuronNext /\ UNCHANGED <<part, nkiVars, autotuneVars, benchVars, scoringVars>>
BenchStep == part = "bench" /\ BenchNext /\ UNCHANGED <<part, nkiVars, autotuneVars, neuronVars, scoringVars>>
ScoringStep == part = "scoring" /\ ScoringNext /\ UNCHANGED <<part, nkiVars, autotuneVars, neuronVars, benchVars>>

Next == NkiStep \/ AutotuneStep \/ NeuronStep \/ BenchStep \/ ScoringStep

Spec == Init /\ [][Next]_<<part, nkiVars, autotuneVars, neuronVars, benchVars, scoringVars>>
=============================================================================
