--------------------------- MODULE FirstPipeline ---------------------------
(***************************************************************************)
(* The first code-generation pipeline (llm/generate.py): one operator, one *)
(* model; MaxIters iterations of prompt, answer, parse, evaluation in a    *)
(* child process, and the promotion of the best implementation of each     *)
(* backend.  Every iteration has a directory that later runs find again,   *)
(* so the model runs the program several times over the same directories   *)
(* and stops it anywhere.  A source is named by the model call it came     *)
(* from; prompts keep only which sources and remarks they show.            *)
(***************************************************************************)
EXTENDS Absence, Integers, FiniteSets, FiniteSetsExt, Functions

CONSTANTS Backends,    \* the generated backends (external: BACKENDS)
          Cases,       \* one case per dtype, the largest of its grid
          Outcomes,    \* what a case may yield: Wrong, Late, or a roofline share
          MaxIters,    \* --max-iters
          MaxPrograms  \* bound: runs of the program

VARIABLES dir,       \* iteration directories: response.md, impl_<b>.py, feedback.json
          final,     \* the promoted sources, None where there is none
          loop,      \* the running program
          programs,  \* runs started
          calls,     \* completed model calls
          measured   \* every <<backend, source, score>> a runner found clean

pipelineVars == <<dir, final, loop, programs, calls, measured>>

Wrong == -2      \* verification failed, or the kernel raised
Late  == -1      \* the wall-clock cap of the case
Iters == 0 .. MaxIters - 1
NoSources == [b \in Backends |-> None]
ASSUME ItersAssumption == MaxIters \in Nat \ {0}

EmptyDir == [response |-> FALSE, impl |-> NoSources, feedback |-> None]

(***************************************************************************)
(* Evaluation                                                              *)
(***************************************************************************)
\* _mean_roofline: shares above the roof count as 1 (= 2 halves), shares that
\* could not be computed (0) are left out of the mean.  Scaled by Cases.
MeanRoofline(results) ==
    LET counted == {c \in Cases : results[c] > 0}
    IN  IF counted = {} THEN 0
        ELSE (Cardinality(Cases)
                * MapThenSumSet(LAMBDA c : IF results[c] > 2 THEN 2 ELSE results[c], counted))
             \div Cardinality(counted)

\* what feedback.json says of a backend that loaded
Judged(results) ==
    [compile |-> FALSE,
     late    |-> \E c \in Cases : results[c] = Late,
     wrong   |-> Cardinality({c \in Cases : results[c] = Wrong}),
     score   |-> MeanRoofline(results)]

\* a forbidden pattern, or an import that raises: no case is run
NotLoaded == [compile |-> TRUE, late |-> FALSE, wrong |-> 0, score |-> 0]

Verdicts == {NotLoaded} \cup {Judged(r) : r \in [Cases -> Outcomes]}

\* A mean of shares is a number, whatever the cases and their outcomes.
ASSUME ScoresAssumption == \A v \in Verdicts : v.score \in Nat

Fatal == [fatal |-> TRUE, verdict |-> [b \in Backends |-> NotLoaded], of |-> NoSources, by |-> 0]

Clean(feedback, b) ==
    /\ ~feedback.fatal
    /\ ~feedback.verdict[b].compile
    /\ ~feedback.verdict[b].late
    /\ feedback.verdict[b].wrong = 0

Score(feedback, b) == IF feedback.fatal THEN 0 ELSE feedback.verdict[b].score

(***************************************************************************)
(* The loop                                                                *)
(***************************************************************************)
\* the best result of a backend: the iteration, its score, the source it wrote
Entries == [iter : Iters, score : Nat, source : Nat \cup {None}]
ASSUME EntriesAssumption == None \notin Nat /\ None \notin Entries

NoBest == [b \in Backends |-> None]
Idle == [at |-> "idle", iter |-> 0, answer |-> NoSources, feedback |-> None, prompt |-> None,
         bestClean |-> NoBest, bestAny |-> NoBest, history |-> <<>>]

PipelineInit ==
    /\ dir = [i \in Iters |-> EmptyDir]
    /\ final = NoSources
    /\ loop = Idle
    /\ programs = 0 /\ calls = 0
    /\ measured = {}

StartProgram ==
    /\ loop.at = "idle" /\ programs < MaxPrograms
    /\ programs' = programs + 1
    /\ loop' = [Idle EXCEPT !.at = "prompt"]
    /\ UNCHANGED <<dir, final, calls, measured>>

LastResult == loop.history[loop.iter - 1]

\* the remark of _format_trajectory on the last iteration of a backend
Remark(b) ==
    IF loop.bestClean[b] = None THEN "none yet"
    ELSE IF ~LastResult[b].clean THEN "broke"
    ELSE IF LastResult[b].score < loop.bestClean[b].score THEN "regressed"
    ELSE "best"

\* Code of the best clean iteration, shown unless it is the previous one.
BestShown(b) ==
    IF loop.bestClean[b] = None \/ loop.bestClean[b].iter = loop.iter - 1
    THEN None ELSE loop.bestClean[b].source

Prompt ==
    IF loop.iter = 0 THEN None      \* build_initial_prompt shows no earlier result
    ELSE [previous |-> dir[loop.iter - 1].impl,
          shown    |-> [b \in Backends |-> BestShown(b)],
          remark   |-> [b \in Backends |-> Remark(b)],
          scores   |-> [b \in Backends |-> Score(loop.feedback, b)]]

\* Mutant of CacheComplete: every iteration asks the model again.
NeverCached(d) == d.response /\ FALSE

CacheComplete(d) == d.response /\ \A b \in Backends : d.impl[b] # None

\* The prompt is rewritten; a directory with a response and every implementation
\* needs no call, whatever prompt its response answered.
BuildPrompt ==
    /\ loop.at = "prompt"
    /\ loop' = [loop EXCEPT !.prompt = Prompt,
                            !.at = IF CacheComplete(dir[loop.iter]) THEN "evaluate" ELSE "call"]
    /\ UNCHANGED <<dir, final, programs, calls, measured>>

\* LLMClient.generate returned within its retries; response.md is written before
\* the answer is parsed for the files it holds.
Answered(files) ==
    /\ loop.at = "call"
    /\ calls' = calls + 1
    /\ dir' = [dir EXCEPT ![loop.iter].response = TRUE]
    /\ LET missing == \E b \in Backends : b \notin files
       IN  loop' = IF missing
                   THEN [loop EXCEPT !.at = "track", !.feedback = Fatal]
                   ELSE [loop EXCEPT !.at = "parse",
                                     !.answer = [b \in Backends |-> calls + 1]]
    /\ UNCHANGED <<final, programs, measured>>

\* Every attempt of generate raised: the iteration fails with a fatal feedback.
CallFails ==
    /\ loop.at = "call"
    /\ dir' = [dir EXCEPT ![loop.iter].feedback = Fatal]
    /\ loop' = [loop EXCEPT !.at = "track", !.feedback = Fatal]
    /\ UNCHANGED <<final, programs, calls, measured>>

WriteImpl(b) ==
    /\ loop.at = "parse" /\ loop.answer[b] # None
    /\ dir' = [dir EXCEPT ![loop.iter].impl[b] = loop.answer[b]]
    /\ LET rest == [loop.answer EXCEPT ![b] = None]
       IN  loop' = [loop EXCEPT !.answer = rest,
                                !.at = IF rest = NoSources THEN "evaluate" ELSE "parse"]
    /\ UNCHANGED <<final, programs, calls, measured>>

\* The runner wrote feedback.json on the implementations of this directory.
Evaluated(verdict) ==
    /\ loop.at = "evaluate"
    /\ LET made == [fatal |-> FALSE, verdict |-> verdict, of |-> dir[loop.iter].impl,
                   by |-> programs]
       IN  /\ dir' = [dir EXCEPT ![loop.iter].feedback = made]
           /\ loop' = [loop EXCEPT !.at = "track", !.feedback = made]
           /\ measured' = measured \cup
                {<<b, made.of[b], verdict[b].score>> : b \in {x \in Backends : Clean(made, x)}}
    /\ UNCHANGED <<final, programs, calls>>

\* The runner died before it wrote: feedback.json is read if there is one, which
\* may be the file of an earlier run; only without any is the evaluation fatal.
RunnerDies ==
    /\ loop.at = "evaluate"
    /\ LET found == dir[loop.iter].feedback
       IN  loop' = [loop EXCEPT !.at = "track",
                                !.feedback = IF found = None THEN Fatal ELSE found]
    /\ UNCHANGED <<dir, final, programs, calls, measured>>

\* The overall timeout, or a reference that does not load: fatal either way.
EvaluationFails ==
    /\ loop.at = "evaluate"
    /\ loop' = [loop EXCEPT !.at = "track", !.feedback = Fatal]
    /\ UNCHANGED <<dir, final, programs, calls, measured>>

BetterAny(b, score) == loop.bestAny[b] = None \/ score > loop.bestAny[b].score
BetterClean(b, score) == loop.bestClean[b] = None \/ score > loop.bestClean[b].score

\* main: feedback.json is rewritten, the bests of each backend are updated.
Track ==
    /\ loop.at = "track"
    /\ LET i == loop.iter
           fb == loop.feedback
           entry(b) == [iter |-> i, score |-> Score(fb, b), source |-> dir[i].impl[b]]
       IN  /\ dir' = [dir EXCEPT ![i].feedback = fb]
           /\ loop' = [loop EXCEPT
                !.at = IF i + 1 = MaxIters THEN "clear" ELSE "prompt",
                !.iter = IF i + 1 = MaxIters THEN i ELSE i + 1,
                !.prompt = None,
                !.bestAny = [b \in Backends |->
                    IF BetterAny(b, Score(fb, b)) THEN entry(b) ELSE @[b]],
                !.bestClean = [b \in Backends |->
                    IF Clean(fb, b) /\ BetterClean(b, Score(fb, b)) THEN entry(b) ELSE @[b]],
                !.history = [k \in 0 .. i |->
                    IF k < i THEN @[k]
                    ELSE [b \in Backends |-> [score |-> Score(fb, b), clean |-> Clean(fb, b)]]]]
    /\ UNCHANGED <<final, programs, calls, measured>>

\* final/ is removed before anything is copied into the new one.
ClearFinal ==
    /\ loop.at = "clear"
    /\ final' = NoSources
    /\ loop' = [loop EXCEPT !.at = "promote"]
    /\ UNCHANGED <<dir, programs, calls, measured>>

Chosen(b) == IF loop.bestClean[b] # None THEN loop.bestClean[b] ELSE loop.bestAny[b]

Promote ==
    /\ loop.at = "promote"
    /\ final' = [b \in Backends |-> dir[Chosen(b).iter].impl[b]]
    /\ loop' = [loop EXCEPT !.at = "done"]
    /\ UNCHANGED <<dir, programs, calls, measured>>

\* The program ends, or is killed between two of its steps.
Leave ==
    /\ loop.at # "idle"
    /\ loop' = Idle
    /\ UNCHANGED <<dir, final, programs, calls, measured>>

PipelineNext ==
    \/ StartProgram \/ BuildPrompt \/ CallFails \/ RunnerDies \/ EvaluationFails
    \/ Track \/ ClearFinal \/ Promote \/ Leave
    \/ \E files \in SUBSET Backends : Answered(files)
    \/ \E b \in Backends : WriteImpl(b)
    \/ \E v \in [Backends -> Verdicts] : Evaluated(v)

PipelineSpec == PipelineInit /\ [][PipelineNext]_pipelineVars

(***************************************************************************)
(* Properties                                                              *)
(***************************************************************************)
\* A source the pipeline calls verify-clean, because it shows it to the model as
\* the code to go back to (prompt_builder.py:296) or promotes it as the clean
\* best of its backend (generate.py:419), was itself found clean by a runner with
\* the score it is ranked by, over every crash, cached answer and feedback file
\* an earlier run left behind; and no clean iteration of the run scored higher.
CleanIsMeasured ==
    \A b \in Backends :
        /\ loop.bestClean[b] # None =>
            LET best == loop.bestClean[b]
            IN  /\ <<b, best.source, best.score>> \in measured
                /\ \A i \in DOMAIN loop.history :
                      loop.history[i][b].clean => loop.history[i][b].score <= best.score
                /\ loop.at = "done" => final[b] = best.source
        /\ loop.prompt # None /\ loop.prompt.shown[b] # None =>
            \E m \in measured : m[1] = b /\ m[2] = loop.prompt.shown[b]

(***************************************************************************)
(* What comments say and the code does not keep                            *)
(***************************************************************************)
\* What evaluator.py:61 says of a runner that crashed before it wrote: feedback is
\* made up for it, with the crash as its fatal error.  So feedback that judges an
\* iteration is of this program's evaluation, never the file of an earlier run.
FeedbackIsOfThisRun ==
    loop.at = "track" /\ ~loop.feedback.fatal => loop.feedback.by = programs

=============================================================================
