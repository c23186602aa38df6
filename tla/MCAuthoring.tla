----------------------------- MODULE MCAuthoring -----------------------------
(* Small instances of what surrounds the candidates of a model: the            *)
(* distillation of skills from a Base campaign, the first generation pipeline, *)
(* and the accounting of tokens, dollars and E(B).  They share no state, so a  *)
(* behaviour explores one of them, `part`; the others stay in an initial state *)
(* meanwhile.                                                                  *)
EXTENDS Distillation, FirstPipeline, Accounting, TLC

CONSTANTS triton, cutile, c1, o1, o2

VARIABLE part

DistillUnused == DistillInit /\ file = (CHOOSE f \in States : TRUE) /\ folds = (CHOOSE table \in Folds : TRUE)
AccountingUnused == AccountingInit /\ provider = "openai" /\ supported = {} /\ target = {}
-----------------------------------------------------------------------------
\* Two trajectories: t1 is admissible evidence when the fold of its operator is
\* trained on, t2 may differ from that in every field the access rules look at;
\* one file, source or fold table changes, one request or write fails.
MCTrajectories == {"t1", "t2"}
Good(op, label) ==
  [op |-> op, label |-> label, excluded |-> FALSE, revision |-> 4, run_type |-> "formal", schema |-> 4,
   condition |-> "base", dsl |-> "triton", device |-> "B200", status |-> "complete", model |-> "m", data |-> 0]
B == Good("b", "B")
Other ==
  {B, Good("c", "C"), [B EXCEPT !.label = "C"], [B EXCEPT !.excluded = TRUE], [B EXCEPT !.revision = 3],
   [B EXCEPT !.revision = None], [B EXCEPT !.schema = None, !.label = None],
   [B EXCEPT !.run_type = "validation"], [B EXCEPT !.schema = 3], [B EXCEPT !.condition = "enhanced"],
   [B EXCEPT !.dsl = "cutile"], [B EXCEPT !.device = "GH200"], [B EXCEPT !.device = "TRN2"], [B EXCEPT !.status = "incomplete"]}
\* What a file may come to hold: any of these, changed any number of times.
MCContents ==
  {[s EXCEPT !.data = d, !.status = q, !.label = l] :
     s \in Other \cup {Good("a", "A")}, d \in {0, 1}, q \in {"complete", "incomplete"}, l \in FoldNames \cup {None}}
MCStates == {[x \in MCTrajectories |-> IF x = "t1" THEN Good("a", "A") ELSE s] : s \in Other}
MCChanged(s) ==
  {[s EXCEPT !.data = 1 - @], [s EXCEPT !.status = IF @ = "complete" THEN "incomplete" ELSE "complete"], [s EXCEPT !.label = "C"]}
MCFolds == {[a |-> "A", b |-> "B", c |-> "C"], [a |-> "C", b |-> "B", c |-> "A"]}
MCDistillOperators == {"a", "b", "c"}
MCModels == {"m"}
MCDsl == "triton"
MCSourceDevice == "B200"
MCTransferDevices == {"B200", "GH200"}

\* Two backends, one case, two iterations, two runs of the program; Wrong is a
\* wrong result, 1 and 2 are shares of the roofline.
MCBackends == {triton, cutile}
MCCases == {c1}
MCOutcomes == {Wrong, 1, 2}

\* Two operators, one with a trajectory, at least one supported and one with a target; two
\* price bands, a response may leave its output or its cached count out, a request may fail
\* with an unknown charge.
MCPredeclared == {o1, o2}
MCUsages == {[uncached |-> 1, cached |-> 0, output |-> 1], [uncached |-> 1, cached |-> 1, output |-> 1]}
Rule(name, low, high, k) ==
  [provider |-> name, tiers |-> {"standard"}, low |-> low, high |-> high,
   rates |-> [uncached |-> 2 * k, cached |-> k, output |-> 4 * k]]
MCRules == {Rule("openai", 0, 1, 1), Rule("openai", 2, 100, 2), Rule("anthropic", 0, 100, 1)}
MCProviders == {"openai", "anthropic"}
MCOmittable == {"cached", "output"}
MCTiers == {"standard"}
MCEfficiencies == {1}
MCBudgets == {2, 3, 4, 6}

MCSymmetry == Permutations(MCPredeclared)
-----------------------------------------------------------------------------
Init ==
  /\ part \in {"distillation", "pipeline", "accounting"}
  /\ IF part = "distillation" THEN DistillInit ELSE DistillUnused
  /\ PipelineInit
  /\ IF part = "accounting" THEN AccountingInit /\ supported # {} /\ target # {} ELSE AccountingUnused

DistillStep == part = "distillation" /\ DistillNext /\ UNCHANGED <<part, pipelineVars, accountingVars>>
PipelineStep == part = "pipeline" /\ PipelineNext /\ UNCHANGED <<part, distillVars, accountingVars>>
AccountingStep == part = "accounting" /\ AccountingNext /\ UNCHANGED <<part, distillVars, pipelineVars>>

Next == DistillStep \/ PipelineStep \/ AccountingStep

Spec == Init /\ [][Next]_<<part, distillVars, pipelineVars, accountingVars>>
=============================================================================
