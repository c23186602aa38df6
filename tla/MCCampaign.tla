----------------------------- MODULE MCCampaign -----------------------------
(* Two processes, formal or validating, and an operator on one trajectory that *)
(* either does not exist yet or was left by an earlier release.                *)
EXTENDS Campaign, TLC

CONSTANTS p1, p2

MCProcesses == {p1, p2}
MCOneOperator == {0}
MCReady == [approval |-> "approved", folds |-> TRUE, host |-> "sandboxed"]
MCDraft == [approval |-> "draft", folds |-> FALSE, host |-> "bare"]
MCReadiness == {MCReady, MCDraft}
MCFormal == [runType |-> "formal", shard |-> <<1, 1>>, resume |-> TRUE, allow |-> FALSE, root |-> "default"]
MCValidation == [MCFormal EXCEPT !.runType = "validation", !.allow = TRUE, !.root = "other"]
MCOptions == {MCFormal, [MCFormal EXCEPT !.resume = FALSE], MCValidation}
MCLatencies == {1}
MCSymmetry == Permutations(MCProcesses)
=============================================================================
