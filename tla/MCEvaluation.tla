---------------------------- MODULE MCEvaluation ----------------------------
(* Two evaluations on one device, suites of two cases. *)
EXTENDS Evaluation

CONSTANTS e1, e2

MCEvaluations == {e1, e2}
=============================================================================
