-------------------------- MODULE MCTrajectoryRunner --------------------------
(* Small instances of the runner.  One round with every answer and verdict, one *)
(* retry of either kind and two disturbances (crashes, pauses, re-openings) at  *)
(* any point; and two rounds with fewer answers, for what relates rounds.       *)
EXTENDS TrajectoryRunner

MCOneRound == 1
MCTwoRounds == 2
MCLatencies == {1, 2}
MCFailures == {"interface_error"}
MCAnswers == Responses \cup Raised
MCFewAnswers == {[kind |-> "metered", text |-> "candidate"], [kind |-> "failed_unknown", text |-> "none"]}
MCChecks == CheckerVerdicts
MCFewChecks == {"clear", "review_required"}
MCNone == 0
MCOne == 1
MCTwo == 2
===============================================================================
