---------------------------- MODULE MCTrajectory ----------------------------
(* The trajectory protocol on three rounds, two latencies and two of the five *)
(* ordinary failures (they are treated alike).                                *)
EXTENDS Trajectory

MCRounds == 3
MCLatencies == {1, 2}
MCFailures == {"runtime_error", "timing_error"}
=============================================================================
