----------------------------- MODULE MCScheduler -----------------------------
(* Three trajectories of two models that share two, or one, budget slots. *)
EXTENDS Scheduler, TLC

CONSTANTS t1, t2, t3, A, B

MCTrajectories == {t1, t2, t3}
MCTwoTrajectories == {t1, t2}
MCProviders == {A, B}
MCProviderOf == t1 :> A @@ t2 :> A @@ t3 :> B
MCTwoProviderOf == t1 :> A @@ t2 :> B
MCSymmetry == Permutations({t1, t2})
=============================================================================
