----------------------------- MODULE EvalBudget -----------------------------
(***************************************************************************)
(* EvalBudget of orchestration/scheduler.py: the hard bound on candidates  *)
(* in the evaluation pipeline of one process.  `used` is shared by all     *)
(* workers and guarded by a condition variable; whether a worker holds a   *)
(* slot is thread-local to it.                                             *)
(***************************************************************************)
EXTENDS Integers

CONSTANTS
  Workers,   \* the threads of the pool: finitely many
  Cap        \* EvalBudget.cap, a natural number

VARIABLES
  used,   \* slots taken
  held    \* held[w]: worker w's thread-local flag

Holders == {w \in Workers : held[w]}

\* reserve finds no slot free.
Full == used >= Cap

\* reserve: nothing for a worker that holds a slot, otherwise a slot once there is one.
MayReserve(w) == held[w] \/ ~Full
Reserve(w) ==
  /\ MayReserve(w)
  /\ used' = IF held[w] THEN used ELSE used + 1
  /\ held' = [held EXCEPT ![w] = TRUE]

\* release: nothing for a worker that holds none.  Mutant of Release: gives back
\* a slot whether the worker holds one or not.
ReleaseAlways(w) == used' = used - 1 /\ held' = [held EXCEPT ![w] = FALSE]
Release(w) ==
  /\ used' = IF held[w] THEN used - 1 ELSE used
  /\ held' = [held EXCEPT ![w] = FALSE]

Init == used = 0 /\ held = [w \in Workers |-> FALSE]
=============================================================================
