------------------------------ MODULE Scheduler ------------------------------
(***************************************************************************)
(* One scheduler process (orchestration/scheduler.py): every trajectory    *)
(* runs in a worker thread with the code of runner.py, behind two shared   *)
(* bounds, a limiter per provider and one evaluation budget, and the       *)
(* device lock; the main thread collects the trajectories, resubmits those *)
(* whose compliance review was decided, and exits.  A trajectory is        *)
(* reduced to what the shared state depends on: the stage of its round     *)
(* and the rounds it has left.                                             *)
(*                                                                         *)
(* A fault is an exception in a worker (a full disk, a bug in an adapter)  *)
(* at one of the calls that are not caught where they happen.              *)
(***************************************************************************)
EXTENDS Integers, FiniteSets, AdaptiveLimiter

CONSTANTS
  Trajectories,   \* the jobs; the pool has as many workers
  Providers,
  ProviderOf,     \* [Trajectories -> Providers]
  Cap,            \* max_pending
  Rounds,
  MaxRetries,     \* transport retries of one generation
  Resume,         \* CampaignSpec.resume
  MaxFaults,      \* bound of the model
  None            \* no trajectory

ASSUME TrajectoriesAssumption == IsFiniteSet(Trajectories) /\ None \notin Trajectories /\ ProviderOf \in [Trajectories -> Providers]
ASSUME BoundsAssumption == Cap \in Nat \ {0} /\ Rounds \in Nat /\ MaxRetries \in Nat /\ MaxFaults \in Nat /\ Resume \in BOOLEAN

VARIABLES
  phase,     \* where the thread of a trajectory is, or how it ended
  stage,     \* durable: what the current round holds
  left,      \* durable: rounds not closed
  tries,     \* failures in this call of _request_with_retries
  worker,    \* the pool worker a trajectory runs or ran on
  used, held,   \* EvalBudget
  lim,       \* AdaptiveLimiter of each provider
  device,    \* the trajectory that holds the device lock
  stop,      \* providers (models) with a STOP file
  exited,    \* run_scheduled returned
  faults

vars == <<phase, stage, left, tries, worker, used, held, lim, device, stop, exited, faults>>

Workers == Trajectories
Budget == INSTANCE EvalBudget
-----------------------------------------------------------------------------
AtRest == {"done", "incomplete", "paused", "blocked", "crashed"}
Running == {"top", "reserve", "acquire", "slot", "inflight", "received", "judge", "save_cleared", "save_closed",
            "save_review", "save_failed", "evalreserve", "evalwait", "evaluating"}
Stages == {"open", "archived", "cleared", "review", "failed"}

Stopped(t) == ProviderOf[t] \in stop
AllStopped == \A t \in Trajectories : Stopped(t)     \* STOP, or a STOP file of every model

Goto(t, p) == phase' = [phase EXCEPT ![t] = p]
SetLimiter(t, l) == lim' = [lim EXCEPT ![ProviderOf[t]] = l]
Limiter(t) == lim[ProviderOf[t]]

\* A generation session starts or a trajectory ends: TrajectoryRunner.step on
\* what next_action says.
NextPhase(t) ==
  CASE stage[t] = "review" -> "blocked"
    [] stage[t] = "failed" -> "incomplete"
    [] left[t] = 0 -> "done"
    [] stage[t] = "cleared" -> "evalreserve"
    [] stage[t] = "archived" -> "judge"       \* the response is reused: nothing is sent or reserved
    [] OTHER -> "reserve"

Step(t) ==
  /\ phase[t] = "top"
  /\ Goto(t, NextPhase(t))
  /\ IF NextPhase(t) \in AtRest THEN Budget!Release(worker[t]) ELSE UNCHANGED <<used, held>>
  /\ UNCHANGED <<stage, left, tries, worker, lim, device, stop, exited, faults>>
-----------------------------------------------------------------------------
(* GatedProvider.before_send and generate *)

\* EvalBudget.reserve(stoppable=True): a worker that holds a slot keeps it.
ReserveSlot(t) ==
  /\ phase[t] = "reserve"
  /\ held[worker[t]] \/ ~Stopped(t)
  /\ Budget!Reserve(worker[t])
  /\ Goto(t, "acquire")
  /\ UNCHANGED <<stage, left, tries, worker, lim, device, stop, exited, faults>>

\* AdaptiveLimiter.acquire
AcquireSlot(t) ==
  /\ phase[t] = "acquire"
  /\ ~Stopped(t)
  /\ Admits(Limiter(t))
  /\ SetLimiter(t, WithAcquired(Limiter(t)))
  /\ Goto(t, "slot")
  /\ UNCHANGED <<stage, left, tries, worker, used, held, device, stop, exited, faults>>

\* Mutant of ReleasedOnPause: a paused trajectory keeps its slot.
KeptOnPause(t) == UNCHANGED <<used, held>>
ReleasedOnPause(t) == Budget!Release(worker[t])

\* StopRequested in reserve or acquire: nothing is sent, the trajectory pauses.
PauseForStop(t) ==
  /\ Stopped(t)
  /\ phase[t] = "acquire" \/ (phase[t] = "reserve" /\ ~held[worker[t]])
  /\ ReleasedOnPause(t)
  /\ Goto(t, "paused")
  /\ tries' = [tries EXCEPT ![t] = 0]
  /\ UNCHANGED <<stage, left, worker, lim, device, stop, exited, faults>>

\* The `sending` event is logged and the request goes out.
LogSending(t) ==
  /\ phase[t] = "slot"
  /\ Goto(t, "inflight")
  /\ UNCHANGED <<stage, left, tries, worker, used, held, lim, device, stop, exited, faults>>

\* A response, or a TransportError that is retried, or one retry too many.
Answer(t, outcome, roomy, sustained) ==
  /\ phase[t] = "inflight"
  /\ SetLimiter(t, WithReleased(Limiter(t), outcome, roomy, sustained))
  /\ IF outcome = "ok"
     THEN Goto(t, "received") /\ UNCHANGED <<used, held>>
     ELSE IF tries[t] < MaxRetries
          THEN Goto(t, "reserve") /\ UNCHANGED <<used, held>>
          ELSE Goto(t, "save_failed") /\ Budget!Release(worker[t])
  /\ tries' = [tries EXCEPT ![t] = IF outcome # "ok" /\ @ < MaxRetries THEN @ + 1 ELSE 0]
  /\ UNCHANGED <<stage, left, worker, device, stop, exited, faults>>

\* A ProviderConfigError is not retried.
Refuse(t) ==
  /\ phase[t] = "inflight"
  /\ SetLimiter(t, WithReleased(Limiter(t), "error", FALSE, FALSE))
  /\ Goto(t, "save_failed")
  /\ Budget!Release(worker[t])
  /\ tries' = [tries EXCEPT ![t] = 0]
  /\ UNCHANGED <<stage, left, worker, device, stop, exited, faults>>

Archive(t) ==
  /\ phase[t] = "received"
  /\ stage' = [stage EXCEPT ![t] = "archived"]
  /\ Goto(t, "judge")
  /\ UNCHANGED <<left, tries, worker, used, held, lim, device, stop, exited, faults>>

\* Parsing and compliance, apply_attempt; only an evaluable candidate keeps the slot.
KeepsSlot(verdict) == verdict = "cleared"

Judge(t, verdict) ==
  /\ phase[t] = "judge"
  /\ Goto(t, CASE verdict = "cleared" -> "save_cleared" [] verdict = "review" -> "save_review" [] OTHER -> "save_closed")
  /\ IF KeepsSlot(verdict) THEN UNCHANGED <<used, held>> ELSE Budget!Release(worker[t])
  /\ UNCHANGED <<stage, left, tries, worker, lim, device, stop, exited, faults>>

\* The save that ends a step makes its result durable.
Saving == {"save_cleared", "save_closed", "save_review", "save_failed"}
Save(t) ==
  /\ phase[t] \in Saving
  /\ stage' = [stage EXCEPT ![t] = CASE phase[t] = "save_cleared" -> "cleared" [] phase[t] = "save_review" -> "review"
                                     [] phase[t] = "save_failed" -> "failed" [] OTHER -> "open"]
  /\ left' = IF phase[t] = "save_closed" THEN [left EXCEPT ![t] = @ - 1] ELSE left
  /\ Goto(t, "top")
  /\ UNCHANGED <<tries, worker, used, held, lim, device, stop, exited, faults>>
-----------------------------------------------------------------------------
(* Evaluation: step's evaluate branch, EvalTracker, the device lock *)

\* EvalBudget.reserve(stoppable=False): nothing to do when the generation of the
\* round holds a slot.
ReserveForEvaluation(t) ==
  /\ phase[t] = "evalreserve"
  /\ Budget!Reserve(worker[t])
  /\ Goto(t, "evalwait")
  /\ UNCHANGED <<stage, left, tries, worker, lim, device, stop, exited, faults>>

LockDevice(t) ==
  /\ phase[t] = "evalwait"
  /\ device = None
  /\ device' = t
  /\ Goto(t, "evaluating")
  /\ UNCHANGED <<stage, left, tries, worker, used, held, lim, stop, exited, faults>>

\* The round closes with a result, or the evaluation gave none.
Evaluated(t, result) ==
  /\ phase[t] = "evaluating"
  /\ device' = None
  /\ Budget!Release(worker[t])
  /\ Goto(t, result)
  /\ UNCHANGED <<stage, left, tries, worker, lim, stop, exited, faults>>
-----------------------------------------------------------------------------
(* Faults: an exception that ends a trajectory's thread *)

Fault(t) == faults < MaxFaults /\ faults' = faults + 1 /\ Goto(t, "crashed")
            /\ tries' = [tries EXCEPT ![t] = 0]
            /\ UNCHANGED <<stage, left, worker, stop, exited>>

\* _generate raises after before_send took a provider slot and before generate,
\* or while it archives, parses and checks: step releases the budget slot.
GenerationRaises(t) ==
  /\ phase[t] \in {"slot", "received", "judge"}
  /\ Budget!Release(worker[t])
  /\ UNCHANGED <<lim, device>>
  /\ Fault(t)

\* generate raises anything else than a provider error.
AdapterRaises(t) ==
  /\ phase[t] = "inflight"
  /\ SetLimiter(t, WithReleased(Limiter(t), "error", FALSE, FALSE))
  /\ Budget!Release(worker[t])
  /\ UNCHANGED device
  /\ Fault(t)

\* The evaluation raises: the slot and the device are released on the way out.
EvaluationRaises(t) ==
  /\ phase[t] = "evaluating"
  /\ device' = None
  /\ Budget!Release(worker[t])
  /\ UNCHANGED lim
  /\ Fault(t)

\* The save raises: nothing releases the slot that a cleared candidate holds.
SaveRaises(t) ==
  /\ phase[t] \in Saving
  /\ UNCHANGED <<used, held, lim, device>>
  /\ Fault(t)
-----------------------------------------------------------------------------
(* The operator, the reviewer, time and the main thread *)

\* A STOP_<model> file appears.
Stop(p) ==
  /\ p \notin stop /\ ~exited
  /\ stop' = stop \cup {p}
  /\ UNCHANGED <<phase, stage, left, tries, worker, used, held, lim, device, exited, faults>>

PauseOver(p) ==
  /\ lim[p].paused
  /\ lim' = [lim EXCEPT ![p] = WithPauseOver(@)]
  /\ UNCHANGED <<phase, stage, left, tries, worker, used, held, device, stop, exited, faults>>

\* `review-resolve` on a trajectory whose thread has ended.
Resolve(t, decision) ==
  /\ phase[t] = "blocked" /\ stage[t] = "review" /\ ~exited
  /\ IF decision = "compliant"
     THEN stage' = [stage EXCEPT ![t] = "cleared"] /\ UNCHANGED left
     ELSE stage' = [stage EXCEPT ![t] = "open"] /\ left' = [left EXCEPT ![t] = @ - 1]
  /\ UNCHANGED <<phase, tries, worker, used, held, lim, device, stop, exited, faults>>

\* The main thread resubmits a resolved trajectory; an idle worker takes it.  Without
\* --resume, _run_one refuses a trajectory that exists.
Idle(w) == \A t \in Trajectories : worker[t] = w => phase[t] \in AtRest
Resubmit(t, w) ==
  /\ phase[t] = "blocked" /\ stage[t] # "review"
  /\ ~AllStopped /\ ~exited
  /\ Idle(w)
  /\ worker' = [worker EXCEPT ![t] = w]
  /\ Goto(t, IF Resume THEN "top" ELSE "crashed")
  /\ UNCHANGED <<stage, left, tries, used, held, lim, device, stop, exited, faults>>

\* Mutant of MayExit: the main thread waits for blocked trajectories in any case.
MayExitUnblocked == \A t \in Trajectories : phase[t] \in AtRest \ {"blocked"}
MayExit == (\A t \in Trajectories : phase[t] \in AtRest) /\ ((\A t \in Trajectories : phase[t] # "blocked") \/ AllStopped)
Exit ==
  /\ MayExit /\ ~exited
  /\ exited' = TRUE
  /\ UNCHANGED <<phase, stage, left, tries, worker, used, held, lim, device, stop, faults>>

Exited == exited /\ UNCHANGED vars
-----------------------------------------------------------------------------
\* With --resume a trajectory may hold an archived response or a cleared candidate.
Init ==
  /\ phase = [t \in Trajectories |-> "top"]
  /\ stage \in [Trajectories -> IF Resume THEN {"open", "archived", "cleared"} ELSE {"open"}]
  /\ left = [t \in Trajectories |-> Rounds]
  /\ tries = [t \in Trajectories |-> 0]
  /\ worker = [t \in Trajectories |-> t]
  /\ Budget!Init
  /\ lim = [p \in Providers |-> NewLimiter]
  /\ device = None /\ stop = {} /\ exited = FALSE /\ faults = 0

ThreadStep(t) ==
  \/ Step(t) \/ ReserveSlot(t) \/ AcquireSlot(t) \/ PauseForStop(t) \/ LogSending(t)
  \/ \E outcome \in Outcomes, roomy, sustained \in BOOLEAN : Answer(t, outcome, roomy, sustained)
  \/ Refuse(t) \/ Archive(t)
  \/ \E verdict \in {"cleared", "review", "violation"} : Judge(t, verdict)
  \/ Save(t)
  \/ ReserveForEvaluation(t) \/ LockDevice(t)
  \/ \E result \in {"save_closed", "save_failed"} : Evaluated(t, result)

ThreadFault(t) == GenerationRaises(t) \/ AdapterRaises(t) \/ EvaluationRaises(t) \/ SaveRaises(t)

Next ==
  \/ \E t \in Trajectories :
       \/ ThreadStep(t) \/ ThreadFault(t)
       \/ \E d \in {"compliant", "violation"} : Resolve(t, d)
       \/ \E w \in Workers : Resubmit(t, w)
  \/ \E p \in Providers : Stop(p) \/ PauseOver(p)
  \/ Exit \/ Exited

\* Threads run (both condition waits time out and look again, every request and
\* evaluation has a timeout), pauses end, and the main thread polls.  Nobody
\* has to stop a model or decide a review.
Fairness ==
  /\ \A t \in Trajectories : WF_vars(ThreadStep(t)) /\ WF_vars(\E w \in Workers : Resubmit(t, w))
  /\ \A p \in Providers : WF_vars(PauseOver(p))
  /\ WF_vars(Exit)

Spec == Init /\ [][Next]_vars /\ Fairness
-----------------------------------------------------------------------------
(* Properties *)

\* The shared counter and the thread-local flags never drift apart, whatever the
\* threads do, fail at or reuse, and at most Cap slots are held: the assertion of
\* reserve never fires.
BudgetIsExact == used = Cardinality(Budget!Holders) /\ used <= Cap

\* Every request that is sent and every candidate that waits for the device or is
\* evaluated is covered by a slot of its own, so together they are at most Cap.
Pipeline == {"acquire", "slot", "inflight", "received", "evalwait", "evaluating"}
SlotCoversPipeline ==
  /\ \A t \in Trajectories : phase[t] \in Pipeline => held[worker[t]]
  /\ \A t, u \in Trajectories : phase[t] \in Running /\ phase[u] \in Running /\ worker[t] = worker[u] => t = u
  /\ Cardinality({t \in Trajectories : phase[t] \in Pipeline}) <= Cap

\* A limiter counts the requests of its provider that really have a slot; only a
\* fault between acquire and generate leaves one counted for nobody.
InFlightIsExact ==
  \A p \in Providers :
    LET sending == Cardinality({t \in Trajectories : ProviderOf[t] = p /\ phase[t] \in {"slot", "inflight"}})
    IN  sending <= lim[p].inFlight /\ lim[p].inFlight <= sending + faults

\* A trajectory that ends without a fault gives its slot back, however it ends.
NothingHeldAtRest ==
  \A t \in Trajectories : phase[t] \in AtRest \ {"crashed"} /\ Idle(worker[t]) /\ held[worker[t]] => faults > 0

\* What a trajectory holds, of the budget and of its limiter, is what its stage
\* needs: a slot of its own through the whole pipeline, a place in flight while it
\* sends, nothing at rest; and no limit leaves its range, so that a request can
\* always be sent again.
HoldsWhatItNeeds ==
  /\ SlotCoversPipeline
  /\ InFlightIsExact
  /\ NothingHeldAtRest
  /\ \A p \in Providers : lim[p].limit \in MinLimit..MaxLimit

\* Every trajectory comes to rest: complete or incomplete, waiting for a review
\* nobody decided, or paused by a STOP file of its model.
Settled(t) ==
  \/ phase[t] \in {"done", "incomplete"}
  \/ phase[t] = "blocked" /\ (stage[t] = "review" \/ AllStopped)
  \/ phase[t] = "paused" /\ Stopped(t)
EveryTrajectorySettles == \A t \in Trajectories : phase[t] \in Running ~> Settled(t) \/ faults > 0

\* Once every model is stopped the process drains and exits.
StopDrains == AllStopped ~> exited \/ faults > 0
-----------------------------------------------------------------------------
(* What comments and documents say and the code does not keep *)

\* What scheduler.py says: one trajectory's crash never stops the others.
CrashStopsNoOther == \A t \in Trajectories : phase[t] \in Running ~> phase[t] \in AtRest

\* What scheduler.py says: a resolved trajectory continues in this process.
ResolvedContinues == faults = 0 => \A t \in Trajectories : phase[t] # "crashed"
=============================================================================
