-------------------------- MODULE Scheduler_proofs --------------------------
(***************************************************************************)
(* Proofs about Scheduler: for any finite number of trajectories, any cap, *)
(* limits, retries and faults, the evaluation budget is exact.             *)
(***************************************************************************)
EXTENDS Scheduler, FiniteSetTheorems, FunctionTheorems, TLAPS

BudgetTypeOK == used \in Nat /\ held \in [Workers -> BOOLEAN]

\* What the budget's two shared variables and the worker assignment need.
BudgetInv ==
  /\ BudgetTypeOK
  /\ BudgetIsExact
  /\ worker \in [Trajectories -> Workers]

LEMMA HoldersFinite == IsFiniteSet(Budget!Holders)
<1>1. Budget!Holders \subseteq Trajectories BY DEF Budget!Holders, Workers
<1> QED BY <1>1, TrajectoriesAssumption, FS_Subset

\* A reservation adds its worker to the holders, if it is not one, and only while
\* a slot is free.
LEMMA ReserveKeepsExact ==
  ASSUME BudgetTypeOK, BudgetIsExact, NEW w \in Workers, Budget!Reserve(w)
  PROVE  BudgetTypeOK' /\ BudgetIsExact'
<1> USE BoundsAssumption DEF BudgetTypeOK, BudgetIsExact, Budget!Reserve, Budget!MayReserve, Budget!Full
<1>1. CASE held[w]
  <2>1. held' = held /\ used' = used BY <1>1
  <2> QED BY <2>1 DEF Budget!Holders
<1>2. CASE ~held[w]
  <2>1. Budget!Holders' = Budget!Holders \cup {w} BY DEF Budget!Holders
  <2>2. w \notin Budget!Holders BY <1>2 DEF Budget!Holders
  <2>3. Cardinality(Budget!Holders') = Cardinality(Budget!Holders) + 1 BY <2>1, <2>2, HoldersFinite, FS_AddElement
  <2>4. used' = used + 1 /\ used < Cap BY <1>2
  <2> QED BY <2>3, <2>4
<1> QED BY <1>1, <1>2

LEMMA ReleaseKeepsExact ==
  ASSUME BudgetTypeOK, BudgetIsExact, NEW w \in Workers, Budget!Release(w)
  PROVE  BudgetTypeOK' /\ BudgetIsExact'
<1> USE BoundsAssumption DEF BudgetTypeOK, BudgetIsExact, Budget!Release
<1>1. CASE ~held[w]
  <2>1. held' = held /\ used' = used BY <1>1
  <2> QED BY <2>1 DEF Budget!Holders
<1>2. CASE held[w]
  <2>1. Budget!Holders' = Budget!Holders \ {w} BY DEF Budget!Holders
  <2>2. w \in Budget!Holders BY <1>2 DEF Budget!Holders
  <2>3. Cardinality(Budget!Holders') = Cardinality(Budget!Holders) - 1 BY <2>1, <2>2, HoldersFinite, FS_RemoveElement
  <2>4. Cardinality(Budget!Holders') \in Nat
    <3>1. IsFiniteSet(Budget!Holders') BY <2>1, HoldersFinite, FS_RemoveElement
    <3> QED BY <3>1, FS_CardinalityType
  <2>5. used' = used - 1 BY <1>2
  <2> QED BY <2>3, <2>4, <2>5
<1> QED BY <1>1, <1>2

LEMMA UnchangedKeepsExact ==
  ASSUME BudgetTypeOK, BudgetIsExact, UNCHANGED <<used, held>>
  PROVE  BudgetTypeOK' /\ BudgetIsExact'
BY DEF BudgetTypeOK, BudgetIsExact, Budget!Holders

\* The three actions that touch the worker assignment or nothing of the budget.
LEMMA WorkerUnchanged ==
  ASSUME worker \in [Trajectories -> Workers], NEW t \in Trajectories
  PROVE  worker[t] \in Workers
OBVIOUS

BudgetStep == UNCHANGED <<used, held>> \/ \E w \in Workers : Budget!Reserve(w) \/ Budget!Release(w)

\* Every step of the scheduler uses the budget as EvalBudget allows, or not at all.
LEMMA StepsUseBudget ==
  ASSUME BudgetInv, [Next]_vars
  PROVE  BudgetStep /\ worker' \in [Trajectories -> Workers]
<1> USE DEF BudgetInv, BudgetStep
<1>1. CASE UNCHANGED vars BY <1>1 DEF vars
<1>2. ASSUME NEW t \in Trajectories, ThreadStep(t) PROVE BudgetStep /\ worker' = worker
  <2>0. worker[t] \in Workers BY WorkerUnchanged
  <2>1. CASE Step(t) BY <2>0, <2>1 DEF Step
  <2>2. CASE ReserveSlot(t) BY <2>0, <2>2 DEF ReserveSlot
  <2>3. CASE AcquireSlot(t) BY <2>3 DEF AcquireSlot
  <2>4. CASE PauseForStop(t) BY <2>0, <2>4 DEF PauseForStop, ReleasedOnPause
  <2>5. CASE LogSending(t) BY <2>5 DEF LogSending
  <2>6. CASE \E outcome \in Outcomes, roomy, sustained \in BOOLEAN : Answer(t, outcome, roomy, sustained)
    BY <2>0, <2>6 DEF Answer
  <2>7. CASE Refuse(t) BY <2>0, <2>7 DEF Refuse
  <2>8. CASE Archive(t) BY <2>8 DEF Archive
  <2>9. CASE \E verdict \in {"cleared", "review", "violation"} : Judge(t, verdict) BY <2>0, <2>9 DEF Judge
  <2>10. CASE Save(t) BY <2>10 DEF Save
  <2>11. CASE ReserveForEvaluation(t) BY <2>0, <2>11 DEF ReserveForEvaluation
  <2>12. CASE LockDevice(t) BY <2>12 DEF LockDevice
  <2>13. CASE \E result \in {"save_closed", "save_failed"} : Evaluated(t, result) BY <2>0, <2>13 DEF Evaluated
  <2> QED BY <1>2, <2>1, <2>2, <2>3, <2>4, <2>5, <2>6, <2>7, <2>8, <2>9, <2>10, <2>11, <2>12, <2>13 DEF ThreadStep
<1>3. ASSUME NEW t \in Trajectories, ThreadFault(t) PROVE BudgetStep /\ worker' = worker
  <2>0. worker[t] \in Workers BY WorkerUnchanged
  <2>1. CASE GenerationRaises(t) BY <2>0, <2>1 DEF GenerationRaises, Fault
  <2>2. CASE AdapterRaises(t) BY <2>0, <2>2 DEF AdapterRaises, Fault
  <2>3. CASE EvaluationRaises(t) BY <2>0, <2>3 DEF EvaluationRaises, Fault
  <2>4. CASE SaveRaises(t) BY <2>4 DEF SaveRaises, Fault
  <2> QED BY <1>3, <2>1, <2>2, <2>3, <2>4 DEF ThreadFault
<1>4. ASSUME NEW t \in Trajectories, NEW d \in {"compliant", "violation"}, Resolve(t, d) PROVE BudgetStep /\ worker' = worker
  BY <1>4 DEF Resolve
<1>5. ASSUME NEW t \in Trajectories, NEW w \in Workers, Resubmit(t, w) PROVE BudgetStep /\ worker' \in [Trajectories -> Workers]
  BY <1>5 DEF Resubmit
<1>6. ASSUME NEW p \in Providers, Stop(p) \/ PauseOver(p) PROVE BudgetStep /\ worker' = worker
  BY <1>6 DEF Stop, PauseOver
<1>7. CASE Exit \/ Exited BY <1>7 DEF Exit, Exited, vars
<1> QED BY <1>1, <1>2, <1>3, <1>4, <1>5, <1>6, <1>7 DEF Next

\* The budget never drifts: in every behaviour, with any number of faults, stops,
\* reviews and resubmissions, the slots counted are the slots held, and at most Cap.
THEOREM BudgetIsAlwaysExact == Spec => []BudgetIsExact
<1>1. Init => BudgetInv
  <2>1. Init => Budget!Holders = {} BY DEF Init, Budget!Init, Budget!Holders
  <2>2. Cardinality({}) = 0 BY FS_EmptySet
  <2> QED BY <2>1, <2>2, BoundsAssumption DEF Init, Budget!Init, BudgetInv, BudgetTypeOK, BudgetIsExact, Workers
<1>2. BudgetInv /\ [Next]_vars => BudgetInv'
  <2> SUFFICES ASSUME BudgetInv, [Next]_vars PROVE BudgetInv' OBVIOUS
  <2>1. BudgetStep /\ worker' \in [Trajectories -> Workers] BY StepsUseBudget
  <2>2. BudgetTypeOK /\ BudgetIsExact BY DEF BudgetInv
  <2>3. BudgetTypeOK' /\ BudgetIsExact'
    BY <2>1, <2>2, ReserveKeepsExact, ReleaseKeepsExact, UnchangedKeepsExact DEF BudgetStep
  <2> QED BY <2>1, <2>3 DEF BudgetInv, Workers
<1>3. BudgetInv => BudgetIsExact BY DEF BudgetInv
<1> QED BY <1>1, <1>2, <1>3, PTL DEF Spec
-----------------------------------------------------------------------------
(* What a trajectory holds of the budget *)

Phases == AtRest \cup Running

\* A worker runs one trajectory, which holds a slot in the whole pipeline; without
\* a fault, only a worker that runs a trajectory holds one.
SlotInv ==
  /\ phase \in [Trajectories -> Phases] /\ worker \in [Trajectories -> Workers]
  /\ held \in [Workers -> BOOLEAN] /\ faults \in Nat
  /\ \A t, u \in Trajectories : phase[t] \in Running /\ phase[u] \in Running /\ worker[t] = worker[u] => t = u
  /\ \A t \in Trajectories : phase[t] \in Pipeline => held[worker[t]]
  /\ \A w \in Workers : held[w] /\ faults = 0 => \E t \in Trajectories : phase[t] \in Running /\ worker[t] = w

\* A step of a running trajectory that changes at most its own worker's slot.
LEMMA MoveKeepsSlots ==
  ASSUME SlotInv, NEW t \in Trajectories, NEW q \in Phases, phase[t] \in Running, Goto(t, q),
         UNCHANGED worker, held' \in [Workers -> BOOLEAN], faults' \in Nat, faults <= faults',
         \A w \in Workers : w # worker[t] => held'[w] = held[w],
         q \in Pipeline => held'[worker[t]],
         q \in AtRest => ~held'[worker[t]] \/ faults' > 0
  PROVE  SlotInv'
<1>1. /\ phase' \in [Trajectories -> Phases] /\ phase'[t] = q
      /\ \A u \in Trajectories : u # t => phase'[u] = phase[u]
  BY DEF SlotInv, Goto
<1>2. Pipeline \subseteq Running /\ Phases = AtRest \cup Running BY DEF Pipeline, Running, Phases
<1>3. \A u, v \in Trajectories : phase'[u] \in Running /\ phase'[v] \in Running /\ worker'[u] = worker'[v] => u = v
  BY <1>1 DEF SlotInv
<1>4. ASSUME NEW u \in Trajectories, phase'[u] \in Pipeline PROVE held'[worker'[u]]
  <2>1. CASE u = t BY <1>1, <1>4, <2>1
  <2>2. CASE u # t
    <3>1. phase[u] \in Running /\ held[worker[u]] BY <1>1, <1>2, <1>4, <2>2 DEF SlotInv
    <3>2. worker[u] # worker[t] /\ worker[u] \in Workers BY <2>2, <3>1 DEF SlotInv
    <3> QED BY <3>1, <3>2
  <2> QED BY <2>1, <2>2
<1>5. ASSUME NEW w \in Workers, held'[w], faults' = 0
      PROVE  \E u \in Trajectories : phase'[u] \in Running /\ worker'[u] = w
  <2>0. faults = 0 BY <1>5 DEF SlotInv
  <2>1. CASE w = worker[t]
    <3>1. phase'[t] \in Running BY <1>1, <1>2, <1>5, <2>1
    <3> QED BY <2>1, <3>1
  <2>2. CASE w # worker[t]
    <3>1. PICK u \in Trajectories : phase[u] \in Running /\ worker[u] = w BY <1>5, <2>0, <2>2 DEF SlotInv
    <3>2. phase'[u] \in Running BY <1>1, <2>2, <3>1
    <3> QED BY <3>1, <3>2
  <2> QED BY <2>1, <2>2
<1> QED BY <1>1, <1>3, <1>4, <1>5 DEF SlotInv

LEMMA SlotReserved ==
  ASSUME SlotInv, NEW w \in Workers, Budget!Reserve(w)
  PROVE  held' \in [Workers -> BOOLEAN] /\ held'[w] /\ \A v \in Workers : v # w => held'[v] = held[v]
BY DEF SlotInv, Budget!Reserve

LEMMA SlotReleased ==
  ASSUME SlotInv, NEW w \in Workers, Budget!Release(w)
  PROVE  held' \in [Workers -> BOOLEAN] /\ ~held'[w] /\ \A v \in Workers : v # w => held'[v] = held[v]
BY DEF SlotInv, Budget!Release

\* What the steps of a trajectory's thread do to the slots.
LEMMA ThreadKeepsSlots ==
  ASSUME SlotInv, NEW t \in Trajectories, ThreadStep(t)
  PROVE  SlotInv'
<1>0. worker[t] \in Workers /\ held \in [Workers -> BOOLEAN] /\ faults \in Nat BY DEF SlotInv
<1> USE DEF Phases, AtRest, Running, Pipeline
<1>1. CASE Step(t)
  <2>1. NextPhase(t) \in AtRest \cup {"evalreserve", "judge", "reserve"} BY DEF NextPhase
  <2>2. CASE NextPhase(t) \in AtRest
    BY <1>0, <1>1, <2>2, SlotReleased, MoveKeepsSlots DEF Step
  <2>3. CASE NextPhase(t) \notin AtRest
    BY <1>0, <1>1, <2>1, <2>3, MoveKeepsSlots DEF Step
  <2> QED BY <2>2, <2>3
<1>2. CASE ReserveSlot(t) BY <1>0, <1>2, SlotReserved, MoveKeepsSlots DEF ReserveSlot
<1>3. CASE AcquireSlot(t)
  <2>1. held[worker[t]] BY <1>3 DEF AcquireSlot, SlotInv
  <2> QED BY <1>0, <1>3, <2>1, MoveKeepsSlots DEF AcquireSlot
<1>4. CASE PauseForStop(t) BY <1>0, <1>4, SlotReleased, MoveKeepsSlots DEF PauseForStop, ReleasedOnPause
<1>5. CASE LogSending(t)
  <2>1. held[worker[t]] BY <1>5 DEF LogSending, SlotInv
  <2> QED BY <1>0, <1>5, <2>1, MoveKeepsSlots DEF LogSending
<1>6. ASSUME NEW o, NEW r, NEW s, Answer(t, o, r, s) PROVE SlotInv'
  <2>1. held[worker[t]] BY <1>6 DEF Answer, SlotInv
  <2>2. CASE UNCHANGED <<used, held>> BY <1>0, <1>6, <2>1, <2>2, MoveKeepsSlots DEF Answer
  <2>3. CASE Budget!Release(worker[t]) /\ Goto(t, "save_failed")
    BY <1>0, <1>6, <2>3, SlotReleased, MoveKeepsSlots DEF Answer
  <2> QED BY <1>6, <2>2, <2>3 DEF Answer
<1>7. CASE Refuse(t) BY <1>0, <1>7, SlotReleased, MoveKeepsSlots DEF Refuse
<1>8. CASE Archive(t) BY <1>0, <1>8, MoveKeepsSlots DEF Archive
<1>9. ASSUME NEW v, Judge(t, v) PROVE SlotInv'
  <2>1. PICK q \in {"save_cleared", "save_review", "save_closed"} : Goto(t, q) BY <1>9 DEF Judge
  <2>2. CASE UNCHANGED <<used, held>> BY <1>0, <1>9, <2>1, <2>2, MoveKeepsSlots DEF Judge
  <2>3. CASE Budget!Release(worker[t]) BY <1>0, <1>9, <2>1, <2>3, SlotReleased, MoveKeepsSlots DEF Judge
  <2> QED BY <1>9, <2>2, <2>3 DEF Judge
<1>10. CASE Save(t) BY <1>0, <1>10, MoveKeepsSlots DEF Save, Saving
<1>11. CASE ReserveForEvaluation(t) BY <1>0, <1>11, SlotReserved, MoveKeepsSlots DEF ReserveForEvaluation
<1>12. CASE LockDevice(t)
  <2>1. held[worker[t]] BY <1>12 DEF LockDevice, SlotInv
  <2> QED BY <1>0, <1>12, <2>1, MoveKeepsSlots DEF LockDevice
<1>13. ASSUME NEW r \in {"save_closed", "save_failed"}, Evaluated(t, r) PROVE SlotInv'
  BY <1>0, <1>13, SlotReleased, MoveKeepsSlots DEF Evaluated
<1> QED BY <1>1, <1>2, <1>3, <1>4, <1>5, <1>6, <1>7, <1>8, <1>9, <1>10, <1>11, <1>12, <1>13 DEF ThreadStep

LEMMA FaultKeepsSlots ==
  ASSUME SlotInv, NEW t \in Trajectories, ThreadFault(t)
  PROVE  SlotInv'
<1>0. worker[t] \in Workers /\ held \in [Workers -> BOOLEAN] /\ faults \in Nat BY DEF SlotInv
<1> USE DEF Phases, AtRest, Running, Pipeline
<1>1. faults' = faults + 1 /\ Goto(t, "crashed") /\ UNCHANGED worker /\ phase[t] \in Running
  BY DEF ThreadFault, GenerationRaises, AdapterRaises, EvaluationRaises, SaveRaises, Fault, Saving
<1>2. Budget!Release(worker[t]) \/ UNCHANGED <<used, held>>
  BY DEF ThreadFault, GenerationRaises, AdapterRaises, EvaluationRaises, SaveRaises
<1>3. CASE Budget!Release(worker[t]) BY <1>0, <1>1, <1>3, SlotReleased, MoveKeepsSlots
<1>4. CASE UNCHANGED <<used, held>> BY <1>0, <1>1, <1>4, MoveKeepsSlots
<1> QED BY <1>2, <1>3, <1>4

\* An idle worker takes a trajectory that waited for its review.
LEMMA ResubmitKeepsSlots ==
  ASSUME SlotInv, NEW t \in Trajectories, NEW w \in Workers, Resubmit(t, w)
  PROVE  SlotInv'
<1> USE DEF Phases, AtRest, Running, Pipeline
<1>1. /\ worker' = [worker EXCEPT ![t] = w] /\ UNCHANGED <<held, faults>> /\ phase[t] = "blocked"
      /\ \A u \in Trajectories : worker[u] = w => phase[u] \in AtRest
  BY DEF Resubmit, Idle
<1>2. PICK q \in {"top", "crashed"} : phase' = [phase EXCEPT ![t] = q] BY DEF Resubmit, Goto
<1>3. /\ phase' \in [Trajectories -> Phases] /\ worker' \in [Trajectories -> Workers]
      /\ phase'[t] = q /\ worker'[t] = w
      /\ \A u \in Trajectories : u # t => phase'[u] = phase[u] /\ worker'[u] = worker[u]
  BY <1>1, <1>2 DEF SlotInv
<1>4. \A u, v \in Trajectories : phase'[u] \in Running /\ phase'[v] \in Running /\ worker'[u] = worker'[v] => u = v
  BY <1>1, <1>3 DEF SlotInv
<1>5. \A u \in Trajectories : phase'[u] \in Pipeline => held'[worker'[u]] BY <1>1, <1>3 DEF SlotInv
<1>6. ASSUME NEW v \in Workers, held'[v], faults' = 0
      PROVE  \E u \in Trajectories : phase'[u] \in Running /\ worker'[u] = v
  <2>1. PICK u \in Trajectories : phase[u] \in Running /\ worker[u] = v BY <1>1, <1>6 DEF SlotInv
  <2>2. u # t BY <1>1, <2>1
  <2> QED BY <1>3, <2>1, <2>2
<1> QED BY <1>1, <1>3, <1>4, <1>5, <1>6 DEF SlotInv

LEMMA NextSlotInv == SlotInv /\ [Next]_vars => SlotInv'
<1> SUFFICES ASSUME SlotInv, [Next]_vars PROVE SlotInv' OBVIOUS
<1>1. ASSUME UNCHANGED <<phase, worker, held, faults>> PROVE SlotInv' BY <1>1 DEF SlotInv
<1>2. ASSUME NEW t \in Trajectories, NEW d, Resolve(t, d) PROVE SlotInv' BY <1>1, <1>2 DEF Resolve
<1>3. ASSUME NEW p, Stop(p) \/ PauseOver(p) PROVE SlotInv' BY <1>1, <1>3 DEF Stop, PauseOver
<1>4. CASE Exit \/ Exited \/ UNCHANGED vars BY <1>1, <1>4 DEF Exit, Exited, vars
<1> QED BY <1>2, <1>3, <1>4, ThreadKeepsSlots, FaultKeepsSlots, ResubmitKeepsSlots DEF Next
-----------------------------------------------------------------------------
(* What a limiter counts *)

Limiters == [limit : MinLimit..MaxLimit, inFlight : Int, paused : BOOLEAN, ok : Int, overloaded : Int]

\* A limit never leaves its range, and a release gives back one place.
LEMMA LimiterStaysInRange ==
  ASSUME NEW l \in Limiters
  PROVE  /\ NewLimiter \in Limiters /\ NewLimiter.inFlight = 0
         /\ WithAcquired(l) \in Limiters /\ WithAcquired(l).inFlight = l.inFlight + 1
         /\ WithPauseOver(l) \in Limiters /\ WithPauseOver(l).inFlight = l.inFlight
         /\ \A o, r, s : WithReleased(l, o, r, s) \in Limiters /\ WithReleased(l, o, r, s).inFlight = l.inFlight - 1
<1> USE LimitsAssumption
<1>1. NewLimiter \in Limiters /\ NewLimiter.inFlight = 0 BY DEF NewLimiter, Limiters
<1>2. WithAcquired(l) \in Limiters /\ WithAcquired(l).inFlight = l.inFlight + 1 BY DEF WithAcquired, Limiters
<1>3. WithPauseOver(l) \in Limiters /\ WithPauseOver(l).inFlight = l.inFlight BY DEF WithPauseOver, Limiters
<1>4. ASSUME NEW m \in Limiters
      PROVE  /\ \A o : GivenBack(m, o) \in Limiters /\ GivenBack(m, o).inFlight = m.inFlight - 1
             /\ \A o : Counted(m, o) \in Limiters /\ Counted(m, o).inFlight = m.inFlight
             /\ Halved(m) \in Limiters /\ Halved(m).inFlight = m.inFlight
             /\ Doubled(m) \in Limiters /\ Doubled(m).inFlight = m.inFlight
             /\ [m EXCEPT !.paused = TRUE] \in Limiters /\ [m EXCEPT !.paused = TRUE].inFlight = m.inFlight
  <2>1. \A o : GivenBack(m, o) \in Limiters /\ GivenBack(m, o).inFlight = m.inFlight - 1 BY DEF GivenBack, Limiters
  <2>2. \A o : Counted(m, o) \in Limiters /\ Counted(m, o).inFlight = m.inFlight BY DEF Counted, Limiters
  <2>3. ASSUME NEW n \in MinLimit..MaxLimit
        PROVE  WithLimit(m, n) \in Limiters /\ WithLimit(m, n).inFlight = m.inFlight
    <3> DEFINE a == [m EXCEPT !.limit = n]
               b == [a EXCEPT !.ok = 0]
               c == [b EXCEPT !.overloaded = 0]
    <3>1. a \in Limiters /\ a.inFlight = m.inFlight BY DEF Limiters
    <3>2. b \in Limiters /\ b.inFlight = a.inFlight
      <4> HIDE DEF a
      <4> QED BY <3>1 DEF Limiters
    <3>3. c \in Limiters /\ c.inFlight = b.inFlight
      <4> HIDE DEF b
      <4> QED BY <3>2 DEF Limiters
    <3>4. WithLimit(m, n) = c BY DEF WithLimit
    <3> QED BY <3>1, <3>2, <3>3, <3>4
  <2>4. Halved(m) \in Limiters /\ Halved(m).inFlight = m.inFlight
    <3>1. m.limit \in MinLimit..MaxLimit BY DEF Limiters
    <3>2. (IF m.limit \div 2 < MinLimit THEN MinLimit ELSE m.limit \div 2) \in MinLimit..MaxLimit BY <3>1
    <3> QED BY <2>3, <3>2 DEF Halved
  <2>5. Doubled(m) \in Limiters /\ Doubled(m).inFlight = m.inFlight
    <3>1. m.limit \in MinLimit..MaxLimit BY DEF Limiters
    <3>2. (IF m.limit * 2 > MaxLimit THEN MaxLimit ELSE m.limit * 2) \in MinLimit..MaxLimit BY <3>1
    <3> QED BY <2>3, <3>2 DEF Doubled
  <2>6. [m EXCEPT !.paused = TRUE] \in Limiters /\ [m EXCEPT !.paused = TRUE].inFlight = m.inFlight BY DEF Limiters
  <2> QED BY <2>1, <2>2, <2>4, <2>5, <2>6
<1>5. ASSUME NEW o, NEW r, NEW s
      PROVE  WithReleased(l, o, r, s) \in Limiters /\ WithReleased(l, o, r, s).inFlight = l.inFlight - 1
  <2> DEFINE counted == Counted(GivenBack(l, o), o)
  <2>0. GivenBack(l, o) \in Limiters /\ GivenBack(l, o).inFlight = l.inFlight - 1 BY <1>4
  <2>1. counted \in Limiters /\ counted.inFlight = l.inFlight - 1 BY <1>4, <2>0
  <2>2. WithReleased(l, o, r, s) \in {[Halved(counted) EXCEPT !.paused = TRUE], Halved(counted), Doubled(counted), counted}
    BY DEF WithReleased
  <2> HIDE DEF counted
  <2>3. Halved(counted) \in Limiters /\ Halved(counted).inFlight = counted.inFlight BY <1>4, <2>1
  <2> QED BY <1>4, <2>1, <2>2, <2>3
<1> QED BY <1>1, <1>2, <1>3, <1>5

Sends == {"slot", "inflight"}
Sending(p) == {t \in Trajectories : ProviderOf[t] = p /\ phase[t] \in Sends}

\* A limiter stays in range and counts its requests, but for one a fault left behind.
FlightInv ==
  /\ phase \in [Trajectories -> Phases]
  /\ lim \in [Providers -> Limiters] /\ faults \in Nat
  /\ \A p \in Providers : /\ Cardinality(Sending(p)) <= lim[p].inFlight
                          /\ lim[p].inFlight <= Cardinality(Sending(p)) + faults

LEMMA SendingFinite == \A p : IsFiniteSet(Sending(p)) /\ Cardinality(Sending(p)) \in Nat
<1>1. \A p : Sending(p) \subseteq Trajectories BY DEF Sending
<1>2. \A p : IsFiniteSet(Sending(p)) BY <1>1, TrajectoriesAssumption, FS_Subset
<1> QED BY <1>2, FS_CardinalityType

\* Where a move of t leaves the requests in flight.
LEMMA MoveChangesSending ==
  ASSUME FlightInv, NEW t \in Trajectories, NEW q, Goto(t, q)
  PROVE  /\ \A p : IsFiniteSet(Sending(p)') /\ Cardinality(Sending(p)') \in Nat /\ Cardinality(Sending(p)) \in Nat
         /\ \A p : p # ProviderOf[t] => Sending(p)' = Sending(p)
         /\ (phase[t] \in Sends <=> q \in Sends) => Sending(ProviderOf[t])' = Sending(ProviderOf[t])
         /\ phase[t] \notin Sends /\ q \in Sends =>
              Cardinality(Sending(ProviderOf[t])') = Cardinality(Sending(ProviderOf[t])) + 1
         /\ phase[t] \in Sends /\ q \notin Sends =>
              Cardinality(Sending(ProviderOf[t])') = Cardinality(Sending(ProviderOf[t])) - 1
<1>1. phase'[t] = q /\ \A u \in Trajectories : u # t => phase'[u] = phase[u] BY DEF FlightInv, Goto
<1> DEFINE r == ProviderOf[t]
<1>2. \A p : p # r => Sending(p)' = Sending(p) BY <1>1 DEF Sending
<1>3. (phase[t] \in Sends <=> q \in Sends) => Sending(r)' = Sending(r) BY <1>1 DEF Sending
<1>4. ASSUME phase[t] \notin Sends, q \in Sends PROVE Cardinality(Sending(r)') = Cardinality(Sending(r)) + 1
  <2>1. Sending(r)' = Sending(r) \cup {t} /\ t \notin Sending(r) BY <1>1, <1>4 DEF Sending
  <2> QED BY <2>1, SendingFinite, FS_AddElement
<1>5. ASSUME phase[t] \in Sends, q \notin Sends PROVE Cardinality(Sending(r)') = Cardinality(Sending(r)) - 1
  <2>1. Sending(r)' = Sending(r) \ {t} /\ t \in Sending(r) BY <1>1, <1>5 DEF Sending
  <2> QED BY <2>1, SendingFinite, FS_RemoveElement
<1>6. \A p : IsFiniteSet(Sending(p)') /\ Cardinality(Sending(p)') \in Nat
  <2>1. \A p : Sending(p)' \subseteq Trajectories BY DEF Sending
  <2>2. \A p : IsFiniteSet(Sending(p)') BY <2>1, TrajectoriesAssumption, FS_Subset
  <2> QED BY <2>2, FS_CardinalityType
<1> QED BY <1>2, <1>3, <1>4, <1>5, <1>6, SendingFinite

\* A step of t keeps the count right if the limiter of its provider follows the
\* move, or, at a fault, keeps a place for nobody.
LEMMA MoveKeepsFlight ==
  ASSUME FlightInv, NEW t \in Trajectories, NEW q \in Phases, Goto(t, q), faults' \in Nat, faults <= faults',
         lim' \in [Providers -> Limiters],
         \A p \in Providers : p # ProviderOf[t] => lim'[p] = lim[p],
         LET l == lim[ProviderOf[t]]
             new == lim'[ProviderOf[t]]
         IN  CASE (phase[t] \in Sends <=> q \in Sends) -> new.inFlight = l.inFlight
               [] phase[t] \notin Sends /\ q \in Sends -> new.inFlight = l.inFlight + 1
               [] OTHER -> new.inFlight = l.inFlight - 1 \/ (new.inFlight = l.inFlight /\ faults < faults')
  PROVE  FlightInv'
<1>1. phase' \in [Trajectories -> Phases] BY DEF FlightInv, Goto
<1>2. \A p \in Providers : lim[p] \in Limiters /\ lim'[p] \in Limiters BY DEF FlightInv
<1>3. \A p \in Providers : lim[p].inFlight \in Int /\ lim'[p].inFlight \in Int BY <1>2 DEF Limiters
<1>4. ASSUME NEW p \in Providers
      PROVE  Cardinality(Sending(p)') <= lim'[p].inFlight /\ lim'[p].inFlight <= Cardinality(Sending(p)') + faults'
  <2>1. Cardinality(Sending(p)) <= lim[p].inFlight /\ lim[p].inFlight <= Cardinality(Sending(p)) + faults /\ faults \in Nat
    BY DEF FlightInv
  <2>2. Cardinality(Sending(p)) \in Nat /\ Cardinality(Sending(p)') \in Nat BY MoveChangesSending
  <2>3. CASE p # ProviderOf[t]
    <3>1. Sending(p)' = Sending(p) /\ lim'[p] = lim[p] BY <2>3, MoveChangesSending
    <3> QED BY <1>3, <2>1, <2>2, <3>1
  <2>4. CASE p = ProviderOf[t]
    <3>1. CASE phase[t] \in Sends <=> q \in Sends
      <4>1. Sending(p)' = Sending(p) BY <2>4, <3>1, MoveChangesSending
      <4> QED BY <1>3, <2>1, <2>2, <2>4, <3>1, <4>1
    <3>2. CASE phase[t] \notin Sends /\ q \in Sends
      <4>1. Cardinality(Sending(p)') = Cardinality(Sending(p)) + 1 BY <2>4, <3>2, MoveChangesSending
      <4> QED BY <1>3, <2>1, <2>2, <2>4, <3>2, <4>1
    <3>3. CASE phase[t] \in Sends /\ q \notin Sends
      <4>1. Cardinality(Sending(p)') = Cardinality(Sending(p)) - 1 BY <2>4, <3>3, MoveChangesSending
      <4>2. lim'[p].inFlight = lim[p].inFlight - 1 \/ (lim'[p].inFlight = lim[p].inFlight /\ faults < faults')
        BY <2>4, <3>3
      <4> QED BY <1>3, <2>1, <2>2, <4>1, <4>2
    <3> QED BY <3>1, <3>2, <3>3
  <2> QED BY <2>3, <2>4
<1> QED BY <1>1, <1>4 DEF FlightInv

\* The limiter of t's provider is replaced, or none is.
LEMMA LimiterReplaced ==
  ASSUME FlightInv, NEW t \in Trajectories, NEW l \in Limiters, SetLimiter(t, l)
  PROVE  /\ lim' \in [Providers -> Limiters] /\ lim'[ProviderOf[t]] = l
         /\ \A p \in Providers : p # ProviderOf[t] => lim'[p] = lim[p]
<1>1. ProviderOf[t] \in Providers BY TrajectoriesAssumption
<1> QED BY <1>1 DEF FlightInv, SetLimiter

\* A move outside the sending phases, or within them, that leaves the limiters alone.
LEMMA PlainMoveKeepsFlight ==
  ASSUME FlightInv, NEW t \in Trajectories, NEW q \in Phases, Goto(t, q), UNCHANGED lim,
         faults' \in Nat, faults <= faults',
         (phase[t] \in Sends <=> q \in Sends) \/ (phase[t] \in Sends /\ faults < faults')
  PROVE  FlightInv'
<1>1. lim' \in [Providers -> Limiters] BY DEF FlightInv
<1>2. CASE phase[t] \in Sends <=> q \in Sends BY <1>1, <1>2, MoveKeepsFlight
<1>3. CASE phase[t] \in Sends /\ q \notin Sends /\ faults < faults' BY <1>1, <1>3, MoveKeepsFlight
<1> QED BY <1>2, <1>3

\* A request that ends gives its place back.
LEMMA ReleaseKeepsFlight ==
  ASSUME FlightInv, NEW t \in Trajectories, NEW q \in Phases, Goto(t, q), phase[t] \in Sends, q \notin Sends,
         NEW o, NEW r, NEW s, SetLimiter(t, WithReleased(Limiter(t), o, r, s)),
         faults' \in Nat, faults <= faults'
  PROVE  FlightInv'
<1>1. Limiter(t) \in Limiters BY TrajectoriesAssumption DEF FlightInv, Limiter
<1>2. /\ WithReleased(Limiter(t), o, r, s) \in Limiters
      /\ WithReleased(Limiter(t), o, r, s).inFlight = Limiter(t).inFlight - 1
  BY <1>1, LimiterStaysInRange
<1>3. /\ lim' \in [Providers -> Limiters] /\ lim'[ProviderOf[t]].inFlight = lim[ProviderOf[t]].inFlight - 1
      /\ \A p \in Providers : p # ProviderOf[t] => lim'[p] = lim[p]
  BY <1>2, LimiterReplaced DEF Limiter
<1> QED BY <1>3, MoveKeepsFlight

LEMMA ThreadKeepsFlight ==
  ASSUME FlightInv, NEW t \in Trajectories, ThreadStep(t)
  PROVE  FlightInv'
<1>0. faults \in Nat BY DEF FlightInv
<1> USE DEF Phases, AtRest, Running, Sends
<1>1. CASE Step(t)
  <2>1. NextPhase(t) \in AtRest \cup {"evalreserve", "judge", "reserve"} BY DEF NextPhase
  <2> QED BY <1>0, <1>1, <2>1, PlainMoveKeepsFlight DEF Step
<1>2. CASE ReserveSlot(t) BY <1>0, <1>2, PlainMoveKeepsFlight DEF ReserveSlot
<1>3. CASE AcquireSlot(t)
  <2>1. Limiter(t) \in Limiters BY TrajectoriesAssumption DEF FlightInv, Limiter
  <2>2. WithAcquired(Limiter(t)) \in Limiters /\ WithAcquired(Limiter(t)).inFlight = Limiter(t).inFlight + 1
    BY <2>1, LimiterStaysInRange
  <2>3. /\ lim' \in [Providers -> Limiters] /\ lim'[ProviderOf[t]].inFlight = lim[ProviderOf[t]].inFlight + 1
        /\ \A p \in Providers : p # ProviderOf[t] => lim'[p] = lim[p]
    BY <1>3, <2>2, LimiterReplaced DEF Limiter, AcquireSlot
  <2>4. Goto(t, "slot") /\ phase[t] = "acquire" /\ faults' = faults BY <1>3 DEF AcquireSlot
  <2> QED BY <1>0, <2>3, <2>4, MoveKeepsFlight
<1>4. CASE PauseForStop(t) BY <1>0, <1>4, PlainMoveKeepsFlight DEF PauseForStop
<1>5. CASE LogSending(t) BY <1>0, <1>5, PlainMoveKeepsFlight DEF LogSending
<1>6. ASSUME NEW o, NEW r, NEW s, Answer(t, o, r, s) PROVE FlightInv'
  <2>1. PICK q \in {"received", "reserve", "save_failed"} : Goto(t, q) BY <1>6 DEF Answer
  <2> QED BY <1>0, <1>6, <2>1, ReleaseKeepsFlight DEF Answer
<1>7. CASE Refuse(t)
  <2>1. PICK o, r, s : SetLimiter(t, WithReleased(Limiter(t), o, r, s)) BY <1>7 DEF Refuse
  <2>2. phase[t] = "inflight" /\ Goto(t, "save_failed") /\ faults' = faults BY <1>7 DEF Refuse
  <2> QED BY <1>0, <2>1, <2>2, ReleaseKeepsFlight
<1>8. CASE Archive(t) BY <1>0, <1>8, PlainMoveKeepsFlight DEF Archive
<1>9. ASSUME NEW v, Judge(t, v) PROVE FlightInv'
  <2>1. PICK q \in {"save_cleared", "save_review", "save_closed"} : Goto(t, q) BY <1>9 DEF Judge
  <2> QED BY <1>0, <1>9, <2>1, PlainMoveKeepsFlight DEF Judge
<1>10. CASE Save(t) BY <1>0, <1>10, PlainMoveKeepsFlight DEF Save, Saving
<1>11. CASE ReserveForEvaluation(t) BY <1>0, <1>11, PlainMoveKeepsFlight DEF ReserveForEvaluation
<1>12. CASE LockDevice(t) BY <1>0, <1>12, PlainMoveKeepsFlight DEF LockDevice
<1>13. ASSUME NEW r \in {"save_closed", "save_failed"}, Evaluated(t, r) PROVE FlightInv'
  BY <1>0, <1>13, PlainMoveKeepsFlight DEF Evaluated
<1> QED BY <1>1, <1>2, <1>3, <1>4, <1>5, <1>6, <1>7, <1>8, <1>9, <1>10, <1>11, <1>12, <1>13 DEF ThreadStep

\* A fault between acquire and generate leaves a place for nobody; an adapter's
\* gives it back.
LEMMA FaultKeepsFlight ==
  ASSUME FlightInv, NEW t \in Trajectories, ThreadFault(t)
  PROVE  FlightInv'
<1>0. faults \in Nat /\ faults' = faults + 1 /\ Goto(t, "crashed")
  BY DEF FlightInv, ThreadFault, GenerationRaises, AdapterRaises, EvaluationRaises, SaveRaises, Fault
<1> USE DEF Phases, AtRest, Running, Sends
<1>1. CASE AdapterRaises(t)
  <2>1. PICK o, r, s : SetLimiter(t, WithReleased(Limiter(t), o, r, s)) BY <1>1 DEF AdapterRaises
  <2>2. phase[t] = "inflight" BY <1>1 DEF AdapterRaises
  <2> QED BY <1>0, <2>1, <2>2, ReleaseKeepsFlight
<1>2. CASE GenerationRaises(t) \/ EvaluationRaises(t) \/ SaveRaises(t)
  <2>1. UNCHANGED lim BY <1>2 DEF GenerationRaises, EvaluationRaises, SaveRaises
  <2> QED BY <1>0, <2>1, PlainMoveKeepsFlight, <1>2 DEF GenerationRaises, EvaluationRaises, SaveRaises, Saving
<1> QED BY <1>1, <1>2 DEF ThreadFault

LEMMA NextFlightInv == FlightInv /\ [Next]_vars => FlightInv'
<1> SUFFICES ASSUME FlightInv, [Next]_vars PROVE FlightInv' OBVIOUS
<1>1. ASSUME UNCHANGED <<phase, lim, faults>> PROVE FlightInv' BY <1>1 DEF FlightInv, Sending
<1>2. ASSUME NEW t \in Trajectories, NEW d, Resolve(t, d) PROVE FlightInv' BY <1>1, <1>2 DEF Resolve
<1>3. ASSUME NEW t \in Trajectories, NEW w, Resubmit(t, w) PROVE FlightInv'
  <2>1. PICK q \in {"top", "crashed"} : Goto(t, q) BY <1>3 DEF Resubmit
  <2> QED BY <1>3, <2>1, PlainMoveKeepsFlight DEF Resubmit, FlightInv, Phases, AtRest, Running, Sends
<1>4. ASSUME NEW p \in Providers, Stop(p) PROVE FlightInv' BY <1>1, <1>4 DEF Stop
<1>5. ASSUME NEW p \in Providers, PauseOver(p) PROVE FlightInv'
  <2>1. lim[p] \in Limiters BY DEF FlightInv
  <2>2. WithPauseOver(lim[p]) \in Limiters /\ WithPauseOver(lim[p]).inFlight = lim[p].inFlight
    BY <2>1, LimiterStaysInRange
  <2>3. lim' = [lim EXCEPT ![p] = WithPauseOver(lim[p])] BY <1>5 DEF PauseOver
  <2>4. lim' \in [Providers -> Limiters] /\ \A r \in Providers : lim'[r].inFlight = lim[r].inFlight
    BY <2>2, <2>3 DEF FlightInv
  <2>5. UNCHANGED <<phase, faults>> BY <1>5 DEF PauseOver
  <2>6. \A r : Sending(r)' = Sending(r) BY <2>5 DEF Sending
  <2> QED BY <2>4, <2>5, <2>6 DEF FlightInv
<1>6. CASE Exit \/ Exited \/ UNCHANGED vars BY <1>1, <1>6 DEF Exit, Exited, vars
<1> QED BY <1>2, <1>3, <1>4, <1>5, <1>6, ThreadKeepsFlight, FaultKeepsFlight DEF Next
-----------------------------------------------------------------------------
(* What a trajectory holds is what its stage needs *)

HoldsInv == BudgetInv /\ SlotInv /\ FlightInv

LEMMA InitHoldsInv == Init => HoldsInv
<1> SUFFICES ASSUME Init PROVE HoldsInv OBVIOUS
<1>1. Budget!Holders = {} BY DEF Init, Budget!Init, Budget!Holders
<1>2. BudgetInv
  BY <1>1, FS_EmptySet, BoundsAssumption DEF Init, Budget!Init, BudgetInv, BudgetTypeOK, BudgetIsExact, Workers
<1>3. SlotInv BY DEF Init, Budget!Init, SlotInv, Workers, Phases, AtRest, Running, Pipeline
<1>4. FlightInv
  <2>1. \A p : Sending(p) = {} BY DEF Init, Sending, Sends
  <2>2. NewLimiter \in Limiters /\ NewLimiter.inFlight = 0 BY LimitsAssumption DEF NewLimiter, Limiters
  <2> QED BY <2>1, <2>2, FS_EmptySet DEF Init, FlightInv, Phases, AtRest, Running
<1> QED BY <1>2, <1>3, <1>4 DEF HoldsInv

LEMMA NextHoldsInv == HoldsInv /\ [Next]_vars => HoldsInv'
<1> SUFFICES ASSUME HoldsInv, [Next]_vars PROVE HoldsInv' OBVIOUS
<1>1. BudgetStep /\ worker' \in [Trajectories -> Workers] BY StepsUseBudget DEF HoldsInv
<1>2. BudgetTypeOK' /\ BudgetIsExact'
  BY <1>1, ReserveKeepsExact, ReleaseKeepsExact, UnchangedKeepsExact DEF BudgetStep, BudgetInv, HoldsInv
<1>3. BudgetInv' BY <1>1, <1>2 DEF BudgetInv, Workers
<1>4. SlotInv' /\ FlightInv' BY NextSlotInv, NextFlightInv DEF HoldsInv
<1> QED BY <1>3, <1>4 DEF HoldsInv

\* The pipeline is no larger than the holders: the workers are an injection into them.
LEMMA PipelineIsBounded ==
  ASSUME HoldsInv
  PROVE  SlotCoversPipeline
<1> DEFINE piped == {t \in Trajectories : phase[t] \in Pipeline}
           f == [t \in piped |-> worker[t]]
<1>1. \A t \in Trajectories : phase[t] \in Pipeline => phase[t] \in Running /\ held[worker[t]]
  BY DEF HoldsInv, SlotInv, Pipeline, Running
<1>2. f \in Injection(piped, Budget!Holders)
  <2>1. \A t \in piped : worker[t] \in Budget!Holders BY <1>1 DEF HoldsInv, SlotInv, Budget!Holders
  <2>2. \A t, u \in piped : worker[t] = worker[u] => t = u BY <1>1 DEF HoldsInv, SlotInv
  <2> QED BY <2>1, <2>2, Fun_IsInj
<1>3. IsFiniteSet(piped) /\ IsFiniteSet(Budget!Holders)
  BY HoldersFinite, TrajectoriesAssumption, FS_Subset
<1>4. Cardinality(piped) <= Cardinality(Budget!Holders) BY <1>2, <1>3, FS_Injection
<1>5. Cardinality(piped) \in Nat /\ used \in Nat /\ Cardinality(Budget!Holders) = used /\ used <= Cap
  BY <1>3, FS_CardinalityType DEF HoldsInv, BudgetInv, BudgetTypeOK, BudgetIsExact
<1>6. Cardinality(piped) <= Cap BY <1>4, <1>5, BoundsAssumption
<1> QED BY <1>6 DEF SlotCoversPipeline, HoldsInv, SlotInv

LEMMA HoldsInvImplies ==
  ASSUME HoldsInv
  PROVE  HoldsWhatItNeeds
<1>1. SlotCoversPipeline BY PipelineIsBounded
<1>2. InFlightIsExact BY DEF HoldsInv, FlightInv, InFlightIsExact, Sending, Sends
<1>3. NothingHeldAtRest
  <2>1. SUFFICES ASSUME NEW t \in Trajectories, Idle(worker[t]), held[worker[t]], faults = 0 PROVE FALSE
    BY DEF NothingHeldAtRest, HoldsInv, SlotInv
  <2>2. PICK u \in Trajectories : phase[u] \in Running /\ worker[u] = worker[t] BY <2>1 DEF HoldsInv, SlotInv
  <2> QED BY <2>1, <2>2 DEF Idle, Running, AtRest
<1>4. \A p \in Providers : lim[p].limit \in MinLimit..MaxLimit BY DEF HoldsInv, FlightInv, Limiters
<1> QED BY <1>1, <1>2, <1>3, <1>4 DEF HoldsWhatItNeeds

\* Whatever the threads do, fail at or reuse: everything in the pipeline has a slot
\* of its own, a limiter counts its provider's requests, and a trajectory at rest
\* holds nothing, but for what a fault left behind; no limit leaves its range.
THEOREM TrajectoriesAlwaysHoldWhatTheyNeed == Spec => []HoldsWhatItNeeds
BY InitHoldsInv, NextHoldsInv, HoldsInvImplies, PTL DEF Spec
=============================================================================
