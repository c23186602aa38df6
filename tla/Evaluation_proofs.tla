-------------------------- MODULE Evaluation_proofs --------------------------
(***************************************************************************)
(* Proofs about Evaluation, for any number of evaluations on the device    *)
(* and any number of cases: workers exclude one another, and what a        *)
(* launcher says of a suite is what its worker did.                        *)
(***************************************************************************)
EXTENDS Evaluation, FiniteSetTheorems, TLAPS

\* The lock is held by the launcher that runs, and a worker lives under its
\* launcher unless it outlived it.
LockInv ==
  /\ \A e \in Evaluations : pc[e] = "running" => device = e
  /\ \A e \in Evaluations : worker[e] = "alive" => pc[e] = "running" \/ Orphan(e)

\* How far the worker is, what its files hold.
Finished(e) == Len(cases[e]) = N \/ \E i \in DOMAIN cases[e] : cases[e][i] # "valid"
SandboxOf(e) ==
  /\ stage[e] \in {"boot", "load"} => cases[e] = <<>> /\ pos[e] = 1
  /\ InCase(e) => Len(cases[e]) = pos[e] - 1
  /\ stage[e] = "end" => Finished(e)
  /\ stage[e] = "write" /\ global[e] = "none" => Finished(e)
  /\ progress[e] = "none" <=> stage[e] = "boot" \/ global[e] = "infrastructure_incomplete"
  /\ stage[e] # "write" => file[e] = "absent" /\ global[e] = "none"
  /\ global[e] # "none" => cases[e] = <<>>
SandboxInv == \A e \in Evaluations : SandboxOf(e)

IInv == TypeOK /\ LockInv /\ SandboxInv
-----------------------------------------------------------------------------
(* Suites *)

\* A list of N records in which not all are valid has a first failing one.
LEMMA FirstFailingExists ==
  ASSUME NEW cs, DOMAIN cs = 1..N, NEW k \in 1..N, cs[k] # "valid"
  PROVE  /\ FirstFailing(cs) \in 1..N
         /\ cs[FirstFailing(cs)] # "valid"
         /\ FirstFailing(cs) <= k
<1> DEFINE T == {i \in 1..N : cs[i] # "valid"}
<1>1. T \subseteq Nat /\ T # {} BY SuiteAssumption
<1> DEFINE Upto(i) == 1..i
           Intervals == {Upto(i) : i \in T}
<1>2. IsWellFoundedOn(StrictSubsetOrdering(Nat), FiniteSubsetsOf(Nat)) BY FS_StrictSubsetOrderingWellFounded
<1>3. \A i \in T : Upto(i) \in FiniteSubsetsOf(Nat) BY FS_Interval DEF FiniteSubsetsOf
<1>4. Intervals \subseteq FiniteSubsetsOf(Nat) /\ Intervals # {} BY <1>1, <1>3
<1>5. PICK I \in Intervals : \A J \in Intervals : <<J, I>> \notin StrictSubsetOrdering(Nat)
  <2> HIDE DEF Intervals
  <2> QED BY <1>2, <1>4, WFMin
<1>6. PICK i \in T : I = Upto(i) BY <1>5
<1>7. \A j \in T : ~(j < i)
  <2> SUFFICES ASSUME NEW j \in T, j < i PROVE FALSE OBVIOUS
  <2>1. Upto(j) \in Intervals /\ Upto(j) \subseteq Nat /\ Upto(i) \subseteq Nat OBVIOUS
  <2>2. Upto(j) \subseteq Upto(i) /\ i \in Upto(i) /\ i \notin Upto(j) BY SuiteAssumption
  <2>3. <<Upto(j), Upto(i)>> \in StrictSubsetOrdering(Nat) BY <2>1, <2>2 DEF StrictSubsetOrdering
  <2> QED BY <1>5, <1>6, <2>1, <2>3
<1>8. i \in DOMAIN cs /\ cs[i] # "valid" /\ \A j \in 1..(i - 1) : cs[j] = "valid"
  BY <1>7, SuiteAssumption
<1>9. /\ FirstFailing(cs) \in DOMAIN cs
      /\ cs[FirstFailing(cs)] # "valid"
      /\ \A j \in 1..(FirstFailing(cs) - 1) : cs[j] = "valid"
  BY <1>8, Zenon DEF FirstFailing
<1>10. FirstFailing(cs) <= k BY <1>9, SuiteAssumption
<1> QED BY <1>9, <1>10

LEMMA FilledType ==
  ASSUME NEW cs \in Seq(CaseStatuses)
  PROVE  /\ Filled(cs) \in Seq(CaseStatuses)
         /\ Len(Filled(cs)) = N
         /\ DOMAIN Filled(cs) = 1..N
         /\ \A i \in 1..N : Filled(cs)[i] = IF i \in 1..Len(cs) THEN cs[i] ELSE "not_evaluated"
<1>1. DOMAIN cs = 1..Len(cs) OBVIOUS
<1>2. Filled(cs) \in [1..N -> CaseStatuses] BY <1>1 DEF Filled, CaseStatuses
<1> QED BY <1>1, <1>2, SuiteAssumption DEF Filled

\* A suite is valid exactly when the worker finished all its cases with a valid
\* result; a suite with a failing case has the status of a finished case.
LEMMA SuiteStatusIsEarned ==
  ASSUME NEW cs \in Seq(CaseStatuses \ {"not_evaluated"}), Len(cs) <= N
  PROVE  /\ SuiteStatus(Filled(cs)) \in CaseStatuses
         /\ SuiteStatus(Filled(cs)) = "valid" => AllValid(cs) /\ AllValid(Filled(cs))
         /\ (Len(cs) = N \/ \E i \in DOMAIN cs : cs[i] # "valid") => SuiteStatus(Filled(cs)) # "not_evaluated"
<1> DEFINE full == Filled(cs)
<1>0. cs \in Seq(CaseStatuses) /\ DOMAIN cs = 1..Len(cs) OBVIOUS
<1>1. /\ full \in Seq(CaseStatuses) /\ Len(full) = N /\ DOMAIN full = 1..N
      /\ \A i \in 1..N : full[i] = IF i \in 1..Len(cs) THEN cs[i] ELSE "not_evaluated"
  BY <1>0, FilledType
<1> HIDE DEF full
<1>2. CASE AllValid(full)
  <2>1. \A i \in 1..N : full[i] = "valid" BY <1>1, <1>2 DEF AllValid
  <2>2. \A i \in 1..N : i \in 1..Len(cs) /\ cs[i] = "valid" BY <1>1, <2>1
  <2>3. Len(cs) = N BY <2>2, SuiteAssumption
  <2>4. SuiteStatus(full) = "valid" BY <1>2 DEF SuiteStatus
  <2>5. AllValid(cs) BY <2>2, <2>3 DEF AllValid
  <2> QED BY <1>2, <2>4, <2>5 DEF CaseStatuses, full
<1>3. CASE ~AllValid(full)
  <2>1. PICK k \in 1..N : full[k] # "valid" BY <1>1, <1>3 DEF AllValid
  <2>2. FirstFailing(full) \in 1..N /\ full[FirstFailing(full)] # "valid"
    BY <1>1, <2>1, FirstFailingExists
  <2>3. SuiteStatus(full) = full[FirstFailing(full)] BY <1>3 DEF SuiteStatus
  <2>4. SuiteStatus(full) \in CaseStatuses /\ SuiteStatus(full) # "valid" BY <1>1, <2>2, <2>3
  <2>5. ASSUME Len(cs) = N \/ \E i \in DOMAIN cs : cs[i] # "valid"
        PROVE  SuiteStatus(full) # "not_evaluated"
    <3>1. CASE Len(cs) = N BY <1>0, <1>1, <2>2, <2>3, <3>1
    <3>2. CASE \E i \in DOMAIN cs : cs[i] # "valid"
      <4>1. PICK i \in 1..Len(cs) : cs[i] # "valid" BY <1>0, <3>2
      <4>2. i \in 1..N /\ full[i] # "valid" BY <1>1, <4>1, SuiteAssumption
      <4>3. FirstFailing(full) <= i BY <1>1, <4>2, FirstFailingExists
      <4>4. FirstFailing(full) \in 1..Len(cs) BY <2>2, <4>3, <4>1
      <4> QED BY <1>0, <1>1, <2>2, <2>3, <4>4
    <3> QED BY <2>5, <3>1, <3>2
  <2> QED BY <2>4, <2>5 DEF full
<1> QED BY <1>2, <1>3
-----------------------------------------------------------------------------
(* The inductive invariant *)

\* A worker step leaves the launcher's side alone and no worker comes to life.
LEMMA WorkerStepKeepsLock ==
  ASSUME LockInv, NEW e \in Evaluations, UNCHANGED launcher,
         \/ UNCHANGED worker
         \/ \E w \in {"exited", "dead"} : worker' = [worker EXCEPT ![e] = w],
         worker \in [Evaluations -> {"none", "alive", "exited", "dead"}]
  PROVE  LockInv'
BY DEF LockInv, Orphan, launcher

LEMMA InitInv == Init => IInv
<1> SUFFICES ASSUME Init PROVE IInv OBVIOUS
<1>1. TypeOK
  <2>1. <<>> \in Seq(CaseStatuses \ {"not_evaluated"}) /\ NoOutcome \in Results /\ 1 \in 1..N /\ 0 <= N
    BY SuiteAssumption DEF NoOutcome, Results
  <2>2. Len(<<>>) = 0 OBVIOUS
  <2> QED BY <2>1, <2>2 DEF Init, TypeOK
<1>2. LockInv BY DEF Init, LockInv
<1>3. SandboxInv BY DEF Init, SandboxInv, SandboxOf, InCase, CaseStages
<1> QED BY <1>1, <1>2, <1>3 DEF IInv

LEMMA FillMarkerInv == ASSUME IInv, NEW e \in Evaluations, FillMarker(e) PROVE IInv'
<1> USE DEF IInv, FillMarker, Works, launcher, process
<1>1. TypeOK' BY DEF TypeOK
<1>2. LockInv' BY WorkerStepKeepsLock DEF TypeOK
<1>3. SandboxInv' BY DEF TypeOK, SandboxInv, SandboxOf, InCase, Finished
<1> QED BY <1>1, <1>2, <1>3

LEMMA BootInv == ASSUME IInv, NEW e \in Evaluations, Boot(e) PROVE IInv'
<1> USE DEF IInv, Boot, Runs, Works, EnterStage, Opened, launcher
<1>1. TypeOK' BY DEF TypeOK
<1>2. LockInv' BY WorkerStepKeepsLock DEF TypeOK
<1>3. SandboxInv' BY DEF TypeOK, SandboxInv, SandboxOf, InCase, CaseStages, Finished
<1> QED BY <1>1, <1>2, <1>3

LEMMA BootFailsInv == ASSUME IInv, NEW e \in Evaluations, BootFails(e) PROVE IInv'
<1> USE DEF IInv, BootFails, Runs, Works, OpenResult, launcher
<1>1. TypeOK' BY DEF TypeOK
<1>2. LockInv' BY WorkerStepKeepsLock DEF TypeOK
<1>3. SandboxInv' BY DEF TypeOK, SandboxInv, SandboxOf, InCase, CaseStages, Finished
<1> QED BY <1>1, <1>2, <1>3

LEMMA LoadInv == ASSUME IInv, NEW e \in Evaluations, NEW event \in LoadEvents, Load(e, event) PROVE IInv'
<1> USE DEF IInv, Load, Runs, Works, EnterStage, Opened, OpenResult, launcher
<1>0. GlobalStatus(event) \in {"none", "contract_violation", "compile_error", "interface_error"} BY DEF GlobalStatus
<1>1. TypeOK' BY <1>0 DEF TypeOK
<1>2. LockInv' BY WorkerStepKeepsLock DEF TypeOK
<1>3. SandboxInv' BY <1>0 DEF TypeOK, SandboxInv, SandboxOf, InCase, CaseStages, Finished
<1> QED BY <1>1, <1>2, <1>3

LEMMA EndInv == ASSUME IInv, NEW e \in Evaluations, End(e) PROVE IInv'
<1> USE DEF IInv, End, Runs, Works, OpenResult, launcher
<1>1. TypeOK' BY DEF TypeOK
<1>2. LockInv' BY WorkerStepKeepsLock DEF TypeOK
<1>3. SandboxInv' BY DEF TypeOK, SandboxInv, SandboxOf, InCase, CaseStages, Finished
<1> QED BY <1>1, <1>2, <1>3

LEMMA WriteResultInv == ASSUME IInv, NEW e \in Evaluations, WriteResult(e) PROVE IInv'
<1> USE DEF IInv, WriteResult, Works, launcher
<1>1. TypeOK' BY DEF TypeOK
<1>2. LockInv' BY WorkerStepKeepsLock DEF TypeOK
<1>3. SandboxInv' BY DEF TypeOK, SandboxInv, SandboxOf, InCase, CaseStages, Finished
<1> QED BY <1>1, <1>2, <1>3

LEMMA DieInv == ASSUME IInv, NEW e \in Evaluations, Die(e) PROVE IInv'
<1> USE DEF IInv, Die, Works, launcher, sandbox
<1>1. TypeOK' BY DEF TypeOK
<1>2. LockInv' BY WorkerStepKeepsLock DEF TypeOK
<1>3. SandboxInv' BY DEF TypeOK, SandboxInv, SandboxOf, InCase, CaseStages, Finished
<1> QED BY <1>1, <1>2, <1>3

LEMMA StartInv == ASSUME IInv, NEW e \in Evaluations, Start(e) PROVE IInv'
<1> USE DEF IInv, Start, sandbox
<1>1. TypeOK' BY DEF TypeOK
<1>2. LockInv' BY NoneAssumption DEF TypeOK, LockInv, Orphan
<1>3. SandboxInv' BY DEF TypeOK, SandboxInv, SandboxOf, InCase, CaseStages, Finished
<1> QED BY <1>1, <1>2, <1>3

LEMMA TimeoutInv == ASSUME IInv, NEW e \in Evaluations, Timeout(e) PROVE IInv'
<1> USE DEF IInv, Timeout, sandbox
<1>1. TypeOK' BY DEF TypeOK
<1>2. LockInv' BY DEF TypeOK, LockInv, Orphan
<1>3. SandboxInv' BY DEF TypeOK, SandboxInv, SandboxOf, InCase, CaseStages, Finished
<1> QED BY <1>1, <1>2, <1>3

LEMMA OrphanEndsInv == ASSUME IInv, NEW e \in Evaluations, OrphanEnds(e) PROVE IInv'
<1> USE DEF IInv, OrphanEnds, launcher, sandbox
<1>1. TypeOK' BY DEF TypeOK
<1>2. LockInv' BY WorkerStepKeepsLock DEF TypeOK
<1>3. SandboxInv' BY DEF TypeOK, SandboxInv, SandboxOf, InCase, CaseStages, Finished
<1> QED BY <1>1, <1>2, <1>3

\* An empty sandbox satisfies the invariant of one.
LEMMA ForgottenInv ==
  ASSUME TypeOK, SandboxInv, NEW e \in Evaluations, Forgotten(e)
  PROVE  /\ SandboxInv'
         /\ stage' \in [Evaluations -> {"boot", "load", "first_execution", "numerical_checks", "timing", "end", "write"}]
         /\ pos' \in [Evaluations -> 1..N]
         /\ progress' \in [Evaluations -> {"none", "torn", "candidate"}]
         /\ cases' \in [Evaluations -> Seq(CaseStatuses \ {"not_evaluated"})]
         /\ \A f \in Evaluations : Len(cases'[f]) <= N
         /\ global' \in [Evaluations -> {"none", "infrastructure_incomplete", "contract_violation", "compile_error", "interface_error"}]
         /\ file' \in [Evaluations -> {"absent", "torn", "whole"}]
         /\ timedOut' \in [Evaluations -> BOOLEAN] /\ unrestored' \in [Evaluations -> BOOLEAN]
<1> USE DEF Forgotten, TypeOK
<1>1. 1 \in 1..N /\ <<>> \in Seq(CaseStatuses \ {"not_evaluated"}) /\ Len(<<>>) <= N BY SuiteAssumption
<1>2. \A f \in Evaluations : Len(cases'[f]) <= N BY <1>1
<1>3. SandboxInv' BY DEF SandboxInv, SandboxOf, InCase, CaseStages, Finished
<1> QED BY <1>1, <1>2, <1>3

\* A finished stage of a case: the case goes on, or its record is appended and the
\* suite goes on or ends.
LEMMA RunStageInv ==
  ASSUME IInv, NEW e \in Evaluations, NEW i \in DOMAIN CaseStages, NEW event \in Events(CaseStages[i]), RunStage(e, i, event)
  PROVE  IInv'
<1> DEFINE s == CaseStatus(stage[e], event)
           goesOn == s \notin SuiteStop /\ MoreCases(pos[e])
<1> USE DEF IInv
<1>1. i \in 1..3 /\ stage[e] = CaseStages[i] /\ InCase(e) BY DEF RunStage, Runs, CaseStages, InCase
<1>2. /\ stage[e] \in {"first_execution", "numerical_checks", "timing"}
      /\ \A k \in 1..3 : CaseStages[k] \in {"first_execution", "numerical_checks", "timing"}
  BY <1>1 DEF CaseStages
<1>3. s \in (CaseStatuses \ {"not_evaluated"}) \cup {"none"} BY DEF CaseStatus, CaseStatuses
<1>4. s = "none" => stage[e] # "timing" BY DEF CaseStatus
<1>5. Len(cases[e]) = pos[e] - 1 /\ pos[e] \in 1..N /\ cases[e] \in Seq(CaseStatuses \ {"not_evaluated"}) /\ N \in Nat
  BY <1>1, SuiteAssumption DEF TypeOK, SandboxInv, SandboxOf
<1>6. /\ file[e] = "absent" /\ global[e] = "none"
      /\ launcher' = launcher /\ worker' = worker /\ global' = global /\ file' = file
      /\ progress' = [progress EXCEPT ![e] = "torn"]
      /\ unrestored' \in [Evaluations -> BOOLEAN]
  BY <1>1, <1>2 DEF TypeOK, SandboxInv, SandboxOf, RunStage, EnterStage, Opened
<1>7. LockInv' BY <1>6, WorkerStepKeepsLock DEF TypeOK
<1> HIDE DEF s
<1>8. CASE s = "none"
  <2>1. /\ stage' = [stage EXCEPT ![e] = CaseStages[i + 1]]
        /\ cases' = cases /\ pos' = pos
    BY <1>8 DEF RunStage, EnterStage, s
  <2>2. i + 1 \in 1..3 BY <1>1, <1>4, <1>8 DEF CaseStages
  <2>3. CaseStages[i + 1] \in {"first_execution", "numerical_checks", "timing"} BY <1>2, <2>2
  <2>4. TypeOK' BY <1>6, <2>1, <2>3 DEF TypeOK, launcher
  <2>5. SandboxInv' BY <1>5, <1>6, <2>1, <2>3 DEF TypeOK, SandboxInv, SandboxOf, InCase, Finished
  <2> QED BY <1>7, <2>4, <2>5
<1>9. CASE s # "none"
  <2>1. /\ stage' = [stage EXCEPT ![e] = IF goesOn THEN "first_execution" ELSE "end"]
        /\ cases' = [cases EXCEPT ![e] = Append(@, s)]
        /\ pos' = [pos EXCEPT ![e] = IF goesOn THEN @ + 1 ELSE @]
    BY <1>9 DEF RunStage, EnterStage, s
  <2>2. /\ Append(cases[e], s) \in Seq(CaseStatuses \ {"not_evaluated"})
        /\ Len(Append(cases[e], s)) = pos[e]
        /\ Append(cases[e], s)[pos[e]] = s
        /\ pos[e] \in DOMAIN Append(cases[e], s)
    BY <1>3, <1>5, <1>9
  <2>3. goesOn => pos[e] + 1 \in 1..N BY <1>5 DEF MoreCases
  <2>4. ~goesOn => pos[e] = N \/ s # "valid" BY <1>5 DEF MoreCases, SuiteStop
  <2>5. TypeOK' BY <1>5, <1>6, <2>1, <2>2, <2>3 DEF TypeOK, launcher
  <2>6. \A f \in Evaluations \ {e} : SandboxOf(f)'
    BY <1>6, <2>1 DEF TypeOK, SandboxInv, SandboxOf, InCase, Finished
  <2>7. SandboxOf(e)'
    <3>1. stage'[e] = IF goesOn THEN "first_execution" ELSE "end" BY <2>1 DEF TypeOK
    <3>2. cases'[e] = Append(cases[e], s) /\ pos'[e] = IF goesOn THEN pos[e] + 1 ELSE pos[e]
      BY <2>1 DEF TypeOK
    <3>3. progress'[e] = "torn" /\ file'[e] = "absent" /\ global'[e] = "none" BY <1>6 DEF TypeOK
    <3>4. InCase(e)' => goesOn BY <3>1 DEF InCase, CaseStages
    <3>5. InCase(e)' => Len(cases'[e]) = pos'[e] - 1 BY <1>5, <2>2, <3>2, <3>4
    <3>6. stage'[e] = "end" => Finished(e)' BY <2>2, <2>4, <3>1, <3>2 DEF Finished
    <3> QED BY <3>1, <3>3, <3>5, <3>6 DEF SandboxOf
  <2> QED BY <1>7, <2>5, <2>6, <2>7 DEF SandboxInv
<1> QED BY <1>8, <1>9

\* What the launcher makes of the worker's files.
ResultOf(e) == IF timedOut[e] \/ file[e] = "absent" THEN NoResult(e) ELSE WorkerResult(e)

LEMMA CollectResult ==
  ASSUME TypeOK, NEW e \in Evaluations, Collect(e)
  PROVE  /\ pc' = [pc EXCEPT ![e] = "raised"] \/ pc' = [pc EXCEPT ![e] = "done"]
         /\ pc'[e] = "done" => outcome' = [outcome EXCEPT ![e] = ResultOf(e)] /\ (timedOut[e] \/ file[e] \in {"absent", "whole"})
         /\ pc'[e] # "done" => outcome' = outcome
BY DEF Collect, TypeOK, ResultOf

\* The result a launcher returns: of a known shape, and what it says of each case.
LEMMA NoResultSays ==
  ASSUME IInv, NEW e \in Evaluations
  PROVE  /\ NoResult(e) \in Results /\ NoResult(e).status # "valid"
         /\ NoResult(e).status = "infrastructure_incomplete" <=> ~NamesCandidate(e)
         /\ NamesCandidate(e) =>
              /\ Len(NoResult(e).cases) = N
              /\ \A i \in 1..Len(cases[e]) : NoResult(e).cases[i] = cases[e][i]
              /\ \A i \in (Len(cases[e]) + 1)..N :
                   NoResult(e).cases[i] = "not_evaluated" \/ (i = Len(cases[e]) + 1 /\ NoResult(e).cases[i] = "runtime_error")
<1>1. cases[e] \in Seq(CaseStatuses) /\ Len(cases[e]) \in 0..N /\ N \in Nat BY SuiteAssumption DEF IInv, TypeOK
<1>2. CASE ~NamesCandidate(e)
  <2>1. NoResult(e) = [status |-> "infrastructure_incomplete", cases |-> <<>>] BY <1>2 DEF NoResult
  <2> QED BY <1>2, <2>1 DEF Results
<1>3. CASE NamesCandidate(e)
  <2> DEFINE cs == IF Len(cases[e]) < N THEN Append(cases[e], "runtime_error") ELSE cases[e]
  <2>1. NoResult(e) = [status |-> "runtime_error", cases |-> Filled(cs)] BY <1>3 DEF NoResult
  <2>2. "runtime_error" \in CaseStatuses BY DEF CaseStatuses
  <2>3. cs \in Seq(CaseStatuses) BY <1>1, <2>2
  <2>4. /\ Filled(cs) \in Seq(CaseStatuses) /\ Len(Filled(cs)) = N
        /\ \A i \in 1..N : Filled(cs)[i] = IF i \in 1..Len(cs) THEN cs[i] ELSE "not_evaluated"
    BY <2>3, FilledType
  <2>5. /\ Len(cs) >= Len(cases[e]) /\ Len(cs) <= Len(cases[e]) + 1
        /\ \A i \in 1..Len(cases[e]) : cs[i] = cases[e][i]
        /\ Len(cs) = Len(cases[e]) + 1 => cs[Len(cases[e]) + 1] = "runtime_error"
    BY <1>1
  <2> HIDE DEF cs
  <2>6. NoResult(e) \in Results /\ NoResult(e).status = "runtime_error" /\ NoResult(e).cases = Filled(cs)
    BY <2>1, <2>4 DEF Results, CaseStatuses
  <2>7. \A i \in 1..Len(cases[e]) : Filled(cs)[i] = cases[e][i] BY <1>1, <2>3, <2>4, <2>5
  <2>8. \A i \in (Len(cases[e]) + 1)..N : Filled(cs)[i] = "not_evaluated" \/ (i = Len(cases[e]) + 1 /\ Filled(cs)[i] = "runtime_error")
    BY <1>1, <2>3, <2>4, <2>5
  <2> QED BY <1>3, <2>4, <2>6, <2>7, <2>8
<1> QED BY <1>2, <1>3

LEMMA WorkerResultSays ==
  ASSUME IInv, NEW e \in Evaluations, file[e] = "whole"
  PROVE  /\ WorkerResult(e) \in Results
         /\ WorkerResult(e).status = "valid" => AllValid(cases[e]) /\ SuiteCheck(WorkerResult(e))
         /\ WorkerResult(e).status = "infrastructure_incomplete" <=> global[e] = "infrastructure_incomplete"
         /\ WorkerResult(e).status # "infrastructure_incomplete" =>
              /\ Len(WorkerResult(e).cases) = N
              /\ \A i \in 1..Len(cases[e]) : WorkerResult(e).cases[i] = cases[e][i]
              /\ \A i \in (Len(cases[e]) + 1)..N : WorkerResult(e).cases[i] = "not_evaluated"
<1>1. /\ cases[e] \in Seq(CaseStatuses \ {"not_evaluated"}) /\ Len(cases[e]) \in 0..N /\ N \in Nat \ {0}
      /\ cases[e] \in Seq(CaseStatuses) /\ DOMAIN cases[e] = 1..Len(cases[e])
  BY SuiteAssumption DEF IInv, TypeOK
<1>2. stage[e] = "write" BY DEF IInv, SandboxInv, SandboxOf
<1>3. CASE global[e] = "infrastructure_incomplete"
  <2>1. WorkerResult(e) = [status |-> "infrastructure_incomplete", cases |-> <<>>] BY <1>3 DEF WorkerResult
  <2> QED BY <1>3, <2>1 DEF Results
<1>4. CASE global[e] \notin {"none", "infrastructure_incomplete"}
  <2>1. WorkerResult(e) = [status |-> global[e], cases |-> Filled(<<>>)] BY <1>4 DEF WorkerResult
  <2>2. cases[e] = <<>> BY <1>4 DEF IInv, SandboxInv, SandboxOf
  <2>3. global[e] \in {"contract_violation", "compile_error", "interface_error"} BY <1>4 DEF IInv, TypeOK
  <2>4. /\ Filled(cases[e]) \in Seq(CaseStatuses) /\ Len(Filled(cases[e])) = N
        /\ \A i \in 1..N : Filled(cases[e])[i] = IF i \in 1..Len(cases[e]) THEN cases[e][i] ELSE "not_evaluated"
    BY <1>1, FilledType
  <2>5. WorkerResult(e).status = global[e] /\ WorkerResult(e).cases = Filled(cases[e]) BY <2>1, <2>2
  <2>6. WorkerResult(e) \in Results BY <2>1, <2>2, <2>3, <2>4 DEF Results, CaseStatuses
  <2> QED BY <1>1, <1>4, <2>3, <2>4, <2>5, <2>6
<1>5. CASE global[e] = "none"
  <2> DEFINE full == Filled(cases[e])
  <2>1. WorkerResult(e) = [status |-> SuiteStatus(full), cases |-> full] BY <1>5 DEF WorkerResult
  <2>2. Finished(e) BY <1>2, <1>5 DEF IInv, SandboxInv, SandboxOf
  <2>3. /\ full \in Seq(CaseStatuses) /\ Len(full) = N
        /\ \A i \in 1..N : full[i] = IF i \in 1..Len(cases[e]) THEN cases[e][i] ELSE "not_evaluated"
    BY <1>1, FilledType
  <2>4. /\ SuiteStatus(full) \in CaseStatuses \ {"not_evaluated"}
        /\ SuiteStatus(full) = "valid" => AllValid(cases[e]) /\ AllValid(full)
    BY <1>1, <2>2, SuiteStatusIsEarned DEF Finished
  <2> HIDE DEF full
  <2>5. WorkerResult(e).status = SuiteStatus(full) /\ WorkerResult(e).cases = full BY <2>1
  <2>6. WorkerResult(e) \in Results BY <2>1, <2>3, <2>4 DEF Results
  <2>7. WorkerResult(e).status # "infrastructure_incomplete" BY <2>4, <2>5 DEF CaseStatuses
  <2>8. full # <<>> BY <1>1, <2>3
  <2> QED BY <1>1, <1>5, <2>3, <2>4, <2>5, <2>6, <2>7, <2>8 DEF SuiteCheck
<1> QED BY <1>3, <1>4, <1>5

LEMMA ResultType ==
  ASSUME IInv, NEW e \in Evaluations, timedOut[e] \/ file[e] \in {"absent", "whole"}
  PROVE  ResultOf(e) \in Results
BY NoResultSays, WorkerResultSays DEF ResultOf

LEMMA CollectInv == ASSUME IInv, NEW e \in Evaluations, Collect(e) PROVE IInv'
<1>1. Forgotten(e) /\ isolation' = isolation /\ worker' = worker /\ device' = None /\ pc[e] = "running" /\ worker[e] # "alive"
  BY DEF Collect
<1>2. /\ pc' = [pc EXCEPT ![e] = "raised"] \/ pc' = [pc EXCEPT ![e] = "done"]
      /\ outcome' \in [Evaluations -> Results]
  <2>1. CASE pc'[e] = "done"
    <3>1. ResultOf(e) \in Results /\ outcome' = [outcome EXCEPT ![e] = ResultOf(e)]
      BY <2>1, CollectResult, ResultType DEF IInv
    <3> QED BY <3>1, CollectResult DEF IInv, TypeOK
  <2>2. CASE pc'[e] # "done" BY <2>2, CollectResult DEF IInv, TypeOK
  <2> QED BY <2>1, <2>2
<1>3. TypeOK' BY <1>1, <1>2, ForgottenInv DEF IInv, TypeOK
<1>4. LockInv' BY <1>1, <1>2, NoneAssumption DEF IInv, TypeOK, LockInv, Orphan
<1>5. SandboxInv' BY <1>1, ForgottenInv DEF IInv
<1> QED BY <1>3, <1>4, <1>5 DEF IInv

LEMMA KillInv == ASSUME IInv, NEW e \in Evaluations, Kill(e) PROVE IInv'
<1>1. Forgotten(e) /\ isolation' = isolation /\ outcome' = outcome /\ pc' = [pc EXCEPT ![e] = "killed"] BY DEF Kill
<1>2. device' = IF device = e THEN None ELSE device BY DEF Kill
<1>3. worker' = [worker EXCEPT ![e] = IF @ = "alive" /\ isolation[e] = "bwrap" THEN "dead" ELSE @] BY DEF Kill, DiesWithLauncher
<1>4. TypeOK' BY <1>1, <1>2, <1>3, ForgottenInv DEF IInv, TypeOK
<1>5. LockInv' BY <1>1, <1>2, <1>3, NoneAssumption DEF IInv, TypeOK, LockInv, Orphan
<1>6. SandboxInv' BY <1>1, ForgottenInv DEF IInv
<1> QED BY <1>4, <1>5, <1>6 DEF IInv

LEMMA StutterInv == ASSUME IInv, UNCHANGED vars PROVE IInv'
BY DEF IInv, TypeOK, LockInv, SandboxInv, SandboxOf, Orphan, InCase, Finished, vars, launcher, process, sandbox

LEMMA StepInv == IInv /\ [Next]_vars => IInv'
<1> SUFFICES ASSUME IInv, [Next]_vars PROVE IInv' OBVIOUS
<1>1. ASSUME NEW e \in Evaluations, WorkerStep(e) PROVE IInv'
  BY <1>1, FillMarkerInv, BootInv, BootFailsInv, LoadInv, RunStageInv, EndInv, WriteResultInv, DieInv DEF WorkerStep
<1>2. ASSUME NEW e \in Evaluations, Start(e) \/ Timeout(e) \/ Collect(e) \/ Kill(e) \/ OrphanEnds(e) PROVE IInv'
  BY <1>2, StartInv, TimeoutInv, CollectInv, KillInv, OrphanEndsInv
<1> QED BY <1>1, <1>2, StutterInv DEF Next

LEMMA AlwaysIInv == Spec => []IInv
BY InitInv, StepInv, PTL DEF Spec
-----------------------------------------------------------------------------
(* Theorems *)

\* Every variable keeps its type; what a launcher returns is a result of a known
\* status, never that of a case nobody ran.
THEOREM EvaluationTypeCorrect == Spec => []TypeOK
BY AlwaysIInv, PTL DEF IInv

\* At most one candidate runs on a device, whatever is killed and times out, but for
\* the worker that outlived a launcher killed without the bwrap sandbox.
THEOREM WorkersAlwaysExclusive == Spec => []WorkersAreExclusive
<1>1. IInv => WorkersAreExclusive BY DEF IInv, LockInv, WorkersAreExclusive
<1> QED BY <1>1, AlwaysIInv, PTL

\* An evaluation returns in its Collect step, with what its sandbox holds.
LEMMA ReturnIsCollect ==
  ASSUME IInv, [Next]_vars, NEW e \in Evaluations, Returns(e)
  PROVE  /\ outcome'[e] = ResultOf(e)
         /\ timedOut[e] \/ file[e] \in {"absent", "whole"}
<1>1. CASE UNCHANGED vars BY <1>1 DEF Returns, vars, launcher
<1>2. ASSUME NEW f \in Evaluations, WorkerStep(f) PROVE FALSE
  <2>1. pc' = pc
    BY <1>2 DEF WorkerStep, FillMarker, Boot, BootFails, Load, RunStage, End, WriteResult, Die, launcher
  <2> QED BY <2>1 DEF Returns
<1>3. ASSUME NEW f \in Evaluations, Start(f) \/ Timeout(f) \/ Kill(f) \/ OrphanEnds(f) PROVE FALSE
  BY <1>3 DEF Start, Timeout, Kill, OrphanEnds, launcher, Returns, IInv, TypeOK
<1>4. ASSUME NEW f \in Evaluations, Collect(f) PROVE f = e
  BY <1>4 DEF Collect, Returns, IInv, TypeOK
<1>5. CASE Collect(e)
  BY <1>5, CollectResult DEF Returns, IInv, TypeOK
<1> QED BY <1>1, <1>2, <1>3, <1>4, <1>5 DEF Next

\* The three statements about what a launcher returns follow from the invariant alone.
LEMMA ReturnsTrue ==
  ASSUME IInv, [Next]_vars
  PROVE  /\ \A e \in Evaluations : Returns(e) /\ outcome'[e].status = "valid" => AllValid(cases[e]) /\ SuiteCheck(outcome'[e])
         /\ \A e \in Evaluations : Returns(e) =>
              (outcome'[e].status = "infrastructure_incomplete" <=> IF timedOut[e] \/ file[e] = "absent" THEN ~NamesCandidate(e) ELSE global[e] = "infrastructure_incomplete")
         /\ \A e \in Evaluations : Returns(e) /\ outcome'[e].status # "infrastructure_incomplete" =>
              /\ Len(outcome'[e].cases) = N
              /\ \A i \in 1..Len(cases[e]) : outcome'[e].cases[i] = cases[e][i]
              /\ \A i \in (Len(cases[e]) + 1)..N :
                   outcome'[e].cases[i] = "not_evaluated" \/ (i = Len(cases[e]) + 1 /\ outcome'[e].cases[i] = "runtime_error")
<1> SUFFICES ASSUME NEW e \in Evaluations, Returns(e)
             PROVE  /\ outcome'[e].status = "valid" => AllValid(cases[e]) /\ SuiteCheck(outcome'[e])
                    /\ (outcome'[e].status = "infrastructure_incomplete" <=> IF timedOut[e] \/ file[e] = "absent" THEN ~NamesCandidate(e) ELSE global[e] = "infrastructure_incomplete")
                    /\ outcome'[e].status # "infrastructure_incomplete" =>
                         /\ Len(outcome'[e].cases) = N
                         /\ \A i \in 1..Len(cases[e]) : outcome'[e].cases[i] = cases[e][i]
                         /\ \A i \in (Len(cases[e]) + 1)..N :
                              outcome'[e].cases[i] = "not_evaluated" \/ (i = Len(cases[e]) + 1 /\ outcome'[e].cases[i] = "runtime_error")
  OBVIOUS
<1>1. outcome'[e] = ResultOf(e) /\ (timedOut[e] \/ file[e] \in {"absent", "whole"}) BY ReturnIsCollect
<1>2. CASE timedOut[e] \/ file[e] = "absent"
  <2>1. outcome'[e] = NoResult(e) BY <1>1, <1>2 DEF ResultOf
  <2> QED BY <1>2, <2>1, NoResultSays
<1>3. CASE ~(timedOut[e] \/ file[e] = "absent")
  <2>1. outcome'[e] = WorkerResult(e) /\ file[e] = "whole" BY <1>1, <1>3 DEF ResultOf
  <2> QED BY <1>3, <2>1, WorkerResultSays
<1> QED BY <1>2, <1>3

\* A valid round is earned: the worker finished every case of the suite with a
\* valid record, and the state machine's own check accepts the result.
THEOREM ValidIsAlwaysEarned == Spec => ValidIsEarned
<1>1. IInv /\ [Next]_vars =>
        [\A e \in Evaluations : Returns(e) /\ outcome'[e].status = "valid" => AllValid(cases[e]) /\ SuiteCheck(outcome'[e])]_vars
  BY ReturnsTrue
<1> QED BY <1>1, AlwaysIInv, PTL DEF Spec, ValidIsEarned

\* The failure of a worker that never came to the candidate is the infrastructure's,
\* and any other the candidate's, but for a marker torn by the worker's death.
THEOREM BlameAlwaysFollowsMarker == Spec => BlameFollowsMarker
<1>1. ASSUME IInv, [Next]_vars, NEW e \in Evaluations, Returns(e)
      PROVE  LET infra == outcome'[e].status = "infrastructure_incomplete"
                 reached == stage[e] # "boot" /\ global[e] # "infrastructure_incomplete"
             IN  /\ ~reached => infra
                 /\ infra => ~reached \/ progress[e] = "torn"
  <2>1. outcome'[e].status = "infrastructure_incomplete"
          <=> IF timedOut[e] \/ file[e] = "absent" THEN ~NamesCandidate(e) ELSE global[e] = "infrastructure_incomplete"
    BY <1>1, ReturnsTrue
  <2>2. timedOut[e] \/ file[e] \in {"absent", "whole"} BY <1>1, ReturnIsCollect
  <2>3. /\ progress[e] = "none" <=> stage[e] = "boot" \/ global[e] = "infrastructure_incomplete"
        /\ stage[e] # "write" => file[e] = "absent"
        /\ progress[e] \in {"none", "torn", "candidate"}
    BY <1>1 DEF IInv, TypeOK, SandboxInv, SandboxOf
  <2> QED BY <2>1, <2>2, <2>3 DEF NamesCandidate
<1>2. IInv /\ [Next]_vars =>
        [\A e \in Evaluations : Returns(e) =>
           LET infra == outcome'[e].status = "infrastructure_incomplete"
               reached == stage[e] # "boot" /\ global[e] # "infrastructure_incomplete"
           IN  /\ ~reached => infra
               /\ infra => ~reached \/ progress[e] = "torn"]_vars
  BY <1>1
<1> QED BY <1>2, AlwaysIInv, PTL DEF Spec, BlameFollowsMarker

\* The cases a worker finished are in the result as it finished them, one case at
\* most is charged for its death, and the rest of the suite is not evaluated.
THEOREM FinishedCasesAlwaysStand == Spec => FinishedCasesStand
<1>1. ASSUME IInv, [Next]_vars, NEW e \in Evaluations, Returns(e), outcome'[e].status # "infrastructure_incomplete"
      PROVE  LET done == Len(cases[e])
                 said == outcome'[e].cases
             IN  /\ Len(said) = N
                 /\ \A i \in 1..done : said[i] = cases[e][i]
                 /\ \A i \in (done + 1)..N : said[i] = "not_evaluated" \/ (i = done + 1 /\ said[i] = "runtime_error")
  BY <1>1, ReturnsTrue
<1>2. IInv /\ [Next]_vars =>
        [\A e \in Evaluations : Returns(e) /\ outcome'[e].status # "infrastructure_incomplete" =>
           LET done == Len(cases[e])
               said == outcome'[e].cases
           IN  /\ Len(said) = N
               /\ \A i \in 1..done : said[i] = cases[e][i]
               /\ \A i \in (done + 1)..N : said[i] = "not_evaluated" \/ (i = done + 1 /\ said[i] = "runtime_error")]_vars
  BY <1>1
<1> QED BY <1>2, AlwaysIInv, PTL DEF Spec, FinishedCasesStand
=============================================================================
