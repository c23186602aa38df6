--------------------------- MODULE Campaign_proofs ---------------------------
(***************************************************************************)
(* Proofs about Campaign, for any number of processes, operators, rounds   *)
(* and commands: shards divide the operators, and the trajectory lock      *)
(* leaves each trajectory to one process, which works on what is saved.    *)
(***************************************************************************)
EXTENDS Campaign, FiniteSetTheorems, SequenceTheorems, WellFoundedInduction, TLAPS

Places == {"off", "ready", "running", "evaluating"}

\* A process that runs a trajectory holds its lock.
Owns ==
  /\ DOMAIN proc = Processes /\ DOMAIN lock = Operators /\ DOMAIN disk = Operators
  /\ \A p \in Processes :
       /\ DOMAIN proc[p] = {"pc", "opt", "now", "todo", "task", "mem", "worker"}
       /\ proc[p].pc \in Places
       /\ proc[p].todo \subseteq Operators
       /\ Loaded(p) => proc[p].task \in Operators /\ lock[proc[p].task] = p

\* What it holds in memory is on disk, as long as no command was given.
Fresh ==
  /\ counts.commands \in Nat /\ DOMAIN counts = {"disturbances", "commands"}
  /\ counts.commands = 0 => command = Idle
  /\ \A p \in Processes :
       Loaded(p) => proc[p].mem = disk[proc[p].task] \/ proc[p].task \in stale \/ counts.commands > 0

IInv == Owns /\ Fresh
-----------------------------------------------------------------------------
(* Shards and tasks *)

\* Every operator has one shard of a division, and only one.
THEOREM ShardsPartition ==
  ASSUME NEW n \in Nat \ {0}, NEW ops \in SUBSET Nat
  PROVE  /\ UNION {ShardOperators(<<i, n>>, ops) : i \in 1..n} = ops
         /\ \A i, j \in 1..n : i # j => ShardOperators(<<i, n>>, ops) \cap ShardOperators(<<j, n>>, ops) = {}
<1>1. \A p \in Nat : p % n \in 0..(n - 1) OBVIOUS
<1>2. \A i \in 1..n : \A p : p \in ShardOperators(<<i, n>>, ops) <=> p \in ops /\ p % n = i - 1 BY DEF ShardOperators
<1>3. ASSUME NEW p \in ops PROVE \E i \in 1..n : p \in ShardOperators(<<i, n>>, ops)
  <2>1. (p % n) + 1 \in 1..n /\ p % n = ((p % n) + 1) - 1 BY <1>1
  <2> QED BY <1>2, <2>1
<1>4. UNION {ShardOperators(<<i, n>>, ops) : i \in 1..n} = ops BY <1>2, <1>3
<1>5. \A i, j \in 1..n : i # j => ShardOperators(<<i, n>>, ops) \cap ShardOperators(<<j, n>>, ops) = {} BY <1>2
<1> QED BY <1>4, <1>5

\* The next task is one of those left.
LEMMA NextTaskIsLeft ==
  ASSUME NEW p \in Processes, proc[p].todo \subseteq Operators, proc[p].todo # {}
  PROVE  NextTask(p) \in proc[p].todo
<1> DEFINE left == proc[p].todo
<1>1. left \subseteq Nat /\ left # {} BY OperatorsAssumption
<1> HIDE DEF left
<1> DEFINE Below == {ss \in Nat \X Nat : ss[1] < ss[2]}
<1>2. IsWellFoundedOn(Below, Nat)
  <2>1. OpToRel(<, Nat) = Below BY DEF OpToRel
  <2> QED BY <2>1, NatLessThanWellFounded
<1>3. PICK t \in left : \A u \in left : <<u, t>> \notin Below
  <2> HIDE DEF Below
  <2> QED BY <1>1, <1>2, WFMin
<1>4. ASSUME NEW u \in left PROVE t <= u
  <2>1. u \in Nat /\ t \in Nat BY <1>1
  <2>2. u < t => <<u, t>> \in Below BY <2>1
  <2> QED BY <1>3, <2>1, <2>2
<1> QED BY <1>4 DEF NextTask, left
-----------------------------------------------------------------------------
(* The lock *)

LEMMA InitIInv == Init => IInv
BY DEF Init, IInv, Owns, Fresh, Off, Loaded, Places

\* A process that stops gives up what it holds, and no other lock.
LEMMA GoneKeepsOwns ==
  ASSUME Owns, NEW p \in Processes, Gone(p), UNCHANGED disk
  PROVE  Owns' /\ proc'[p] = Off /\ \A q \in Processes : q # p => proc'[q] = proc[q]
<1>1. proc'[p] = Off /\ \A q \in Processes : q # p => proc'[q] = proc[q] BY DEF Gone, Owns
<1>2. DOMAIN proc' = Processes /\ DOMAIN lock' = Operators /\ DOMAIN disk' = Operators BY DEF Gone, Owns
<1>3. ASSUME NEW q \in Processes
      PROVE  /\ DOMAIN proc'[q] = {"pc", "opt", "now", "todo", "task", "mem", "worker"}
             /\ proc'[q].pc \in Places /\ proc'[q].todo \subseteq Operators
             /\ proc'[q].pc \in {"running", "evaluating"} => proc'[q].task \in Operators /\ lock'[proc'[q].task] = q
  <2>1. CASE q = p BY <1>1, <2>1 DEF Off, Places
  <2>2. CASE q # p BY <1>1, <2>2 DEF Owns, Gone, Loaded
  <2> QED BY <2>1, <2>2
<1> QED BY <1>1, <1>2, <1>3 DEF Owns, Loaded

\* A step of p that keeps the locks and its place among those that run, or not.
LEMMA StepKeepsOwns ==
  ASSUME Owns, NEW p \in Processes, NEW r,
         proc' = [proc EXCEPT ![p] = r], DOMAIN r = {"pc", "opt", "now", "todo", "task", "mem", "worker"},
         r.pc \in Places, r.todo \subseteq Operators,
         DOMAIN lock' = Operators, DOMAIN disk' = Operators,
         r.pc \in {"running", "evaluating"} => r.task \in Operators /\ lock'[r.task] = p,
         \A t \in Operators : lock[t] \in Processes \ {p} => lock'[t] = lock[t]
  PROVE  Owns' /\ proc'[p] = r /\ \A q \in Processes : q # p => proc'[q] = proc[q]
<1>1. proc'[p] = r /\ \A q \in Processes : q # p => proc'[q] = proc[q] BY DEF Owns
<1>2. ASSUME NEW q \in Processes
      PROVE  /\ DOMAIN proc'[q] = {"pc", "opt", "now", "todo", "task", "mem", "worker"}
             /\ proc'[q].pc \in Places /\ proc'[q].todo \subseteq Operators
             /\ proc'[q].pc \in {"running", "evaluating"} => proc'[q].task \in Operators /\ lock'[proc'[q].task] = q
  <2>1. CASE q = p BY <1>1, <2>1
  <2>2. CASE q # p BY <1>1, <2>2 DEF Owns, Loaded
  <2> QED BY <2>1, <2>2
<1> QED BY <1>1, <1>2 DEF Owns, Loaded

\* Each step of a process keeps the invariant: it writes the state of its own
\* trajectory only, and what it then holds in memory is what it saved.
LEMMA ProcessKeepsIInv ==
  ASSUME IInv, NEW p \in Processes, Process(p)
  PROVE  IInv'
<1> DEFINE Same == \/ proc'[p].mem = disk'[proc'[p].task]
                   \/ Loaded(p) /\ proc'[p].mem = proc[p].mem /\ proc'[p].task = proc[p].task /\ disk' = disk
           Kept == /\ Owns' /\ stale \subseteq stale'
                   /\ \A q \in Processes : q # p => proc'[q] = proc[q]
                   /\ \A q \in Processes : q # p /\ Loaded(q) => disk'[proc[q].task] = disk[proc[q].task]
                   /\ Loaded(p)' => Same
<1>1. Owns /\ Fresh BY DEF IInv
<1>2. /\ DOMAIN proc[p] = {"pc", "opt", "now", "todo", "task", "mem", "worker"} /\ proc[p].todo \subseteq Operators
      /\ DOMAIN lock = Operators /\ DOMAIN disk = Operators
      /\ Loaded(p) => proc[p].task \in Operators /\ lock[proc[p].task] = p
      /\ \A q \in Processes : Loaded(q) => proc[q].task \in Operators /\ lock[proc[q].task] = q
  BY <1>1 DEF Owns
<1>3. UNCHANGED command /\ counts'.commands = counts.commands /\ DOMAIN counts' = DOMAIN counts
  BY <1>1 DEF Process, Prepare, Skip, Start, Disturb, Generate, BeginEvaluation, EndEvaluation, Return, Exit, Crash, Fresh
<1>4. ASSUME Kept PROVE IInv'
  <2>1. ASSUME NEW q \in Processes, proc'[q].pc \in {"running", "evaluating"}
        PROVE  proc'[q].mem = disk'[proc'[q].task] \/ proc'[q].task \in stale' \/ counts'.commands > 0
    <3>1. CASE q # p BY <1>1, <1>3, <1>4, <2>1, <3>1 DEF Fresh, Loaded
    <3>2. CASE q = p BY <1>1, <1>3, <1>4, <2>1, <3>2 DEF Fresh, Loaded
    <3> QED BY <3>1, <3>2
  <2> QED BY <1>1, <1>3, <1>4, <2>1 DEF IInv, Fresh, Loaded
<1> SUFFICES Kept BY <1>4
<1> HIDE DEF Kept, Same
<1> USE DEF Places
<1>5. ASSUME NEW o \in Options, Prepare(p, o) PROVE Kept
  <2> DEFINE r == [Off EXCEPT !.pc = "ready", !.opt = o, !.now = InstalledVersions,
                        !.todo = ShardOperators(o.shard, Operators)]
  <2>1. /\ DOMAIN r = {"pc", "opt", "now", "todo", "task", "mem", "worker"} /\ r.pc = "ready" /\ r.todo \subseteq Operators
    BY DEF Off, ShardOperators
  <2>2. proc' = [proc EXCEPT ![p] = r] /\ UNCHANGED <<disk, lock, stale>> BY <1>5 DEF Prepare
  <2> HIDE DEF r
  <2>3. Owns' /\ proc'[p] = r /\ \A q \in Processes : q # p => proc'[q] = proc[q] BY <1>1, <1>2, <2>1, <2>2, StepKeepsOwns
  <2>4. ~Loaded(p)' BY <2>1, <2>3 DEF Loaded
  <2> QED BY <2>2, <2>3, <2>4 DEF Kept
<1>6. CASE Skip(p)
  <2> DEFINE r == [proc[p] EXCEPT !.todo = proc[p].todo \ {NextTask(p)}]
  <2>1. /\ DOMAIN r = {"pc", "opt", "now", "todo", "task", "mem", "worker"} /\ r.pc = "ready" /\ r.todo \subseteq Operators
    BY <1>2, <1>6 DEF Skip
  <2>2. proc' = [proc EXCEPT ![p] = r] /\ UNCHANGED <<disk, lock, stale>> BY <1>2, <1>6 DEF Skip
  <2> HIDE DEF r
  <2>3. Owns' /\ proc'[p] = r /\ \A q \in Processes : q # p => proc'[q] = proc[q] BY <1>1, <1>2, <2>1, <2>2, StepKeepsOwns
  <2>4. ~Loaded(p)' BY <2>1, <2>3 DEF Loaded
  <2> QED BY <2>2, <2>3, <2>4 DEF Kept
<1>7. ASSUME Gone(p), UNCHANGED <<disk, stale>> PROVE Kept
  <2>1. Owns' /\ proc'[p] = Off /\ \A q \in Processes : q # p => proc'[q] = proc[q] BY <1>1, <1>7, GoneKeepsOwns
  <2> QED BY <1>7, <2>1 DEF Kept, Loaded, Off
<1>8. CASE Exit(p) \/ Crash(p)
  <2>1. Gone(p) /\ UNCHANGED <<disk, stale>> BY <1>8 DEF Exit, Crash
  <2> QED BY <1>7, <2>1
<1>9. ASSUME NEW retry \in BOOLEAN, Start(p, retry) PROVE Kept
  <2>1. NextTask(p) \in proc[p].todo BY <1>2, <1>9, NextTaskIsLeft DEF Start
  <2> DEFINE t == NextTask(p)
  <2>2. t \in Operators /\ lock[t] = None BY <1>2, <1>9, <2>1 DEF Start, Acquired
  <2>3. CASE Gone(p) /\ UNCHANGED disk BY <1>7, <1>9, <2>3 DEF Start
  <2>4. CASE ~(Gone(p) /\ UNCHANGED disk)
    <3> DEFINE now == [proc[p].now EXCEPT !["evaluator"] = host["evaluator"]]
               st == IF disk[t] = NoState \/ ~proc[p].opt.resume THEN NewState(proc[p].opt.runType, now)
                     ELSE Reopened(Resumed(disk[t], now), retry)
    <3>1. /\ lock' = [lock EXCEPT ![t] = p] /\ disk' = [disk EXCEPT ![t] = st] /\ UNCHANGED stale
          /\ proc' = [proc EXCEPT ![p] = [proc[p] EXCEPT !.pc = "running", !.todo = proc[p].todo \ {t},
                                                       !.now = now, !.task = t, !.mem = st]]
      BY <1>9, <2>4 DEF Start
    <3> HIDE DEF now, st
    <3> HIDE DEF t
    <3> DEFINE r == [proc[p] EXCEPT !.pc = "running", !.todo = proc[p].todo \ {t}, !.now = now, !.task = t, !.mem = st]
    <3>2. /\ DOMAIN r = {"pc", "opt", "now", "todo", "task", "mem", "worker"} /\ r.pc = "running" /\ r.todo \subseteq Operators
          /\ r.task = t /\ r.mem = st
      BY <1>2
    <3>3. proc' = [proc EXCEPT ![p] = r] BY <3>1
    <3> HIDE DEF r
    <3>4. /\ DOMAIN lock' = Operators /\ DOMAIN disk' = Operators /\ lock'[t] = p /\ disk'[t] = st
          /\ \A u \in Operators : u # t => lock'[u] = lock[u] /\ disk'[u] = disk[u]
      BY <1>2, <2>2, <3>1
    <3>5. \A u \in Operators : lock[u] \in Processes \ {p} => lock'[u] = lock[u]
      BY <2>2, <3>4, ProcessesAssumption
    <3>6. Owns' /\ proc'[p] = r /\ \A q \in Processes : q # p => proc'[q] = proc[q]
      BY <1>1, <2>2, <3>2, <3>3, <3>4, <3>5, StepKeepsOwns
    <3>7. \A q \in Processes : Loaded(q) => proc[q].task # t BY <1>2, <2>2, ProcessesAssumption
    <3>8. \A q \in Processes : Loaded(q) => proc[q].task \in Operators BY <1>2
    <3> QED BY <3>1, <3>2, <3>4, <3>6, <3>7, <3>8 DEF Kept, Same
  <2> QED BY <2>3, <2>4
\* A save of the running process.
<1>10. ASSUME NEW next, NEW place, Loaded(p), place \in {"running", "evaluating"}, UNCHANGED lock,
              proc' = [proc EXCEPT ![p] = [proc[p] EXCEPT !.mem = next, !.pc = place]],
              Save(proc[p].task, proc[p].mem, next)
       PROVE  Kept
  <2> DEFINE r == [proc[p] EXCEPT !.mem = next, !.pc = place]
  <2>1. /\ DOMAIN r = {"pc", "opt", "now", "todo", "task", "mem", "worker"} /\ r.pc = place /\ r.todo \subseteq Operators
        /\ r.task = proc[p].task /\ r.mem = next
    BY <1>2
  <2>2. proc' = [proc EXCEPT ![p] = r] BY <1>10
  <2> HIDE DEF r
  <2>3. /\ DOMAIN disk' = Operators /\ disk'[proc[p].task] = next /\ stale \subseteq stale'
        /\ \A u \in Operators : u # proc[p].task => disk'[u] = disk[u]
    BY <1>2, <1>10 DEF Save
  <2>4. r.task \in Operators /\ lock'[r.task] = p BY <1>2, <1>10, <2>1
  <2>5. DOMAIN lock' = Operators /\ \A t \in Operators : lock'[t] = lock[t] BY <1>2, <1>10
  <2>6. Owns' /\ proc'[p] = r /\ \A q \in Processes : q # p => proc'[q] = proc[q]
    BY <1>1, <1>10, <2>1, <2>2, <2>3, <2>4, <2>5, StepKeepsOwns
  <2>7. \A q \in Processes : q # p /\ Loaded(q) => proc[q].task \in Operators /\ proc[q].task # proc[p].task
    BY <1>2, <1>10
  <2> QED BY <2>1, <2>3, <2>6, <2>7 DEF Kept, Same
<1>11. ASSUME NEW v, Generate(p, v) PROVE Kept
  <2>1. Loaded(p) /\ UNCHANGED lock /\ proc[p].pc = "running" BY <1>11 DEF Generate, Loaded
  <2>2. PICK next : proc' = [proc EXCEPT ![p].mem = next] /\ Save(proc[p].task, proc[p].mem, next) BY <1>11 DEF Generate
  <2>3. [proc[p] EXCEPT !.mem = next] = [proc[p] EXCEPT !.mem = next, !.pc = "running"] BY <1>2, <2>1
  <2> QED BY <1>10, <2>1, <2>2, <2>3
<1>12. ASSUME NEW o, NEW lat, EndEvaluation(p, o, lat) PROVE Kept
  <2>1. Loaded(p) /\ UNCHANGED lock BY <1>12 DEF EndEvaluation, Loaded
  <2>2. PICK next : proc' = [proc EXCEPT ![p].mem = next, ![p].pc = "running"] /\ Save(proc[p].task, proc[p].mem, next)
    BY <1>12 DEF EndEvaluation
  <2>3. proc' = [proc EXCEPT ![p] = [proc[p] EXCEPT !.mem = next, !.pc = "running"]] BY <1>1, <2>2 DEF Owns
  <2> QED BY <1>10, <2>1, <2>2, <2>3
<1>13. CASE BeginEvaluation(p)
  <2> DEFINE r == [proc[p] EXCEPT !.pc = "evaluating", !.worker = host["evaluator"]]
  <2>1. /\ DOMAIN r = {"pc", "opt", "now", "todo", "task", "mem", "worker"} /\ r.pc = "evaluating" /\ r.todo \subseteq Operators
        /\ r.task = proc[p].task /\ r.mem = proc[p].mem
    BY <1>2
  <2>2. proc' = [proc EXCEPT ![p] = r] /\ UNCHANGED <<disk, lock, stale>> /\ Loaded(p) BY <1>13 DEF BeginEvaluation, Loaded
  <2> HIDE DEF r
  <2>3. r.task \in Operators /\ lock'[r.task] = p BY <1>2, <2>1, <2>2
  <2>4. DOMAIN lock' = Operators /\ DOMAIN disk' = Operators /\ \A t \in Operators : lock'[t] = lock[t] BY <1>2, <2>2
  <2>5. Owns' /\ proc'[p] = r /\ \A q \in Processes : q # p => proc'[q] = proc[q]
    BY <1>1, <2>1, <2>2, <2>3, <2>4, StepKeepsOwns
  <2> QED BY <2>1, <2>2, <2>5 DEF Kept, Same
<1>14. CASE Return(p)
  <2> DEFINE r == [proc[p] EXCEPT !.pc = "ready", !.task = None, !.mem = NoState]
             t == proc[p].task
  <2>1. /\ DOMAIN r = {"pc", "opt", "now", "todo", "task", "mem", "worker"} /\ r.pc = "ready" /\ r.todo \subseteq Operators
    BY <1>2
  <2>2. /\ proc' = [proc EXCEPT ![p] = r] /\ lock' = [lock EXCEPT ![t] = None] /\ Loaded(p)
        /\ disk' = [disk EXCEPT ![t] = proc[p].mem] /\ stale \subseteq stale'
    BY <1>14 DEF Return, Save, Loaded
  <2> HIDE DEF r
  <2>3. /\ DOMAIN lock' = Operators /\ DOMAIN disk' = Operators
        /\ \A u \in Operators : u # t => lock'[u] = lock[u] /\ disk'[u] = disk[u]
    BY <1>2, <2>2
  <2>4. \A u \in Operators : lock[u] \in Processes \ {p} => lock'[u] = lock[u] BY <1>2, <2>2, <2>3
  <2>5. Owns' /\ proc'[p] = r /\ \A q \in Processes : q # p => proc'[q] = proc[q]
    BY <1>1, <2>1, <2>2, <2>3, <2>4, StepKeepsOwns
  <2>6. ~Loaded(p)' BY <2>1, <2>5 DEF Loaded
  <2>7. \A q \in Processes : q # p /\ Loaded(q) => proc[q].task \in Operators /\ proc[q].task # t
    BY <1>2, <2>2
  <2> QED BY <2>2, <2>3, <2>5, <2>6, <2>7 DEF Kept
<1> QED BY <1>5, <1>6, <1>8, <1>9, <1>11, <1>12, <1>13, <1>14 DEF Process

\* A command is given only by an operator's step, and once given counts for good.
LEMMA CommandKeepsIInv ==
  ASSUME IInv, Command
  PROVE  IInv'
<1>1. UNCHANGED <<proc, lock>> BY DEF Command, LoadReview, LoadReevaluation, Begin, SaveReview, LeaveReview,
                                          Reevaluate, SaveReevaluation, End
<1>2. DOMAIN disk' = Operators
  BY DEF Command, LoadReview, LoadReevaluation, Begin, SaveReview, LeaveReview, Reevaluate,
         SaveReevaluation, End, Save, IInv, Owns
<1>3. Owns' BY <1>1, <1>2 DEF IInv, Owns, Loaded
<1>4. counts'.commands \in Nat /\ DOMAIN counts' = DOMAIN counts /\ counts'.commands > 0
  <2>1. counts.commands \in Nat /\ DOMAIN counts = {"disturbances", "commands"} BY DEF IInv, Fresh
  <2>2. ASSUME NEW cmd, Begin(cmd) PROVE counts'.commands = counts.commands + 1 /\ DOMAIN counts' = DOMAIN counts
    BY <2>1, <2>2 DEF Begin
  <2>3. CASE command # Idle /\ UNCHANGED counts BY <2>1, <2>3 DEF IInv, Fresh
  <2>4. CASE \E t \in Operators : LoadReview(t) BY <2>1, <2>2, <2>4 DEF LoadReview
  <2>5. CASE \E t \in Operators, r \in 1..Rounds, adopt \in BOOLEAN : LoadReevaluation(t, r, adopt)
    BY <2>1, <2>2, <2>5 DEF LoadReevaluation
  <2>6. Idle.cmd = "none" BY DEF Idle
  <2>7. CASE \E d \in {"compliant", "violation"} : SaveReview(d) BY <2>3, <2>6, <2>7 DEF SaveReview, End
  <2>8. CASE LeaveReview \/ Reevaluate BY <2>3, <2>6, <2>8 DEF LeaveReview, Reevaluate, End
  <2>9. CASE \E o \in {"valid", "infrastructure_incomplete"}, lat \in Latencies : SaveReevaluation(o, lat)
    BY <2>3, <2>6, <2>9 DEF SaveReevaluation, End
  <2> QED BY <2>4, <2>5, <2>7, <2>8, <2>9 DEF Command
<1> QED BY <1>3, <1>4 DEF IInv, Fresh

LEMMA NextIInv == IInv /\ [Next]_vars => IInv'
<1> SUFFICES ASSUME IInv, [Next]_vars PROVE IInv' OBVIOUS
<1>1. ASSUME Change \/ UNCHANGED vars PROVE IInv'
  <2>1. UNCHANGED <<proc, lock, disk, stale, command>> /\ counts'.commands = counts.commands
        /\ DOMAIN counts' = DOMAIN counts
    BY <1>1 DEF Change, Disturb, vars, IInv, Fresh
  <2> QED BY <2>1 DEF IInv, Owns, Fresh, Loaded
<1>2. CASE \E i \in Items : Install(i) BY <1>1, <1>2 DEF Install
<1>3. CASE \E s \in {"candidate", "frozen"}, replace \in BOOLEAN : Register(s, replace) BY <1>1, <1>3 DEF Register
<1> QED BY <1>1, <1>2, <1>3, ProcessKeepsIInv, CommandKeepsIInv DEF Next

\* Two processes never run the same trajectory, whatever their shards, crashes and
\* re-openings, and what a process holds is what is saved until a command meddles.
THEOREM RunsAreAlwaysExclusive == Spec => []RunsAreExclusive
<1>1. IInv => RunsAreExclusive
  <2> SUFFICES ASSUME IInv PROVE RunsAreExclusive OBVIOUS
  <2>1. \A p, q \in Processes : Loaded(p) /\ Loaded(q) /\ p # q => proc[p].task # proc[q].task BY DEF IInv, Owns
  <2>2. \A n, m \in 1..3 :
          /\ UNION {ShardOperators(<<i, n>>, 0..m) : i \in 1..n} = 0..m
          /\ \A i, j \in 1..n : i # j => ShardOperators(<<i, n>>, 0..m) \cap ShardOperators(<<j, n>>, 0..m) = {}
    <3>1. \A n, m \in 1..3 : n \in Nat \ {0} /\ 0..m \in SUBSET Nat OBVIOUS
    <3> QED BY <3>1, ShardsPartition
  <2>3. \A p \in Processes : Loaded(p) => proc[p].mem = disk[proc[p].task] \/ proc[p].task \in stale
                                            \/ command # Idle \/ counts.commands > 0
    BY DEF IInv, Fresh
  <2> QED BY <2>1, <2>2, <2>3 DEF RunsAreExclusive
<1> QED BY <1>1, InitIInv, NextIInv, PTL DEF Spec
-----------------------------------------------------------------------------
(* What a state of a trajectory keeps *)

Fields == {"runType", "bind", "rounds", "status", "best", "revs", "changes"}
Record == [round : Nat, status : T!RoundStatuses, verdict : T!Verdicts \cup {T!NoAttempt}, lat : Nat]
Bindings == [Items -> Nat]

\* A complete trajectory has nothing left to generate, evaluate or review.
CompleteIsClosed(rs, st) ==
  st = "complete" => ~T!HasPending(rs) /\ T!ClosedCount(rs) >= Rounds /\ ~T!CanReview(rs)

StateOK(st) ==
  /\ DOMAIN st = Fields
  /\ st.bind \in Bindings /\ st.rounds \in Seq(Record) /\ DOMAIN st.revs = 1..Rounds
  /\ CompleteIsClosed(st.rounds, st.status)

KeepsRounds(rs, new) ==
  /\ Len(rs) <= Len(new)
  /\ \A i \in DOMAIN rs : rs[i].verdict # T!NoAttempt => new[i].verdict # T!NoAttempt
  /\ \A i \in DOMAIN rs : i < Len(rs) => new[i] = rs[i]

\* What a round's end, an intervention or a command makes of a state.
Follows(st, next) ==
  /\ StateOK(next) /\ Continues(st, next)
  /\ next.bind = st.bind /\ next.runType = st.runType /\ next.changes = st.changes

LEMMA StateIsNotNoState == \A st : StateOK(st) => st # NoState
BY DEF StateOK, NoState, Fields

LEMMA ReplaceKeeps ==
  ASSUME NEW rs \in Seq(Record), rs # <<>>, NEW rec \in Record,
         T!LastOf(rs).verdict # T!NoAttempt => rec.verdict # T!NoAttempt
  PROVE  /\ T!ReplaceLast(rs, rec) \in Seq(Record) /\ T!ReplaceLast(rs, rec) # <<>>
         /\ T!LastOf(T!ReplaceLast(rs, rec)) = rec
         /\ KeepsRounds(rs, T!ReplaceLast(rs, rec))
BY DEF T!ReplaceLast, T!LastOf, KeepsRounds

LEMMA LastIsRecord ==
  ASSUME NEW rs \in Seq(Record), rs # <<>>
  PROVE  T!LastOf(rs) \in Record
BY DEF T!LastOf

LEMMA ClosedCountIsNat ==
  ASSUME NEW rs \in Seq(Record)
  PROVE  T!ClosedCount(rs) \in Nat
<1>1. IsFiniteSet(1..Len(rs)) BY FS_Interval
<1> DEFINE closed == {i \in DOMAIN rs : rs[i].status # "pending"}
<1>2. closed \subseteq 1..Len(rs) OBVIOUS
<1>3. T!ClosedCount(rs) = Cardinality(closed) BY DEF T!ClosedCount, T!Cardinality, Cardinality
<1> HIDE DEF closed
<1>4. IsFiniteSet(closed) BY <1>1, <1>2, FS_Subset
<1>5. Cardinality(closed) \in Nat BY <1>4, FS_CardinalityType
<1> QED BY <1>3, <1>5

\* A generation fills the pending round or appends one.
LEMMA AttemptKeeps ==
  ASSUME NEW rs \in Seq(Record), NEW v \in {"clear", "review_required"}
  PROVE  /\ T!WithAttempt(rs, v) \in Seq(Record) /\ T!WithAttempt(rs, v) # <<>>
         /\ T!LastOf(T!WithAttempt(rs, v)).status = T!AttemptRoundStatus(v)
         /\ KeepsRounds(rs, T!WithAttempt(rs, v))
<1> DEFINE opened == T!Opened(rs, T!NextRound(rs))
           rec == [T!LastOf(opened) EXCEPT !.verdict = v, !.status = T!AttemptRoundStatus(v)]
<1>1. v \in T!Verdicts /\ v # T!NoAttempt /\ T!AttemptRoundStatus(v) \in T!RoundStatuses
  BY DEF T!Verdicts, T!Evaluable, T!NoAttempt, T!AttemptRoundStatus, T!RoundStatuses, T!OrdinaryFailures
<1>2. opened \in Seq(Record) /\ opened # <<>> /\ KeepsRounds(rs, opened)
  <2>1. CASE T!HasPending(rs) BY <2>1 DEF T!Opened, T!HasPending, KeepsRounds
  <2>2. CASE ~T!HasPending(rs)
    <3>1. T!NextRound(rs) \in Nat BY <2>2, ClosedCountIsNat DEF T!NextRound
    <3>2. T!NewRound(T!NextRound(rs)) \in Record
      BY <3>1 DEF T!NewRound, Record, T!RoundStatuses, T!NoLatency
    <3>3. opened = Append(rs, T!NewRound(T!NextRound(rs))) BY <2>2 DEF T!Opened
    <3> HIDE DEF opened
    <3> QED BY <3>2, <3>3 DEF KeepsRounds
  <2> QED BY <2>1, <2>2
<1> HIDE DEF opened
<1>3. rec \in Record /\ rec.verdict # T!NoAttempt /\ rec.status = T!AttemptRoundStatus(v)
  <2>1. T!LastOf(opened) \in Record BY <1>2, LastIsRecord
  <2> QED BY <1>1, <2>1 DEF Record
<1>4. T!WithAttempt(rs, v) = T!ReplaceLast(opened, rec) BY DEF T!WithAttempt, opened
<1> HIDE DEF rec
<1>5. /\ T!ReplaceLast(opened, rec) \in Seq(Record) /\ T!ReplaceLast(opened, rec) # <<>>
      /\ T!LastOf(T!ReplaceLast(opened, rec)) = rec
      /\ KeepsRounds(opened, T!ReplaceLast(opened, rec))
  BY <1>2, <1>3, ReplaceKeeps
<1>6. Len(opened) = Len(rs) \/ Len(opened) = Len(rs) + 1 BY DEF opened, T!Opened
<1>7. KeepsRounds(rs, T!ReplaceLast(opened, rec))
  BY <1>2, <1>3, <1>5, <1>6 DEF KeepsRounds
<1> QED BY <1>3, <1>4, <1>5, <1>7

\* The status a step leaves is complete only when it closed the trajectory.
LEMMA SettledIsClosed ==
  ASSUME NEW st, NEW rs \in Seq(Record), rs # <<>>, st # "complete",
         T!LastOf(rs).status = "review_required" => st = "review_required"
  PROVE  CompleteIsClosed(rs, T!Settled(st, rs))
BY DEF CompleteIsClosed, T!Settled, T!CanReview

\* A state that only changes its rounds, status, best and revisions, the rounds and
\* revisions as they may.
LEMMA ChangedFollows ==
  ASSUME NEW st, StateOK(st), NEW next, DOMAIN next = Fields,
         next.runType = st.runType, next.bind = st.bind, next.changes = st.changes,
         next.rounds \in Seq(Record), KeepsRounds(st.rounds, next.rounds),
         DOMAIN next.revs = 1..Rounds, \A r \in 1..Rounds : st.revs[r] \subseteq next.revs[r],
         st.status = "complete" => next.status = "complete",
         CompleteIsClosed(next.rounds, next.status)
  PROVE  Follows(st, next)
BY DEF Follows, StateOK, Continues, KeepsRounds

LEMMA GenerateFollows ==
  ASSUME NEW st, StateOK(st), NEW v \in {"clear", "review_required"}, T!WantsGeneration(st.rounds, st.status),
         NEW next, next = [st EXCEPT !.rounds = T!WithAttempt(st.rounds, v),
                                     !.status = T!Settled(T!AttemptStatus(st.status, v), T!WithAttempt(st.rounds, v))]
  PROVE  Follows(st, next)
<1> DEFINE rs == T!WithAttempt(st.rounds, v)
           s == T!AttemptStatus(st.status, v)
<1>1. st.rounds \in Seq(Record) BY DEF StateOK
<1>2. st.status # "complete"
  <2> SUFFICES ASSUME st.status = "complete" PROVE FALSE OBVIOUS
  <2>1. ~T!HasPending(st.rounds) /\ T!ClosedCount(st.rounds) >= Rounds BY DEF StateOK, CompleteIsClosed
  <2> QED BY <1>1, <2>1, ClosedCountIsNat, RoundsAssumption DEF T!WantsGeneration
<1>3. /\ rs \in Seq(Record) /\ rs # <<>> /\ T!LastOf(rs).status = T!AttemptRoundStatus(v) /\ KeepsRounds(st.rounds, rs)
  BY <1>1, AttemptKeeps
<1>4. s # "complete" /\ (T!AttemptRoundStatus(v) = "review_required" => s = "review_required")
  BY <1>2 DEF T!AttemptStatus, T!AttemptRoundStatus, T!Evaluable
<1>5. CompleteIsClosed(rs, T!Settled(s, rs)) BY <1>3, <1>4, SettledIsClosed
<1>6. DOMAIN next = Fields /\ next.rounds = rs /\ next.status = T!Settled(s, rs)
      /\ next.runType = st.runType /\ next.bind = st.bind /\ next.changes = st.changes /\ next.revs = st.revs
  BY DEF StateOK, Fields
<1> HIDE DEF rs, s
<1>7. DOMAIN st.revs = 1..Rounds BY DEF StateOK
<1> QED BY <1>2, <1>3, <1>5, <1>6, <1>7, ChangedFollows

\* An evaluation of the last round.
LEMMA ResultFollows ==
  ASSUME NEW st, StateOK(st), st.rounds # <<>>, st.status # "complete",
         NEW o \in {"valid", "infrastructure_incomplete"}, NEW lat \in Latencies, NEW rev
  PROVE  Follows(st, WithResult(st, Len(st.rounds), o, lat, rev))
<1> DEFINE r == Len(st.rounds)
           last == T!LastOf(st.rounds)
           rec == T!EvaluatedRound([last EXCEPT !.status = "pending"], o, lat)
           rs == T!ReplaceLast(st.rounds, rec)
           s == T!EvaluatedStatus(st.status, o)
           next == WithResult(st, r, o, lat, rev)
<1>1. st.rounds \in Seq(Record) /\ last \in Record BY LastIsRecord DEF StateOK
<1>2. /\ rec \in Record /\ rec.verdict = last.verdict /\ rec.status = o
  <2> HIDE DEF last
  <2> DEFINE pending == [last EXCEPT !.status = "pending"]
  <2>1. pending \in Record /\ pending.verdict = last.verdict BY <1>1 DEF Record, T!RoundStatuses
  <2> HIDE DEF pending
  <2>2. rec \in {[pending EXCEPT !.status = o, !.lat = lat], [pending EXCEPT !.status = o]}
    BY DEF T!EvaluatedRound, pending
  <2>3. o \in T!RoundStatuses /\ lat \in Nat BY LatenciesAssumption DEF T!RoundStatuses
  <2> HIDE DEF rec
  <2>4. CASE rec = [pending EXCEPT !.status = o, !.lat = lat] BY <2>1, <2>3, <2>4 DEF Record
  <2>5. CASE rec = [pending EXCEPT !.status = o] BY <2>1, <2>3, <2>5 DEF Record
  <2> QED BY <2>2, <2>4, <2>5
<1>3. rs = [st.rounds EXCEPT ![r] = T!EvaluatedRound([st.rounds[r] EXCEPT !.status = "pending"], o, lat)]
  BY DEF T!ReplaceLast, T!LastOf
<1> HIDE DEF rec
<1>4. rs \in Seq(Record) /\ rs # <<>> /\ T!LastOf(rs) = rec /\ KeepsRounds(st.rounds, rs)
  BY <1>1, <1>2, ReplaceKeeps
<1>5. s # "complete" BY DEF T!EvaluatedStatus
<1>6. CompleteIsClosed(rs, T!Settled(s, rs)) BY <1>2, <1>4, <1>5, SettledIsClosed
<1>7. /\ DOMAIN next = Fields /\ next.rounds = rs /\ next.status = T!Settled(s, rs)
      /\ next.runType = st.runType /\ next.bind = st.bind /\ next.changes = st.changes
      /\ next.revs = [st.revs EXCEPT ![r] = st.revs[r] \cup {rev}]
  <2> HIDE DEF rs
  <2> QED BY <1>3 DEF WithResult, StateOK, Fields
<1>8. DOMAIN next.revs = 1..Rounds /\ \A i \in 1..Rounds : st.revs[i] \subseteq next.revs[i]
  BY <1>7 DEF StateOK
<1> HIDE DEF rs, s, next
<1>9. Follows(st, next) BY <1>4, <1>6, <1>7, <1>8, ChangedFollows
<1> QED BY <1>9 DEF next

LEMMA RecordFollows ==
  ASSUME NEW st, StateOK(st), NEW r, NEW rev
  PROVE  Follows(st, [st EXCEPT !.revs[r] = @ \cup {rev}])
<1> DEFINE next == [st EXCEPT !.revs[r] = @ \cup {rev}]
<1>1. /\ DOMAIN next = Fields /\ next.rounds = st.rounds /\ next.status = st.status
      /\ next.runType = st.runType /\ next.bind = st.bind /\ next.changes = st.changes
      /\ next.revs = [st.revs EXCEPT ![r] = st.revs[r] \cup {rev}]
  BY DEF StateOK, Fields
<1>2. DOMAIN next.revs = 1..Rounds /\ \A i \in 1..Rounds : st.revs[i] \subseteq next.revs[i]
  BY <1>1 DEF StateOK
<1>3. st.rounds \in Seq(Record) /\ CompleteIsClosed(st.rounds, st.status) BY DEF StateOK
<1>4. KeepsRounds(st.rounds, st.rounds) BY <1>3 DEF KeepsRounds
<1> HIDE DEF next
<1>5. Follows(st, next) BY <1>1, <1>2, <1>3, <1>4, ChangedFollows
<1> QED BY <1>5 DEF next

LEMMA ReviewFollows ==
  ASSUME NEW st, StateOK(st), T!CanReview(st.rounds), NEW decision,
         NEW next, next = [st EXCEPT !.rounds = T!WithReview(st.rounds, decision),
                                     !.status = T!Settled("in_progress", T!WithReview(st.rounds, decision))]
  PROVE  Follows(st, next)
<1> DEFINE last == T!LastOf(st.rounds)
           rec == IF decision = "compliant" THEN [last EXCEPT !.verdict = "clear", !.status = "pending"]
                  ELSE [last EXCEPT !.verdict = "confirmed_violation", !.status = "contract_violation"]
           rs == T!WithReview(st.rounds, decision)
<1>1. st.rounds \in Seq(Record) /\ st.rounds # <<>> /\ last \in Record BY LastIsRecord DEF StateOK, T!CanReview
<1>2. rec \in Record /\ rec.verdict # T!NoAttempt /\ rec.status # "review_required"
  <2> HIDE DEF last
  <2> QED BY <1>1 DEF Record, T!RoundStatuses, T!OrdinaryFailures, T!Verdicts, T!Evaluable, T!NoAttempt
<1>3. rs = T!ReplaceLast(st.rounds, rec) BY DEF T!WithReview
<1> HIDE DEF rec
<1>4. rs \in Seq(Record) /\ rs # <<>> /\ T!LastOf(rs) = rec /\ KeepsRounds(st.rounds, rs)
  BY <1>1, <1>2, <1>3, ReplaceKeeps
<1>5. CompleteIsClosed(rs, T!Settled("in_progress", rs)) BY <1>2, <1>4, SettledIsClosed
<1>6. st.status # "complete" BY DEF StateOK, CompleteIsClosed
<1>7. /\ DOMAIN next = Fields /\ next.rounds = rs /\ next.status = T!Settled("in_progress", rs)
      /\ next.runType = st.runType /\ next.bind = st.bind /\ next.changes = st.changes /\ next.revs = st.revs
  BY DEF StateOK, Fields
<1> HIDE DEF rs
<1>8. DOMAIN st.revs = 1..Rounds BY DEF StateOK
<1> QED BY <1>4, <1>5, <1>6, <1>7, <1>8, ChangedFollows

LEMMA ReopenedFollows ==
  ASSUME NEW st, StateOK(st), NEW retry
  PROVE  Follows(st, Reopened(st, retry))
<1>0. st.rounds \in Seq(Record) /\ CompleteIsClosed(st.rounds, st.status) /\ DOMAIN st = Fields /\ DOMAIN st.revs = 1..Rounds
  BY DEF StateOK
<1>1. CASE Reopened(st, retry) = st
  <2>1. KeepsRounds(st.rounds, st.rounds) BY <1>0 DEF KeepsRounds
  <2>2. Follows(st, st) BY <1>0, <2>1, ChangedFollows
  <2> QED BY <1>1, <2>2
<1>2. CASE /\ T!CanRetry(st.rounds, st.status)
           /\ Reopened(st, retry) = [st EXCEPT !.rounds = T!WithRetry(@), !.status = "in_progress"]
  <2> DEFINE last == T!LastOf(st.rounds)
             rec == [last EXCEPT !.status = "pending"]
             rs == T!WithRetry(st.rounds)
             next == Reopened(st, retry)
  <2>1. st.rounds # <<>> /\ last \in Record /\ st.status # "complete"
    BY <1>0, <1>2, LastIsRecord DEF T!CanRetry, T!LastIncomplete
  <2>2. rec \in Record /\ rec.verdict = last.verdict
    <3> HIDE DEF last
    <3> QED BY <2>1 DEF Record, T!RoundStatuses
  <2>3. rs = T!ReplaceLast(st.rounds, rec) BY DEF T!WithRetry
  <2> HIDE DEF rec
  <2>4. rs \in Seq(Record) /\ KeepsRounds(st.rounds, rs) BY <1>0, <2>1, <2>2, <2>3, ReplaceKeeps
  <2>5. /\ DOMAIN next = Fields /\ next.rounds = rs /\ next.status = "in_progress"
        /\ next.runType = st.runType /\ next.bind = st.bind /\ next.changes = st.changes /\ next.revs = st.revs
    <3> HIDE DEF rs, next
    <3>1. next = [st EXCEPT !.rounds = rs, !.status = "in_progress"] BY <1>2 DEF rs, next
    <3> QED BY <1>0, <3>1 DEF Fields
  <2>6. CompleteIsClosed(next.rounds, next.status) BY <2>5 DEF CompleteIsClosed
  <2> HIDE DEF rs, next
  <2>7. Follows(st, next) BY <1>0, <2>1, <2>4, <2>5, <2>6, ChangedFollows
  <2> QED BY <2>7 DEF next
<1> QED BY <1>1, <1>2 DEF Reopened

\* A resume takes over the bindings in force, and names the evaluator it leaves.
LEMMA ResumedIs ==
  ASSUME NEW st, StateOK(st), NEW now \in Bindings
  PROVE  /\ StateOK(Resumed(st, now)) /\ Continues(st, Resumed(st, now))
         /\ Resumed(st, now).bind = now /\ Resumed(st, now).runType = st.runType
         /\ st.changes \subseteq Resumed(st, now).changes
         /\ st.bind["evaluator"] \in {now["evaluator"], NotRecorded} \/ <<st.bind["evaluator"], now["evaluator"]>> \in Resumed(st, now).changes
<1> DEFINE next == Resumed(st, now)
           kept == st.bind["evaluator"] \in {now["evaluator"], NotRecorded}
           more == IF kept THEN st.changes ELSE st.changes \cup {<<st.bind["evaluator"], now["evaluator"]>>}
<1>1. next = [st EXCEPT !.bind = now, !.changes = more] BY DEF Resumed
<1>2. st.changes \subseteq more /\ (kept \/ <<st.bind["evaluator"], now["evaluator"]>> \in more) OBVIOUS
<1> HIDE DEF next, more, kept
<1>3. /\ DOMAIN next = Fields /\ next.bind = now /\ next.changes = more /\ next.runType = st.runType
      /\ next.rounds = st.rounds /\ next.status = st.status /\ next.revs = st.revs
  BY <1>1 DEF StateOK, Fields
<1>4. StateOK(next) BY <1>3 DEF StateOK
<1>5. Continues(st, next)
  <2>1. st.rounds \in Seq(Record) BY DEF StateOK
  <2> QED BY <1>2, <1>3, <2>1 DEF Continues
<1> QED BY <1>2, <1>3, <1>4, <1>5 DEF next, kept
-----------------------------------------------------------------------------
(* Every evaluation ran under what its trajectory pins, and nothing is lost *)

InForce == [Items -> Nat \ {0}]
Fit == [approval |-> "approved", folds |-> TRUE, host |-> "sandboxed"]

\* A process works under versions that were in force, a formal one on a fit host, on
\* a state that pins them; its worker imported that evaluator or a later one.
ProcessOK(r) ==
  /\ r.pc # "off" =>
       r.now \in InForce /\ r.now["evaluator"] <= host["evaluator"] /\ (r.opt.runType = "formal" => ready = Fit)
  /\ r.pc \in {"running", "evaluating"} =>
       StateOK(r.mem) /\ r.mem.bind = r.now /\ r.mem.runType = r.opt.runType
  /\ r.pc = "evaluating" =>
       r.mem.rounds # <<>> /\ r.mem.status # "complete" /\ r.worker \in Nat /\ r.now["evaluator"] <= r.worker

CommandOK(c) ==
  \/ c = Idle
  \/ /\ c.task \in Operators /\ StateOK(c.mem)
     /\ \/ DOMAIN c = {"cmd", "task", "mem"} /\ c.cmd = "review" /\ T!CanReview(c.mem.rounds)
        \/ /\ DOMAIN c = {"cmd", "task", "mem", "round", "adopt", "now", "worker"} /\ c.cmd \in {"load", "measure"}
           /\ c.round \in DOMAIN c.mem.rounds

\* An evaluation ran under what its evidence names, but for a later evaluator.
Grounded(x) ==
  /\ x.meta \in InForce
  /\ \A i \in Items \ {"evaluator"} : x.versions[i] = x.meta[i]
  /\ x.versions["evaluator"] >= x.meta["evaluator"]

\* The versions an evaluation's evidence names against the state of its trajectory.
Bound(v, st) ==
  /\ v["config"] = st.bind["config"]
  /\ st.runType = "formal" => v = st.bind /\ ready = Fit
  /\ v["evaluator"] # st.bind["evaluator"] => \E c \in st.changes : c[1] = v["evaluator"]

Kept ==
  /\ \A i \in Items : host[i] \in Nat \ {0}
  /\ DOMAIN host = Items \cup {"profile"} /\ ready \in Readiness
  /\ \A t \in Operators : disk[t] = NoState \/ StateOK(disk[t])
  /\ \A p \in Processes : ProcessOK(proc[p])
  /\ CommandOK(command)
  /\ \A x \in ran : x.by = "run" /\ x.task \notin stale =>
       x.task \in Operators /\ Grounded(x) /\ disk[x.task] # NoState /\ Bound(x.meta, disk[x.task])

\* What a resume may do to the bindings.
Rebound(st, next) ==
  /\ next.bind["config"] = st.bind["config"] /\ next.runType = st.runType
  /\ st.runType = "formal" => next.bind = st.bind
  /\ st.changes \subseteq next.changes
  /\ \/ st.bind["evaluator"] \in {next.bind["evaluator"], NotRecorded}
     \/ <<st.bind["evaluator"], next.bind["evaluator"]>> \in next.changes

\* What a step may write to trajectory.json.
Written(t) ==
  \/ disk'[t] = disk[t]
  \/ /\ StateOK(disk'[t])
     /\ t \in stale' \/ disk[t] = NoState \/ (Continues(disk[t], disk'[t]) /\ Rebound(disk[t], disk'[t]))

\* What a new evaluation of a run has to do with its trajectory.
Earned(x) ==
  x.by = "run" /\ x.task \notin stale' =>
    /\ x.task \in Operators /\ Grounded(x)
    /\ StateOK(disk'[x.task]) /\ disk'[x.task].bind = x.meta
    /\ disk'[x.task].runType = "formal" => ready = Fit

Keeps == stale \subseteq stale' /\ (\A t \in Operators : Written(t)) /\ \A x \in ran' \ ran : Earned(x)

LEMMA FollowsRebinds ==
  ASSUME NEW st, StateOK(st), NEW next, Follows(st, next)
  PROVE  StateOK(next) /\ Continues(st, next) /\ Rebound(st, next)
<1>1. st.bind["evaluator"] = next.bind["evaluator"] BY DEF Follows
<1> QED BY <1>1 DEF Follows, Rebound

\* A save by someone who holds t's state, of what follows that state.
LEMMA SaveWrites ==
  ASSUME IInv, Kept, NEW t \in Operators, NEW st, StateOK(st), NEW next, Follows(st, next), Save(t, st, next)
  PROVE  /\ stale \subseteq stale' /\ \A u \in Operators : Written(u)
         /\ disk'[t] = next
<1>1. DOMAIN disk = Operators BY DEF IInv, Owns
<1>2. disk'[t] = next /\ \A u \in Operators : u # t => disk'[u] = disk[u] BY <1>1 DEF Save
<1>3. StateOK(next) /\ Continues(st, next) /\ Rebound(st, next) BY FollowsRebinds
<1>4. Written(t)
  <2>1. CASE disk[t] = st BY <1>2, <1>3, <2>1 DEF Written
  <2>2. CASE disk[t] # st BY <1>2, <1>3, <2>2 DEF Written, Save
  <2> QED BY <2>1, <2>2
<1>5. stale \subseteq stale' BY DEF Save
<1> QED BY <1>2, <1>4, <1>5 DEF Written

\* A step that writes no state and records no run.
LEMMA NoWriteKeeps ==
  ASSUME UNCHANGED <<disk, stale>>, \A x \in ran' \ ran : x.by # "run"
  PROVE  Keeps
BY DEF Keeps, Written, Earned

LEMMA KeptStep ==
  ASSUME Kept, Keeps, ready' = ready, DOMAIN host' = DOMAIN host,
         \A i \in Items : host'[i] \in Nat \ {0} /\ host[i] <= host'[i],
         \A p \in Processes : ProcessOK(proc'[p]), CommandOK(command')
  PROVE  Kept'
<1>1. \A t \in Operators : disk'[t] = NoState \/ StateOK(disk'[t]) BY DEF Kept, Keeps, Written
<1>2. ASSUME NEW x \in ran', x.by = "run", x.task \notin stale'
      PROVE  x.task \in Operators /\ Grounded(x) /\ disk'[x.task] # NoState /\ Bound(x.meta, disk'[x.task])
  <2>1. CASE x \in ran
    <3>1. /\ x.task \in Operators /\ Grounded(x) /\ disk[x.task] # NoState
          /\ Bound(x.meta, disk[x.task])
      BY <1>2, <2>1 DEF Kept, Keeps
    <3>2. CASE disk'[x.task] = disk[x.task] BY <3>1, <3>2
    <3>3. CASE StateOK(disk'[x.task]) /\ Rebound(disk[x.task], disk'[x.task])
      <4>1. disk'[x.task] # NoState BY <3>3, StateIsNotNoState
      <4> DEFINE v == x.meta
                 st == disk[x.task]
                 next == disk'[x.task]
      <4>2. v["evaluator"] # NotRecorded BY <3>1 DEF Grounded, InForce, Items, NotRecorded
      <4> HIDE DEF v, st, next
      <4>3. Bound(v, st) /\ Rebound(st, next) BY <3>1, <3>3 DEF v, st, next
      <4>4. v["evaluator"] # next.bind["evaluator"] => \E c \in next.changes : c[1] = v["evaluator"]
        <5> SUFFICES ASSUME v["evaluator"] # next.bind["evaluator"] PROVE \E c \in next.changes : c[1] = v["evaluator"]
          OBVIOUS
        <5>1. CASE v["evaluator"] # st.bind["evaluator"] BY <4>3, <5>1 DEF Bound, Rebound
        <5>2. CASE v["evaluator"] = st.bind["evaluator"]
          <6>1. <<st.bind["evaluator"], next.bind["evaluator"]>> \in next.changes BY <4>2, <4>3, <5>2 DEF Rebound
          <6> QED BY <5>2, <6>1
        <5> QED BY <5>1, <5>2
      <4>5. Bound(v, next) BY <4>3, <4>4 DEF Bound, Rebound
      <4> QED BY <3>1, <4>1, <4>5 DEF v, next
    <3> QED BY <1>2, <3>1, <3>2, <3>3 DEF Keeps, Written
  <2>2. CASE x \notin ran
    <3>1. Earned(x) BY <2>2 DEF Keeps
    <3>2. /\ x.task \in Operators /\ Grounded(x) /\ StateOK(disk'[x.task]) /\ disk'[x.task].bind = x.meta
          /\ disk'[x.task].runType = "formal" => ready = Fit
      BY <1>2, <3>1 DEF Earned
    <3>3. Bound(x.meta, disk'[x.task]) BY <3>2 DEF Bound
    <3> QED BY <3>2, <3>3, StateIsNotNoState
  <2> QED BY <2>1, <2>2
<1>3. ASSUME NEW p \in Processes PROVE ProcessOK(proc[p])'
  <2>1. ProcessOK(proc'[p]) /\ host["evaluator"] <= host'["evaluator"] /\ host["evaluator"] \in Nat /\ host'["evaluator"] \in Nat
    BY DEF Kept, Items
  <2>2. proc'[p].pc # "off" => proc'[p].now["evaluator"] \in Nat BY <2>1 DEF ProcessOK, InForce, Items
  <2> QED BY <2>1, <2>2 DEF ProcessOK
<1> QED BY <1>1, <1>2, <1>3 DEF Kept, Bound, Grounded

\* The gates let a formal process run on a fit host only.
LEMMA GatesAreStrict ==
  ASSUME ready \in Readiness, NEW condition, Blockers("formal", condition) = {}
  PROVE  ready = Fit
<1>1. ready \in [approval : {"missing", "draft", "approved"}, folds : BOOLEAN, host : {"unfit", "bare", "sandboxed"}]
  BY ReadinessAssumption
<1>2. "approval" \notin Blockers("formal", condition) /\ "folds" \notin Blockers("formal", condition)
      /\ "host" \notin Blockers("formal", condition)
  OBVIOUS
<1>3. ready.approval = "approved" BY <1>2 DEF Blockers
<1>4. ready.folds BY <1>2 DEF Blockers
<1>5. ready.host = "sandboxed" BY <1>2 DEF Blockers
<1>6. ready = [approval |-> ready.approval, folds |-> ready.folds, host |-> ready.host] BY <1>1
<1>7. ready.folds = TRUE BY <1>1, <1>4
<1> QED BY <1>3, <1>5, <1>6, <1>7 DEF Fit

LEMMA NewStateOK ==
  ASSUME NEW runType, NEW v \in Bindings
  PROVE  /\ StateOK(NewState(runType, v)) /\ NewState(runType, v).bind = v
         /\ NewState(runType, v).runType = runType
BY DEF NewState, StateOK, Fields, CompleteIsClosed

\* A trajectory that starts or resumes pins the versions in force, and a formal one
\* those it pinned before.
LEMMA StartWrites ==
  ASSUME NEW st, st = NoState \/ StateOK(st), NEW runType, NEW now \in InForce, NEW resume, NEW allow, NEW retry,
         ~(st # NoState /\ (~resume \/ ~MayResume(st, runType, now, allow))),
         NEW next,
         next = IF st = NoState \/ ~resume THEN NewState(runType, now) ELSE Reopened(Resumed(st, now), retry)
  PROVE  /\ StateOK(next) /\ next.bind = now /\ next.runType = runType
         /\ st = NoState \/ (Continues(st, next) /\ Rebound(st, next))
<1>1. now \in Bindings BY DEF InForce, Bindings
<1>2. CASE st = NoState BY <1>1, <1>2, NewStateOK
<1>3. CASE st # NoState
  <2>1. StateOK(st) /\ resume /\ MayResume(st, runType, now, allow) BY <1>3
  <2> DEFINE mid == Resumed(st, now)
  <2>2. /\ StateOK(mid) /\ Continues(st, mid) /\ mid.bind = now /\ mid.runType = st.runType
        /\ st.changes \subseteq mid.changes
        /\ st.bind["evaluator"] \in {now["evaluator"], NotRecorded} \/ <<st.bind["evaluator"], now["evaluator"]>> \in mid.changes
    BY <1>1, <2>1, ResumedIs
  <2>3. next = Reopened(mid, retry) BY <1>3, <2>1
  <2> HIDE DEF mid
  <2>4. Follows(mid, next) BY <2>2, <2>3, ReopenedFollows
  <2>5. StateOK(next) /\ next.bind = now /\ next.runType = st.runType /\ next.changes = mid.changes /\ Continues(mid, next)
    BY <2>2, <2>4 DEF Follows
  <2>6. Continues(st, next)
    <3>1. st.rounds \in Seq(Record) /\ mid.rounds \in Seq(Record) /\ next.rounds \in Seq(Record)
      BY <2>1, <2>2, <2>5 DEF StateOK
    <3>2. DOMAIN st.rounds = 1..Len(st.rounds) /\ DOMAIN mid.rounds = 1..Len(mid.rounds)
          /\ Len(st.rounds) \in Nat /\ Len(mid.rounds) \in Nat /\ Len(next.rounds) \in Nat
      BY <3>1
    <3>3. Len(st.rounds) <= Len(mid.rounds) /\ Len(mid.rounds) <= Len(next.rounds) BY <2>2, <2>5 DEF Continues
    <3>4. \A i \in DOMAIN st.rounds : i \in DOMAIN mid.rounds /\ (i < Len(st.rounds) => i < Len(mid.rounds))
      BY <3>2, <3>3
    <3> QED BY <2>2, <2>5, <3>2, <3>3, <3>4 DEF Continues
  <2>7. st.runType = runType /\ st.bind["config"] = now["config"] BY <2>1 DEF MayResume
  <2>8. st.runType = "formal" => next.bind = st.bind
    <3>1. SUFFICES ASSUME st.runType = "formal" PROVE now = st.bind BY <2>5
    <3>2. \A i \in Items : st.bind[i] = now[i] BY <2>1, <2>7, <3>1 DEF MayResume, Items
    <3> QED BY <1>1, <2>1, <3>2 DEF StateOK, Bindings
  <2> QED BY <2>2, <2>5, <2>6, <2>7, <2>8 DEF Rebound
<1> QED BY <1>2, <1>3

\* The steps of a process.
LEMMA ProcessKeeps ==
  ASSUME IInv, Kept, NEW p \in Processes, Process(p)
  PROVE  Keeps /\ \A q \in Processes : ProcessOK(proc'[q])
<1> DEFINE Rest == \A q \in Processes : ProcessOK(proc'[q])
           Own == {"pc", "opt", "now", "todo", "task", "mem", "worker"}
<1>1. /\ DOMAIN proc = Processes /\ DOMAIN proc[p] = Own /\ proc[p].todo \subseteq Operators
      /\ Loaded(p) => proc[p].task \in Operators
      /\ \A q \in Processes : ProcessOK(proc[q])
  BY DEF IInv, Owns, Kept
<1>2. ASSUME NEW r, proc' = [proc EXCEPT ![p] = r], ProcessOK(r) PROVE Rest BY <1>1, <1>2
<1>3. ProcessOK(Off) BY DEF ProcessOK, Off
<1>4. ASSUME Gone(p), UNCHANGED <<disk, stale, ran>> PROVE Keeps /\ Rest
  <2>1. Rest BY <1>2, <1>3, <1>4 DEF Gone
  <2> QED BY <1>4, <2>1, NoWriteKeeps
<1>5. CASE Exit(p) \/ Crash(p) BY <1>4, <1>5 DEF Exit, Crash
<1>6. ASSUME NEW o \in Options, Prepare(p, o) PROVE Keeps /\ Rest
  <2> DEFINE r == [Off EXCEPT !.pc = "ready", !.opt = o, !.now = InstalledVersions,
                        !.todo = ShardOperators(o.shard, Operators)]
  <2>1. r.pc = "ready" /\ r.opt = o /\ r.now = InstalledVersions BY DEF Off
  <2>2. InstalledVersions \in InForce /\ InstalledVersions["evaluator"] <= host["evaluator"]
    BY DEF InstalledVersions, InForce, Kept, Items
  <2>3. o.runType = "formal" => ready = Fit BY <1>6, GatesAreStrict DEF Prepare, Kept
  <2>4. proc' = [proc EXCEPT ![p] = r] /\ UNCHANGED <<disk, stale, ran>> BY <1>6 DEF Prepare
  <2> HIDE DEF r
  <2>5. ProcessOK(r) BY <2>1, <2>2, <2>3 DEF ProcessOK
  <2> QED BY <1>2, <2>4, <2>5, NoWriteKeeps
<1>7. CASE Skip(p)
  <2> DEFINE r == [proc[p] EXCEPT !.todo = @ \ {NextTask(p)}]
  <2>1. proc' = [proc EXCEPT ![p] = r] /\ UNCHANGED <<disk, stale, ran>> BY <1>1, <1>7 DEF Skip
  <2>2. r.pc = proc[p].pc /\ r.opt = proc[p].opt /\ r.now = proc[p].now /\ r.mem = proc[p].mem
        /\ r.worker = proc[p].worker
    BY <1>1
  <2> HIDE DEF r
  <2>3. ProcessOK(r) BY <1>1, <2>2 DEF ProcessOK
  <2> QED BY <1>2, <2>1, <2>3, NoWriteKeeps
<1>8. ASSUME NEW retry \in BOOLEAN, Start(p, retry) PROVE Keeps /\ Rest
  <2> DEFINE t == NextTask(p)
             now == [proc[p].now EXCEPT !["evaluator"] = host["evaluator"]]
             st == IF disk[t] = NoState \/ ~proc[p].opt.resume THEN NewState(proc[p].opt.runType, now)
                   ELSE Reopened(Resumed(disk[t], now), retry)
  <2>1. CASE Refused(p, t, now) BY <1>4, <1>8, <2>1 DEF Start
  <2>2. CASE ~Refused(p, t, now)
    <3>1. t \in Operators BY <1>1, <1>8, NextTaskIsLeft DEF Start
    <3>2. now \in InForce /\ now["evaluator"] <= host["evaluator"]
      <4>1. proc[p].now \in InForce /\ host["evaluator"] \in Nat \ {0} BY <1>1, <1>8 DEF Start, ProcessOK, Kept, Items
      <4> QED BY <4>1 DEF InForce, Items
    <3>3. disk[t] = NoState \/ StateOK(disk[t]) BY <3>1 DEF Kept
    <3>4. ~(disk[t] # NoState /\ (~proc[p].opt.resume \/ ~MayResume(disk[t], proc[p].opt.runType, now, proc[p].opt.allow)))
      BY <2>2 DEF Refused
    <3>5. /\ proc' = [proc EXCEPT ![p] = [proc[p] EXCEPT !.pc = "running", !.todo = proc[p].todo \ {t},
                                                       !.now = now, !.task = t, !.mem = st]]
          /\ disk' = [disk EXCEPT ![t] = st] /\ UNCHANGED <<ran, stale>>
      BY <1>8, <2>2 DEF Start
    <3>6. /\ StateOK(st) /\ st.bind = now /\ st.runType = proc[p].opt.runType
          /\ disk[t] = NoState \/ (Continues(disk[t], st) /\ Rebound(disk[t], st))
      <4> HIDE DEF t, now
      <4> QED BY <3>2, <3>3, <3>4, StartWrites
    <3>7. proc[p].opt.runType = "formal" => ready = Fit BY <1>1, <1>8 DEF Start, ProcessOK
    <3> HIDE DEF t, now, st
    <3> DEFINE r == [proc[p] EXCEPT !.pc = "running", !.todo = proc[p].todo \ {t}, !.now = now, !.task = t, !.mem = st]
    <3>8. r.pc = "running" /\ r.opt = proc[p].opt /\ r.now = now /\ r.mem = st BY <1>1
    <3>9. proc' = [proc EXCEPT ![p] = r] BY <3>5
    <3> HIDE DEF r
    <3>10. Rest BY <1>2, <3>2, <3>6, <3>7, <3>8, <3>9 DEF ProcessOK
    <3>11. disk'[t] = st /\ \A u \in Operators : u # t => disk'[u] = disk[u]
      BY <3>1, <3>5 DEF IInv, Owns
    <3>12. \A u \in Operators : Written(u) BY <3>6, <3>11 DEF Written
    <3>13. Keeps BY <3>5, <3>12 DEF Keeps
    <3> QED BY <3>10, <3>13
  <2> QED BY <2>1, <2>2
\* A save of the running process.
<1>9. ASSUME NEW next, NEW place, Loaded(p),
             proc' = [proc EXCEPT ![p] = [proc[p] EXCEPT !.mem = next, !.pc = place]],
             place = "running",
             Save(proc[p].task, proc[p].mem, next), Follows(proc[p].mem, next)
      PROVE  /\ Rest /\ stale \subseteq stale' /\ (\A t \in Operators : Written(t)) /\ disk'[proc[p].task] = next
             /\ next.bind = proc[p].now /\ StateOK(next) /\ (next.runType = "formal" => ready = Fit)
             /\ proc[p].now \in InForce
  <2>1. /\ proc[p].task \in Operators /\ StateOK(proc[p].mem) /\ proc[p].mem.bind = proc[p].now
        /\ proc[p].mem.runType = proc[p].opt.runType /\ proc[p].now \in InForce
        /\ proc[p].now["evaluator"] <= host["evaluator"]
        /\ proc[p].opt.runType = "formal" => ready = Fit
    BY <1>1, <1>9 DEF Loaded, ProcessOK
  <2>2. next.bind = proc[p].now /\ next.runType = proc[p].opt.runType /\ StateOK(next) BY <1>9, <2>1 DEF Follows
  <2>3. stale \subseteq stale' /\ (\A t \in Operators : Written(t)) /\ disk'[proc[p].task] = next
    BY <1>9, <2>1, SaveWrites
  <2> DEFINE r == [proc[p] EXCEPT !.mem = next, !.pc = place]
  <2>4. r.pc = place /\ r.opt = proc[p].opt /\ r.now = proc[p].now /\ r.mem = next BY <1>1
  <2>5. proc' = [proc EXCEPT ![p] = r] BY <1>9
  <2> HIDE DEF r
  <2>6. ProcessOK(r) BY <1>9, <2>1, <2>2, <2>4 DEF ProcessOK
  <2> QED BY <1>2, <2>1, <2>2, <2>3, <2>5, <2>6
<1>10. ASSUME NEW v \in {"clear", "review_required"}, Generate(p, v) PROVE Keeps /\ Rest
  <2> DEFINE st == proc[p].mem
             next == [st EXCEPT !.rounds = T!WithAttempt(st.rounds, v),
                                !.status = T!Settled(T!AttemptStatus(st.status, v), T!WithAttempt(st.rounds, v))]
  <2>1. Loaded(p) /\ StateOK(st) BY <1>1, <1>10 DEF Generate, Loaded, ProcessOK
  <2>2. /\ T!WantsGeneration(st.rounds, st.status) /\ proc' = [proc EXCEPT ![p].mem = next]
        /\ Save(proc[p].task, st, next) /\ UNCHANGED ran /\ proc[p].pc = "running"
    BY <1>10 DEF Generate
  <2>3. Follows(st, next) BY <2>1, <2>2, GenerateFollows
  <2> HIDE DEF next
  <2>4. proc' = [proc EXCEPT ![p] = [proc[p] EXCEPT !.mem = next, !.pc = "running"]]
    <3>1. [proc[p] EXCEPT !.mem = next] = [proc[p] EXCEPT !.mem = next, !.pc = "running"] BY <1>1, <2>2
    <3> QED BY <2>2, <3>1
  <2>5. Rest /\ stale \subseteq stale' /\ (\A t \in Operators : Written(t)) BY <1>9, <2>1, <2>2, <2>3, <2>4
  <2> QED BY <2>2, <2>5 DEF Keeps
<1>11. CASE BeginEvaluation(p)
  <2> DEFINE r == [proc[p] EXCEPT !.pc = "evaluating", !.worker = host["evaluator"]]
  <2>1. r.pc = "evaluating" /\ r.opt = proc[p].opt /\ r.now = proc[p].now /\ r.mem = proc[p].mem
        /\ r.worker = host["evaluator"]
    BY <1>1
  <2>2. proc' = [proc EXCEPT ![p] = r] /\ UNCHANGED <<disk, stale, ran>> BY <1>11 DEF BeginEvaluation
  <2>3. T!WantsEvaluation(proc[p].mem.rounds, proc[p].mem.status) /\ proc[p].pc = "running" BY <1>11 DEF BeginEvaluation
  <2>4. StateOK(proc[p].mem) BY <1>1, <2>3 DEF ProcessOK
  <2>5. proc[p].mem.rounds # <<>> /\ proc[p].mem.status # "complete"
    BY <2>3, <2>4 DEF T!WantsEvaluation, T!HasPending, StateOK, CompleteIsClosed
  <2> HIDE DEF r
  <2>6. host["evaluator"] \in Nat BY DEF Kept, Items
  <2>7. ProcessOK(r) BY <1>1, <2>1, <2>3, <2>5, <2>6 DEF ProcessOK
  <2> QED BY <1>2, <2>2, <2>7, NoWriteKeeps
<1>12. ASSUME NEW o \in {"valid", "infrastructure_incomplete"}, NEW lat \in Latencies, EndEvaluation(p, o, lat)
       PROVE  Keeps /\ Rest
  <2> DEFINE st == proc[p].mem
             t == proc[p].task
             r == Len(st.rounds)
             rev == NextRevision(t, r)
             next == WithResult(st, r, o, lat, rev)
  <2>1. Loaded(p) /\ StateOK(st) /\ st.rounds # <<>> /\ st.status # "complete"
    BY <1>1, <1>12 DEF EndEvaluation, Loaded, ProcessOK
  <2>2. /\ proc' = [proc EXCEPT ![p].mem = next, ![p].pc = "running"] /\ Save(t, st, next)
        /\ ran' = ran \cup {Evaluation(t, r, rev, proc[p].now, proc[p].worker, "run")}
    BY <1>12 DEF EndEvaluation
  <2> HIDE DEF rev
  <2>3. Follows(st, next) BY <2>1, ResultFollows
  <2> HIDE DEF next
  <2>4. proc' = [proc EXCEPT ![p] = [proc[p] EXCEPT !.mem = next, !.pc = "running"]] BY <1>1, <2>2
  <2>5. /\ Rest /\ stale \subseteq stale' /\ (\A u \in Operators : Written(u)) /\ disk'[t] = next
        /\ next.bind = proc[p].now /\ StateOK(next) /\ (next.runType = "formal" => ready = Fit)
        /\ proc[p].now \in InForce
    BY <1>9, <2>1, <2>2, <2>3, <2>4
  <2> DEFINE x == Evaluation(t, r, rev, proc[p].now, proc[p].worker, "run")
  <2>6. x.task = t /\ x.meta = proc[p].now /\ x.versions = [proc[p].now EXCEPT !["evaluator"] = proc[p].worker]
    BY DEF Evaluation
  <2>7. t \in Operators BY <1>1, <2>1
  <2> HIDE DEF x, t, st
  <2>8. Earned(x)
    <3>1. proc[p].worker \in Nat /\ proc[p].now["evaluator"] <= proc[p].worker /\ proc[p].now \in [Items -> Nat \ {0}]
      BY <1>1, <1>12, <2>5 DEF EndEvaluation, ProcessOK, InForce
    <3>2. Grounded(x) BY <2>6, <3>1 DEF Grounded, InForce, Items
    <3>3. StateOK(disk'[x.task]) /\ disk'[x.task].bind = x.meta /\ (disk'[x.task].runType = "formal" => ready = Fit)
      BY <2>5, <2>6
    <3> QED BY <2>6, <2>7, <3>2, <3>3 DEF Earned
  <2>9. \A y \in ran' \ ran : y = x BY <2>2 DEF x, t, st
  <2> QED BY <2>5, <2>8, <2>9 DEF Keeps
<1>13. CASE Return(p)
  <2> DEFINE st == proc[p].mem
             r == [proc[p] EXCEPT !.pc = "ready", !.task = None, !.mem = NoState]
  <2>1. proc' = [proc EXCEPT ![p] = r] /\ UNCHANGED ran /\ Save(proc[p].task, st, st) /\ Loaded(p)
    BY <1>13 DEF Return, Loaded
  <2>2. StateOK(st) /\ proc[p].task \in Operators BY <1>1, <2>1 DEF Loaded, ProcessOK
  <2>3. Follows(st, st)
    <3>1. st.rounds \in Seq(Record) /\ DOMAIN st = Fields /\ DOMAIN st.revs = 1..Rounds BY <2>2 DEF StateOK
    <3> HIDE DEF st
    <3>2. KeepsRounds(st.rounds, st.rounds) BY <3>1 DEF KeepsRounds
    <3> QED BY <2>2, <3>1, <3>2, ChangedFollows DEF StateOK
  <2>4. stale \subseteq stale' /\ \A t \in Operators : Written(t) BY <2>1, <2>2, <2>3, SaveWrites
  <2>5. r.pc = "ready" /\ r.opt = proc[p].opt /\ r.now = proc[p].now BY <1>1
  <2> HIDE DEF r
  <2>6. ProcessOK(r) BY <1>1, <2>1, <2>5 DEF ProcessOK, Loaded
  <2>7. Rest BY <1>2, <2>1, <2>6
  <2> QED BY <2>1, <2>4, <2>7 DEF Keeps
<1> QED BY <1>5, <1>6, <1>7, <1>8, <1>10, <1>11, <1>12, <1>13 DEF Process

\* The operator's commands save what follows the state they loaded; what they
\* record is not the run's.
LEMMA CommandKeeps ==
  ASSUME IInv, Kept, Command
  PROVE  Keeps /\ CommandOK(command') /\ UNCHANGED proc
<1>0. \A t \in Operators : disk[t] = NoState \/ StateOK(disk[t]) BY DEF Kept
<1>1. CommandOK(Idle) BY DEF CommandOK
<1>2. command # Idle => command.cmd # "none"
  <2>1. CommandOK(command) BY DEF Kept
  <2> QED BY <2>1 DEF CommandOK
<1>3. ASSUME NEW t \in Operators, LoadReview(t) PROVE Keeps /\ CommandOK(command') /\ UNCHANGED proc
  <2> DEFINE c == [cmd |-> "review", task |-> t, mem |-> disk[t]]
  <2>1. command' = c /\ UNCHANGED <<disk, stale, ran, proc>> /\ disk[t] # NoState /\ T!CanReview(disk[t].rounds)
    BY <1>3 DEF LoadReview, Begin
  <2>2. c.task = t /\ c.mem = disk[t] /\ c.cmd = "review" /\ DOMAIN c = {"cmd", "task", "mem"} OBVIOUS
  <2> HIDE DEF c
  <2>3. CommandOK(c) BY <1>0, <2>1, <2>2 DEF CommandOK
  <2> QED BY <2>1, <2>3, NoWriteKeeps
<1>4. ASSUME NEW t \in Operators, NEW r, NEW adopt, LoadReevaluation(t, r, adopt)
      PROVE  Keeps /\ CommandOK(command') /\ UNCHANGED proc
  <2> DEFINE c == [cmd |-> "load", task |-> t, mem |-> disk[t], round |-> r, adopt |-> adopt, now |-> InstalledVersions,
               worker |-> NotRecorded]
  <2>1. command' = c /\ UNCHANGED <<disk, stale, ran, proc>> /\ disk[t] # NoState /\ r \in DOMAIN disk[t].rounds
    BY <1>4 DEF LoadReevaluation, Begin
  <2>2. c.task = t /\ c.mem = disk[t] /\ c.cmd = "load" /\ c.round = r
        /\ DOMAIN c = {"cmd", "task", "mem", "round", "adopt", "now", "worker"}
    OBVIOUS
  <2> HIDE DEF c
  <2>3. CommandOK(c) BY <1>0, <2>1, <2>2 DEF CommandOK
  <2> QED BY <2>1, <2>3, NoWriteKeeps
<1>5. ASSUME NEW d, SaveReview(d) PROVE Keeps /\ CommandOK(command') /\ UNCHANGED proc
  <2> DEFINE st == command.mem
             next == [st EXCEPT !.rounds = T!WithReview(st.rounds, d),
                                !.status = T!Settled("in_progress", T!WithReview(st.rounds, d))]
  <2>1. Save(command.task, st, next) /\ command' = Idle /\ UNCHANGED <<ran, proc>> /\ command.cmd = "review"
    BY <1>5 DEF SaveReview, End
  <2>2. command.task \in Operators /\ StateOK(st) /\ T!CanReview(st.rounds)
    BY <2>1 DEF Kept, CommandOK, Idle
  <2>3. Follows(st, next) BY <2>2, ReviewFollows
  <2> HIDE DEF next
  <2>4. stale \subseteq stale' /\ \A t \in Operators : Written(t) BY <2>1, <2>2, <2>3, SaveWrites
  <2> QED BY <1>1, <2>1, <2>4 DEF Keeps
<1>6. CASE LeaveReview
  BY <1>1, <1>6, NoWriteKeeps DEF LeaveReview, End
<1>7. CASE Reevaluate
  <2>1. command' = [command EXCEPT !.cmd = "measure", !.worker = host["evaluator"]] /\ UNCHANGED <<disk, stale, ran, proc>> /\ command.cmd = "load"
    BY <1>7 DEF Reevaluate
  <2>2. /\ command.task \in Operators /\ StateOK(command.mem) /\ command.round \in DOMAIN command.mem.rounds
        /\ DOMAIN command = {"cmd", "task", "mem", "round", "adopt", "now", "worker"}
    BY <2>1 DEF Kept, CommandOK, Idle
  <2>3. /\ command'.task = command.task /\ command'.mem = command.mem /\ command'.round = command.round
        /\ command'.cmd = "measure" /\ DOMAIN command' = DOMAIN command
    BY <2>1, <2>2
  <2>4. CommandOK(command') BY <2>2, <2>3 DEF CommandOK
  <2> QED BY <2>1, <2>4, NoWriteKeeps
<1>8. ASSUME NEW o \in {"valid", "infrastructure_incomplete"}, NEW lat \in Latencies, SaveReevaluation(o, lat)
      PROVE  Keeps /\ CommandOK(command') /\ UNCHANGED proc
  <2> DEFINE st == command.mem
             t == command.task
             r == command.round
             rev == NextRevision(t, r)
             raises == command.adopt /\ AdoptRaises(st, r)
             next == IF command.adopt THEN WithResult(st, r, o, lat, rev) ELSE [st EXCEPT !.revs[r] = @ \cup {rev}]
             x == Evaluation(t, r, rev, command.now, command.worker, IF command.adopt THEN "adopt" ELSE "record")
  <2>1. /\ command.cmd = "measure" /\ ran' = ran \cup {x} /\ command' = Idle /\ UNCHANGED proc
        /\ IF raises THEN UNCHANGED <<disk, stale>> ELSE Save(t, st, next)
    BY <1>8 DEF SaveReevaluation, End
  <2>2. t \in Operators /\ StateOK(st) /\ r \in DOMAIN st.rounds
    BY <2>1 DEF Kept, CommandOK, Idle
  <2>3. x.by # "run" BY DEF Evaluation
  <2> HIDE DEF x, rev
  <2>4. \A y \in ran' \ ran : y.by # "run" BY <2>1, <2>3
  <2>5. CASE raises BY <1>1, <2>1, <2>4, <2>5, NoWriteKeeps
  <2>6. CASE ~raises
    <3>1. Follows(st, next)
      <4>1. CASE command.adopt
        <5>1. st.status # "complete" /\ r = Len(st.rounds) BY <2>6, <4>1 DEF AdoptRaises
        <5>2. st.rounds # <<>> BY <2>2 DEF StateOK
        <5>3. Follows(st, WithResult(st, Len(st.rounds), o, lat, rev)) BY <2>2, <5>1, <5>2, ResultFollows
        <5> QED BY <4>1, <5>1, <5>3
      <4>2. CASE ~command.adopt
        <5>1. Follows(st, [st EXCEPT !.revs[r] = @ \cup {rev}]) BY <2>2, RecordFollows
        <5> QED BY <4>2, <5>1
      <4> QED BY <4>1, <4>2
    <3> HIDE DEF next
    <3>2. stale \subseteq stale' /\ \A u \in Operators : Written(u) BY <2>1, <2>2, <2>6, <3>1, SaveWrites
    <3>3. Keeps BY <2>4, <3>2 DEF Keeps, Earned
    <3> QED BY <1>1, <2>1, <3>3
  <2> QED BY <2>5, <2>6
<1> QED BY <1>3, <1>4, <1>5, <1>6, <1>7, <1>8 DEF Command

\* A change of the host keeps its versions counted from one.
LEMMA HostKeeps ==
  ASSUME Kept, \E i \in Items : Install(i) \/ \E s, replace : Register(s, replace)
  PROVE  /\ Keeps /\ DOMAIN host' = DOMAIN host /\ \A i \in Items : host'[i] \in Nat \ {0} /\ host[i] <= host'[i]
         /\ UNCHANGED <<proc, command>>
<1>1. UNCHANGED <<ready, disk, stale, ran, proc, command>> BY DEF Install, Register, Change
<1>2. (\A i \in Items : host[i] \in Nat \ {0}) /\ DOMAIN host = Items \cup {"profile"} BY DEF Kept
<1>3. ASSUME NEW i \in Items, Install(i)
      PROVE  DOMAIN host' = DOMAIN host /\ \A j \in Items : host'[j] \in Nat \ {0} /\ host[j] <= host'[j]
  BY <1>2, <1>3 DEF Install
<1>4. ASSUME NEW s, NEW replace, Register(s, replace)
      PROVE  DOMAIN host' = DOMAIN host /\ \A j \in Items : host'[j] \in Nat \ {0} /\ host[j] <= host'[j]
  <2>1. host' = [host EXCEPT !["scoring"] = host["scoring"] + 1, !["profile"] = s] BY <1>4 DEF Register
  <2>2. "scoring" \in Items /\ "profile" \notin Items BY DEF Items
  <2> QED BY <1>2, <2>1, <2>2
<1> QED BY <1>1, <1>3, <1>4, NoWriteKeeps

LEMMA StepKeeps ==
  ASSUME IInv, Kept, [Next]_vars
  PROVE  Keeps /\ Kept'
<1>0. /\ \A p \in Processes : ProcessOK(proc[p])
      /\ CommandOK(command) /\ \A i \in Items : host[i] \in Nat \ {0} /\ host[i] <= host[i]
  BY DEF Kept
<1>1. ASSUME NEW p \in Processes, Process(p) PROVE Keeps /\ Kept'
  <2>1. UNCHANGED <<host, ready, command>>
    BY <1>1 DEF Process, Prepare, Skip, Start, Generate, BeginEvaluation, EndEvaluation, Return, Exit, Crash
  <2>2. Keeps /\ \A q \in Processes : ProcessOK(proc'[q]) BY <1>1, ProcessKeeps
  <2>3. CommandOK(command') /\ \A i \in Items : host'[i] \in Nat \ {0} /\ host[i] <= host'[i] BY <1>0, <2>1
  <2> QED BY <2>1, <2>2, <2>3, KeptStep
<1>2. CASE Command
  <2>1. UNCHANGED <<host, ready>>
    BY <1>2 DEF Command, LoadReview, LoadReevaluation, Begin, SaveReview, LeaveReview, Reevaluate, SaveReevaluation, End
  <2>2. Keeps /\ CommandOK(command') /\ UNCHANGED proc BY <1>2, CommandKeeps
  <2>3. (\A p \in Processes : ProcessOK(proc'[p])) /\ \A i \in Items : host'[i] \in Nat \ {0} /\ host[i] <= host'[i]
    BY <1>0, <2>1, <2>2
  <2> QED BY <2>1, <2>2, <2>3, KeptStep
<1>3. CASE \E i \in Items : Install(i) \/ \E s \in {"candidate", "frozen"}, replace \in BOOLEAN : Register(s, replace)
  <2>1. UNCHANGED ready BY <1>3 DEF Install, Register, Change
  <2>2. /\ Keeps /\ DOMAIN host' = DOMAIN host /\ (\A i \in Items : host'[i] \in Nat \ {0} /\ host[i] <= host'[i])
        /\ UNCHANGED <<proc, command>>
    BY <1>3, HostKeeps
  <2>3. (\A p \in Processes : ProcessOK(proc'[p])) /\ CommandOK(command') BY <1>0, <2>2
  <2> QED BY <2>1, <2>2, <2>3, KeptStep
<1>4. CASE UNCHANGED vars
  <2>1. UNCHANGED <<host, ready, disk, stale, ran, proc, command>> BY <1>4 DEF vars
  <2>2. Keeps BY <2>1, NoWriteKeeps
  <2>3. /\ \A p \in Processes : ProcessOK(proc'[p])
        /\ CommandOK(command') /\ \A i \in Items : host'[i] \in Nat \ {0} /\ host[i] <= host'[i]
    BY <1>0, <2>1
  <2> QED BY <2>1, <2>2, <2>3, KeptStep
<1>5. "config" \in Items BY DEF Items
<1> QED BY <1>1, <1>2, <1>3, <1>4, <1>5 DEF Next

LEMMA InitKept == Init => Kept
<1> SUFFICES ASSUME Init PROVE Kept OBVIOUS
<1>1. (\A i \in Items : host[i] \in Nat \ {0}) /\ DOMAIN host = Items \cup {"profile"} /\ ready \in Readiness
  BY DEF Init, Items
<1>2. StateOK(Legacy)
  <2> DEFINE rec == [T!NewRound(1) EXCEPT !.status = "valid", !.verdict = "clear", !.lat = 1]
             v == [i \in Items |-> IF i \in {"evaluator", "scoring"} THEN NotRecorded ELSE 1]
             old == NewState("validation", v)
  <2>1. rec \in Record BY DEF T!NewRound, Record, T!RoundStatuses, T!Verdicts, T!Evaluable, T!NoLatency
  <2>2. v \in Bindings BY DEF Bindings, NotRecorded
  <2>3. /\ DOMAIN old = Fields /\ old.bind \in Bindings /\ DOMAIN old.revs = 1..Rounds /\ old.status = "in_progress"
    BY <2>2 DEF NewState, Fields
  <2>4. Legacy = [old EXCEPT !.rounds = <<rec>>, !.best = [round |-> 1, lat |-> 1]] BY DEF Legacy
  <2> HIDE DEF rec, old
  <2> QED BY <2>1, <2>3, <2>4 DEF StateOK, Fields, CompleteIsClosed
<1>3. \A t \in Operators : disk[t] = NoState \/ StateOK(disk[t]) BY <1>2 DEF Init
<1>4. \A p \in Processes : ProcessOK(proc[p]) BY DEF Init, ProcessOK, Off
<1>5. CommandOK(command) /\ ran = {} BY DEF Init, CommandOK
<1> QED BY <1>1, <1>3, <1>4, <1>5 DEF Kept

LEMMA AlwaysKept == Spec => [](IInv /\ Kept)
<1>1. IInv /\ Kept /\ [Next]_vars => (IInv /\ Kept)' BY NextIInv, StepKeeps
<1> QED BY <1>1, InitIInv, InitKept, PTL DEF Spec

\* Whatever is installed, registered or re-priced, with any number of processes,
\* resumes, crashes and commands: a formal trajectory's evaluations name what it pins
\* and ran under it on a fit host, but for an evaluator installed after its process
\* had compared; the evaluators a validation one's name are among its changes.
THEOREM RoundsAlwaysMatchBindings == Spec => []RoundsMatchBindings
<1>1. Kept => RoundsMatchBindings BY DEF Kept, RoundsMatchBindings, Bound, Grounded, Fit, Items
<1> QED BY <1>1, AlwaysKept, PTL

\* Every save continues what was saved before, unless it comes from someone who
\* had not seen the last save.
THEOREM NothingIsEverLost == Spec => NothingIsLost
<1>1. ASSUME IInv, Kept, [Next]_vars, NEW t \in Operators, disk[t] # NoState, t \notin stale'
      PROVE  Continues(disk[t], disk'[t])
  <2>1. StateOK(disk[t]) BY <1>1 DEF Kept
  <2>2. Written(t) BY <1>1, StepKeeps DEF Keeps
  <2>3. CASE disk'[t] = disk[t]
    <3> DEFINE st == disk[t]
    <3>1. st.rounds \in Seq(Record) BY <2>1 DEF StateOK
    <3> HIDE DEF st
    <3>2. Continues(st, st) BY <3>1 DEF Continues
    <3> QED BY <2>3, <3>2 DEF st
  <2> QED BY <1>1, <2>2, <2>3 DEF Written
<1>2. IInv /\ Kept /\ [Next]_vars =>
        [\A t \in Operators : disk[t] # NoState /\ t \notin stale' => Continues(disk[t], disk'[t])]_disk
  BY <1>1
<1> QED BY <1>2, AlwaysKept, PTL DEF Spec, NothingIsLost
=============================================================================
