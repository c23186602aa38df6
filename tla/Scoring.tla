------------------------------- MODULE Scoring -------------------------------
(***************************************************************************)
(* Where the time a candidate is scored against comes from: a calibration  *)
(* measures the device mode by mode and writes a sealed profile            *)
(* (llm/v2/calibration), the owner registers it for the device and         *)
(* approves the declared arithmetic of the operators, a campaign pins what *)
(* is registered when it starts (orchestration/campaign.py), and much      *)
(* later the metrics command loads the pinned profile and turns it into    *)
(* T_emp (metrics/empirical.py, devtools.py).  Between these steps the     *)
(* profile may be edited, another one registered, the declaration changed. *)
(***************************************************************************)
EXTENDS Absence, Integers, Sequences, FiniteSets, FiniteSetsExt, SequencesExt

CONSTANTS
  Devices,       \* the devices of the support matrix that run_calibration knows how to measure
  Operators,     \* operators of the task set
  Work,          \* of an operator: F, Q and the unit of F
  Modes,         \* the registry: role and unit of each arithmetic mode
  Bandwidth,     \* the mode hbm_stream_bw
  Declarable,    \* modes a declaration may name, "memory_only" among them
  Directories,   \* calibration directories
  ModeLists,     \* lists of modes a calibration may be asked for
  Probed,        \* of a mode: sequences of points its probe may return
  Tolerance,     \* plateau_tolerance, in percent
  Records,       \* names of campaign records, in the order they sort
  MaxEdits,      \* bound of the model: edits of files and declarations, and registrations
  Open

VARIABLES
  dirs,         \* of each calibration directory: None, Open while it has no profile.json, or that profile
  calibrating,  \* the running calibration, or None
  manifest,     \* calibration.yaml: the entry of each device
  declared,     \* arithmetic_modes.yaml: mode of each operator, and whether its decisions are approved
  records,      \* campaign_*.json of the campaign directory
  trajectories, \* of each operator and device: None, or its run type and the binding it was created with
  edits,
  points        \* what the probes of each directory's calibration really returned

scoringVars == <<dirs, calibrating, manifest, declared, records, trajectories, edits, points>>

ModeNames == DOMAIN Modes
RecordNames == {Records[j] : j \in DOMAIN Records}

\* A point of a probe: which probe, how the run was judged, and its rate.
ProbePoints ==
  [probe : STRING, checked : BOOLEAN, busy : BOOLEAN, explained : BOOLEAN, eligible : BOOLEAN, primary : BOOLEAN, rate : Nat]

ASSUME ModesAssumption ==
  /\ Bandwidth \in ModeNames /\ Declarable \subseteq ModeNames \cup {"memory_only"}
  /\ \A l \in ModeLists : l \in Seq(ModeNames)
ASSUME ProbedAssumption == \A m \in ModeNames : \A ps \in Probed[m] : ps \in Seq(ProbePoints)
ASSUME RecordsAssumption == Records \in Seq(STRING)
-----------------------------------------------------------------------------
(* A mode's value: calibration/gpu_probes.py, stats.py *)

\* A point counts when its result was right and it timed the device and not the
\* dispatch: no idle time in the profiled window, or the device time explains the
\* event time.
ValidPoint(p) == p.checked /\ (p.busy \/ p.explained)

Candidates(mode, ps) ==
  {i \in DOMAIN ps : ValidPoint(ps[i]) /\ (mode = Bandwidth => ps[i].primary /\ ps[i].eligible)}

RatesOf(ps, S) == {ps[i].rate : i \in S}

\* select_mode_value: the best candidate; the bandwidth also needs a plateau, at
\* least two points of the best probe within the tolerance.
Selected(mode, ps) ==
  LET C == Candidates(mode, ps)
      best == CHOOSE i \in C : \A j \in C : ps[i].rate > ps[j].rate \/ (ps[i].rate = ps[j].rate /\ i <= j)
      same == {i \in C : ps[i].probe = ps[best].probe}
      top == Max(RatesOf(ps, same))
  IN IF C = {} \/ (mode = Bandwidth /\ (Cardinality(same) < 2
                                        \/ 100 * (top - Min(RatesOf(ps, same))) > Tolerance * top))
     THEN None ELSE ps[best].rate
-----------------------------------------------------------------------------
(* calibrate: run_calibration *)

\* A profile carries the value of each mode, None unless the mode was calibrated,
\* and a seal over its content.
Sealed(content) == [content |-> content, seal |-> content]
IsProfile(x) == x \notin {None, Open}

\* validate_profile, the quick protocol apart.
ValidProfile(p) == p.seal = p.content

\* Refused into a directory that holds anything; exclusive on the device
\* (device_lock).
StartCalibration(d, dir, modes, quick) ==
  /\ calibrating = None
  /\ dirs[dir] = None
  /\ dirs' = [dirs EXCEPT ![dir] = Open]
  /\ calibrating' = [dir |-> dir, device |-> d, quick |-> quick, modes |-> modes, results |-> <<>>]
  /\ UNCHANGED <<manifest, declared, records, trajectories, edits, points>>

\* The probes of the next mode of the list return their points; an exception of a
\* probe fails this mode only, without points.
MeasureMode ==
  /\ calibrating # None
  /\ Len(calibrating.results) < Len(calibrating.modes)
  /\ \E ps \in Probed[calibrating.modes[Len(calibrating.results) + 1]] \cup {<<>>} :
       calibrating' = [calibrating EXCEPT !.results = Append(@, ps)]
  /\ UNCHANGED <<dirs, manifest, declared, records, trajectories, edits, points>>

\* What the calibration holds of a mode: nothing when it is not in the list.
ResultOf(mode) ==
  LET of == {i \in DOMAIN calibrating.modes : calibrating.modes[i] = mode}
  IN  IF of = {} THEN <<>> ELSE calibrating.results[Max(of)]

\* Every mode of the list is done: the entries are made, the profile is sealed and
\* written.
FinishCalibration ==
  /\ calibrating # None
  /\ Len(calibrating.results) = Len(calibrating.modes)
  /\ dirs' = [dirs EXCEPT ![calibrating.dir] =
                Sealed([device |-> calibrating.device, quick |-> calibrating.quick,
                        values |-> [m \in ModeNames |-> Selected(m, ResultOf(m))]])]
  /\ points' = [points EXCEPT ![calibrating.dir] = [m \in ModeNames |-> ResultOf(m)]]
  /\ calibrating' = None
  /\ UNCHANGED <<manifest, declared, records, trajectories, edits>>

\* The process dies: the directory keeps what was written and is never reused.
DieCalibrating ==
  /\ calibrating # None
  /\ calibrating' = None
  /\ UNCHANGED <<dirs, manifest, declared, records, trajectories, edits, points>>
-----------------------------------------------------------------------------
(* The owner: calibration-register, arithmetic_modes.yaml, edits *)

Edit == edits < MaxEdits /\ edits' = edits + 1

\* The content of a profile changes after it was sealed.
EditProfile(dir) ==
  /\ IsProfile(dirs[dir])
  /\ Edit
  /\ \E m \in ModeNames : dirs' = [dirs EXCEPT ![dir].content.values[m] = IF @ = None THEN 1 ELSE @ + 1]
  /\ UNCHANGED <<calibrating, manifest, declared, records, trajectories, points>>

Unregistered == [profile |-> None, sha |-> None, status |-> "none"]

\* cmd_calibration_register: refuses an invalid or quick profile, one of another
\* device, and without --replace-frozen a device that has a frozen one.
Register(d, dir, status, replace) ==
  /\ IsProfile(dirs[dir])
  /\ ValidProfile(dirs[dir]) /\ dirs[dir].content.device = d /\ ~dirs[dir].content.quick
  /\ manifest[d].status = "frozen" => replace
  /\ Edit
  /\ manifest' = [manifest EXCEPT ![d] = [profile |-> dir, sha |-> dirs[dir], status |-> status]]
  /\ UNCHANGED <<dirs, calibrating, declared, records, trajectories, points>>

\* The owner changes the declaration of an operator or decides on it.
Declare(op) ==
  /\ Edit
  /\ \E m \in Declarable, approved \in BOOLEAN : declared' = [declared EXCEPT ![op] = [mode |-> m, approved |-> approved]]
  /\ UNCHANGED <<dirs, calibrating, manifest, records, trajectories, points>>
-----------------------------------------------------------------------------
(* T_emp: metrics/empirical.py *)

\* Mutant of LoadProfile: trusts the registered path.
LoadByPath(entry) ==
  IF entry.profile = None \/ ~IsProfile(dirs[entry.profile]) THEN None ELSE dirs[entry.profile]

\* load_profile: the file must be the one registered, valid, and not of the quick
\* protocol.
LoadProfile(entry) ==
  IF entry.profile = None \/ ~IsProfile(dirs[entry.profile]) \/ dirs[entry.profile] # entry.sha
     \/ ~ValidProfile(dirs[entry.profile]) \/ dirs[entry.profile].content.quick
  THEN None ELSE dirs[entry.profile]

\* peak_for_mode: a scoring mode of the unit the work has, calibrated.
Peak(p, mode, unit) ==
  IF Modes[mode].role # "scoring" \/ Modes[mode].unit # unit THEN None ELSE p.content.values[mode]

\* t_emp: only with a loadable profile, every peak at hand and no decision
\* pending.
Target(op, p) ==
  LET mode == declared[op].mode
      bandwidth == IF p = None THEN None ELSE Peak(p, Bandwidth, "byte")
      peak == IF p = None \/ mode = "memory_only" THEN None ELSE Peak(p, mode, Work[op].unit)
  IN IF bandwidth = None \/ (mode # "memory_only" /\ peak = None) \/ ~declared[op].approved THEN None
     ELSE IF mode = "memory_only" THEN Work[op].Q \div bandwidth
     ELSE Max({Work[op].F \div peak, Work[op].Q \div bandwidth})

\* validate_modes, for one operator.
ValidDeclaration(op) ==
  declared[op].mode \in {"memory_only"} \cup {m \in ModeNames : Modes[m].role = "scoring" /\ Modes[m].unit = Work[op].unit}

\* scoring_gate: what a formal campaign needs of its device.
Ready(d) ==
  /\ manifest[d].status = "frozen"
  /\ \A op \in Operators : ValidDeclaration(op) /\ Target(op, LoadProfile(manifest[d])) # None
-----------------------------------------------------------------------------
(* The campaign: Prepare and the creation of trajectories *)

\* scoring_binding: the device's entry and the declaration of the moment.
Binding(d) == [device |-> d, profile |-> manifest[d].profile, sha |-> manifest[d].sha, declared |-> declared]

\* A process of the campaign starts on a device: the gate, the record (written by
\* the first process of that name only), and the trajectories it creates; one that
\* exists is resumed, which a changed binding refuses.
StartCampaign(d, name, formal, ops) ==
  /\ formal => Ready(d)
  /\ records' = [records EXCEPT ![name] = IF @ = None THEN Binding(d) ELSE @]
  /\ trajectories' = [op \in Operators |-> [e \in Devices |->
                        IF op \in ops /\ e = d /\ trajectories[op][e] = None
                        THEN [formal |-> formal, binding |-> Binding(d)] ELSE trajectories[op][e]]]
  /\ UNCHANGED <<dirs, calibrating, manifest, declared, edits, points>>

\* campaign_scoring: the first record that has a binding.
FirstBinding ==
  LET named == {j \in DOMAIN Records : records[Records[j]] # None}
  IN  IF named = {} THEN None ELSE records[Records[Min(named)]]

\* recompute_metrics: the target the trajectory of op on d is scored against, with
\* the declaration of today.
Scored(op, d) ==
  IF trajectories[op][d] = None \/ FirstBinding = None THEN None ELSE Target(op, LoadProfile(FirstBinding))
-----------------------------------------------------------------------------
ScoringInit ==
  /\ dirs = [dir \in Directories |-> None]
  /\ calibrating = None
  /\ manifest = [d \in Devices |-> Unregistered]
  /\ declared \in [Operators -> [mode : Declarable, approved : {TRUE}]]
  /\ records = [n \in RecordNames |-> None]
  /\ trajectories = [op \in Operators |-> [d \in Devices |-> None]]
  /\ edits = 0
  /\ points = [dir \in Directories |-> [m \in ModeNames |-> <<>>]]

ScoringNext ==
  \/ \E d \in Devices, dir \in Directories, quick \in BOOLEAN, l \in ModeLists : StartCalibration(d, dir, l, quick)
  \/ MeasureMode \/ FinishCalibration \/ DieCalibrating
  \/ \E dir \in Directories : EditProfile(dir)
  \/ \E d \in Devices, dir \in Directories, s \in {"candidate", "frozen"}, r \in BOOLEAN : Register(d, dir, s, r)
  \/ \E op \in Operators : Declare(op)
  \/ \E d \in Devices, n \in DOMAIN records, formal \in BOOLEAN, ops \in SUBSET Operators : StartCampaign(d, n, formal, ops)

ScoringSpec == ScoringInit /\ [][ScoringNext]_scoringVars
-----------------------------------------------------------------------------
(* What the variables hold *)

Rates == Nat \cup {None}
Sheets == [device : Devices, quick : BOOLEAN, values : [ModeNames -> Rates]]
Profiles == [content : Sheets, seal : Sheets]
Declarations == [Operators -> [mode : Declarable, approved : BOOLEAN]]
Bindings ==
  [device : Devices, profile : Directories \cup {None}, sha : Profiles \cup {None}, declared : Declarations]

ASSUME FilesAssumption == None \notin Profiles /\ Open \notin Profiles

ScoringTypeOK ==
  /\ dirs \in [Directories -> Profiles \cup {None, Open}]
  /\ calibrating \in {None} \cup
       [dir : Directories, device : Devices, quick : BOOLEAN, modes : ModeLists, results : Seq(Seq(ProbePoints))]
  /\ manifest \in [Devices -> [profile : Directories \cup {None}, sha : Profiles \cup {None},
                               status : {"none", "candidate", "frozen"}]]
  /\ declared \in Declarations
  /\ records \in [RecordNames -> Bindings \cup {None}]
  /\ trajectories \in [Operators -> [Devices -> [formal : BOOLEAN, binding : Bindings] \cup {None}]]
  /\ edits \in Nat
  /\ points \in [Directories -> [ModeNames -> Seq(ProbePoints)]]
-----------------------------------------------------------------------------
(* What must hold *)

\* Rates a calibration of the directory may vouch for: results checked, the device
\* busy, and for the bandwidth working sets beyond the cache.
Witnessed(dir, mode) ==
  RatesOf(points[dir][mode],
          {i \in DOMAIN points[dir][mode] :
             LET p == points[dir][mode][i]
             IN p.checked /\ (p.busy \/ p.explained) /\ (mode = Bandwidth => p.primary /\ p.eligible)})

\* A time a candidate is scored against was measured: whatever was registered,
\* replaced, edited or declared since, a target the metrics command computes stands
\* on rates that the full protocol observed on the device of the binding (which need
\* not be the trajectory's, see TargetIsOfDevice), in the very directory the binding
\* names, for a scoring mode of the operator's unit, and never on a declaration with
\* a pending decision.
TargetIsMeasured ==
  \A op \in Operators, d \in Devices :
    Scored(op, d) # None =>
      LET b == FirstBinding
          mode == declared[op].mode
      IN /\ declared[op].approved
         /\ dirs[b.profile].content.device = b.device /\ ~dirs[b.profile].content.quick
         /\ \E bw \in Witnessed(b.profile, Bandwidth) :
              IF mode = "memory_only" THEN Scored(op, d) = Work[op].Q \div bw
              ELSE /\ Modes[mode].role = "scoring" /\ Modes[mode].unit = Work[op].unit
                   /\ \E p \in Witnessed(b.profile, mode) :
                        Scored(op, d) = Max({Work[op].F \div p, Work[op].Q \div bw})
-----------------------------------------------------------------------------
(* What comments and documents say and the code does not keep *)

\* "Running campaigns keep their pinned binding", says calibration-register of a
\* frozen profile that is replaced.  So when the profile of a device is replaced and
\* a campaign of that device goes on, the formal trajectories created before and
\* after the replacement are scored each against the profile it pinned.
ScoredAsPinned ==
  \A op, other \in Operators, d \in Devices :
    LET earlier == trajectories[other][d]
        later == trajectories[op][d]
    IN  /\ earlier # None /\ earlier.formal /\ earlier.binding = FirstBinding
        /\ later # None /\ later.formal /\ Scored(op, d) # None
        => FirstBinding.sha = later.binding.sha

\* "What a campaign pins at creation: its device's calibration entry", says
\* scoring_binding.  A campaign directory may hold trajectories of several devices,
\* and the first record is taken for all of them.
TargetIsOfDevice ==
  \A op \in Operators, d \in Devices : Scored(op, d) # None => FirstBinding.device = d
=============================================================================
