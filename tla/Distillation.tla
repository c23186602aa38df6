----------------------------- MODULE Distillation -----------------------------
(***************************************************************************)
(* Distilling an Optimization Skill from Base trajectories, and injecting  *)
(* it (distillation/access.py, orchestrator.py, cli.py cmd_distill,        *)
(* skills/loader.py).                                                      *)
(*                                                                         *)
(* A run indexes the trajectory files, selects those the held-out fold     *)
(* allows, asks the distiller for one observation of each (map) and for a  *)
(* skill from all (reduce), and writes the skill beside its manifest.      *)
(* Every answer is a record of the output directory that a later run       *)
(* reuses.  Meanwhile trajectory files, sources and the fold manifest      *)
(* belong to others.                                                       *)
(***************************************************************************)
EXTENDS Absence, Integers, Sequences, FiniteSets, SequencesExt, Functions

CONSTANTS
  Trajectories,   \* the trajectory files below the campaign root
  Contents,       \* what a trajectory file may hold
  States,         \* what the files may hold at the start
  Changed(_),     \* what else a file that holds a state may hold later
  Folds,          \* fold assignments: operator -> fold
  Operators, Models, Dsl, SourceDevice, TransferDevices,
  MaxRuns, MaxChanges, MaxFaults,
  Torn

VARIABLES
  file,      \* what each trajectory.json holds
  source,    \* the version of each trajectory's candidate sources
  folds,     \* the fold manifest
  out,       \* the output directory: observations, synthesis, partial records, skill, and which
             \* request each archived exchange (<id>.raw.json, synthesis.raw.json) is that of
  run,       \* the distillation in progress, or None
  registry,  \* the skill registry's entry, and what was injected last
  spent,     \* history: requests paid, answers that a crash lost
  bounds

distillVars == <<file, source, folds, out, run, registry, spent, bounds>>

FoldNames == {"A", "B", "C"}
TrainingFolds(held) == FoldNames \ {held}

ASSUME TrajectoriesAssumption == IsFiniteSet(Trajectories)
\* A file is rewritten by the runner of its own trajectory: it stays in its campaign, whose
\* exclusion is frozen with the protocol.
ASSUME ContentsAssumption ==
  /\ States \subseteq [Trajectories -> Contents]
  /\ \A s \in Contents : Changed(s) \subseteq {u \in Contents : u.excluded = s.excluded}
ASSUME FoldsAssumption == \A table \in Folds : \A op \in DOMAIN table : table[op] \in FoldNames
-----------------------------------------------------------------------------
(* Evidence access *)

\* refs_from_states: the state as it was indexed (its hash names it) and its operator's fold.
Ref(t, state, table) ==
  [id |-> t, state |-> state, fold |-> IF state.op \in DOMAIN table THEN table[state.op] ELSE "?"]

\* EvidenceScope.allows, by mode and held-out fold; what a file does not say of its revision,
\* its schema and its label is not held against it here.
Allows(mode, held, ref) ==
  /\ ~ref.state.excluded /\ ref.state.revision \in {4, None}
  /\ ref.state.run_type = "formal" /\ ref.state.schema \in {4, None} /\ ref.state.condition = "base"
  /\ ref.state.dsl = Dsl
  /\ ref.state.device \in IF mode = "release" THEN TransferDevices ELSE {SourceDevice}
  /\ ref.state.label \in {ref.fold, None}
  /\ mode = "evaluation" => ref.fold \in TrainingFolds(held)
  /\ ref.state.status = "complete"

\* evaluation_scope and release_scope over build_index; a scope is its manifest.
Scope(mode, held) ==
  [mode |-> mode, held |-> held,
   selected |-> {r \in {Ref(t, file[t], folds) : t \in Trajectories} : Allows(mode, held, r)}]

\* coverage_report against the training-fold operators of the source device.
Covered(scope) ==
  LET training == {o \in Operators : scope.mode = "release" \/ folds[o] \in TrainingFolds(scope.held)}
  IN  {<<r.state.op, r.state.model>> : r \in scope.selected} = training \X Models

\* Mutant of StateIsRef: only the fields that the index shows are compared, not the completeness.
IdentityOnly(ref, state, table) ==
  /\ \A k \in {"op", "dsl", "device", "model", "condition", "run_type"} : state[k] = ref.state[k]
  /\ state.op \in DOMAIN table /\ table[state.op] = ref.fold /\ state.label = ref.fold

\* verify_state_identity, and the extraction's own check of fold and condition.
StateIsRef(ref, state, table) ==
  /\ \A k \in {"op", "dsl", "device", "model", "condition", "run_type"} : state[k] = ref.state[k]
  /\ state.op \in DOMAIN table /\ table[state.op] = ref.fold /\ state.label = ref.fold
  /\ state.schema = 4 /\ state.status = "complete" /\ state.condition = "base"
-----------------------------------------------------------------------------
(* A run *)

Fault == bounds.faults < MaxFaults /\ bounds' = [bounds EXCEPT !.faults = @ + 1]
Normal(ok) == IF ok THEN UNCHANGED bounds ELSE Fault
RunEnds == run' = None
At(pc) == run # None /\ run.pc = pc

\* cmd_distill: blockers, index, scope, coverage.
Refused(formal, partial, scope) ==
  \/ scope.selected = {}
  \/ formal /\ ~partial /\ ~Covered(scope)

Start(mode, held, formal, partial) ==
  /\ run = None /\ bounds.runs < MaxRuns
  /\ ~Refused(formal, partial, Scope(mode, held))
  /\ run' = [pc |-> "open", scope |-> Scope(mode, held), table |-> folds, formal |-> formal,
             todo |-> Scope(mode, held).selected, ref |-> None, seen |-> None, obs |-> {}, answer |-> None]
  /\ bounds' = [bounds EXCEPT !.runs = @ + 1]
  /\ UNCHANGED <<file, source, folds, out, registry, spent>>

\* EvidenceScope.open: the file is still the one indexed.
Open ==
  /\ At("open") /\ run.todo # {}
  /\ \E ref \in run.todo :
       IF file[ref.id] = ref.state
       THEN run' = [run EXCEPT !.pc = "read", !.ref = ref, !.todo = @ \ {ref}]
       ELSE RunEnds
  /\ UNCHANGED <<file, source, folds, out, registry, spent, bounds>>

\* What an extraction stands for: the scope, the indexed state, and through the
\* request what was read of the state and of the sources.
Identity(scope, ref, state, version) == [scope |-> scope, indexed |-> ref.state, read |-> state, sources |-> version]

\* Mutant of Kept: a record that does not fit is overwritten.
Overwritten(record) == 0
\* _rotate_partial keeps what it finds under another name; an answer counts once.
Kept(record) == IF record = None THEN 0 ELSE 1

Reusable(record, identity) == record # None /\ record.accepted /\ record.identity = identity

\* read_state, verify_state_identity, rounds_block, and the record of an earlier run.
ReadState ==
  /\ At("read")
  /\ LET t == run.ref.id
         identity == Identity(run.scope, run.ref, file[t], source[t])
         record == out.observation[t]
     IN  IF ~StateIsRef(run.ref, file[t], run.table) \/ record = Torn
         THEN RunEnds /\ UNCHANGED out
         ELSE IF Reusable(record, identity)
         THEN /\ run' = [run EXCEPT !.pc = "open", !.obs = @ \cup {record}]
              /\ UNCHANGED out
         ELSE /\ run' = [run EXCEPT !.pc = "ask", !.seen = identity]
              /\ out' = [out EXCEPT !.observation[t] = None, !.partial = @ + Kept(record)]
  /\ UNCHANGED <<file, source, folds, registry, spent, bounds>>

\* provider.generate: an answer, complete or truncated, or an exception.
Answer(complete) ==
  /\ spent' = [spent EXCEPT !.paid = @ + 1]
  /\ run' = [run EXCEPT !.pc = IF @ = "ask" THEN "record" ELSE "conclude", !.answer = complete]
Ask(complete) ==
  /\ At("ask") \/ At("ask skill")
  /\ Normal(complete)
  /\ Answer(complete)
  /\ UNCHANGED <<file, source, folds, out, registry>>
AskRaises ==
  /\ At("ask") \/ At("ask skill")
  /\ Fault /\ RunEnds
  /\ UNCHANGED <<file, source, folds, out, registry, spent>>

Accepted(complete) == complete

\* _archive_exchange: the request and the raw answer, under the same name at every request.
Archived ==
  IF At("record") THEN [out EXCEPT !.raw[run.ref.id] = spent.paid]
  ELSE IF At("conclude") THEN [out EXCEPT !.rawSkill = spent.paid] ELSE out

\* The exchange, then the record; a partial one is renamed and ends the run.
Record ==
  /\ At("record")
  /\ LET t == run.ref.id
         record == [id |-> t, accepted |-> Accepted(run.answer), complete |-> run.answer, identity |-> run.seen]
     IN  IF record.accepted
         THEN /\ out' = [out EXCEPT !.raw[t] = spent.paid, !.observation[t] = record]
              /\ run' = [run EXCEPT !.pc = "open", !.obs = @ \cup {record}]
         ELSE out' = [out EXCEPT !.raw[t] = spent.paid, !.partial = @ + 1] /\ RunEnds
  /\ UNCHANGED <<file, source, folds, registry, spent, bounds>>

\* synthesize: one accepted observation of this scope for each selected trajectory.
ObservationsFit ==
  /\ \A o \in run.obs : o.identity.scope = run.scope /\ o.accepted
  /\ {o.id : o \in run.obs} = {r.id : r \in run.scope.selected}
  /\ Cardinality(run.obs) = Cardinality(run.scope.selected)

Synthesize ==
  /\ At("open") /\ run.todo = {}
  /\ LET s == out.synthesis
     IN  IF ~ObservationsFit \/ s = Torn THEN RunEnds /\ UNCHANGED out
         ELSE IF s # None /\ s.accepted /\ s.obs = run.obs /\ s.scope = run.scope
         THEN run' = [run EXCEPT !.pc = "write"] /\ UNCHANGED out
         ELSE /\ run' = [run EXCEPT !.pc = "ask skill"]
              /\ out' = [out EXCEPT !.synthesis = None, !.partial = @ + Kept(s)]
  /\ UNCHANGED <<file, source, folds, registry, spent, bounds>>

\* The text of a skill is known by the request that gave it.
Conclude ==
  /\ At("conclude")
  /\ IF Accepted(run.answer)
     THEN /\ out' = [out EXCEPT !.rawSkill = spent.paid,
                                !.synthesis = [accepted |-> TRUE, complete |-> run.answer, text |-> spent.paid,
                                               obs |-> run.obs, scope |-> run.scope]]
          /\ run' = [run EXCEPT !.pc = "write"]
     ELSE out' = [out EXCEPT !.rawSkill = spent.paid, !.partial = @ + 1] /\ RunEnds
  /\ UNCHANGED <<file, source, folds, registry, spent, bounds>>

\* write_skill: the text, then its manifest.
WriteText ==
  /\ At("write")
  /\ out' = [out EXCEPT !.text = [text |-> out.synthesis.text, test |-> ~run.formal]]
  /\ run' = [run EXCEPT !.pc = "manifest"]
  /\ UNCHANGED <<file, source, folds, registry, spent, bounds>>

WriteManifest ==
  /\ At("manifest")
  /\ out' = [out EXCEPT !.manifest =
       [status |-> IF run.formal THEN "draft" ELSE "test-only", scope |-> run.scope, table |-> run.table,
        obs |-> out.synthesis.obs, complete |-> out.synthesis.complete,
        content |-> [text |-> out.synthesis.text, test |-> ~run.formal]]]
  /\ RunEnds
  /\ UNCHANGED <<file, source, folds, registry, spent, bounds>>

\* The process dies, also between an exchange and its record; inside the write of the record it
\* leaves a torn one.
Die(torn) ==
  /\ run # None
  /\ Fault
  /\ RunEnds
  /\ torn => run.pc \in {"record", "conclude"} /\ Accepted(run.answer)
  /\ IF ~torn THEN out' \in {out, Archived}
     ELSE out' = IF run.pc = "record" THEN [out EXCEPT !.raw[run.ref.id] = spent.paid, !.observation[run.ref.id] = Torn]
                 ELSE [out EXCEPT !.rawSkill = spent.paid, !.synthesis = Torn]
  /\ spent' = [spent EXCEPT !.lost = IF run.pc \in {"record", "conclude"} /\ ~torn THEN @ + 1 ELSE @]
  /\ UNCHANGED <<file, source, folds, registry>>
-----------------------------------------------------------------------------
(* What others do meanwhile *)

Change == bounds.changes < MaxChanges /\ bounds' = [bounds EXCEPT !.changes = @ + 1]

ChangeState(t) ==
  /\ Change
  /\ \E s \in Changed(file[t]) : file' = [file EXCEPT ![t] = s]
  /\ UNCHANGED <<source, folds, out, run, registry, spent>>
ChangeSource(t) ==
  /\ Change
  /\ source' = [source EXCEPT ![t] = @ + 1]
  /\ UNCHANGED <<file, folds, out, run, registry, spent>>
Refold(table) ==
  /\ Change
  /\ folds' = table /\ table # folds
  /\ UNCHANGED <<file, source, out, run, registry, spent>>

\* The owner freezes what the directory holds: the manifest's status and the registry's
\* entry with the hash of the text.
Freeze ==
  /\ run = None /\ out.text # None /\ out.manifest # None
  /\ out.manifest.status = "draft"
  /\ out' = [out EXCEPT !.manifest.status = "frozen"]
  /\ registry' = [registry EXCEPT !.sha = out.text]
  /\ UNCHANGED <<file, source, folds, run, spent, bounds>>

\* validate_optimization_provenance: for exactly this use.
Provenance(fold) ==
  /\ out.manifest.scope.mode = "evaluation" /\ out.manifest.scope.held = fold
  /\ out.manifest.scope.selected # {}
  /\ out.manifest.content = out.text
  /\ out.manifest.status = "frozen"

\* compose_context for an Enhanced trajectory of a held-out operator: load_component's
\* status and hash, then the provenance.
Inject(fold) ==
  /\ out.text # None /\ out.manifest # None
  /\ registry.sha = out.text
  /\ Provenance(fold)
  /\ registry' = [registry EXCEPT !.injected = [fold |-> fold, text |-> out.text, from |-> out.manifest]]
  /\ UNCHANGED <<file, source, folds, out, run, spent, bounds>>
-----------------------------------------------------------------------------
DistillInit ==
  /\ file \in States
  /\ source = [t \in Trajectories |-> 0]
  /\ folds \in Folds
  /\ out = [observation |-> [t \in Trajectories |-> None], synthesis |-> None, partial |-> 0,
            raw |-> [t \in Trajectories |-> 0], rawSkill |-> 0, text |-> None, manifest |-> None]
  /\ run = None
  /\ registry = [sha |-> None, injected |-> None]
  /\ spent = [paid |-> 0, lost |-> 0]
  /\ bounds = [runs |-> 0, changes |-> 0, faults |-> 0]

DistillNext ==
  \/ \E mode \in {"evaluation", "release"}, held \in FoldNames, formal, partial \in BOOLEAN :
       (mode = "release" => held = "A") /\ Start(mode, held, formal, partial)
  \/ Open \/ ReadState
  \/ \E complete \in BOOLEAN : Ask(complete)
  \/ AskRaises \/ Record \/ Synthesize \/ Conclude \/ WriteText \/ WriteManifest
  \/ \E torn \in BOOLEAN : Die(torn)
  \/ \E t \in Trajectories : ChangeState(t) \/ ChangeSource(t)
  \/ \E table \in Folds : Refold(table)
  \/ Freeze
  \/ \E fold \in FoldNames : Inject(fold)

DistillSpec == DistillInit /\ [][DistillNext]_distillVars
-----------------------------------------------------------------------------
(* What the variables hold *)

Refs == [id : Trajectories, state : Contents, fold : FoldNames \cup {"?"}]
Scopes == [mode : {"evaluation", "release"}, held : FoldNames, selected : SUBSET Refs]
Identities == [scope : Scopes, indexed : Contents, read : Contents, sources : Nat]
Observations == [id : Trajectories, accepted : BOOLEAN, complete : BOOLEAN, identity : Identities]
Syntheses ==
  [accepted : BOOLEAN, complete : BOOLEAN, text : Nat, obs : SUBSET Observations, scope : Scopes]
Asking == {"read", "ask", "record"}
Concluding == {"ask skill", "conclude"}
Writing == {"write", "manifest"}
Distillations ==
  [pc : {"open"} \cup Asking \cup Concluding \cup Writing, scope : Scopes, table : Folds, formal : BOOLEAN,
   todo : SUBSET Refs, ref : Refs \cup {None}, seen : Identities \cup {None}, obs : SUBSET Observations,
   answer : BOOLEAN \cup {None}]

Texts == [text : Nat, test : BOOLEAN]
Manifests ==
  [status : {"draft", "test-only", "frozen"}, scope : Scopes, table : Folds, obs : SUBSET Observations,
   complete : BOOLEAN, content : Texts]
Injections == [fold : FoldNames, text : Texts, from : Manifests]

ASSUME NoneAssumption ==
  None # Torn /\ None \notin Observations /\ None \notin Syntheses /\ None \notin Distillations

DistillTypeOK ==
  /\ file \in [Trajectories -> Contents] /\ source \in [Trajectories -> Nat] /\ folds \in Folds
  /\ out \in [observation : [Trajectories -> Observations \cup {None, Torn}], synthesis : Syntheses \cup {None, Torn},
             partial : Nat, raw : [Trajectories -> Nat], rawSkill : Nat,
             text : Texts \cup {None}, manifest : Manifests \cup {None}]
  /\ run \in Distillations \cup {None}
  /\ registry \in [sha : Texts \cup {None}, injected : Injections \cup {None}]
  /\ spent \in [paid : Nat, lost : Nat]
-----------------------------------------------------------------------------
(* Properties *)

\* What an Enhanced trajectory of a held-out fold was given: the whole text of one completed
\* synthesis of a formal run, made of one completed answer for each selected trajectory, and each of
\* those answers about a complete, formal Base trajectory of the source device, read as such while
\* files changed, of an operator which the fold table of that run did not hold out.
InjectedIsAdmissible ==
  registry.injected # None =>
    LET i == registry.injected
        m == i.from
    IN  /\ i.text = m.content /\ ~i.text.test /\ m.complete
        /\ {o.id : o \in m.obs} = {r.id : r \in m.scope.selected}
        /\ \A o \in m.obs :
             /\ o.complete /\ o.identity.read.schema = 4
             /\ \A s \in {o.identity.read, o.identity.indexed} :
                  /\ s.condition = "base" /\ s.run_type = "formal" /\ s.status = "complete"
                  /\ s.device = SourceDevice /\ ~s.excluded
                  /\ m.table[s.op] \in TrainingFolds(i.fold)

\* No record of an answer is forgotten: each answer paid for is an accepted record, a partial or
\* replaced one under another name, a torn one, in the process, or lost by a crash before it was
\* recorded.  (Its archived exchange is not kept: ExchangesAreKept below.)
PaidIsKept ==
  LET records == Cardinality({t \in Trajectories : out.observation[t] # None})
                  + (IF out.synthesis = None THEN 0 ELSE 1)
      held == IF At("record") \/ At("conclude") THEN 1 ELSE 0
  IN  spent.paid = records + out.partial + held + spent.lost
-----------------------------------------------------------------------------
(* What comments and documents say and the code does not keep *)

\* "synthesis refuses observations ... whose source files changed": when a skill is requested
\* or reused, the sources are those that the observations were extracted from.
SynthesisSourcesStand ==
  At("write") => \A o \in run.obs : source[o.id] = o.identity.sources

\* "persisted and resumable": a directory never holds a record that every later run fails on.
Resumable == out.synthesis # Torn /\ \A t \in Trajectories : out.observation[t] # Torn

\* "Persistence (append-only): observations/<id>.json (+ .request.md and .raw.json ...)": an archived
\* exchange is that of the same request for ever.
ExchangesAreKept ==
  [][/\ \A t \in Trajectories : out.raw[t] # 0 => out'.raw[t] = out.raw[t]
     /\ out.rawSkill # 0 => out'.rawSkill = out.rawSkill]_distillVars

\* The state whose hash an observation records is the one it was extracted from.
ObservedIsIndexed == run # None => \A o \in run.obs : o.identity.read = o.identity.indexed

\* No skill is injected for a fold that holds an operator it was distilled from.
NoLeak ==
  [][registry'.injected # registry.injected =>
       \A o \in registry'.injected.from.obs : folds[o.identity.read.op] # registry'.injected.fold]_distillVars
=============================================================================
