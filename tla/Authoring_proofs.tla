-------------------------- MODULE Authoring_proofs --------------------------
(***************************************************************************)
(* What surrounds the candidates, for every value of the constants: the    *)
(* distillation of skills, the first generation pipeline, and the figures  *)
(* of cost and efficiency a campaign reports.                              *)
(***************************************************************************)
EXTENDS Distillation, FirstPipeline, Accounting, Sums_proofs

-----------------------------------------------------------------------------
(* Distillation: the variables hold what they should *)

\* What a run holds at each of its steps.
DistillUnderway ==
  run # None =>
    /\ run.todo \subseteq run.scope.selected
    /\ run.pc \in Asking => run.ref \in run.scope.selected
    /\ run.pc \in {"ask", "record"} => run.seen \in Identities
    /\ run.pc \in {"record", "conclude"} => run.answer \in BOOLEAN
    /\ run.pc \in Writing => out.synthesis \in Syntheses
DistillTyped == DistillTypeOK /\ DistillUnderway

LEMMA RefType ==
  ASSUME NEW t \in Trajectories, NEW content \in Contents, NEW table \in Folds
  PROVE  Ref(t, content, table) \in Refs
BY FoldsAssumption DEF Ref, Refs

LEMMA ScopeType ==
  ASSUME DistillTypeOK, NEW mode \in {"evaluation", "release"}, NEW held \in FoldNames
  PROVE  Scope(mode, held) \in Scopes
<1>1. \A t \in Trajectories : Ref(t, file[t], folds) \in Refs
  BY RefType DEF DistillTypeOK
<1> QED BY <1>1 DEF Scope, Scopes

LEMMA DistillInitTyped == DistillInit => DistillTyped
BY ContentsAssumption DEF DistillInit, DistillTyped, DistillTypeOK, DistillUnderway

LEMMA DistillStartTyped ==
  ASSUME DistillTyped, NEW mode \in {"evaluation", "release"}, NEW held \in FoldNames,
         NEW formal \in BOOLEAN, NEW partial \in BOOLEAN, Start(mode, held, formal, partial)
  PROVE  DistillTyped'
<1> USE DEF DistillTyped
<1>1. Scope(mode, held) \in Scopes /\ Scope(mode, held).selected \in SUBSET Refs
  BY ScopeType DEF Scopes
<1>2. run' \in Distillations
  BY <1>1 DEF Start, Distillations, DistillTypeOK
<1> QED BY <1>2 DEF Start, DistillTypeOK, DistillUnderway, Asking, Writing

LEMMA OpenTyped ==
  ASSUME DistillTyped, Open
  PROVE  DistillTyped'
<1> USE DEF DistillTyped
<1>1. run \in Distillations
  BY DEF DistillTypeOK, Open, At
<1>2. run' \in Distillations \cup {None} /\ DistillUnderway'
  <2>1. PICK ref \in run.todo : run' = [run EXCEPT !.pc = "read", !.ref = ref, !.todo = @ \ {ref}] \/ run' = None
    BY DEF Open, RunEnds
  <2>2. ref \in Refs
    BY <1>1 DEF Distillations
  <2>3. [run EXCEPT !.pc = "read", !.ref = ref, !.todo = @ \ {ref}] \in Distillations
    BY <1>1, <2>2 DEF Distillations, Asking
  <2>4. ref \in run.scope.selected /\ run.todo \subseteq run.scope.selected
    BY <2>1 DEF DistillUnderway, Open, At
  <2>5. CASE run' = [run EXCEPT !.pc = "read", !.ref = ref, !.todo = @ \ {ref}]
    <3>1. /\ run'.pc = "read" /\ run'.ref = ref /\ run'.todo = run.todo \ {ref}
          /\ run'.scope = run.scope
      BY <1>1, <2>5 DEF Distillations
    <3> QED BY <2>3, <2>4, <2>5, <3>1 DEF DistillUnderway, Writing
  <2> QED BY <2>1, <2>5 DEF DistillUnderway
<1> QED BY <1>2 DEF Open, DistillTypeOK

LEMMA ReadTyped ==
  ASSUME DistillTyped, ReadState
  PROVE  DistillTyped'
<1> USE DEF DistillTyped
<1> DEFINE t == run.ref.id
           identity == Identity(run.scope, run.ref, file[t], source[t])
           record == out.observation[t]
<1>1. run \in Distillations /\ run.pc = "read" /\ run # None
  BY DEF DistillTypeOK, ReadState, At
<1>2. run.ref \in Refs /\ run.ref \in run.scope.selected /\ run.todo \subseteq run.scope.selected
  BY <1>1 DEF DistillUnderway, Asking, Distillations, Scopes
<1>3. /\ t \in Trajectories /\ run.scope \in Scopes /\ run.ref.state \in Contents
      /\ file[t] \in Contents /\ source[t] \in Nat
      /\ record \in Observations \cup {None, Torn} /\ Kept(record) \in Nat
  BY <1>1, <1>2 DEF Refs, Distillations, DistillTypeOK, Kept
<1>4. identity \in Identities
  BY <1>3 DEF Identities, Identity
<1> HIDE DEF identity
<1>5. CASE RunEnds /\ UNCHANGED out
  BY <1>5 DEF ReadState, RunEnds, DistillTypeOK, DistillUnderway
<1>6. CASE /\ record # Torn /\ Reusable(record, identity)
           /\ run' = [run EXCEPT !.pc = "open", !.obs = @ \cup {record}]
           /\ UNCHANGED out
  <2>1. record \in Observations
    BY <1>3, <1>6 DEF Reusable
  <2>2. run' \in Distillations
    BY <1>1, <1>6, <2>1 DEF Distillations
  <2>3. run'.pc = "open" /\ run'.todo = run.todo /\ run'.scope = run.scope
    BY <1>1, <1>6 DEF Distillations
  <2> QED BY <1>2, <1>6, <2>2, <2>3 DEF ReadState, DistillTypeOK, DistillUnderway, Asking, Writing
<1>7. CASE /\ run' = [run EXCEPT !.pc = "ask", !.seen = identity]
           /\ out' = [out EXCEPT !.observation[t] = None, !.partial = @ + Kept(record)]
  <2>1. run' \in Distillations
    BY <1>1, <1>4, <1>7 DEF Distillations, Asking
  <2>2. /\ run'.pc = "ask" /\ run'.todo = run.todo /\ run'.scope = run.scope
        /\ run'.seen = identity /\ run'.ref = run.ref
    BY <1>1, <1>7 DEF Distillations
  <2>3. DistillUnderway'
    BY <1>2, <1>4, <2>2 DEF DistillUnderway, Asking, Writing
  <2>4. out.partial + Kept(record) \in Nat
    BY <1>3 DEF DistillTypeOK
  <2>5. out' = [out EXCEPT !.observation[t] = None, !.partial = out.partial + Kept(record)]
    BY <1>7
  <2>6. DistillTypeOK'
    BY <1>3, <2>1, <2>4, <2>5 DEF ReadState, DistillTypeOK
  <2> QED BY <2>3, <2>6
<1> QED BY <1>5, <1>6, <1>7 DEF ReadState, identity

LEMMA AskTyped ==
  ASSUME DistillTyped, NEW complete \in BOOLEAN, Ask(complete)
  PROVE  DistillTyped'
<1> USE DEF DistillTyped
<1>1. run \in Distillations /\ run.pc \in {"ask", "ask skill"} /\ run # None
  BY DEF DistillTypeOK, Ask, At
<1>2. run' = [run EXCEPT !.pc = IF @ = "ask" THEN "record" ELSE "conclude", !.answer = complete]
  BY DEF Ask, Answer
<1>3. run' \in Distillations
  BY <1>1, <1>2 DEF Distillations, Asking, Concluding
<1>4. /\ run'.pc = IF run.pc = "ask" THEN "record" ELSE "conclude"
      /\ run'.todo = run.todo /\ run'.scope = run.scope
      /\ run'.seen = run.seen /\ run'.ref = run.ref /\ run'.answer = complete
  BY <1>1, <1>2 DEF Distillations
<1>5. DistillUnderway'
  BY <1>1, <1>4 DEF DistillUnderway, Asking, Writing
<1>6. spent' \in [paid : Nat, lost : Nat]
  <2>1. spent \in [paid : Nat, lost : Nat] /\ spent' = [spent EXCEPT !.paid = @ + 1]
    BY DEF Ask, Answer, DistillTypeOK
  <2> QED BY <2>1
<1> QED BY <1>3, <1>5, <1>6 DEF Ask, DistillTypeOK

LEMMA RecordTyped ==
  ASSUME DistillTyped, Record
  PROVE  DistillTyped'
<1> USE DEF DistillTyped
<1> DEFINE t == run.ref.id
           record == [id |-> t, accepted |-> Accepted(run.answer), complete |-> run.answer, identity |-> run.seen]
<1>1. run \in Distillations /\ run.pc = "record" /\ run # None
  BY DEF DistillTypeOK, Record, At
<1>2. /\ run.ref \in Refs /\ run.todo \subseteq run.scope.selected
      /\ run.seen \in Identities /\ run.answer \in BOOLEAN
  BY <1>1 DEF DistillUnderway, Asking, Distillations, Scopes
<1>3. t \in Trajectories /\ record \in Observations
  BY <1>2 DEF Refs, Observations, Accepted
<1>4. record.accepted = run.answer
  BY DEF Accepted
<1> HIDE DEF record
<1>5. CASE /\ out' = [out EXCEPT !.raw[t] = spent.paid, !.observation[t] = record]
           /\ run' = [run EXCEPT !.pc = "open", !.obs = @ \cup {record}]
  <2>1. run' \in Distillations
    BY <1>1, <1>3, <1>5 DEF Distillations
  <2>2. run'.pc = "open" /\ run'.todo = run.todo /\ run'.scope = run.scope
    BY <1>1, <1>5 DEF Distillations
  <2>3. DistillUnderway'
    BY <1>2, <2>2 DEF DistillUnderway, Asking, Writing
  <2>4. DistillTypeOK'
    BY <1>3, <1>5, <2>1 DEF Record, DistillTypeOK
  <2> QED BY <2>3, <2>4
<1>6. CASE out' = [out EXCEPT !.raw[t] = spent.paid, !.partial = @ + 1] /\ RunEnds
  <2>1. spent.paid \in Nat /\ spent' = spent /\ run' = None
    BY <1>6 DEF Record, DistillTypeOK, RunEnds
  <2>2. /\ out'.raw = [out.raw EXCEPT ![t] = spent.paid] /\ out'.partial = out.partial + 1
        /\ out' = [out EXCEPT !.raw = out'.raw, !.partial = out'.partial]
    BY <1>6 DEF DistillTypeOK
  <2>3. out'.raw \in [Trajectories -> Nat] /\ out'.partial \in Nat
    BY <1>3, <2>1, <2>2 DEF DistillTypeOK
  <2> QED BY <2>1, <2>2, <2>3 DEF Record, DistillTypeOK, DistillUnderway
<1> QED BY <1>5, <1>6 DEF Record, record

LEMMA SynthesizeTyped ==
  ASSUME DistillTyped, Synthesize
  PROVE  DistillTyped'
<1> USE DEF DistillTyped
<1>1. run \in Distillations /\ run.pc = "open" /\ run # None
  BY DEF DistillTypeOK, Synthesize, At
<1>2. run.todo \subseteq run.scope.selected
  BY <1>1 DEF DistillUnderway
<1>3. CASE RunEnds /\ UNCHANGED out
  BY <1>3 DEF Synthesize, DistillTypeOK, RunEnds, DistillUnderway
<1>4. CASE /\ out.synthesis # Torn /\ out.synthesis # None
           /\ run' = [run EXCEPT !.pc = "write"] /\ UNCHANGED out
  <2>1. run' \in Distillations /\ out.synthesis \in Syntheses
    BY <1>1, <1>4 DEF Distillations, DistillTypeOK, Writing
  <2>2. run'.pc = "write" /\ run'.todo = run.todo /\ run'.scope = run.scope
    BY <1>1, <1>4 DEF Distillations
  <2>3. DistillUnderway'
    BY <1>2, <1>4, <2>1, <2>2 DEF DistillUnderway, Asking
  <2> QED BY <1>4, <2>1, <2>3 DEF Synthesize, DistillTypeOK
<1>5. CASE /\ run' = [run EXCEPT !.pc = "ask skill"]
           /\ out' = [out EXCEPT !.synthesis = None, !.partial = @ + Kept(out.synthesis)]
  <2>1. run' \in Distillations
    BY <1>1, <1>5 DEF Distillations, Concluding
  <2>2. run'.pc = "ask skill" /\ run'.todo = run.todo /\ run'.scope = run.scope
    BY <1>1, <1>5 DEF Distillations
  <2>3. DistillUnderway'
    BY <1>2, <2>2 DEF DistillUnderway, Asking, Writing
  <2>4. out.partial + Kept(out.synthesis) \in Nat
    BY DEF Kept, DistillTypeOK
  <2>5. out' = [out EXCEPT !.synthesis = None, !.partial = out.partial + Kept(out.synthesis)]
    BY <1>5
  <2> QED BY <2>1, <2>3, <2>4, <2>5 DEF Synthesize, DistillTypeOK
<1> QED BY <1>3, <1>4, <1>5 DEF Synthesize

LEMMA ConcludeTyped ==
  ASSUME DistillTyped, Conclude
  PROVE  DistillTyped'
<1> USE DEF DistillTyped
<1> DEFINE s == [accepted |-> TRUE, complete |-> run.answer, text |-> spent.paid, obs |-> run.obs, scope |-> run.scope]
<1>1. run \in Distillations /\ run.pc = "conclude" /\ run # None
  BY DEF DistillTypeOK, Conclude, At
<1>2. run.todo \subseteq run.scope.selected /\ run.answer \in BOOLEAN
  BY <1>1 DEF DistillUnderway
<1>3. s \in Syntheses
  BY <1>1, <1>2 DEF Syntheses, Distillations, DistillTypeOK
<1> HIDE DEF s
<1>4. CASE out' = [out EXCEPT !.rawSkill = spent.paid, !.synthesis = s] /\ run' = [run EXCEPT !.pc = "write"]
  <2>1. run' \in Distillations
    BY <1>1, <1>4 DEF Distillations, Writing
  <2>2. run'.pc = "write" /\ run'.todo = run.todo /\ run'.scope = run.scope
    BY <1>1, <1>4 DEF Distillations
  <2>3. DistillTypeOK' /\ out'.synthesis = s
    BY <1>3, <1>4, <2>1 DEF Conclude, DistillTypeOK
  <2> QED BY <1>2, <1>3, <2>2, <2>3 DEF DistillUnderway, Asking
<1>5. CASE out' = [out EXCEPT !.rawSkill = spent.paid, !.partial = @ + 1] /\ RunEnds
  <2>1. spent.paid \in Nat /\ spent' = spent /\ run' = None
    BY <1>5 DEF Conclude, DistillTypeOK, RunEnds
  <2>2. out.partial \in Nat /\ out.partial + 1 \in Nat
    BY DEF DistillTypeOK
  <2>3. out' = [out EXCEPT !.rawSkill = spent.paid, !.partial = out.partial + 1]
    BY <1>5
  <2>4. out' = [observation |-> out.observation, synthesis |-> out.synthesis, partial |-> out.partial + 1,
                raw |-> out.raw, rawSkill |-> spent.paid, text |-> out.text, manifest |-> out.manifest]
    BY <2>3 DEF DistillTypeOK
  <2>5. DistillTypeOK'
    BY <2>1, <2>2, <2>4 DEF Conclude, DistillTypeOK
  <2> QED BY <2>1, <2>5 DEF DistillUnderway
<1> QED BY <1>4, <1>5 DEF Conclude, s

LEMMA WriteTyped ==
  ASSUME DistillTyped, WriteText \/ WriteManifest
  PROVE  DistillTyped'
<1> USE DEF DistillTyped
<1>1. run \in Distillations /\ run.pc \in Writing /\ run # None
  BY DEF DistillTypeOK, WriteText, WriteManifest, At, Writing
<1>2. run.todo \subseteq run.scope.selected /\ out.synthesis \in Syntheses
  BY <1>1 DEF DistillUnderway
<1> DEFINE text == [text |-> out.synthesis.text, test |-> ~run.formal]
<1>3. text \in Texts
  BY <1>1, <1>2 DEF Texts, Syntheses, Distillations
<1>4. CASE WriteText
  <2>1. run' = [run EXCEPT !.pc = "manifest"] /\ out' = [out EXCEPT !.text = text]
    BY <1>4 DEF WriteText
  <2>2. run' \in Distillations
    BY <1>1, <2>1 DEF Distillations, Writing
  <2>3. run'.pc = "manifest" /\ run'.todo = run.todo /\ run'.scope = run.scope
    BY <1>1, <2>1 DEF Distillations
  <2>4. DistillTypeOK' /\ out'.synthesis = out.synthesis
    BY <1>3, <1>4, <2>1, <2>2 DEF WriteText, DistillTypeOK
  <2> QED BY <1>2, <2>3, <2>4 DEF DistillUnderway, Asking
<1>5. CASE WriteManifest
  <2> DEFINE m == [status |-> IF run.formal THEN "draft" ELSE "test-only", scope |-> run.scope, table |-> run.table,
                   obs |-> out.synthesis.obs, complete |-> out.synthesis.complete, content |-> text]
  <2>1. m \in Manifests
    BY <1>1, <1>2, <1>3 DEF Manifests, Syntheses, Distillations
  <2>2. out' = [out EXCEPT !.manifest = m] /\ run' = None
    BY <1>5 DEF WriteManifest, RunEnds
  <2> HIDE DEF m
  <2> QED BY <1>5, <2>1, <2>2 DEF WriteManifest, DistillTypeOK, DistillUnderway
<1> QED BY <1>4, <1>5

LEMMA EndTyped ==
  ASSUME DistillTyped, AskRaises \/ \E torn \in BOOLEAN : Die(torn)
  PROVE  DistillTyped'
<1> USE DEF DistillTyped
<1>1. run \in Distillations /\ run # None /\ run' = None
  BY DEF DistillTypeOK, AskRaises, Die, At, RunEnds
<1>2. CASE AskRaises
  BY <1>1, <1>2 DEF AskRaises, DistillTypeOK, DistillUnderway
<1>3. ASSUME NEW torn \in BOOLEAN, Die(torn) PROVE DistillTyped'
  <2>1. spent' \in [paid : Nat, lost : Nat]
    BY <1>3 DEF Die, DistillTypeOK
  <2>2. \/ out' = out
        \/ run.pc = "record" /\ out' = [out EXCEPT !.raw[run.ref.id] = spent.paid]
        \/ out' = [out EXCEPT !.rawSkill = spent.paid]
        \/ run.pc = "record" /\ out' = [out EXCEPT !.raw[run.ref.id] = spent.paid, !.observation[run.ref.id] = Torn]
        \/ out' = [out EXCEPT !.rawSkill = spent.paid, !.synthesis = Torn]
    BY <1>3 DEF Die, Archived, At
  <2>3. out' \in [observation : [Trajectories -> Observations \cup {None, Torn}], synthesis : Syntheses \cup {None, Torn},
                  partial : Nat, raw : [Trajectories -> Nat], rawSkill : Nat,
                  text : Texts \cup {None}, manifest : Manifests \cup {None}]
    <3>1. /\ out' = [observation |-> out'.observation, synthesis |-> out'.synthesis, partial |-> out.partial,
                     raw |-> out'.raw, rawSkill |-> out'.rawSkill, text |-> out.text, manifest |-> out.manifest]
          /\ out'.observation = out.observation \/ out'.observation = [out.observation EXCEPT ![run.ref.id] = Torn]
          /\ out'.synthesis \in {out.synthesis, Torn}
          /\ out'.raw = out.raw \/ out'.raw = [out.raw EXCEPT ![run.ref.id] = spent.paid]
          /\ out'.rawSkill \in {out.rawSkill, spent.paid}
      BY <2>2 DEF DistillTypeOK
    <3>2. spent.paid \in Nat
      BY DEF DistillTypeOK
    <3>3. /\ out'.observation \in [Trajectories -> Observations \cup {None, Torn}]
          /\ out'.raw \in [Trajectories -> Nat]
      BY <3>1, <3>2 DEF DistillTypeOK
    <3> QED BY <3>1, <3>2, <3>3 DEF DistillTypeOK
  <2> QED BY <1>1, <1>3, <2>1, <2>3 DEF Die, DistillTypeOK, DistillUnderway
<1> QED BY <1>2, <1>3

LEMMA OthersTyped ==
  ASSUME DistillTyped,
         \/ \E t \in Trajectories : ChangeState(t) \/ ChangeSource(t)
         \/ \E table \in Folds : Refold(table)
  PROVE  DistillTyped'
<1> USE DEF DistillTyped
<1>1. DistillUnderway'
  BY DEF ChangeState, ChangeSource, Refold, DistillUnderway
<1>2. ASSUME NEW t \in Trajectories, ChangeState(t) PROVE DistillTypeOK'
  BY <1>2, ContentsAssumption DEF ChangeState, DistillTypeOK
<1>3. ASSUME NEW t \in Trajectories, ChangeSource(t) PROVE DistillTypeOK'
  BY <1>3 DEF ChangeSource, DistillTypeOK
<1>4. ASSUME NEW table \in Folds, Refold(table) PROVE DistillTypeOK'
  BY <1>4 DEF Refold, DistillTypeOK
<1> QED BY <1>1, <1>2, <1>3, <1>4

LEMMA OwnerTyped ==
  ASSUME DistillTyped, Freeze \/ \E fold \in FoldNames : Inject(fold)
  PROVE  DistillTyped'
<1> USE DEF DistillTyped
<1>1. CASE Freeze
  <2>1. out.text \in Texts /\ out.manifest \in Manifests /\ run = None /\ run' = None
    BY <1>1 DEF Freeze, DistillTypeOK
  <2>2. [out.manifest EXCEPT !.status = "frozen"] \in Manifests
    BY <2>1 DEF Manifests
  <2>3. out' = [out EXCEPT !.manifest = [out.manifest EXCEPT !.status = "frozen"]]
    BY <1>1 DEF Freeze
  <2> QED BY <1>1, <2>1, <2>2, <2>3 DEF Freeze, DistillTypeOK, DistillUnderway
<1>2. ASSUME NEW fold \in FoldNames, Inject(fold) PROVE DistillTyped'
  <2>1. [fold |-> fold, text |-> out.text, from |-> out.manifest] \in Injections
    BY <1>2 DEF Inject, DistillTypeOK, Injections
  <2> QED BY <1>2, <2>1 DEF Inject, DistillTypeOK, DistillUnderway
<1> QED BY <1>1, <1>2

LEMMA StutterTyped ==
  ASSUME DistillTyped, UNCHANGED distillVars
  PROVE  DistillTyped'
BY DEF DistillTyped, DistillTypeOK, DistillUnderway, distillVars

LEMMA DistillNextTyped ==
  ASSUME DistillTyped, [DistillNext]_distillVars
  PROVE  DistillTyped'
BY DistillStartTyped, OpenTyped, ReadTyped, AskTyped, RecordTyped, SynthesizeTyped, ConcludeTyped, WriteTyped,
   EndTyped, OthersTyped, OwnerTyped, StutterTyped DEF DistillNext

-----------------------------------------------------------------------------
(* What is injected is made of admissible evidence *)

\* The fold that refs_from_states computes for an operator.
FoldIn(op, table) == IF op \in DOMAIN table THEN table[op] ELSE "?"

\* The state read is the one indexed in all that the access rules look at.
ReadAs(ref, s) ==
  /\ s.op = ref.state.op /\ s.device = ref.state.device /\ s.run_type = ref.state.run_type
  /\ s.excluded = ref.state.excluded
  /\ s.condition = "base" /\ s.schema = 4 /\ s.status = "complete"

\* An answer about a trajectory of the scope it was asked for, and of nothing else.
DistillGrounded(id, identity) ==
  \E ref \in identity.scope.selected :
    /\ ref.id = id /\ ref.state = identity.indexed
    /\ Allows(identity.scope.mode, identity.scope.held, ref)
    /\ ReadAs(ref, identity.read)

Sound(o) == o.complete /\ DistillGrounded(o.id, o.identity)

\* The scope of a run is what its fold table allowed, of files that have stayed in their campaigns.
ScopeStands ==
  \A ref \in run.scope.selected :
    /\ Allows(run.scope.mode, run.scope.held, ref)
    /\ ref.fold = FoldIn(ref.state.op, run.table)
    /\ ref.state.excluded = file[ref.id].excluded

\* The observations that a skill is made of: those of the scope, all of them, and sound.
Made(obs, scope) ==
  /\ {o.id : o \in obs} = {ref.id : ref \in scope.selected}
  /\ \A o \in obs : Sound(o) /\ o.identity.scope = scope

RunSound ==
  run # None =>
    /\ ScopeStands
    /\ run.pc \in {"ask", "record"} => DistillGrounded(run.ref.id, run.seen)
    /\ \A o \in run.obs : Sound(o)
    /\ run.pc \in Concluding \cup Writing => Made(run.obs, run.scope)
    /\ run.pc \in Writing => out.synthesis.complete /\ out.synthesis.obs = run.obs

RecordsSound ==
  /\ \A t \in Trajectories : out.observation[t] \notin {None, Torn} => Sound(out.observation[t])
  /\ out.synthesis \notin {None, Torn} => out.synthesis.accepted /\ out.synthesis.complete

\* What a manifest says stands, unless it is that of a test.
Vouches(m) ==
  /\ m.status = "test-only" \/ ~m.content.test
  /\ m.complete /\ Made(m.obs, m.scope)
  /\ \A ref \in m.scope.selected :
       Allows(m.scope.mode, m.scope.held, ref) /\ ref.fold = FoldIn(ref.state.op, m.table)

Evidence ==
  /\ RunSound /\ RecordsSound
  /\ out.manifest # None => Vouches(out.manifest)
  /\ InjectedIsAdmissible

LEMMA InitEvidence == DistillInit => Evidence
BY DEF DistillInit, Evidence, RunSound, RecordsSound, InjectedIsAdmissible

\* A step that keeps a record, or drops it, keeps it sound.
LEMMA StartEvidence ==
  ASSUME DistillTyped, Evidence, NEW mode \in {"evaluation", "release"}, NEW held \in FoldNames,
         NEW formal \in BOOLEAN, NEW partial \in BOOLEAN, Start(mode, held, formal, partial)
  PROVE  Evidence'
<1>1. run' = [pc |-> "open", scope |-> Scope(mode, held), table |-> folds, formal |-> formal,
              todo |-> Scope(mode, held).selected, ref |-> None, seen |-> None, obs |-> {}, answer |-> None]
  BY DEF Start
<1>2. ASSUME NEW ref \in Scope(mode, held).selected
      PROVE  /\ Allows(mode, held, ref) /\ ref.fold = FoldIn(ref.state.op, folds)
             /\ ref.state.excluded = file[ref.id].excluded
  BY DEF Scope, Ref, FoldIn
<1>3. Scope(mode, held).mode = mode /\ Scope(mode, held).held = held
  BY DEF Scope
<1>4. file' = file
  BY DEF Start
<1>5. ScopeStands'
  BY <1>1, <1>2, <1>3, <1>4 DEF ScopeStands
<1>6. RunSound'
  BY <1>1, <1>5 DEF RunSound, Concluding, Writing
<1> QED BY <1>6 DEF Start, Evidence, RecordsSound, InjectedIsAdmissible

LEMMA OpenEvidence ==
  ASSUME DistillTyped, Evidence, Open
  PROVE  Evidence'
<1>1. run \in Distillations /\ run # None
  BY DEF DistillTyped, DistillTypeOK, Open, At
<1>2. PICK ref \in run.todo : run' = [run EXCEPT !.pc = "read", !.ref = ref, !.todo = @ \ {ref}] \/ run' = None
  BY DEF Open, RunEnds
<1>3. ASSUME run' = [run EXCEPT !.pc = "read", !.ref = ref, !.todo = @ \ {ref}]
      PROVE  RunSound'
  <2>1. run'.pc = "read" /\ run'.scope = run.scope /\ run'.table = run.table /\ run'.obs = run.obs
    BY <1>1, <1>3 DEF Distillations
  <2>2. file' = file
    BY DEF Open
  <2> QED BY <1>1, <2>1, <2>2 DEF Evidence, RunSound, ScopeStands, Concluding, Writing
<1>4. RunSound'
  BY <1>2, <1>3 DEF Evidence, RunSound
<1> QED BY <1>4 DEF Open, Evidence, RecordsSound, InjectedIsAdmissible

LEMMA ReadEvidence ==
  ASSUME DistillTyped, Evidence, ReadState
  PROVE  Evidence'
<1> DEFINE t == run.ref.id
           identity == Identity(run.scope, run.ref, file[t], source[t])
           record == out.observation[t]
<1>1. run \in Distillations /\ run.pc = "read" /\ run # None
  BY DEF DistillTyped, DistillTypeOK, ReadState, At
<1>2. run.ref \in run.scope.selected /\ run.ref \in Refs /\ t \in Trajectories
  BY <1>1 DEF DistillTyped, DistillUnderway, Asking, Distillations, Scopes, Refs
<1>3. file' = file /\ registry' = registry
  BY DEF ReadState
<1>4. ScopeStands
  BY <1>1 DEF Evidence, RunSound
<1>5. CASE RunEnds /\ UNCHANGED out
  BY <1>3, <1>5 DEF Evidence, RunSound, RecordsSound, InjectedIsAdmissible, RunEnds
<1>6. CASE /\ record # Torn /\ Reusable(record, identity)
           /\ run' = [run EXCEPT !.pc = "open", !.obs = @ \cup {record}]
           /\ UNCHANGED out
  <2>1. Sound(record)
    BY <1>2, <1>6 DEF Reusable, Evidence, RecordsSound
  <2>2. /\ run'.pc = "open" /\ run'.scope = run.scope /\ run'.table = run.table
        /\ run'.obs = run.obs \cup {record}
    BY <1>1, <1>6 DEF Distillations
  <2>3. RunSound'
    BY <1>1, <1>3, <2>1, <2>2 DEF Evidence, RunSound, ScopeStands, Concluding, Writing
  <2> QED BY <1>3, <1>6, <2>3 DEF Evidence, RecordsSound, InjectedIsAdmissible
<1>7. CASE /\ StateIsRef(run.ref, file[t], run.table)
           /\ run' = [run EXCEPT !.pc = "ask", !.seen = identity]
           /\ out' = [out EXCEPT !.observation[t] = None, !.partial = @ + Kept(record)]
  <2>1. ReadAs(run.ref, file[t])
    BY <1>2, <1>4, <1>7 DEF StateIsRef, ReadAs, ScopeStands
  <2>2. Allows(run.scope.mode, run.scope.held, run.ref)
    BY <1>2, <1>4 DEF ScopeStands
  <2>3. DistillGrounded(t, identity)
    BY <1>2, <2>1, <2>2 DEF DistillGrounded, Identity
  <2> HIDE DEF identity
  <2>4. /\ run'.pc = "ask" /\ run'.scope = run.scope /\ run'.table = run.table
        /\ run'.obs = run.obs /\ run'.ref = run.ref /\ run'.seen = identity
    BY <1>1, <1>7 DEF Distillations
  <2>5. RunSound'
    BY <1>1, <1>3, <2>3, <2>4 DEF Evidence, RunSound, ScopeStands, Concluding, Writing
  <2>6. /\ out'.observation = [out.observation EXCEPT ![t] = None]
        /\ out'.synthesis = out.synthesis /\ out'.manifest = out.manifest
    BY <1>7 DEF DistillTyped, DistillTypeOK
  <2>7. RecordsSound'
    BY <2>6 DEF DistillTyped, DistillTypeOK, Evidence, RecordsSound
  <2> QED BY <1>3, <2>5, <2>6, <2>7 DEF Evidence, InjectedIsAdmissible
<1> QED BY <1>5, <1>6, <1>7 DEF ReadState

LEMMA AskEvidence ==
  ASSUME DistillTyped, Evidence, NEW complete \in BOOLEAN, Ask(complete)
  PROVE  Evidence'
<1>1. run \in Distillations /\ run.pc \in {"ask", "ask skill"} /\ run # None
  BY DEF DistillTyped, DistillTypeOK, Ask, At
<1>2. run' = [run EXCEPT !.pc = IF @ = "ask" THEN "record" ELSE "conclude", !.answer = complete]
  BY DEF Ask, Answer
<1>3. /\ run'.pc = IF run.pc = "ask" THEN "record" ELSE "conclude"
      /\ run'.scope = run.scope /\ run'.table = run.table /\ run'.obs = run.obs
      /\ run'.ref = run.ref /\ run'.seen = run.seen
  BY <1>1, <1>2 DEF Distillations
<1>4. file' = file /\ out' = out /\ registry' = registry
  BY DEF Ask
<1>5. RunSound'
  BY <1>1, <1>3, <1>4 DEF Evidence, RunSound, ScopeStands, Concluding, Writing
<1> QED BY <1>4, <1>5 DEF Evidence, RecordsSound, InjectedIsAdmissible

LEMMA RecordEvidence ==
  ASSUME DistillTyped, Evidence, Record
  PROVE  Evidence'
<1> DEFINE t == run.ref.id
           record == [id |-> t, accepted |-> Accepted(run.answer), complete |-> run.answer, identity |-> run.seen]
<1>1. run \in Distillations /\ run.pc = "record" /\ run # None
  BY DEF DistillTyped, DistillTypeOK, Record, At
<1>2. t \in Trajectories
  BY <1>1 DEF DistillTyped, DistillUnderway, Asking, Distillations, Scopes, Refs
<1>3. file' = file /\ registry' = registry
  BY DEF Record
<1>4. CASE /\ record.accepted
           /\ out' = [out EXCEPT !.raw[t] = spent.paid, !.observation[t] = record]
           /\ run' = [run EXCEPT !.pc = "open", !.obs = @ \cup {record}]
  <2>1. Sound(record)
    BY <1>1, <1>4 DEF Sound, Accepted, Evidence, RunSound
  <2> HIDE DEF record
  <2>2. /\ run'.pc = "open" /\ run'.scope = run.scope /\ run'.table = run.table
        /\ run'.obs = run.obs \cup {record}
    BY <1>1, <1>4 DEF Distillations
  <2>3. /\ out'.observation = [out.observation EXCEPT ![t] = record]
        /\ out'.synthesis = out.synthesis /\ out'.manifest = out.manifest
    BY <1>4 DEF DistillTyped, DistillTypeOK
  <2>4. RunSound'
    BY <1>1, <1>3, <2>1, <2>2 DEF Evidence, RunSound, ScopeStands, Concluding, Writing
  <2>5. RecordsSound'
    BY <2>1, <2>3 DEF DistillTyped, DistillTypeOK, Evidence, RecordsSound
  <2> QED BY <1>3, <2>3, <2>4, <2>5 DEF Evidence, InjectedIsAdmissible
<1>5. CASE out' = [out EXCEPT !.raw[t] = spent.paid, !.partial = @ + 1] /\ RunEnds
  <2>1. out'.observation = out.observation /\ out'.synthesis = out.synthesis /\ out'.manifest = out.manifest
    BY <1>5 DEF DistillTyped, DistillTypeOK
  <2> QED BY <1>3, <1>5, <2>1 DEF Evidence, RunSound, RecordsSound, InjectedIsAdmissible, RunEnds
<1> QED BY <1>4, <1>5 DEF Record

LEMMA SynthesizeEvidence ==
  ASSUME DistillTyped, Evidence, Synthesize
  PROVE  Evidence'
<1>1. run \in Distillations /\ run.pc = "open" /\ run # None
  BY DEF DistillTyped, DistillTypeOK, Synthesize, At
<1>2. file' = file /\ registry' = registry
  BY DEF Synthesize
<1>3. CASE RunEnds /\ UNCHANGED out
  BY <1>2, <1>3 DEF Evidence, RunSound, RecordsSound, InjectedIsAdmissible, RunEnds
<1>4. ASSUME ObservationsFit PROVE Made(run.obs, run.scope)
  BY <1>1, <1>4 DEF ObservationsFit, Made, Evidence, RunSound
<1>5. CASE /\ ObservationsFit /\ out.synthesis # Torn /\ out.synthesis # None /\ out.synthesis.obs = run.obs
           /\ run' = [run EXCEPT !.pc = "write"] /\ UNCHANGED out
  <2>1. run'.pc = "write" /\ run'.scope = run.scope /\ run'.table = run.table /\ run'.obs = run.obs
    BY <1>1, <1>5 DEF Distillations
  <2>2. RunSound'
    BY <1>1, <1>2, <1>4, <1>5, <2>1 DEF Evidence, RunSound, RecordsSound, ScopeStands
  <2> QED BY <1>2, <1>5, <2>2 DEF Evidence, RecordsSound, InjectedIsAdmissible
<1>6. CASE /\ ObservationsFit
           /\ run' = [run EXCEPT !.pc = "ask skill"]
           /\ out' = [out EXCEPT !.synthesis = None, !.partial = @ + Kept(out.synthesis)]
  <2>1. run'.pc = "ask skill" /\ run'.scope = run.scope /\ run'.table = run.table /\ run'.obs = run.obs
    BY <1>1, <1>6 DEF Distillations
  <2>2. out'.observation = out.observation /\ out'.synthesis = None /\ out'.manifest = out.manifest
    BY <1>6 DEF DistillTyped, DistillTypeOK
  <2>3. RunSound'
    BY <1>1, <1>2, <1>4, <1>6, <2>1 DEF Evidence, RunSound, ScopeStands, Writing
  <2> QED BY <1>2, <2>2, <2>3 DEF Evidence, RecordsSound, InjectedIsAdmissible
<1> QED BY <1>3, <1>5, <1>6 DEF Synthesize

LEMMA ConcludeEvidence ==
  ASSUME DistillTyped, Evidence, Conclude
  PROVE  Evidence'
<1> DEFINE s == [accepted |-> TRUE, complete |-> run.answer, text |-> spent.paid, obs |-> run.obs, scope |-> run.scope]
<1>1. run \in Distillations /\ run.pc = "conclude" /\ run # None
  BY DEF DistillTyped, DistillTypeOK, Conclude, At
<1>2. file' = file /\ registry' = registry
  BY DEF Conclude
<1>3. CASE Accepted(run.answer) /\ out' = [out EXCEPT !.rawSkill = spent.paid, !.synthesis = s] /\ run' = [run EXCEPT !.pc = "write"]
  <2>1. s.complete /\ s.accepted /\ s.obs = run.obs
    BY <1>3 DEF Accepted
  <2> HIDE DEF s
  <2>2. run'.pc = "write" /\ run'.scope = run.scope /\ run'.table = run.table /\ run'.obs = run.obs
    BY <1>1, <1>3 DEF Distillations
  <2>3. out'.observation = out.observation /\ out'.synthesis = s /\ out'.manifest = out.manifest
    BY <1>3 DEF DistillTyped, DistillTypeOK
  <2>4. RunSound'
    BY <1>1, <1>2, <2>1, <2>2, <2>3 DEF Evidence, RunSound, ScopeStands, Concluding
  <2> QED BY <1>2, <2>1, <2>3, <2>4 DEF Evidence, RecordsSound, InjectedIsAdmissible
<1>4. CASE out' = [out EXCEPT !.rawSkill = spent.paid, !.partial = @ + 1] /\ RunEnds
  <2>1. out'.observation = out.observation /\ out'.synthesis = out.synthesis /\ out'.manifest = out.manifest
    BY <1>4 DEF DistillTyped, DistillTypeOK
  <2> QED BY <1>2, <1>4, <2>1 DEF Evidence, RunSound, RecordsSound, InjectedIsAdmissible, RunEnds
<1> QED BY <1>3, <1>4 DEF Conclude

LEMMA WriteEvidence ==
  ASSUME DistillTyped, Evidence, WriteText \/ WriteManifest
  PROVE  Evidence'
<1>1. run \in Distillations /\ run.pc \in Writing /\ run # None
  BY DEF DistillTyped, DistillTypeOK, WriteText, WriteManifest, At, Writing
<1>2. /\ file' = file /\ registry' = registry
      /\ out'.observation = out.observation /\ out'.synthesis = out.synthesis
  BY DEF WriteText, WriteManifest, DistillTyped, DistillTypeOK
<1>3. RecordsSound'
  BY <1>2 DEF Evidence, RecordsSound
<1>4. CASE WriteText
  <2>1. /\ run'.pc = "manifest" /\ run'.scope = run.scope /\ run'.table = run.table /\ run'.obs = run.obs
    BY <1>1, <1>4 DEF WriteText, Distillations
  <2>2. out'.manifest = out.manifest
    BY <1>4 DEF WriteText, DistillTyped, DistillTypeOK
  <2>3. RunSound'
    BY <1>1, <1>2, <2>1 DEF Evidence, RunSound, ScopeStands, Writing
  <2> QED BY <1>2, <1>3, <2>2, <2>3 DEF Evidence, InjectedIsAdmissible
<1>5. CASE WriteManifest
  <2> DEFINE m == [status |-> IF run.formal THEN "draft" ELSE "test-only", scope |-> run.scope, table |-> run.table,
                   obs |-> out.synthesis.obs, complete |-> out.synthesis.complete,
                   content |-> [text |-> out.synthesis.text, test |-> ~run.formal]]
  <2>1. out'.manifest = m /\ run' = None
    BY <1>5 DEF WriteManifest, RunEnds, DistillTyped, DistillTypeOK
  <2>2. /\ out.synthesis.complete /\ out.synthesis.obs = run.obs
        /\ Made(run.obs, run.scope) /\ ScopeStands
    BY <1>1 DEF Evidence, RunSound
  <2>3. run.formal \in BOOLEAN
    BY <1>1 DEF Distillations
  <2>4. Vouches(m)
    BY <2>2, <2>3 DEF Vouches, ScopeStands
  <2> HIDE DEF m
  <2> QED BY <1>2, <1>3, <2>1, <2>4 DEF Evidence, RunSound, InjectedIsAdmissible
<1> QED BY <1>4, <1>5

LEMMA EndEvidence ==
  ASSUME DistillTyped, Evidence, AskRaises \/ \E torn \in BOOLEAN : Die(torn)
  PROVE  Evidence'
<1>1. run' = None /\ registry' = registry
  BY DEF AskRaises, Die, RunEnds
<1>2. /\ \A t \in Trajectories : out'.observation[t] \in {out.observation[t], Torn}
      /\ out'.synthesis \in {out.synthesis, Torn}
      /\ out'.manifest = out.manifest
  <2>1. CASE out' = out
    BY <2>1
  <2>2. CASE out' = Archived
    BY <2>2 DEF Archived, DistillTyped, DistillTypeOK
  <2>3. CASE out' = [out EXCEPT !.raw[run.ref.id] = spent.paid, !.observation[run.ref.id] = Torn]
    BY <2>3 DEF DistillTyped, DistillTypeOK
  <2>4. CASE out' = [out EXCEPT !.rawSkill = spent.paid, !.synthesis = Torn]
    BY <2>4 DEF DistillTyped, DistillTypeOK
  <2> QED BY <2>1, <2>2, <2>3, <2>4 DEF AskRaises, Die
<1> QED BY <1>1, <1>2 DEF Evidence, RunSound, RecordsSound, InjectedIsAdmissible

LEMMA OthersEvidence ==
  ASSUME DistillTyped, Evidence,
         \/ \E t \in Trajectories : ChangeState(t) \/ ChangeSource(t)
         \/ \E table \in Folds : Refold(table)
  PROVE  Evidence'
<1>1. out' = out /\ run' = run /\ registry' = registry
  BY DEF ChangeState, ChangeSource, Refold
<1>2. \A t \in Trajectories : file'[t].excluded = file[t].excluded
  BY ContentsAssumption DEF ChangeState, ChangeSource, Refold, DistillTyped, DistillTypeOK
<1>3. ASSUME run # None PROVE ScopeStands'
  <2>1. run \in Distillations /\ \A ref \in run.scope.selected : ref.id \in Trajectories
    BY <1>3 DEF DistillTyped, DistillTypeOK, Distillations, Scopes, Refs
  <2> QED BY <1>1, <1>2, <1>3, <2>1 DEF Evidence, RunSound, ScopeStands
<1> QED BY <1>1, <1>3 DEF Evidence, RunSound, RecordsSound, InjectedIsAdmissible

\* The owner freezes and hands out no more than what a manifest vouches for.
LEMMA OwnerEvidence ==
  ASSUME DistillTyped, Evidence, Freeze \/ \E fold \in FoldNames : Inject(fold)
  PROVE  Evidence'
<1>1. file' = file /\ run' = run /\ out'.observation = out.observation /\ out'.synthesis = out.synthesis
  BY DEF Freeze, Inject, DistillTyped, DistillTypeOK
<1>2. CASE Freeze
  <2>1. /\ out.manifest \in Manifests /\ Vouches(out.manifest) /\ run = None
        /\ out.manifest.status = "draft"
    BY <1>2 DEF Freeze, Evidence, DistillTyped, DistillTypeOK
  <2>2. out'.manifest = [out.manifest EXCEPT !.status = "frozen"] /\ registry'.injected = registry.injected
    BY <1>2 DEF Freeze, DistillTyped, DistillTypeOK
  <2>3. Vouches(out'.manifest)
    BY <2>1, <2>2 DEF Vouches, Manifests
  <2>4. RunSound' /\ RecordsSound'
    BY <1>1, <2>1 DEF Evidence, RunSound, RecordsSound
  <2>5. InjectedIsAdmissible'
    BY <2>2 DEF Evidence, InjectedIsAdmissible
  <2> QED BY <2>3, <2>4, <2>5 DEF Evidence
<1>3. ASSUME NEW fold \in FoldNames, Inject(fold) PROVE Evidence'
  <2> DEFINE m == out.manifest
  <2>1. /\ m \in Manifests /\ Vouches(m) /\ m.status = "frozen" /\ m.content = out.text
        /\ m.scope.mode = "evaluation" /\ m.scope.held = fold
    BY <1>3 DEF Inject, Provenance, Evidence, DistillTyped, DistillTypeOK
  <2>2. registry'.injected = [fold |-> fold, text |-> out.text, from |-> m] /\ out' = out
    BY <1>3 DEF Inject, DistillTyped, DistillTypeOK
  <2>3. ASSUME NEW o \in m.obs
        PROVE  /\ o.complete
               /\ o.identity.read.schema = 4
               /\ \A s \in {o.identity.read, o.identity.indexed} :
                    /\ s.condition = "base" /\ s.run_type = "formal" /\ s.status = "complete"
                    /\ s.device = SourceDevice /\ ~s.excluded
                    /\ m.table[s.op] \in TrainingFolds(fold)
    <3>1. o.complete /\ DistillGrounded(o.id, o.identity) /\ o.identity.scope = m.scope
      BY <2>1 DEF Vouches, Made, Sound
    <3>2. PICK ref \in m.scope.selected : ref.state = o.identity.indexed /\ ReadAs(ref, o.identity.read)
      BY <3>1 DEF DistillGrounded
    <3>3. Allows("evaluation", fold, ref) /\ ref.fold = FoldIn(ref.state.op, m.table)
      BY <2>1, <3>2 DEF Vouches
    <3>4. ref.fold \in TrainingFolds(fold) /\ ref.fold # "?"
      BY <3>3 DEF Allows, TrainingFolds, FoldNames
    <3>5. m.table[ref.state.op] \in TrainingFolds(fold)
      BY <3>3, <3>4 DEF FoldIn
    <3> QED BY <3>1, <3>2, <3>3, <3>5 DEF ReadAs, Allows
  <2>4. InjectedIsAdmissible'
    BY <2>1, <2>2, <2>3 DEF InjectedIsAdmissible, Vouches, Made
  <2> QED BY <1>1, <2>2, <2>4 DEF Evidence, RunSound, RecordsSound, ScopeStands
<1> QED BY <1>2, <1>3

LEMMA StutterEvidence ==
  ASSUME Evidence, UNCHANGED distillVars
  PROVE  Evidence'
BY DEF Evidence, RunSound, RecordsSound, ScopeStands, InjectedIsAdmissible, distillVars

LEMMA NextEvidence ==
  ASSUME DistillTyped, Evidence, [DistillNext]_distillVars
  PROVE  Evidence'
BY StartEvidence, OpenEvidence, ReadEvidence, AskEvidence, RecordEvidence, SynthesizeEvidence, ConcludeEvidence,
   WriteEvidence, EndEvidence, OthersEvidence, OwnerEvidence, StutterEvidence DEF DistillNext

\* The variables hold what they should, at every step of a distillation (distillation/orchestrator.py).
THEOREM DistillationIsTyped == DistillSpec => []DistillTypeOK
<1>1. DistillInit => DistillTyped
  BY DistillInitTyped
<1>2. DistillTyped /\ [DistillNext]_distillVars => DistillTyped'
  BY DistillNextTyped
<1>3. DistillTyped => DistillTypeOK
  BY DEF DistillTyped
<1> QED BY <1>1, <1>2, <1>3, PTL DEF DistillSpec

\* Whatever files, sources and fold tables change, whatever fails or dies and whichever records an
\* earlier run left: a skill injected for a held-out fold is one whole completed synthesis of one
\* completed answer for each selected trajectory, each of them about a complete formal Base
\* trajectory of the source device and of a fold that was trained on (distillation/access.py,
\* orchestrator.py, skills/loader.py).
THEOREM InjectionIsAlwaysAdmissible == DistillSpec => []InjectedIsAdmissible
<1>1. DistillInit => DistillTyped /\ Evidence
  BY DistillInitTyped, InitEvidence
<1>2. DistillTyped /\ Evidence /\ [DistillNext]_distillVars => (DistillTyped /\ Evidence)'
  BY DistillNextTyped, NextEvidence
<1>3. DistillTyped /\ Evidence => InjectedIsAdmissible
  BY DEF Evidence
<1> QED BY <1>1, <1>2, <1>3, PTL DEF DistillSpec

-----------------------------------------------------------------------------
(* No paid answer is forgotten *)

Recorded(observation) == {t \in Trajectories : observation[t] # None}
Held == IF At("record") \/ At("conclude") THEN 1 ELSE 0

\* While an answer is asked for, or held, its place is vacant.
Vacant ==
  run # None =>
    /\ run.pc \in {"ask", "record"} => out.observation[run.ref.id] = None
    /\ run.pc \in Concluding => out.synthesis = None

LEMMA RecordedFinite ==
  ASSUME NEW observation
  PROVE  IsFiniteSet(Recorded(observation)) /\ Cardinality(Recorded(observation)) \in Nat
<1>1. Recorded(observation) \subseteq Trajectories
  BY DEF Recorded
<1> QED BY <1>1, TrajectoriesAssumption, FS_Subset, FS_CardinalityType

\* A record that is moved away leaves one less.
LEMMA RecordDropped ==
  ASSUME NEW observation \in [Trajectories -> Observations \cup {None, Torn}], NEW t \in Trajectories
  PROVE  Cardinality(Recorded([observation EXCEPT ![t] = None])) + Kept(observation[t]) = Cardinality(Recorded(observation))
<1> DEFINE R == Recorded(observation)
<1>1. Recorded([observation EXCEPT ![t] = None]) = R \ {t}
  BY DEF Recorded
<1>2. IsFiniteSet(R) /\ Cardinality(R) \in Nat
  BY RecordedFinite
<1>3. t \in R <=> observation[t] # None
  BY DEF Recorded
<1> HIDE DEF R
<1>4. Cardinality(R \ {t}) + Kept(observation[t]) = Cardinality(R)
  <2>1. CASE observation[t] = None
    <3>1. R \ {t} = R /\ Kept(observation[t]) = 0
      BY <1>3, <2>1 DEF Kept
    <3> QED BY <1>2, <3>1
  <2>2. CASE observation[t] # None
    <3>1. Cardinality(R \ {t}) = Cardinality(R) - 1
      BY <1>2, <1>3, <2>2, FS_RemoveElement
    <3>2. Kept(observation[t]) = 1
      BY <2>2 DEF Kept
    <3> QED BY <1>2, <3>1, <3>2
  <2> QED BY <2>1, <2>2
<1> QED BY <1>1, <1>4, Zenon DEF R

\* One that is written where there was none makes one more.
LEMMA RecordAdded ==
  ASSUME NEW observation \in [Trajectories -> Observations \cup {None, Torn}], NEW t \in Trajectories,
         observation[t] = None, NEW record, record # None
  PROVE  Cardinality(Recorded([observation EXCEPT ![t] = record])) = Cardinality(Recorded(observation)) + 1
<1>1. Recorded([observation EXCEPT ![t] = record]) = Recorded(observation) \cup {t} /\ t \notin Recorded(observation)
  BY DEF Recorded
<1> QED BY <1>1, RecordedFinite, FS_AddElement

\* The parts of the sum that PaidIsKept states.
Observed == Cardinality(Recorded(out.observation))
Concluded == IF out.synthesis = None THEN 0 ELSE 1

LEMMA PaidIsSum == PaidIsKept <=> spent.paid = Observed + Concluded + out.partial + Held + spent.lost
BY Zenon DEF PaidIsKept, Recorded, Observed, Concluded, Held

LEMMA PaidIsSumNext == PaidIsKept' <=> (spent.paid = Observed + Concluded + out.partial + Held + spent.lost)'
BY Zenon DEF PaidIsKept, Recorded, Observed, Concluded, Held

LEMMA PartsAreNumbers ==
  ASSUME DistillTyped
  PROVE  /\ Observed \in Nat /\ Concluded \in Nat /\ out.partial \in Nat /\ Held \in Nat
         /\ spent.paid \in Nat /\ spent.lost \in Nat
BY RecordedFinite DEF DistillTyped, DistillTypeOK, Observed, Concluded, Held

LEMMA PartsAreNumbersNext ==
  ASSUME DistillTyped'
  PROVE  (/\ Observed \in Nat /\ Concluded \in Nat /\ out.partial \in Nat /\ Held \in Nat
          /\ spent.paid \in Nat /\ spent.lost \in Nat)'
BY RecordedFinite DEF DistillTyped, DistillTypeOK, Observed, Concluded, Held

\* What is paid for in a step is what the parts gain in it.
LEMMA Balanced ==
  ASSUME DistillTyped, DistillTyped', PaidIsKept,
         spent'.paid - spent.paid = (Observed' - Observed) + (Concluded' - Concluded) + (out'.partial - out.partial)
                                    + (Held' - Held) + (spent'.lost - spent.lost)
  PROVE  PaidIsKept'
<1>1. spent.paid = Observed + Concluded + out.partial + Held + spent.lost
  BY PaidIsSum
<1>2. PICK p \in Nat, q \in Nat : p = spent.paid /\ q = spent'.paid
  BY PartsAreNumbers, PartsAreNumbersNext
<1>3. PICK a \in Nat, f \in Nat : a = Observed /\ f = Observed'
  BY PartsAreNumbers, PartsAreNumbersNext
<1>4. PICK b \in Nat, g \in Nat : b = Concluded /\ g = Concluded'
  BY PartsAreNumbers, PartsAreNumbersNext
<1>5. PICK c \in Nat, h \in Nat : c = out.partial /\ h = out'.partial
  BY PartsAreNumbers, PartsAreNumbersNext
<1>6. PICK d \in Nat, i \in Nat : d = Held /\ i = Held'
  BY PartsAreNumbers, PartsAreNumbersNext
<1>7. PICK e \in Nat, j \in Nat : e = spent.lost /\ j = spent'.lost
  BY PartsAreNumbers, PartsAreNumbersNext
<1>8. p = a + b + c + d + e
  BY <1>1, <1>2, <1>3, <1>4, <1>5, <1>6, <1>7, Zenon
<1>9. q - p = (f - a) + (g - b) + (h - c) + (i - d) + (j - e)
  BY <1>2, <1>3, <1>4, <1>5, <1>6, <1>7, Zenon
<1>10. q = f + g + h + i + j
  BY <1>8, <1>9
<1>11. (spent.paid = Observed + Concluded + out.partial + Held + spent.lost)'
  BY <1>2, <1>3, <1>4, <1>5, <1>6, <1>7, <1>10, Zenon
<1> QED BY <1>11, PaidIsSumNext

Paid == PaidIsKept /\ Vacant

LEMMA InitPaid == DistillInit => Paid
<1> SUFFICES ASSUME DistillInit PROVE Paid
  OBVIOUS
<1>1. Recorded(out.observation) = {}
  BY DEF DistillInit, Recorded
<1>2. Observed = 0
  BY <1>1, FS_EmptySet DEF Observed
<1>3. /\ spent.paid = 0 /\ spent.lost = 0 /\ Concluded = 0 /\ out.partial = 0
      /\ run = None /\ Held = 0
  BY DEF DistillInit, Held, At, Concluded
<1>4. PaidIsKept
  <2>1. 0 = 0 + 0 + 0 + 0 + 0
    OBVIOUS
  <2> QED BY <1>2, <1>3, <2>1, PaidIsSum, Zenon
<1> QED BY <1>3, <1>4 DEF Paid, Vacant

\* Steps outside a run, and those of a run that neither ask nor record.
LEMMA UnpaidStep ==
  ASSUME DistillTyped, DistillTyped', Paid,
         UNCHANGED <<out.observation, out.synthesis, out.partial, spent>>,
         Held = 0, Held' = 0, Vacant'
  PROVE  Paid'
<1>1. Observed' = Observed /\ Concluded' = Concluded /\ out'.partial = out.partial /\ spent' = spent
  BY DEF Observed, Concluded
<1> QED BY <1>1, PartsAreNumbers, Balanced DEF Paid

LEMMA StartPaid ==
  ASSUME DistillTyped, DistillTyped', Paid, NEW mode \in {"evaluation", "release"}, NEW held \in FoldNames,
         NEW formal \in BOOLEAN, NEW partial \in BOOLEAN, Start(mode, held, formal, partial)
  PROVE  Paid'
<1>1. run = None /\ run'.pc = "open" /\ out' = out /\ spent' = spent
  BY DEF Start
<1> QED BY <1>1, UnpaidStep DEF Held, At, Vacant, Concluding

LEMMA OpenPaid ==
  ASSUME DistillTyped, DistillTyped', Paid, Open
  PROVE  Paid'
<1>1. run \in Distillations /\ run.pc = "open" /\ out' = out /\ spent' = spent
  BY DEF DistillTyped, DistillTypeOK, Open, At
<1>2. run' = None \/ run'.pc = "read"
  BY <1>1 DEF Open, RunEnds, Distillations
<1> QED BY <1>1, <1>2, UnpaidStep DEF Held, At, Vacant, Concluding

LEMMA ReadPaid ==
  ASSUME DistillTyped, DistillTyped', Paid, ReadState
  PROVE  Paid'
<1> DEFINE t == run.ref.id
           identity == Identity(run.scope, run.ref, file[t], source[t])
           record == out.observation[t]
<1>1. run \in Distillations /\ run.pc = "read" /\ run # None /\ Held = 0 /\ spent' = spent
  BY DEF DistillTyped, DistillTypeOK, ReadState, At, Held
<1>2. run.ref \in Refs /\ t \in Trajectories
  BY <1>1 DEF DistillTyped, DistillUnderway, Asking, Distillations, Scopes, Refs
<1>3. CASE RunEnds /\ UNCHANGED out
  BY <1>1, <1>3, UnpaidStep DEF RunEnds, Held, At, Vacant
<1>4. CASE run' = [run EXCEPT !.pc = "open", !.obs = @ \cup {record}] /\ UNCHANGED out
  <2>1. run'.pc = "open"
    BY <1>1, <1>4 DEF Distillations
  <2> QED BY <1>1, <1>4, <2>1, UnpaidStep DEF Held, At, Vacant, Concluding
<1>5. CASE /\ run' = [run EXCEPT !.pc = "ask", !.seen = identity]
           /\ out' = [out EXCEPT !.observation[t] = None, !.partial = @ + Kept(record)]
  <2> HIDE DEF identity
  <2>1. run'.pc = "ask" /\ run'.ref = run.ref /\ Held' = 0
    BY <1>1, <1>5 DEF Distillations, Held, At
  <2>2. /\ out'.observation = [out.observation EXCEPT ![t] = None]
        /\ out'.synthesis = out.synthesis /\ out'.partial = out.partial + Kept(record)
    BY <1>5 DEF DistillTyped, DistillTypeOK
  <2>3. Vacant'
    BY <1>2, <2>1, <2>2 DEF Vacant, DistillTyped, DistillTypeOK, Concluding
  <2>4. Observed' + Kept(record) = Observed
    BY <1>2, <2>2, RecordDropped DEF Observed, DistillTyped, DistillTypeOK
  <2>5. Concluded' = Concluded /\ Kept(record) \in Nat
    BY <2>2 DEF Concluded, Kept
  <2>6. PICK k \in Nat : k = Kept(record)
    BY <2>5
  <2>7. /\ spent'.paid - spent.paid = 0 /\ Observed' - Observed = -k /\ Concluded' - Concluded = 0
        /\ out'.partial - out.partial = k /\ Held' - Held = 0 /\ spent'.lost - spent.lost = 0
    BY <1>1, <2>1, <2>2, <2>4, <2>5, <2>6, PartsAreNumbers, PartsAreNumbersNext
  <2>8. 0 = (-k) + 0 + k + 0 + 0
    OBVIOUS
  <2>9. PaidIsKept'
    BY <2>7, <2>8, Balanced, Zenon DEF Paid
  <2> QED BY <2>3, <2>9 DEF Paid
<1> QED BY <1>3, <1>4, <1>5 DEF ReadState

\* An answer is paid for, and held.
LEMMA AskPaid ==
  ASSUME DistillTyped, DistillTyped', Paid, NEW complete \in BOOLEAN, Ask(complete)
  PROVE  Paid'
<1>1. run \in Distillations /\ run.pc \in {"ask", "ask skill"} /\ run # None /\ Held = 0
  BY DEF DistillTyped, DistillTypeOK, Ask, At, Held
<1>2. run' = [run EXCEPT !.pc = IF @ = "ask" THEN "record" ELSE "conclude", !.answer = complete]
  BY DEF Ask, Answer
<1>3. run'.pc = (IF run.pc = "ask" THEN "record" ELSE "conclude") /\ run'.ref = run.ref
  BY <1>1, <1>2 DEF Distillations
<1>4. run' # None
  <2>1. run' \in Distillations
    BY <1>1, <1>2 DEF Distillations, Asking, Concluding
  <2> QED BY <2>1, NoneAssumption
<1>5. Held' = 1
  BY <1>3, <1>4 DEF Held, At
<1>6. out' = out /\ spent'.paid = spent.paid + 1 /\ spent'.lost = spent.lost
  BY DEF Ask, Answer, DistillTyped, DistillTypeOK
<1>7. Vacant'
  BY <1>1, <1>3, <1>6 DEF Vacant, Paid, Concluding
<1>8. Observed' = Observed /\ Concluded' = Concluded /\ out'.partial = out.partial
  BY <1>6 DEF Observed, Concluded
<1>9. /\ spent'.paid - spent.paid = 1 /\ Observed' - Observed = 0 /\ Concluded' - Concluded = 0
      /\ out'.partial - out.partial = 0 /\ Held' - Held = 1 /\ spent'.lost - spent.lost = 0
  <2>1. spent'.paid - spent.paid = 1 /\ spent'.lost - spent.lost = 0
    BY <1>6, PartsAreNumbers
  <2>2. Observed' - Observed = 0 /\ Concluded' - Concluded = 0 /\ out'.partial - out.partial = 0
    BY <1>8, PartsAreNumbers
  <2>3. Held' - Held = 1
    <3>1. 1 - 0 = 1
      OBVIOUS
    <3> QED BY <1>1, <1>5, <3>1, Zenon
  <2> QED BY <2>1, <2>2, <2>3
<1>10. 1 = 0 + 0 + 0 + 1 + 0
  OBVIOUS
<1>11. PaidIsKept'
  BY <1>9, <1>10, Balanced, Zenon DEF Paid
<1> QED BY <1>7, <1>11 DEF Paid

\* What is held becomes a record or a partial one.
LEMMA RecordPaid ==
  ASSUME DistillTyped, DistillTyped', Paid, Record
  PROVE  Paid'
<1> DEFINE t == run.ref.id
           record == [id |-> t, accepted |-> Accepted(run.answer), complete |-> run.answer, identity |-> run.seen]
<1>1. run \in Distillations /\ run.pc = "record" /\ run # None /\ Held = 1 /\ spent' = spent
  BY DEF DistillTyped, DistillTypeOK, Record, At, Held
<1>2. /\ t \in Trajectories /\ run.seen \in Identities /\ run.answer \in BOOLEAN
      /\ out.observation[t] = None
  BY <1>1 DEF DistillTyped, DistillUnderway, Asking, Distillations, Scopes, Refs, Paid, Vacant
<1>3. record \in Observations
  BY <1>2 DEF Observations, Accepted
<1> HIDE DEF record
<1>4. CASE /\ out' = [out EXCEPT !.raw[t] = spent.paid, !.observation[t] = record]
           /\ run' = [run EXCEPT !.pc = "open", !.obs = @ \cup {record}]
  <2>1. run'.pc = "open"
    BY <1>1, <1>4 DEF Distillations
  <2>2. Held' = 0 /\ Vacant'
    BY <2>1 DEF Held, At, Vacant, Concluding
  <2>3. /\ out'.observation = [out.observation EXCEPT ![t] = record]
        /\ out'.synthesis = out.synthesis /\ out'.partial = out.partial
    BY <1>4 DEF DistillTyped, DistillTypeOK
  <2>4. Observed' = Observed + 1
    <3>1. /\ out.observation \in [Trajectories -> Observations \cup {None, Torn}]
          /\ record \in Observations \cup {None, Torn} /\ record # None
      BY <1>3, NoneAssumption DEF DistillTyped, DistillTypeOK
    <3>2. Cardinality(Recorded([out.observation EXCEPT ![t] = record])) = Cardinality(Recorded(out.observation)) + 1
      BY <1>2, <3>1, RecordAdded
    <3> QED BY <2>3, <3>2 DEF Observed
  <2>5. Concluded' = Concluded
    BY <2>3 DEF Concluded
  <2> QED BY <1>1, <2>2, <2>3, <2>4, <2>5, PartsAreNumbers, Balanced DEF Paid
<1>5. CASE out' = [out EXCEPT !.raw[t] = spent.paid, !.partial = @ + 1] /\ RunEnds
  <2>1. /\ out'.observation = out.observation /\ out'.synthesis = out.synthesis
        /\ out'.partial = out.partial + 1
    BY <1>5 DEF DistillTyped, DistillTypeOK
  <2>2. Held' = 0 /\ Vacant' /\ Observed' = Observed /\ Concluded' = Concluded
    BY <1>5, <2>1 DEF RunEnds, Held, At, Vacant, Observed, Concluded
  <2> QED BY <1>1, <2>1, <2>2, PartsAreNumbers, Balanced DEF Paid
<1> QED BY <1>4, <1>5 DEF Record, record

LEMMA SynthesizePaid ==
  ASSUME DistillTyped, DistillTyped', Paid, Synthesize
  PROVE  Paid'
<1>1. run \in Distillations /\ run.pc = "open" /\ run # None /\ Held = 0 /\ spent' = spent
  BY DEF DistillTyped, DistillTypeOK, Synthesize, At, Held
<1>2. CASE RunEnds /\ UNCHANGED out
  BY <1>1, <1>2, UnpaidStep DEF RunEnds, Held, At, Vacant
<1>3. CASE run' = [run EXCEPT !.pc = "write"] /\ UNCHANGED out
  <2>1. run'.pc = "write"
    BY <1>1, <1>3 DEF Distillations
  <2> QED BY <1>1, <1>3, <2>1, UnpaidStep DEF Held, At, Vacant, Concluding
<1>4. CASE /\ run' = [run EXCEPT !.pc = "ask skill"]
           /\ out' = [out EXCEPT !.synthesis = None, !.partial = @ + Kept(out.synthesis)]
  <2>1. run'.pc = "ask skill" /\ Held' = 0
    BY <1>1, <1>4 DEF Distillations, Held, At
  <2>2. /\ out'.observation = out.observation /\ out'.synthesis = None
        /\ out'.partial = out.partial + Kept(out.synthesis)
    BY <1>4 DEF DistillTyped, DistillTypeOK
  <2>3. Vacant'
    BY <2>1, <2>2 DEF Vacant
  <2>4. Observed' = Observed /\ Concluded' = 0 /\ Kept(out.synthesis) = Concluded
    BY <2>2 DEF Observed, Concluded, Kept
  <2>5. PICK k \in Nat : k = Concluded
    BY PartsAreNumbers
  <2>6. /\ spent'.paid - spent.paid = 0 /\ Observed' - Observed = 0 /\ Concluded' - Concluded = -k
        /\ out'.partial - out.partial = k /\ Held' - Held = 0 /\ spent'.lost - spent.lost = 0
    <3>1. spent'.paid - spent.paid = 0 /\ spent'.lost - spent.lost = 0
      BY <1>1, PartsAreNumbers
    <3>2. Observed' - Observed = 0 /\ Held' - Held = 0
      <4>1. Held' = Held /\ Observed' = Observed
        BY <1>1, <2>1, <2>4
      <4> QED BY <4>1, PartsAreNumbers
    <3>3. Concluded' - Concluded = -k /\ out'.partial - out.partial = k
      BY <2>2, <2>4, <2>5, PartsAreNumbers
    <3> QED BY <3>1, <3>2, <3>3
  <2>7. 0 = 0 + (-k) + k + 0 + 0
    OBVIOUS
  <2>8. PaidIsKept'
    BY <2>6, <2>7, Balanced, Zenon DEF Paid
  <2> QED BY <2>3, <2>8 DEF Paid
<1> QED BY <1>2, <1>3, <1>4 DEF Synthesize

LEMMA ConcludePaid ==
  ASSUME DistillTyped, DistillTyped', Paid, Conclude
  PROVE  Paid'
<1> DEFINE s == [accepted |-> TRUE, complete |-> run.answer, text |-> spent.paid, obs |-> run.obs, scope |-> run.scope]
<1>1. run \in Distillations /\ run.pc = "conclude" /\ run # None /\ Held = 1 /\ spent' = spent
  BY DEF DistillTyped, DistillTypeOK, Conclude, At, Held
<1>2. Concluded = 0
  BY <1>1 DEF Paid, Vacant, Concluding, Concluded
<1>3. s \in Syntheses
  BY <1>1 DEF DistillTyped, DistillUnderway, DistillTypeOK, Distillations, Syntheses
<1> HIDE DEF s
<1>4. CASE out' = [out EXCEPT !.rawSkill = spent.paid, !.synthesis = s] /\ run' = [run EXCEPT !.pc = "write"]
  <2>1. run'.pc = "write"
    BY <1>1, <1>4 DEF Distillations
  <2>2. Held' = 0 /\ Vacant'
    BY <2>1 DEF Held, At, Vacant, Concluding
  <2>3. out'.observation = out.observation /\ out'.synthesis = s /\ out'.partial = out.partial
    BY <1>4 DEF DistillTyped, DistillTypeOK
  <2>4. Observed' = Observed /\ Concluded' = 1
    BY <1>3, <2>3, NoneAssumption DEF Observed, Concluded
  <2> QED BY <1>1, <1>2, <2>2, <2>3, <2>4, PartsAreNumbers, Balanced DEF Paid
<1>5. CASE out' = [out EXCEPT !.rawSkill = spent.paid, !.partial = @ + 1] /\ RunEnds
  <2>1. /\ out'.observation = out.observation /\ out'.synthesis = out.synthesis
        /\ out'.partial = out.partial + 1
    BY <1>5 DEF DistillTyped, DistillTypeOK
  <2>2. Held' = 0 /\ Vacant' /\ Observed' = Observed /\ Concluded' = Concluded
    BY <1>5, <2>1 DEF RunEnds, Held, At, Vacant, Observed, Concluded
  <2> QED BY <1>1, <2>1, <2>2, PartsAreNumbers, Balanced DEF Paid
<1> QED BY <1>4, <1>5 DEF Conclude, s

LEMMA WritePaid ==
  ASSUME DistillTyped, DistillTyped', Paid, WriteText \/ WriteManifest
  PROVE  Paid'
<1>1. run \in Distillations /\ run.pc \in Writing /\ Held = 0 /\ spent' = spent
  BY DEF DistillTyped, DistillTypeOK, WriteText, WriteManifest, At, Held, Writing
<1>2. out'.observation = out.observation /\ out'.synthesis = out.synthesis /\ out'.partial = out.partial
  BY DEF WriteText, WriteManifest, DistillTyped, DistillTypeOK
<1>3. run' = None \/ run'.pc = "manifest"
  BY <1>1 DEF WriteText, WriteManifest, RunEnds, Distillations
<1>4. Held' = 0 /\ Vacant'
  BY <1>3 DEF Held, At, Vacant, Concluding
<1> QED BY <1>1, <1>2, <1>4, UnpaidStep

\* A crash loses what is held, unless it leaves it in a torn record.
LEMMA EndPaid ==
  ASSUME DistillTyped, DistillTyped', Paid, AskRaises \/ \E torn \in BOOLEAN : Die(torn)
  PROVE  Paid'
<1>1. run \in Distillations /\ run # None /\ run' = None /\ Held' = 0 /\ Vacant'
  BY DEF DistillTyped, DistillTypeOK, AskRaises, Die, At, RunEnds, Held, Vacant
<1>2. CASE AskRaises
  BY <1>1, <1>2, UnpaidStep DEF AskRaises, Held, At
<1>3. ASSUME NEW torn \in BOOLEAN, Die(torn) PROVE Paid'
  <2>1. /\ spent'.paid = spent.paid
        /\ spent'.lost = IF run.pc \in {"record", "conclude"} /\ ~torn THEN spent.lost + 1 ELSE spent.lost
    BY <1>3 DEF Die, DistillTyped, DistillTypeOK
  <2>2. CASE ~torn
    <3>1. out'.partial = out.partial /\ Observed' = Observed /\ Concluded' = Concluded
      <4>1. out' \in {out, Archived}
        BY <1>3, <2>2 DEF Die
      <4>2. out'.observation = out.observation /\ out'.synthesis = out.synthesis /\ out'.partial = out.partial
        BY <4>1 DEF Archived, DistillTyped, DistillTypeOK
      <4> QED BY <4>2 DEF Observed, Concluded
    <3>2. Held = IF run.pc \in {"record", "conclude"} THEN 1 ELSE 0
      BY <1>1 DEF Held, At
    <3> QED BY <1>1, <2>1, <2>2, <3>1, <3>2, PartsAreNumbers, Balanced DEF Paid
  <2>3. CASE torn /\ run.pc = "record"
    <3>1. out' = [out EXCEPT !.raw[run.ref.id] = spent.paid, !.observation[run.ref.id] = Torn]
      BY <1>3, <2>3 DEF Die
    <3>2. run.ref.id \in Trajectories /\ out.observation[run.ref.id] = None
      BY <1>1, <2>3 DEF DistillTyped, DistillUnderway, Asking, Distillations, Scopes, Refs, Paid, Vacant
    <3>3. /\ out'.observation = [out.observation EXCEPT ![run.ref.id] = Torn]
          /\ out'.synthesis = out.synthesis /\ out'.partial = out.partial
      BY <3>1 DEF DistillTyped, DistillTypeOK
    <3>4. Observed' = Observed + 1
      <4> DEFINE t == run.ref.id
      <4>1. out.observation \in [Trajectories -> Observations \cup {None, Torn}] /\ Torn # None
        BY NoneAssumption DEF DistillTyped, DistillTypeOK
      <4>2. Cardinality(Recorded([out.observation EXCEPT ![t] = Torn])) = Cardinality(Recorded(out.observation)) + 1
        BY <3>2, <4>1, RecordAdded
      <4> QED BY <3>3, <4>2 DEF Observed
    <3>6. Concluded' = Concluded
      BY <3>3 DEF Concluded
    <3>5. Held = 1 /\ spent'.lost = spent.lost
      BY <1>1, <2>1, <2>3 DEF Held, At
    <3> QED BY <1>1, <2>1, <3>3, <3>4, <3>5, <3>6, PartsAreNumbers, Balanced DEF Paid
  <2>4. CASE torn /\ run.pc = "conclude"
    <3>1. out' = [out EXCEPT !.rawSkill = spent.paid, !.synthesis = Torn]
      BY <1>3, <2>4 DEF Die
    <3>2. out'.observation = out.observation /\ out'.synthesis = Torn /\ out'.partial = out.partial
      BY <3>1 DEF DistillTyped, DistillTypeOK
    <3>3. Observed' = Observed /\ Concluded = 0 /\ Concluded' = 1
      BY <1>1, <2>4, <3>2, NoneAssumption DEF Observed, Concluded, Paid, Vacant, Concluding
    <3>4. Held = 1 /\ spent'.lost = spent.lost
      BY <1>1, <2>1, <2>4 DEF Held, At
    <3> QED BY <1>1, <2>1, <3>2, <3>3, <3>4, PartsAreNumbers, Balanced DEF Paid
  <2> QED BY <1>3, <2>2, <2>3, <2>4 DEF Die
<1> QED BY <1>2, <1>3

LEMMA OutsidePaid ==
  ASSUME DistillTyped, DistillTyped', Paid,
         \/ \E t \in Trajectories : ChangeState(t) \/ ChangeSource(t)
         \/ \E table \in Folds : Refold(table)
         \/ Freeze
         \/ \E fold \in FoldNames : Inject(fold)
         \/ UNCHANGED distillVars
  PROVE  Paid'
<1>1. run' = run /\ spent' = spent
  BY DEF ChangeState, ChangeSource, Refold, Freeze, Inject, distillVars
<1>2. out'.observation = out.observation /\ out'.synthesis = out.synthesis /\ out'.partial = out.partial
  BY DEF ChangeState, ChangeSource, Refold, Freeze, Inject, distillVars, DistillTyped, DistillTypeOK
<1>3. Observed' = Observed /\ Concluded' = Concluded /\ Held' = Held /\ Vacant'
  BY <1>1, <1>2 DEF Observed, Concluded, Held, At, Paid, Vacant
<1> QED BY <1>1, <1>2, <1>3, PartsAreNumbers, Balanced DEF Paid

LEMMA NextPaid ==
  ASSUME DistillTyped, DistillTyped', Paid, [DistillNext]_distillVars
  PROVE  Paid'
BY StartPaid, OpenPaid, ReadPaid, AskPaid, RecordPaid, SynthesizePaid, ConcludePaid, WritePaid, EndPaid,
   OutsidePaid DEF DistillNext

\* Through any sequence of runs, failures, crashes and changes of what the answers were about, every
\* answer paid for is accounted for: an accepted record, a partial or replaced one, a torn one, one in
\* the process, or one that a crash lost before it was recorded (distillation/orchestrator.py).
THEOREM PaidIsAlwaysKept == DistillSpec => []PaidIsKept
<1>1. DistillInit => DistillTyped /\ Paid
  BY DistillInitTyped, InitPaid
<1>2. DistillTyped /\ Paid /\ [DistillNext]_distillVars => (DistillTyped /\ Paid)'
  BY DistillNextTyped, NextPaid
<1>3. DistillTyped /\ Paid => PaidIsKept
  BY DEF Paid
<1> QED BY <1>1, <1>2, <1>3, PTL DEF DistillSpec

-----------------------------------------------------------------------------
(* FirstPipeline: the variables hold what they should *)

Sources == Nat \cup {None}
Feedbacks == [fatal : BOOLEAN, verdict : [Backends -> Verdicts], of : [Backends -> Sources], by : Nat]
Dirs == [response : BOOLEAN, impl : [Backends -> Sources], feedback : Feedbacks \cup {None}]
Prompts ==
  [previous : [Backends -> Sources], shown : [Backends -> Sources],
   remark : [Backends -> {"none yet", "broke", "regressed", "best"}], scores : [Backends -> Nat]]
Results == [Backends -> [score : Nat, clean : BOOLEAN]]
Histories == UNION {[0 .. k - 1 -> Results] : k \in Nat}
Iterating == {"prompt", "call", "parse", "evaluate", "track"}
Loops ==
  [at : {"idle"} \cup Iterating \cup {"clear", "promote", "done"}, iter : Iters, answer : [Backends -> Sources],
   feedback : Feedbacks \cup {None}, prompt : Prompts \cup {None},
   bestClean : [Backends -> Entries \cup {None}], bestAny : [Backends -> Entries \cup {None}], history : Histories]

PipelineTypeOK ==
  /\ dir \in [Iters -> Dirs] /\ final \in [Backends -> Sources] /\ loop \in Loops
  /\ programs \in Nat /\ calls \in Nat

\* Past the first prompt there is feedback, and a result of every earlier iteration.
PipelineUnderway ==
  /\ loop.at \in Iterating => DOMAIN loop.history = 0 .. loop.iter - 1
  /\ loop.at \in Iterating /\ loop.iter > 0 => loop.feedback \in Feedbacks
  /\ loop.at = "track" => loop.feedback \in Feedbacks
  /\ loop.at \in {"clear", "promote"} => \A b \in Backends : loop.bestAny[b] \in Entries
PipelineTyped == PipelineTypeOK /\ PipelineUnderway

LEMMA FatalType == Fatal \in Feedbacks
BY DEF Fatal, Feedbacks, NoSources, Sources, Verdicts

LEMMA IdleType == Idle \in Loops /\ Idle.at = "idle" /\ Idle.history = <<>>
<1>1. <<>> \in [0 .. 0 - 1 -> Results]
  OBVIOUS
<1>2. <<>> \in Histories
  BY <1>1 DEF Histories
<1>3. 0 \in Iters
  BY ItersAssumption DEF Iters
<1> QED BY <1>2, <1>3 DEF Idle, Loops, NoSources, NoBest, Sources

LEMMA PipelineInitTyped == PipelineInit => PipelineTyped
BY IdleType DEF PipelineInit, PipelineTyped, PipelineTypeOK, PipelineUnderway, Dirs, EmptyDir, NoSources, Sources, Iterating

LEMMA ScoreType ==
  ASSUME NEW fb \in Feedbacks, NEW b \in Backends
  PROVE  Score(fb, b) \in Nat /\ Clean(fb, b) \in BOOLEAN
BY ScoresAssumption DEF Score, Clean, Feedbacks

LEMMA PromptType ==
  ASSUME PipelineTyped, loop.at = "prompt"
  PROVE  Prompt \in Prompts \cup {None}
<1>1. CASE loop.iter = 0
  BY <1>1 DEF Prompt
<1>2. CASE loop.iter # 0
  <2>1. loop.iter - 1 \in Iters /\ loop.feedback \in Feedbacks
    BY <1>2, ItersAssumption DEF PipelineTyped, PipelineTypeOK, PipelineUnderway, Loops, Iters, Iterating
  <2>2. dir[loop.iter - 1].impl \in [Backends -> Sources]
    BY <2>1 DEF PipelineTyped, PipelineTypeOK, Dirs
  <2>3. [b \in Backends |-> BestShown(b)] \in [Backends -> Sources]
    BY DEF BestShown, PipelineTyped, PipelineTypeOK, Loops, Entries, Sources
  <2>4. [b \in Backends |-> Remark(b)] \in [Backends -> {"none yet", "broke", "regressed", "best"}]
    BY DEF Remark
  <2>5. [b \in Backends |-> Score(loop.feedback, b)] \in [Backends -> Nat]
    BY <2>1, ScoreType
  <2> QED BY <1>2, <2>2, <2>3, <2>4, <2>5 DEF Prompt, Prompts
<1> QED BY <1>1, <1>2

LEMMA PipelineStartTyped == ASSUME PipelineTyped, StartProgram PROVE PipelineTyped'
<1>1. loop' = [Idle EXCEPT !.at = "prompt"]
  BY DEF StartProgram
<1>2. loop' \in Loops /\ loop'.at = "prompt" /\ loop'.history = <<>> /\ loop'.iter = 0
  BY <1>1, IdleType DEF Loops, Iterating, Idle
<1> QED BY <1>2 DEF StartProgram, PipelineTyped, PipelineTypeOK, PipelineUnderway, Iterating

LEMMA PromptTyped == ASSUME PipelineTyped, BuildPrompt PROVE PipelineTyped'
<1>1. loop.at = "prompt" /\ loop \in Loops
  BY DEF BuildPrompt, PipelineTyped, PipelineTypeOK
<1>2. loop' = [loop EXCEPT !.prompt = Prompt, !.at = IF CacheComplete(dir[loop.iter]) THEN "evaluate" ELSE "call"]
  BY DEF BuildPrompt
<1>3. /\ loop' \in Loops /\ loop'.at \in Iterating \ {"track"} /\ loop'.history = loop.history
      /\ loop'.iter = loop.iter /\ loop'.feedback = loop.feedback
  BY <1>1, <1>2, PromptType DEF Loops, Iterating
<1> QED BY <1>1, <1>3 DEF BuildPrompt, PipelineTyped, PipelineTypeOK, PipelineUnderway, Iterating

LEMMA AnsweredTyped == ASSUME PipelineTyped, NEW files \in SUBSET Backends, Answered(files) PROVE PipelineTyped'
<1>1. loop.at = "call" /\ loop \in Loops /\ loop.iter \in Iters /\ calls + 1 \in Nat
  BY DEF Answered, PipelineTyped, PipelineTypeOK, Loops
<1>2. dir' \in [Iters -> Dirs]
  BY <1>1 DEF Answered, PipelineTyped, PipelineTypeOK, Dirs
<1>3. CASE loop' = [loop EXCEPT !.at = "track", !.feedback = Fatal]
  <2>1. loop' \in Loops /\ loop'.at = "track" /\ loop'.iter = loop.iter /\ loop'.history = loop.history /\ loop'.feedback = Fatal
    BY <1>1, <1>3, FatalType DEF Loops, Iterating
  <2> QED BY <1>1, <1>2, <2>1, FatalType DEF Answered, PipelineTyped, PipelineTypeOK, PipelineUnderway, Iterating
<1>4. CASE loop' = [loop EXCEPT !.at = "parse", !.answer = [b \in Backends |-> calls + 1]]
  <2>1. [b \in Backends |-> calls + 1] \in [Backends -> Sources]
    BY <1>1 DEF Sources
  <2>2. /\ loop' \in Loops /\ loop'.at = "parse" /\ loop'.iter = loop.iter /\ loop'.history = loop.history
        /\ loop'.feedback = loop.feedback
    BY <1>1, <1>4, <2>1 DEF Loops, Iterating
  <2> QED BY <1>1, <1>2, <2>2 DEF Answered, PipelineTyped, PipelineTypeOK, PipelineUnderway, Iterating
<1> QED BY <1>3, <1>4 DEF Answered

LEMMA CallFailsTyped == ASSUME PipelineTyped, CallFails PROVE PipelineTyped'
<1>1. loop.at = "call" /\ loop \in Loops /\ loop.iter \in Iters
  BY DEF CallFails, PipelineTyped, PipelineTypeOK, Loops
<1>2. dir' \in [Iters -> Dirs]
  BY <1>1, FatalType DEF CallFails, PipelineTyped, PipelineTypeOK, Dirs
<1>3. loop' = [loop EXCEPT !.at = "track", !.feedback = Fatal]
  BY DEF CallFails
<1>4. loop' \in Loops /\ loop'.at = "track" /\ loop'.iter = loop.iter /\ loop'.history = loop.history /\ loop'.feedback = Fatal
  BY <1>1, <1>3, FatalType DEF Loops, Iterating
<1> QED BY <1>1, <1>2, <1>4, FatalType DEF CallFails, PipelineTyped, PipelineTypeOK, PipelineUnderway, Iterating

LEMMA WriteImplTyped == ASSUME PipelineTyped, NEW b \in Backends, WriteImpl(b) PROVE PipelineTyped'
<1> DEFINE rest == [loop.answer EXCEPT ![b] = None]
<1>1. loop.at = "parse" /\ loop \in Loops /\ loop.iter \in Iters /\ loop.answer \in [Backends -> Sources]
  BY DEF WriteImpl, PipelineTyped, PipelineTypeOK, Loops
<1>2. dir' \in [Iters -> Dirs]
  BY <1>1 DEF WriteImpl, PipelineTyped, PipelineTypeOK, Dirs
<1>3. loop' = [loop EXCEPT !.answer = rest, !.at = IF rest = NoSources THEN "evaluate" ELSE "parse"]
  BY DEF WriteImpl
<1>4. rest \in [Backends -> Sources]
  BY <1>1 DEF Sources
<1> HIDE DEF rest
<1>5. /\ loop' \in Loops /\ loop'.at \in {"evaluate", "parse"} /\ loop'.iter = loop.iter
      /\ loop'.history = loop.history /\ loop'.feedback = loop.feedback
  BY <1>1, <1>3, <1>4 DEF Loops, Iterating
<1> QED BY <1>1, <1>2, <1>5 DEF WriteImpl, PipelineTyped, PipelineTypeOK, PipelineUnderway, Iterating

LEMMA EvaluatedTyped == ASSUME PipelineTyped, NEW verdict \in [Backends -> Verdicts], Evaluated(verdict) PROVE PipelineTyped'
<1> DEFINE made == [fatal |-> FALSE, verdict |-> verdict, of |-> dir[loop.iter].impl, by |-> programs]
<1>1. loop.at = "evaluate" /\ loop \in Loops /\ loop.iter \in Iters
  BY DEF Evaluated, PipelineTyped, PipelineTypeOK, Loops
<1>2. made \in Feedbacks
  BY <1>1 DEF PipelineTyped, PipelineTypeOK, Dirs, Feedbacks
<1>3. dir' = [dir EXCEPT ![loop.iter].feedback = made] /\ loop' = [loop EXCEPT !.at = "track", !.feedback = made]
  BY DEF Evaluated
<1> HIDE DEF made
<1>4. dir' \in [Iters -> Dirs]
  BY <1>1, <1>2, <1>3 DEF PipelineTyped, PipelineTypeOK, Dirs
<1>5. loop' \in Loops /\ loop'.at = "track" /\ loop'.iter = loop.iter /\ loop'.history = loop.history /\ loop'.feedback = made
  BY <1>1, <1>2, <1>3 DEF Loops, Iterating
<1> QED BY <1>1, <1>2, <1>4, <1>5 DEF Evaluated, PipelineTyped, PipelineTypeOK, PipelineUnderway, Iterating

LEMMA NotEvaluatedTyped == ASSUME PipelineTyped, RunnerDies \/ EvaluationFails PROVE PipelineTyped'
<1>1. loop.at = "evaluate" /\ loop \in Loops /\ loop.iter \in Iters
  BY DEF RunnerDies, EvaluationFails, PipelineTyped, PipelineTypeOK, Loops
<1>2. PICK fb \in Feedbacks : loop' = [loop EXCEPT !.at = "track", !.feedback = fb]
  <2>1. dir[loop.iter].feedback \in Feedbacks \cup {None}
    BY <1>1 DEF PipelineTyped, PipelineTypeOK, Dirs
  <2> QED BY <2>1, FatalType DEF RunnerDies, EvaluationFails
<1>3. loop' \in Loops /\ loop'.at = "track" /\ loop'.iter = loop.iter /\ loop'.history = loop.history /\ loop'.feedback = fb
  BY <1>1, <1>2 DEF Loops, Iterating
<1> QED BY <1>1, <1>3 DEF RunnerDies, EvaluationFails, PipelineTyped, PipelineTypeOK, PipelineUnderway, Iterating

\* What an iteration adds to the bests and to the history.
Result(b) == [iter |-> loop.iter, score |-> Score(loop.feedback, b), source |-> dir[loop.iter].impl[b]]
NewBestAny == [b \in Backends |-> IF BetterAny(b, Score(loop.feedback, b)) THEN Result(b) ELSE loop.bestAny[b]]
NewBestClean ==
  [b \in Backends |->
     IF Clean(loop.feedback, b) /\ BetterClean(b, Score(loop.feedback, b)) THEN Result(b) ELSE loop.bestClean[b]]
NewHistory ==
  [k \in 0 .. loop.iter |->
     IF k < loop.iter THEN loop.history[k]
     ELSE [b \in Backends |-> [score |-> Score(loop.feedback, b), clean |-> Clean(loop.feedback, b)]]]

LEMMA TrackStep ==
  ASSUME PipelineTyped, Track
  PROVE  /\ loop.iter \in Iters /\ loop.feedback \in Feedbacks /\ loop.at = "track"
         /\ loop'.at = (IF loop.iter + 1 = MaxIters THEN "clear" ELSE "prompt")
         /\ loop'.iter = (IF loop.iter + 1 = MaxIters THEN loop.iter ELSE loop.iter + 1)
         /\ loop'.answer = loop.answer /\ loop'.feedback = loop.feedback /\ loop'.prompt = None
         /\ loop'.bestClean = NewBestClean /\ loop'.bestAny = NewBestAny /\ loop'.history = NewHistory
         /\ loop' = [loop EXCEPT !.at = loop'.at, !.iter = loop'.iter, !.prompt = None, !.bestAny = NewBestAny,
                                 !.bestClean = NewBestClean, !.history = NewHistory]
<1>1. loop \in Loops /\ loop.iter \in Iters /\ loop.feedback \in Feedbacks /\ loop.at = "track"
  BY DEF Track, PipelineTyped, PipelineTypeOK, PipelineUnderway, Loops
<1>2. loop' = [loop EXCEPT !.at = IF loop.iter + 1 = MaxIters THEN "clear" ELSE "prompt",
                           !.iter = IF loop.iter + 1 = MaxIters THEN loop.iter ELSE loop.iter + 1,
                           !.prompt = None, !.bestAny = NewBestAny, !.bestClean = NewBestClean, !.history = NewHistory]
  BY DEF Track, NewBestAny, NewBestClean, NewHistory, Result
<1> QED BY <1>1, <1>2 DEF Loops

LEMMA ResultType ==
  ASSUME PipelineTyped, loop.iter \in Iters, loop.feedback \in Feedbacks, NEW b \in Backends
  PROVE  Result(b) \in Entries
<1>1. dir[loop.iter].impl[b] \in Sources
  BY DEF PipelineTyped, PipelineTypeOK, Dirs
<1> QED BY <1>1, ScoreType DEF Result, Entries, Sources

LEMMA TrackTyped == ASSUME PipelineTyped, Track PROVE PipelineTyped'
<1>1. /\ loop.iter \in Iters /\ loop.feedback \in Feedbacks /\ loop \in Loops /\ loop.iter \in Nat
      /\ loop.at = "track" /\ DOMAIN loop.history = 0 .. loop.iter - 1
  BY TrackStep DEF PipelineTyped, PipelineTypeOK, PipelineUnderway, Iterating, Iters
<1>2. NewBestAny \in [Backends -> Entries]
  BY <1>1, ResultType DEF NewBestAny, BetterAny, Loops
<1>3. NewBestClean \in [Backends -> Entries \cup {None}]
  BY <1>1, ResultType DEF NewBestClean, Loops
<1>4. NewHistory \in [0 .. loop.iter -> Results] /\ NewHistory \in Histories
  <2>1. PICK k \in Nat : loop.history \in [0 .. k - 1 -> Results]
    BY <1>1 DEF Loops, Histories
  <2>2. \A j \in 0 .. loop.iter : j < loop.iter => loop.history[j] \in Results
    BY <1>1, <2>1
  <2>3. [b \in Backends |-> [score |-> Score(loop.feedback, b), clean |-> Clean(loop.feedback, b)]] \in Results
    BY <1>1, ScoreType DEF Results
  <2>4. NewHistory \in [0 .. loop.iter -> Results]
    BY <2>2, <2>3 DEF NewHistory
  <2>5. 0 .. loop.iter = 0 .. (loop.iter + 1) - 1 /\ loop.iter + 1 \in Nat
    BY <1>1
  <2> QED BY <2>4, <2>5 DEF Histories
<1>5. loop'.iter \in Iters
  BY <1>1, TrackStep, ItersAssumption DEF Iters
<1>6. loop' \in Loops
  <2>1. loop'.at \in Iterating \cup {"clear"}
    BY TrackStep DEF Iterating
  <2>2. NewBestAny \in [Backends -> Entries \cup {None}]
    BY <1>2
  <2> QED BY <1>1, <1>3, <1>4, <1>5, <2>1, <2>2, TrackStep DEF Loops
<1>7. dir' \in [Iters -> Dirs]
  BY <1>1 DEF Track, PipelineTyped, PipelineTypeOK, Dirs
<1>8. PipelineUnderway'
  <2>1. CASE loop.iter + 1 = MaxIters
    BY <1>2, <2>1, TrackStep DEF PipelineUnderway, Iterating
  <2>2. CASE loop.iter + 1 # MaxIters
    <3>1. loop'.at = "prompt" /\ loop'.iter = loop.iter + 1 /\ loop'.feedback \in Feedbacks
      BY <1>1, <2>2, TrackStep
    <3>2. DOMAIN loop'.history = 0 .. loop'.iter - 1
      BY <1>1, <1>4, <3>1, TrackStep
    <3> QED BY <3>1, <3>2 DEF PipelineUnderway
  <2> QED BY <2>1, <2>2
<1> QED BY <1>6, <1>7, <1>8 DEF Track, PipelineTyped, PipelineTypeOK

LEMMA PromotionTyped == ASSUME PipelineTyped, ClearFinal \/ Promote PROVE PipelineTyped'
<1>1. loop \in Loops
  BY DEF PipelineTyped, PipelineTypeOK
<1>2. CASE ClearFinal
  <2>1. loop' = [loop EXCEPT !.at = "promote"] /\ loop.at = "clear"
    BY <1>2 DEF ClearFinal
  <2>2. loop' \in Loops /\ loop'.at = "promote" /\ loop'.bestAny = loop.bestAny
    BY <1>1, <2>1 DEF Loops
  <2> QED BY <1>2, <2>1, <2>2 DEF ClearFinal, PipelineTyped, PipelineTypeOK, PipelineUnderway, Iterating, NoSources, Sources
<1>3. CASE Promote
  <2>1. loop' = [loop EXCEPT !.at = "done"] /\ loop.at = "promote"
    BY <1>3 DEF Promote
  <2>2. loop' \in Loops /\ loop'.at = "done"
    BY <1>1, <2>1 DEF Loops
  <2>3. \A b \in Backends : Chosen(b).iter \in Iters
    BY <1>1, <2>1 DEF PipelineTyped, PipelineUnderway, Loops, Chosen, Entries
  <2>4. final' \in [Backends -> Sources]
    BY <1>3, <2>3 DEF Promote, PipelineTyped, PipelineTypeOK, Dirs
  <2> QED BY <1>3, <2>2, <2>4 DEF Promote, PipelineTyped, PipelineTypeOK, PipelineUnderway, Iterating
<1> QED BY <1>2, <1>3

LEMMA OtherTyped == ASSUME PipelineTyped, Leave \/ UNCHANGED pipelineVars PROVE PipelineTyped'
BY IdleType DEF Leave, pipelineVars, PipelineTyped, PipelineTypeOK, PipelineUnderway, Iterating

LEMMA PipelineNextTyped == ASSUME PipelineTyped, [PipelineNext]_pipelineVars PROVE PipelineTyped'
BY PipelineStartTyped, PromptTyped, AnsweredTyped, CallFailsTyped, WriteImplTyped, EvaluatedTyped, NotEvaluatedTyped,
   TrackTyped, PromotionTyped, OtherTyped DEF PipelineNext

\* The variables of the pipeline hold directories, feedback, bests and histories of the
\* declared shapes after every step of main (generate.py:289), over every crash and rerun.
THEOREM PipelineIsTyped == PipelineSpec => []PipelineTypeOK
<1>1. PipelineInit => PipelineTyped
  BY PipelineInitTyped
<1>2. PipelineTyped /\ [PipelineNext]_pipelineVars => PipelineTyped'
  BY PipelineNextTyped
<1>3. PipelineTyped => PipelineTypeOK
  BY DEF PipelineTyped
<1> QED BY <1>1, <1>2, <1>3, PTL DEF PipelineSpec

-----------------------------------------------------------------------------
(* What is called clean was measured *)

\* Feedback of an iteration that is not fatal judges the sources still in its directory.
PipelineGrounded(fb, i) ==
  ~fb.fatal =>
    /\ CacheComplete(dir[i]) /\ fb.of = dir[i].impl
    /\ \A b \in Backends : Clean(fb, b) => <<b, fb.of[b], fb.verdict[b].score>> \in measured

FilesGrounded == \A i \in Iters : dir[i].feedback # None => PipelineGrounded(dir[i].feedback, i)

\* Sources are written only where no feedback stands on the ones they replace.
Stage ==
  /\ loop.at = "track" => PipelineGrounded(loop.feedback, loop.iter)
  /\ loop.at \in {"call", "parse"} /\ dir[loop.iter].feedback # None => dir[loop.iter].feedback.fatal
  /\ loop.at = "parse" =>
       dir[loop.iter].response /\ \A b \in Backends : loop.answer[b] = None => dir[loop.iter].impl[b] # None
  /\ loop.at = "evaluate" => CacheComplete(dir[loop.iter])

BestSoFar(e, b) ==
  /\ <<b, e.source, e.score>> \in measured /\ dir[e.iter].impl[b] = e.source
  /\ loop.at \in Iterating => e.iter < loop.iter
BestsGrounded == \A b \in Backends : loop.bestClean[b] # None => BestSoFar(loop.bestClean[b], b)

NoneBetter ==
  \A b \in Backends : \A i \in DOMAIN loop.history :
    loop.history[i][b].clean => loop.bestClean[b] # None /\ loop.history[i][b].score <= loop.bestClean[b].score

Promoted ==
  loop.at = "done" => \A b \in Backends : loop.bestClean[b] # None => final[b] = loop.bestClean[b].source

ShownMeasured ==
  loop.prompt # None =>
    \A b \in Backends : loop.prompt.shown[b] # None => \E m \in measured : m[1] = b /\ m[2] = loop.prompt.shown[b]

Earned == FilesGrounded /\ Stage /\ BestsGrounded /\ NoneBetter /\ Promoted /\ ShownMeasured

LEMMA EarnedIsMeasured == Earned => CleanIsMeasured
BY DEF Earned, BestsGrounded, BestSoFar, NoneBetter, Promoted, ShownMeasured, CleanIsMeasured

LEMMA IdleEarned ==
  ASSUME loop = Idle, FilesGrounded
  PROVE  Earned
<1>1. loop.at = "idle" /\ loop.prompt = None /\ \A b \in Backends : loop.bestClean[b] = None
  BY DEF Idle, NoBest
<1>2. loop.history = <<>> /\ DOMAIN loop.history = {}
  BY DEF Idle
<1> QED BY <1>1, <1>2 DEF Earned, Stage, BestsGrounded, NoneBetter, Promoted, ShownMeasured

LEMMA InitEarned == PipelineInit => Earned
<1> SUFFICES ASSUME PipelineInit PROVE Earned
  OBVIOUS
<1>1. FilesGrounded
  BY DEF PipelineInit, FilesGrounded, EmptyDir
<1> QED BY <1>1, IdleEarned DEF PipelineInit

\* What loop carries from one step to the next when no result is tracked.
Carried ==
  /\ loop'.bestClean = loop.bestClean /\ loop'.history = loop.history /\ loop'.iter = loop.iter
  /\ loop'.at \in Iterating => loop.at \in Iterating
  /\ measured \subseteq measured'

\* A step that keeps the bests and the sources they stand on keeps what is said of them.
LEMMA BestsCarried ==
  ASSUME PipelineTyped, Earned, Carried,
         \A i \in Iters, b \in Backends : dir'[i].impl[b] # dir[i].impl[b] => loop.at = "parse" /\ i = loop.iter
  PROVE  BestsGrounded' /\ NoneBetter'
<1>1. \A b \in Backends : loop.bestClean[b] # None => loop.bestClean[b].iter \in Iters
  BY DEF PipelineTyped, PipelineTypeOK, Loops, Entries
<1>2. loop.iter \in Int /\ \A i \in Iters : i \in Int
  BY ItersAssumption DEF PipelineTyped, PipelineTypeOK, Loops, Iters
<1>3. BestsGrounded'
  <2> SUFFICES ASSUME NEW b \in Backends, loop'.bestClean[b] # None PROVE BestSoFar(loop.bestClean[b], b)'
    BY DEF BestsGrounded, Carried
  <2>1. BestSoFar(loop.bestClean[b], b) /\ loop.bestClean[b].iter \in Iters
    BY <1>1 DEF Earned, BestsGrounded, Carried
  <2>2. dir'[loop.bestClean[b].iter].impl[b] = dir[loop.bestClean[b].iter].impl[b]
    BY <2>1, <1>2 DEF BestSoFar, Iterating
  <2> QED BY <2>1, <2>2 DEF BestSoFar, Carried
<1>4. NoneBetter'
  BY DEF Earned, NoneBetter, Carried
<1> QED BY <1>3, <1>4

LEMMA StartEarned == ASSUME PipelineTyped, Earned, StartProgram PROVE Earned'
<1>1. loop' = [Idle EXCEPT !.at = "prompt"]
  BY DEF StartProgram
<1>2. loop'.at = "prompt" /\ loop'.prompt = None /\ \A b \in Backends : loop'.bestClean[b] = None
  BY <1>1 DEF Idle, NoBest
<1>3. DOMAIN loop'.history = {}
  BY <1>1 DEF Idle
<1>4. FilesGrounded'
  BY DEF StartProgram, Earned, FilesGrounded, PipelineGrounded, CacheComplete
<1> QED BY <1>2, <1>3, <1>4 DEF Earned, Stage, BestsGrounded, NoneBetter, Promoted, ShownMeasured

LEMMA LeaveEarned == ASSUME PipelineTyped, Earned, Leave PROVE Earned'
<1>1. loop' = Idle
  BY DEF Leave
<1>2. FilesGrounded'
  BY DEF Leave, Earned, FilesGrounded, PipelineGrounded, CacheComplete
<1>3. loop'.at = "idle" /\ loop'.prompt = None /\ \A b \in Backends : loop'.bestClean[b] = None
  BY <1>1 DEF Idle, NoBest
<1>4. DOMAIN loop'.history = {}
  BY <1>1 DEF Idle
<1> QED BY <1>2, <1>3, <1>4 DEF Earned, Stage, BestsGrounded, NoneBetter, Promoted, ShownMeasured

LEMMA PromptEarned == ASSUME PipelineTyped, Earned, BuildPrompt PROVE Earned'
<1>1. loop.at = "prompt" /\ loop \in Loops /\ loop.iter \in Iters
  BY DEF BuildPrompt, PipelineTyped, PipelineTypeOK, Loops
<1>2. loop' = [loop EXCEPT !.prompt = Prompt, !.at = IF CacheComplete(dir[loop.iter]) THEN "evaluate" ELSE "call"]
      /\ dir' = dir /\ measured' = measured
  BY DEF BuildPrompt
<1>3. /\ loop'.at = (IF CacheComplete(dir[loop.iter]) THEN "evaluate" ELSE "call") /\ loop'.prompt = Prompt
      /\ loop'.bestClean = loop.bestClean /\ loop'.history = loop.history /\ loop'.iter = loop.iter
  BY <1>1, <1>2 DEF Loops
<1>4. BestsGrounded' /\ NoneBetter'
  BY <1>1, <1>2, <1>3, BestsCarried DEF Carried, Iterating
<1>5. FilesGrounded'
  BY <1>2 DEF Earned, FilesGrounded, PipelineGrounded, CacheComplete
<1>6. Stage'
  BY <1>1, <1>2, <1>3 DEF Stage, CacheComplete, Earned, FilesGrounded, PipelineGrounded
<1>7. ShownMeasured'
  <2> SUFFICES ASSUME loop'.prompt # None, NEW b \in Backends, loop'.prompt.shown[b] # None
               PROVE  \E m \in measured : m[1] = b /\ m[2] = loop'.prompt.shown[b]
    BY <1>2 DEF ShownMeasured
  <2>1. loop'.prompt.shown[b] = BestShown(b)
    BY <1>3 DEF Prompt
  <2>2. loop.bestClean[b] # None /\ loop'.prompt.shown[b] = loop.bestClean[b].source
    BY <2>1 DEF BestShown
  <2> DEFINE m == <<b, loop.bestClean[b].source, loop.bestClean[b].score>>
  <2>3. m \in measured
    BY <2>2 DEF Earned, BestsGrounded, BestSoFar
  <2> QED BY <2>2, <2>3
<1> QED BY <1>3, <1>4, <1>5, <1>6, <1>7 DEF Earned, Promoted

\* The steps of an iteration that show nothing new and promote nothing.
LEMMA ShownCarried ==
  ASSUME Earned, loop'.prompt = loop.prompt, loop'.at # "done", measured \subseteq measured'
  PROVE  ShownMeasured' /\ Promoted'
BY DEF Earned, ShownMeasured, Promoted

LEMMA AnsweredEarned == ASSUME PipelineTyped, Earned, NEW files \in SUBSET Backends, Answered(files) PROVE Earned'
<1>1. loop.at = "call" /\ loop \in Loops /\ loop.iter \in Iters /\ calls + 1 # None
  BY EntriesAssumption DEF Answered, PipelineTyped, PipelineTypeOK, Loops
<1>2. /\ dir' = [dir EXCEPT ![loop.iter].response = TRUE] /\ measured' = measured
      /\ \/ loop' = [loop EXCEPT !.at = "track", !.feedback = Fatal]
         \/ loop' = [loop EXCEPT !.at = "parse", !.answer = [b \in Backends |-> calls + 1]]
  BY DEF Answered
<1>3. /\ loop'.bestClean = loop.bestClean /\ loop'.history = loop.history /\ loop'.iter = loop.iter
      /\ loop'.prompt = loop.prompt /\ loop'.at \in {"track", "parse"}
      /\ loop'.at = "track" => loop'.feedback = Fatal
      /\ loop'.at = "parse" => \A b \in Backends : loop'.answer[b] # None
  <2>1. CASE loop' = [loop EXCEPT !.at = "track", !.feedback = Fatal]
    BY <1>1, <2>1 DEF Loops
  <2>2. CASE loop' = [loop EXCEPT !.at = "parse", !.answer = [b \in Backends |-> calls + 1]]
    <3> DEFINE asked == [b \in Backends |-> calls + 1]
    <3>1. \A b \in Backends : asked[b] # None
      BY <1>1
    <3> HIDE DEF asked
    <3> QED BY <1>1, <2>2, <3>1 DEF Loops, asked
  <2> QED BY <1>2, <2>1, <2>2
<1>4. /\ \A i \in Iters : dir'[i].impl = dir[i].impl /\ dir'[i].feedback = dir[i].feedback
      /\ \A i \in Iters : i # loop.iter => dir'[i] = dir[i]
      /\ dir'[loop.iter].response
  BY <1>1, <1>2 DEF PipelineTyped, PipelineTypeOK, Dirs
<1>5. BestsGrounded' /\ NoneBetter' /\ ShownMeasured' /\ Promoted'
  BY <1>1, <1>2, <1>3, <1>4, BestsCarried, ShownCarried DEF Carried, Iterating
<1>6. FilesGrounded'
  <2>1. \A i \in Iters : dir[i].feedback # None /\ ~dir[i].feedback.fatal => i # loop.iter
    BY <1>1 DEF Earned, Stage
  <2> QED BY <1>2, <1>4, <2>1 DEF Earned, FilesGrounded, PipelineGrounded, CacheComplete
<1>7. Stage'
  BY <1>1, <1>3, <1>4 DEF Stage, Earned, PipelineGrounded, Fatal
<1> QED BY <1>5, <1>6, <1>7 DEF Earned

LEMMA CallFailsEarned == ASSUME PipelineTyped, Earned, CallFails PROVE Earned'
<1>1. loop.at = "call" /\ loop \in Loops /\ loop.iter \in Iters
  BY DEF CallFails, PipelineTyped, PipelineTypeOK, Loops
<1>2. /\ dir' = [dir EXCEPT ![loop.iter].feedback = Fatal] /\ measured' = measured
      /\ loop' = [loop EXCEPT !.at = "track", !.feedback = Fatal]
  BY DEF CallFails
<1>3. /\ loop'.bestClean = loop.bestClean /\ loop'.history = loop.history /\ loop'.iter = loop.iter
      /\ loop'.prompt = loop.prompt /\ loop'.at = "track" /\ loop'.feedback = Fatal
  BY <1>1, <1>2 DEF Loops
<1>4. /\ \A i \in Iters : dir'[i].impl = dir[i].impl
      /\ \A i \in Iters : i # loop.iter => dir'[i] = dir[i]
      /\ dir'[loop.iter].feedback = Fatal
  BY <1>1, <1>2 DEF PipelineTyped, PipelineTypeOK, Dirs
<1>5. BestsGrounded' /\ NoneBetter' /\ ShownMeasured' /\ Promoted'
  BY <1>1, <1>2, <1>3, <1>4, BestsCarried, ShownCarried DEF Carried, Iterating
<1>6. FilesGrounded'
  BY <1>2, <1>4 DEF Earned, FilesGrounded, PipelineGrounded, CacheComplete, Fatal
<1>7. Stage'
  BY <1>3 DEF Stage, PipelineGrounded, Fatal
<1> QED BY <1>5, <1>6, <1>7 DEF Earned

LEMMA WriteImplEarned == ASSUME PipelineTyped, Earned, NEW b \in Backends, WriteImpl(b) PROVE Earned'
<1> DEFINE rest == [loop.answer EXCEPT ![b] = None]
<1>1. /\ loop.at = "parse" /\ loop \in Loops /\ loop.iter \in Iters /\ loop.answer[b] # None
      /\ loop.answer \in [Backends -> Sources]
  BY DEF WriteImpl, PipelineTyped, PipelineTypeOK, Loops
<1>2. /\ dir' = [dir EXCEPT ![loop.iter].impl[b] = loop.answer[b]] /\ measured' = measured
      /\ loop' = [loop EXCEPT !.answer = rest, !.at = IF rest = NoSources THEN "evaluate" ELSE "parse"]
  BY DEF WriteImpl
<1>3. /\ loop'.bestClean = loop.bestClean /\ loop'.history = loop.history /\ loop'.iter = loop.iter
      /\ loop'.prompt = loop.prompt /\ loop'.at \in {"evaluate", "parse"} /\ loop'.answer = rest
      /\ loop'.at = "evaluate" => rest = NoSources
  BY <1>1, <1>2 DEF Loops
<1>4. /\ \A i \in Iters : dir'[i].feedback = dir[i].feedback /\ dir'[i].response = dir[i].response
      /\ \A i \in Iters : i # loop.iter => dir'[i] = dir[i]
      /\ dir'[loop.iter].impl = [dir[loop.iter].impl EXCEPT ![b] = loop.answer[b]]
  BY <1>1, <1>2 DEF PipelineTyped, PipelineTypeOK, Dirs
<1>5. \A x \in Backends : rest[x] = None => dir'[loop.iter].impl[x] # None
  <2>1. dir[loop.iter].impl \in [Backends -> Sources]
    BY <1>1 DEF PipelineTyped, PipelineTypeOK, Dirs
  <2> QED BY <1>1, <1>4, <2>1 DEF Earned, Stage
<1>6. BestsGrounded' /\ NoneBetter' /\ ShownMeasured' /\ Promoted'
  BY <1>1, <1>2, <1>3, <1>4, BestsCarried, ShownCarried DEF Carried, Iterating
<1>7. FilesGrounded'
  <2>1. \A i \in Iters : dir[i].feedback # None /\ ~dir[i].feedback.fatal => i # loop.iter
    BY <1>1 DEF Earned, Stage
  <2> QED BY <1>2, <1>4, <2>1 DEF Earned, FilesGrounded, PipelineGrounded, CacheComplete
<1>8. Stage'
  <2>1. dir[loop.iter].response /\ (dir[loop.iter].feedback # None => dir[loop.iter].feedback.fatal)
    BY <1>1 DEF Earned, Stage
  <2>2. loop'.at = "evaluate" => \A x \in Backends : rest[x] = None
    BY <1>3 DEF NoSources
  <2> QED BY <1>1, <1>3, <1>4, <1>5, <2>1, <2>2 DEF Stage, CacheComplete
<1> QED BY <1>6, <1>7, <1>8 DEF Earned

LEMMA EvaluatedEarned == ASSUME PipelineTyped, Earned, NEW verdict \in [Backends -> Verdicts], Evaluated(verdict) PROVE Earned'
<1> DEFINE made == [fatal |-> FALSE, verdict |-> verdict, of |-> dir[loop.iter].impl, by |-> programs]
           found == {<<b, made.of[b], verdict[b].score>> : b \in {x \in Backends : Clean(made, x)}}
<1>1. loop.at = "evaluate" /\ loop \in Loops /\ loop.iter \in Iters
  BY DEF Evaluated, PipelineTyped, PipelineTypeOK, Loops
<1>2. /\ dir' = [dir EXCEPT ![loop.iter].feedback = made] /\ loop' = [loop EXCEPT !.at = "track", !.feedback = made]
      /\ measured' = measured \cup found
  BY DEF Evaluated
<1>3. ~made.fatal /\ made.of = dir[loop.iter].impl /\ made.verdict = verdict
  OBVIOUS
<1>4. \A b \in Backends : Clean(made, b) => <<b, made.of[b], made.verdict[b].score>> \in measured'
  BY <1>2, <1>3
<1> HIDE DEF made, found
<1>5. /\ loop'.bestClean = loop.bestClean /\ loop'.history = loop.history /\ loop'.iter = loop.iter
      /\ loop'.prompt = loop.prompt /\ loop'.at = "track" /\ loop'.feedback = made
  BY <1>1, <1>2 DEF Loops
<1>6. /\ \A i \in Iters : dir'[i].impl = dir[i].impl /\ dir'[i].response = dir[i].response
      /\ \A i \in Iters : i # loop.iter => dir'[i] = dir[i]
      /\ dir'[loop.iter].feedback = made
  BY <1>1, <1>2 DEF PipelineTyped, PipelineTypeOK, Dirs
<1>7. BestsGrounded' /\ NoneBetter' /\ ShownMeasured' /\ Promoted'
  BY <1>1, <1>2, <1>5, <1>6, BestsCarried, ShownCarried DEF Carried, Iterating
<1>8. CacheComplete(dir'[loop.iter]) /\ made.of = dir'[loop.iter].impl
  BY <1>1, <1>3, <1>6 DEF Earned, Stage, CacheComplete
<1>9. FilesGrounded'
  <2>1. measured \subseteq measured'
    BY <1>2
  <2>2. ASSUME NEW i \in Iters, dir'[i].feedback # None PROVE PipelineGrounded(dir[i].feedback, i)'
    <3>1. CASE i = loop.iter
      BY <3>1, <1>4, <1>6, <1>8 DEF PipelineGrounded, CacheComplete, Clean
    <3>2. CASE i # loop.iter
      BY <3>2, <2>1, <2>2, <1>6 DEF Earned, FilesGrounded, PipelineGrounded, CacheComplete, Clean
    <3> QED BY <3>1, <3>2
  <2> QED BY <2>2 DEF FilesGrounded
<1>10. Stage'
  BY <1>4, <1>5, <1>8 DEF Stage, PipelineGrounded, CacheComplete, Clean
<1> QED BY <1>7, <1>9, <1>10 DEF Earned

LEMMA NotEvaluatedEarned == ASSUME PipelineTyped, Earned, RunnerDies \/ EvaluationFails PROVE Earned'
<1>1. loop.at = "evaluate" /\ loop \in Loops /\ loop.iter \in Iters /\ dir' = dir /\ measured' = measured
  BY DEF RunnerDies, EvaluationFails, PipelineTyped, PipelineTypeOK, Loops
<1>2. PICK fb \in Feedbacks : loop' = [loop EXCEPT !.at = "track", !.feedback = fb] /\ PipelineGrounded(fb, loop.iter)
  <2>1. PipelineGrounded(Fatal, loop.iter)
    BY DEF PipelineGrounded, Fatal
  <2>2. dir[loop.iter].feedback # None =>
          dir[loop.iter].feedback \in Feedbacks /\ PipelineGrounded(dir[loop.iter].feedback, loop.iter)
    BY <1>1 DEF Earned, FilesGrounded, PipelineTyped, PipelineTypeOK, Dirs
  <2> QED BY <2>1, <2>2, FatalType DEF RunnerDies, EvaluationFails
<1>3. /\ loop'.bestClean = loop.bestClean /\ loop'.history = loop.history /\ loop'.iter = loop.iter
      /\ loop'.prompt = loop.prompt /\ loop'.at = "track" /\ loop'.feedback = fb
  BY <1>1, <1>2 DEF Loops
<1>4. BestsGrounded' /\ NoneBetter' /\ ShownMeasured' /\ Promoted'
  BY <1>1, <1>3, BestsCarried, ShownCarried DEF Carried, Iterating
<1>5. FilesGrounded' /\ Stage'
  BY <1>1, <1>2, <1>3 DEF Earned, FilesGrounded, Stage, PipelineGrounded, CacheComplete, Clean
<1> QED BY <1>4, <1>5 DEF Earned

LEMMA TrackEarned == ASSUME PipelineTyped, Earned, Track PROVE Earned'
<1> DEFINE fb == loop.feedback
<1>1. /\ loop.at = "track" /\ loop \in Loops /\ loop.iter \in Iters /\ loop.iter \in Nat /\ fb \in Feedbacks
      /\ DOMAIN loop.history = 0 .. loop.iter - 1 /\ PipelineGrounded(fb, loop.iter)
  BY TrackStep DEF PipelineTyped, PipelineTypeOK, PipelineUnderway, Iterating, Iters, Earned, Stage
<1>2. dir' = [dir EXCEPT ![loop.iter].feedback = fb] /\ measured' = measured
  BY DEF Track
<1>3. /\ \A i \in Iters : dir'[i].impl = dir[i].impl /\ dir'[i].response = dir[i].response
      /\ \A i \in Iters : i # loop.iter => dir'[i] = dir[i]
      /\ dir'[loop.iter].feedback = fb
  BY <1>1, <1>2 DEF PipelineTyped, PipelineTypeOK, Dirs
<1> HIDE DEF fb
<1>4. FilesGrounded'
  BY <1>1, <1>2, <1>3 DEF Earned, FilesGrounded, PipelineGrounded, CacheComplete, Clean
<1>5. \A b \in Backends : Result(b).iter = loop.iter /\ Result(b).score = Score(fb, b)
                         /\ Result(b).source = dir[loop.iter].impl[b]
  BY DEF Result, fb
<1>6. ASSUME NEW b \in Backends, loop'.bestClean[b] # None
      PROVE  BestSoFar(loop.bestClean[b], b)'
  <2>1. loop'.bestClean[b] =
          IF Clean(fb, b) /\ BetterClean(b, Score(fb, b)) THEN Result(b) ELSE loop.bestClean[b]
    BY TrackStep DEF NewBestClean, fb
  <2>2. loop'.at \in Iterating => loop'.iter = loop.iter + 1
    BY TrackStep DEF Iterating
  <2>3. CASE Clean(fb, b) /\ loop'.bestClean[b] = Result(b)
    <3>1. <<b, dir[loop.iter].impl[b], Score(fb, b)>> \in measured
      BY <1>1, <2>3 DEF PipelineGrounded, Clean, Score
    <3> QED BY <1>1, <1>2, <1>3, <1>5, <2>2, <2>3, <3>1 DEF BestSoFar
  <2>4. CASE loop'.bestClean[b] = loop.bestClean[b]
    <3>1. BestSoFar(loop.bestClean[b], b) /\ loop.bestClean[b].iter \in Iters
      BY <1>1, <1>6, <2>4 DEF Earned, BestsGrounded, Loops, Entries
    <3>2. loop.bestClean[b].iter \in Int /\ loop.bestClean[b].iter < loop.iter
      BY <1>1, <3>1, ItersAssumption DEF BestSoFar, Iterating, Iters
    <3> QED BY <1>1, <1>2, <1>3, <2>2, <2>4, <3>1, <3>2 DEF BestSoFar
  <2> QED BY <2>1, <2>3, <2>4
<1>7. BestsGrounded'
  BY <1>6 DEF BestsGrounded
<1>8. NoneBetter'
  <2> SUFFICES ASSUME NEW b \in Backends, NEW i \in DOMAIN NewHistory, NewHistory[i][b].clean
               PROVE  loop'.bestClean[b] # None /\ NewHistory[i][b].score <= loop'.bestClean[b].score
    BY TrackStep DEF NoneBetter
  <2>1. loop'.bestClean[b] =
          IF Clean(fb, b) /\ BetterClean(b, Score(fb, b)) THEN Result(b) ELSE loop.bestClean[b]
    BY TrackStep DEF NewBestClean, fb
  <2>2. /\ Result(b) # None /\ Result(b).score = Score(fb, b) /\ Score(fb, b) \in Nat
        /\ loop.bestClean[b] # None => loop.bestClean[b].score \in Nat
    <3>1. Result(b) \in Entries
      BY <1>1, ResultType DEF fb
    <3> QED BY <1>1, <1>5, <3>1, ScoreType, EntriesAssumption DEF Loops, Entries
  <2>3. i \in 0 .. loop.iter
    BY DEF NewHistory
  <2>4. CASE i = loop.iter
    <3>1. NewHistory[i][b].clean = Clean(fb, b) /\ NewHistory[i][b].score = Score(fb, b)
      BY <1>1, <2>3, <2>4 DEF NewHistory, fb
    <3> QED BY <2>1, <2>2, <3>1 DEF BetterClean
  <2>5. CASE i # loop.iter
    <3>1. i \in DOMAIN loop.history /\ NewHistory[i] = loop.history[i]
      BY <1>1, <2>3, <2>5 DEF NewHistory
    <3>2. loop.bestClean[b] # None /\ loop.history[i][b].score <= loop.bestClean[b].score
      BY <3>1 DEF Earned, NoneBetter
    <3>3. loop.history[i][b].score \in Nat
      <4>1. PICK k \in Nat : loop.history \in [0 .. k - 1 -> Results]
        BY <1>1 DEF Loops, Histories
      <4> QED BY <3>1, <4>1 DEF Results
    <3> QED BY <2>1, <2>2, <3>1, <3>2, <3>3 DEF BetterClean
  <2> QED BY <2>4, <2>5
<1>9. Stage' /\ ShownMeasured' /\ Promoted'
  BY TrackStep DEF Stage, ShownMeasured, Promoted
<1> QED BY <1>4, <1>7, <1>8, <1>9 DEF Earned

LEMMA PromotionEarned == ASSUME PipelineTyped, Earned, ClearFinal \/ Promote PROVE Earned'
<1>1. loop \in Loops /\ dir' = dir /\ measured' = measured /\ loop.at \notin Iterating
  BY DEF ClearFinal, Promote, PipelineTyped, PipelineTypeOK, Iterating
<1>2. PICK at \in {"promote", "done"} : loop' = [loop EXCEPT !.at = at] /\ (at = "done" => Promote)
  BY DEF ClearFinal, Promote
<1>3. /\ loop'.bestClean = loop.bestClean /\ loop'.history = loop.history /\ loop'.iter = loop.iter
      /\ loop'.prompt = loop.prompt /\ loop'.at = at
  BY <1>1, <1>2 DEF Loops
<1>4. BestsGrounded' /\ NoneBetter' /\ FilesGrounded'
  <2>1. BestsGrounded' /\ NoneBetter'
    BY <1>1, <1>3, BestsCarried DEF Carried, Iterating
  <2> QED BY <1>1, <2>1 DEF Earned, FilesGrounded, PipelineGrounded, CacheComplete
<1>5. Stage' /\ ShownMeasured'
  BY <1>1, <1>3 DEF Earned, Stage, ShownMeasured
<1>6. Promoted'
  <2> SUFFICES ASSUME loop'.at = "done", NEW b \in Backends, loop.bestClean[b] # None
               PROVE  final'[b] = loop.bestClean[b].source
    BY <1>3 DEF Promoted
  <2>1. final'[b] = dir[loop.bestClean[b].iter].impl[b]
    BY <1>2, <1>3 DEF Promote, Chosen
  <2> QED BY <2>1 DEF Earned, BestsGrounded, BestSoFar
<1> QED BY <1>4, <1>5, <1>6 DEF Earned

LEMMA StutterEarned == ASSUME Earned, UNCHANGED pipelineVars PROVE Earned'
BY DEF pipelineVars, Earned, FilesGrounded, Stage, PipelineGrounded, CacheComplete, BestsGrounded, BestSoFar, NoneBetter, Promoted,
       ShownMeasured

LEMMA NextEarned == ASSUME PipelineTyped, Earned, [PipelineNext]_pipelineVars PROVE Earned'
BY StartEarned, PromptEarned, AnsweredEarned, CallFailsEarned, WriteImplEarned, EvaluatedEarned, NotEvaluatedEarned,
   TrackEarned, PromotionEarned, LeaveEarned, StutterEarned DEF PipelineNext

\* Whatever main (generate.py:289) calls verify-clean, in a prompt or among the promoted
\* sources, a runner found clean with that score, over every crash, cached response and
\* feedback file of earlier runs.
THEOREM CleanIsAlwaysMeasured == PipelineSpec => []CleanIsMeasured
<1>1. PipelineInit => PipelineTyped /\ Earned
  BY PipelineInitTyped, InitEarned
<1>2. PipelineTyped /\ Earned /\ [PipelineNext]_pipelineVars => (PipelineTyped /\ Earned)'
  BY PipelineNextTyped, NextEarned
<1>3. PipelineTyped /\ Earned => CleanIsMeasured
  BY EarnedIsMeasured
<1> QED BY <1>1, <1>2, <1>3, PTL DEF PipelineSpec

-----------------------------------------------------------------------------
(* Accounting: what a row and a round hold *)

Counts == [uncached : Nat, cached : Nat, output : Nat]
Costs == [usd : Nat \cup {None}, lower : Nat]
TransportRows ==
  [outcome : {"succeeded", "failed", "refused", "orphaned"}, charged : {"no", "known", "unknown"},
   usage : Reports \cup {None}, tier : Tiers \cup {None}, billed : Nat, price : Nat, told : BOOLEAN]
RoundRecords ==
  [cost : Nat \cup {None}, usd : Nat \cup {None}, lower : Nat, valid : BOOLEAN, efficiency : Nat \cup {None},
   billed : Nat, price : Nat, told : BOOLEAN]
AccountedTrajectories ==
  [status : {"missing", "in_progress", "incomplete", "complete"}, rounds : Seq(RoundRecords), rows : Seq(TransportRows),
   failures : Nat]

\* A row counts no more dollars than its request cost, nor more tokens, and exactly its
\* tokens unless its charge is unknown; where a missing cached count spoils the one or
\* the other, it was told.
CountsTokens(told, cost, billed) == cost \in Nat /\ cost <= billed /\ (provider = "openai" \/ told => cost = billed)
AnswerTokens(row) == IF row.outcome = "succeeded" THEN Normalized(row.usage) ELSE 0
RowTrue(row) ==
  /\ provider = "anthropic" \/ row.told => TransportCost(row).lower <= row.price
  /\ row.charged # "unknown" => CountsTokens(row.told, AnswerTokens(row), row.billed)
RoundTrue(r) ==
  /\ provider = "anthropic" \/ r.told => r.lower <= r.price
  /\ r.cost # None => CountsTokens(r.told, r.cost, r.billed)

\* Every round but the last of an incomplete trajectory cost something.
TrajectoryTrue(s) ==
  /\ \A i \in DOMAIN s.rows : RowTrue(s.rows[i])
  /\ \A i \in DOMAIN s.rounds : RoundTrue(s.rounds[i])
  /\ \A i \in DOMAIN s.rounds : s.rounds[i].billed = 0 => s.status = "incomplete" /\ i = Len(s.rounds)
  /\ s.status = "incomplete" => s.rounds # <<>>

AccountingInv ==
  /\ provider \in Providers /\ supported \in SUBSET Predeclared /\ target \in SUBSET Predeclared
  /\ state \in [Predeclared -> AccountedTrajectories]
  /\ \A op \in Predeclared : TrajectoryTrue(state[op])

-----------------------------------------------------------------------------
(* Dollars *)

LEMMA MaxZero == ASSUME NEW a \in Int PROVE Max({a, 0}) = IF a >= 0 THEN a ELSE 0
<1>1. IsFiniteSet({a, 0})
  <2>1. IsFiniteSet({0})
    BY FS_Singleton
  <2>2. {a, 0} = {0} \cup {a}
    OBVIOUS
  <2> QED BY <2>1, <2>2, FS_AddElement
<1>2. Max({a, 0}) \in {a, 0} /\ \A x \in {a, 0} : x <= Max({a, 0})
  BY <1>1, MaxIn
<1> QED BY <1>2

LEMMA ComponentsType ==
  ASSUME provider \in Providers, NEW u \in Reports
  PROVE  Components(u) \in Counts
<1>1. OrZero(u.input) \in Nat /\ OrZero(u.cached) \in Nat /\ OrZero(u.output) \in Nat
  BY NumbersAssumption DEF OrZero, Reports
<1>2. Max({OrZero(u.input) - OrZero(u.cached), 0}) \in Nat
  BY <1>1, MaxZero
<1> QED BY <1>1, <1>2 DEF Components, Counts

LEMMA Products ==
  ASSUME NEW a \in Nat, NEW b \in Nat, NEW c \in Nat, NEW d \in Nat, a <= c, b <= d
  PROVE  a * b \in Nat /\ c * d \in Nat /\ a * b <= c * d
<1>1. a * b \in Nat /\ c * d \in Nat /\ c * b \in Nat
  OBVIOUS
<1>2. a * b <= c * b
  <2>1. (c - a) * b >= 0
    OBVIOUS
  <2> QED BY <2>1
<1>3. c * b <= c * d
  <2>1. c * (d - b) >= 0
    OBVIOUS
  <2> QED BY <2>1
<1> QED BY <1>1, <1>2, <1>3

\* More tokens at no lower rates cost no less.
LEMMA PriceMono ==
  ASSUME NEW r \in Rules, NEW q \in Rules, NEW t \in Counts, NEW v \in Counts,
         t.uncached <= v.uncached, t.cached <= v.cached, t.output <= v.output,
         r.rates.uncached <= q.rates.uncached, r.rates.cached <= q.rates.cached, r.rates.output <= q.rates.output
  PROVE  PriceBy(r, t) \in Nat /\ PriceBy(r, t) <= PriceBy(q, v)
<1>1. r.rates \in Counts /\ q.rates \in Counts
  BY RatesAssumption DEF Counts
<1>2. /\ t.uncached \in Nat /\ t.cached \in Nat /\ t.output \in Nat
      /\ v.uncached \in Nat /\ v.cached \in Nat /\ v.output \in Nat
      /\ r.rates.uncached \in Nat /\ r.rates.cached \in Nat /\ r.rates.output \in Nat
      /\ q.rates.uncached \in Nat /\ q.rates.cached \in Nat /\ q.rates.output \in Nat
  BY <1>1 DEF Counts
<1> DEFINE a == t.uncached * r.rates.uncached
           b == t.cached * r.rates.cached
           c == t.output * r.rates.output
           x == v.uncached * q.rates.uncached
           y == v.cached * q.rates.cached
           z == v.output * q.rates.output
<1>3. a \in Nat /\ x \in Nat /\ a <= x
  BY <1>2, Products
<1>4. b \in Nat /\ y \in Nat /\ b <= y
  BY <1>2, Products
<1>5. c \in Nat /\ z \in Nat /\ c <= z
  BY <1>2, Products
<1>6. PriceBy(r, t) = a + b + c /\ PriceBy(q, v) = x + y + z
  BY DEF PriceBy
<1> HIDE DEF a, b, c, x, y, z
<1> QED BY <1>3, <1>4, <1>5, <1>6

\* The single rule of a price is one of the rules that apply.
LEMMA OneRule ==
  ASSUME NEW t, NEW tier, Cardinality(RulesFor(t, tier)) = 1
  PROVE  TheRule(RulesFor(t, tier)) \in RulesFor(t, tier) /\ RulesFor(t, tier) \subseteq Rules
<1>1. RulesFor(t, tier) # {}
  BY FS_EmptySet
<1> QED BY <1>1 DEF TheRule, RulesFor, RulesOf

LEMMA RequestCostType ==
  ASSUME provider \in Providers, NEW u \in Reports \cup {None}, NEW tier, NEW partial \in BOOLEAN
  PROVE  RequestCost(u, tier, partial) \in Costs
<1>1. CASE u = None \/ Cardinality(RulesFor(Components(u), tier)) # 1
  BY <1>1 DEF RequestCost, Unpriced, Costs
<1>2. CASE ~(u = None \/ Cardinality(RulesFor(Components(u), tier)) # 1)
  <2> DEFINE r == TheRule(RulesFor(Components(u), tier))
  <2>1. r \in Rules
    BY <1>2, OneRule
  <2>2. Components(u) \in Counts /\ r.rates \in Counts
    BY <1>2, <2>1, ComponentsType, RatesAssumption DEF Counts
  <2>3. PriceBy(r, Components(u)) \in Nat
    <3> HIDE DEF r
    <3>1. \A n \in Nat : n <= n
      OBVIOUS
    <3> QED BY <2>1, <2>2, <3>1, PriceMono DEF Counts
  <2>4. RequestCost(u, tier, partial) =
          [usd |-> IF partial THEN None ELSE PriceBy(r, Components(u)), lower |-> PriceBy(r, Components(u))]
    BY <1>2 DEF RequestCost
  <2> HIDE DEF r
  <2> QED BY <2>3, <2>4 DEF Costs
<1> QED BY <1>1, <1>2

LEMMA TransportCostType ==
  ASSUME provider \in Providers, NEW row \in TransportRows
  PROVE  TransportCost(row) \in Costs
<1>1. row.usage \in Reports \cup {None}
  BY DEF TransportRows
<1>2. Free \in Costs
  BY DEF Free, Costs
<1> QED BY <1>1, <1>2, RequestCostType DEF TransportCost

LEMMA TruePriceType ==
  ASSUME NEW t \in Usages, NEW tier
  PROVE  TruePrice(t, tier) \in Nat /\ LogicalTokens(t) \in Nat /\ LogicalTokens(t) > 0 /\ t \in Counts
<1>1. t \in Counts /\ t.output > 0 /\ LogicalTokens(t) \in Nat /\ LogicalTokens(t) > 0
  BY UsagesAssumption DEF Counts, LogicalTokens
<1>2. CASE Cardinality(RulesFor(t, tier)) = 1
  <2> DEFINE r == TheRule(RulesFor(t, tier))
  <2>1. r \in Rules
    BY <1>2, OneRule
  <2>2. TruePrice(t, tier) = PriceBy(r, t)
    BY <1>2 DEF TruePrice
  <2> HIDE DEF r
  <2>3. r.rates \in Counts
    BY <2>1, RatesAssumption DEF Counts
  <2>4. \A n \in Nat : n <= n
    OBVIOUS
  <2> QED BY <1>1, <2>1, <2>2, <2>3, <2>4, PriceMono DEF Counts
<1>3. CASE Cardinality(RulesFor(t, tier)) # 1
  BY <1>1, <1>3 DEF TruePrice
<1> QED BY <1>1, <1>2, <1>3

\* A usage that reports no more than was used is priced at no more than it cost.
LEMMA RequestBelow ==
  ASSUME provider \in Providers, NEW t \in Usages, NEW tier \in Tiers, NEW u \in Reports, NEW partial \in BOOLEAN,
         Components(u).uncached <= t.uncached, Components(u).cached <= t.cached, Components(u).output <= t.output
  PROVE  RequestCost(u, tier, partial).lower <= TruePrice(t, tier)
<1> DEFINE c == Components(u)
<1>1. c \in Counts /\ t \in Counts /\ TruePrice(t, tier) \in Nat /\ u # None
  BY ComponentsType, TruePriceType, NumbersAssumption DEF Reports
<1>2. CASE Cardinality(RulesFor(c, tier)) # 1
  <2>1. RequestCost(u, tier, partial) = [usd |-> None, lower |-> 0]
    BY <1>2 DEF RequestCost, Unpriced
  <2> QED BY <1>1, <2>1
<1>3. CASE Cardinality(RulesFor(c, tier)) = 1
  <2> DEFINE r == TheRule(RulesFor(c, tier))
             q == TheRule(RulesFor(t, tier))
  <2>1. r \in RulesFor(c, tier) /\ r \in Rules
    BY <1>3, OneRule
  <2>2. c.uncached + c.cached \in 0 .. t.uncached + t.cached
    <3> HIDE DEF c
    <3>1. c.uncached \in Nat /\ c.cached \in Nat /\ t.uncached \in Nat /\ t.cached \in Nat
      BY <1>1 DEF Counts
    <3>2. c.uncached <= t.uncached /\ c.cached <= t.cached
      BY DEF c
    <3> QED BY <3>1, <3>2
  <2>3. /\ Cardinality(RulesFor(t, tier)) = 1
        /\ \A x \in RulesFor(c, tier), y \in RulesFor(t, tier) :
             \A kind \in {"uncached", "cached", "output"} : x.rates[kind] <= y.rates[kind]
    <3> HIDE DEF c
    <3> QED BY <1>3, <2>2, LongContextAssumption DEF RulesFor
  <2>4. q \in RulesFor(t, tier) /\ q \in Rules
    BY <2>3, OneRule
  <2>5. RequestCost(u, tier, partial).lower = PriceBy(r, c)
    BY <1>1, <1>3 DEF RequestCost
  <2>6. TruePrice(t, tier) = PriceBy(q, t)
    BY <2>3 DEF TruePrice
  <2>7. /\ r.rates.uncached <= q.rates.uncached /\ r.rates.cached <= q.rates.cached
        /\ r.rates.output <= q.rates.output
    <3> HIDE DEF r, q, c
    <3> QED BY <2>1, <2>3, <2>4
  <2>8. c.uncached <= t.uncached /\ c.cached <= t.cached /\ c.output <= t.output
    OBVIOUS
  <2> HIDE DEF r, q, c
  <2> QED BY <1>1, <2>1, <2>4, <2>5, <2>6, <2>7, <2>8, PriceMono
<1> QED BY <1>2, <1>3

LEMMA ReportedType ==
  ASSUME provider \in Providers, NEW t \in Counts, NEW omitted
  PROVE  /\ Reported(t, omitted) \in Reports
         /\ Reported(t, omitted).output = IF "output" \in omitted THEN None ELSE t.output
         /\ Reported(t, omitted).cached = IF "cached" \in omitted THEN None ELSE t.cached
         /\ Reported(t, omitted).input = IF "input" \in omitted THEN None
                                            ELSE IF provider = "openai" THEN t.uncached + t.cached ELSE t.uncached
<1>1. t.uncached \in Nat /\ t.cached \in Nat /\ t.output \in Nat /\ t.uncached + t.cached \in Nat
  BY DEF Counts
<1> QED BY <1>1 DEF Reported, Reports

\* What a provider reports of t, some counts perhaps left out, stands for no more tokens
\* than t has, and for all of them when it has a total and the cached count was told, or
\* is part of the input count.  OpenAI's cached tokens become uncached ones if it was not told.
LEMMA ReportedBelow ==
  ASSUME provider \in Providers, NEW t \in Counts, NEW omitted
  PROVE  /\ provider = "anthropic" \/ "cached" \notin omitted => Components(Reported(t, omitted)).uncached <= t.uncached
         /\ Components(Reported(t, omitted)).cached <= t.cached
         /\ Components(Reported(t, omitted)).output <= t.output
         /\ Normalized(Reported(t, omitted)) # None =>
              CountsTokens("cached" \notin omitted, Normalized(Reported(t, omitted)), LogicalTokens(t))
<1> DEFINE u == Reported(t, omitted)
<1>1. t.uncached \in Nat /\ t.cached \in Nat /\ t.output \in Nat
  BY DEF Counts
<1>2. (provider = "openai" /\ provider # "anthropic") \/ (provider = "anthropic" /\ provider # "openai")
  BY ReportsAssumption
<1>3. /\ u.output \in {None, t.output} /\ u.cached = (IF "cached" \in omitted THEN None ELSE t.cached)
      /\ u.input \in {None, IF provider = "openai" THEN t.uncached + t.cached ELSE t.uncached}
  BY ReportedType
<1> HIDE DEF u
<1>4. /\ OrZero(u.cached) = (IF "cached" \in omitted THEN 0 ELSE t.cached) /\ OrZero(u.output) \in {0, t.output}
      /\ OrZero(u.input) \in {0, IF provider = "openai" THEN t.uncached + t.cached ELSE t.uncached}
  BY <1>1, <1>3, NumbersAssumption DEF OrZero
<1>5. Components(u).cached <= t.cached /\ Components(u).output <= t.output
  BY <1>1, <1>4 DEF Components
<1>6. ASSUME provider = "anthropic" \/ "cached" \notin omitted PROVE Components(u).uncached <= t.uncached
  <2>1. CASE provider = "openai"
    <3>1. Components(u).uncached = Max({OrZero(u.input) - OrZero(u.cached), 0})
      BY <2>1 DEF Components
    <3>2. OrZero(u.input) \in {0, t.uncached + t.cached} /\ OrZero(u.cached) = t.cached
      BY <1>2, <1>4, <1>6, <2>1
    <3>3. OrZero(u.input) - OrZero(u.cached) \in Int
      BY <1>1, <3>2
    <3> QED BY <1>1, <3>1, <3>2, <3>3, MaxZero
  <2>2. CASE provider # "openai"
    <3>1. Components(u).uncached = OrZero(u.input)
      BY <2>2 DEF Components
    <3> QED BY <1>1, <1>4, <2>2, <3>1
  <2> QED BY <2>1, <2>2
<1>7. ASSUME Normalized(u) # None
      PROVE  CountsTokens("cached" \notin omitted, Normalized(u), LogicalTokens(t))
  <2>1. u.input # None /\ u.output # None /\ u # None
    BY <1>7 DEF Normalized
  <2>2. u.output = t.output /\ u.input = IF provider = "openai" THEN t.uncached + t.cached ELSE t.uncached
    BY <1>3, <2>1
  <2>3. CASE provider = "openai"
    <3>1. Normalized(u) = u.input + u.output + 0
      BY <1>2, <2>1, <2>3 DEF Normalized
    <3>2. Normalized(u) = LogicalTokens(t) /\ LogicalTokens(t) \in Nat
      BY <1>1, <2>2, <2>3, <3>1 DEF LogicalTokens
    <3> QED BY <3>2 DEF CountsTokens
  <2>4. CASE provider = "anthropic"
    <3>1. Normalized(u) = t.uncached + t.output + OrZero(u.cached)
      BY <1>2, <2>1, <2>2, <2>4 DEF Normalized
    <3>2. CASE "cached" \in omitted
      <4>1. Normalized(u) = t.uncached + t.output
        BY <1>1, <1>4, <3>1, <3>2
      <4> QED BY <1>1, <1>2, <2>4, <3>2, <4>1 DEF CountsTokens, LogicalTokens
    <3>3. CASE "cached" \notin omitted
      <4>1. Normalized(u) = LogicalTokens(t) /\ LogicalTokens(t) \in Nat
        BY <1>1, <1>4, <3>1, <3>3 DEF LogicalTokens
      <4> QED BY <4>1 DEF CountsTokens
    <3> QED BY <3>2, <3>3
  <2> QED BY <1>2, <2>3, <2>4
<1> QED BY <1>5, <1>6, <1>7 DEF u

-----------------------------------------------------------------------------
(* The rows of a request, the record of a round *)

LEMMA RowType ==
  ASSUME provider \in Providers, NEW outcome \in {"succeeded", "failed", "refused", "orphaned"},
         NEW charged \in {"no", "known", "unknown"}, NEW usage \in Reports \cup {None}, NEW tier \in Tiers \cup {None},
         NEW billed \in Nat, NEW price \in Nat
  PROVE  Row(outcome, charged, usage, tier, billed, price) \in TransportRows
BY DEF Row, TransportRows

\* Nothing was sent or refused: nothing is charged.
LEMMA UnchargedTrue ==
  ASSUME provider \in Providers, NEW outcome \in {"failed", "refused"}
  PROVE  LET row == Row(outcome, "no", None, None, 0, 0) IN row \in TransportRows /\ RowTrue(row)
<1> DEFINE row == Row(outcome, "no", None, None, 0, 0)
<1>1. row \in TransportRows
  BY RowType
<1>2. row.outcome = outcome /\ row.charged = "no" /\ row.billed = 0 /\ row.price = 0
  BY DEF Row
<1> HIDE DEF row
<1>3. TransportCost(row).lower = 0 /\ AnswerTokens(row) = 0
  BY <1>2 DEF TransportCost, Free, AnswerTokens
<1> QED BY <1>1, <1>2, <1>3 DEF RowTrue, CountsTokens, row

\* A charge nobody saw: no usage, or a part of it.
LEMMA UnseenTrue ==
  ASSUME provider \in Providers, NEW outcome \in {"failed", "orphaned"}, NEW usage \in Reports \cup {None},
         NEW tier \in Tiers \cup {None}, NEW billed \in Nat, NEW price \in Nat,
         usage # None => RequestCost(usage, tier, TRUE).lower <= price
  PROVE  LET row == Row(outcome, "unknown", usage, tier, billed, price) IN row \in TransportRows /\ RowTrue(row)
<1> DEFINE row == Row(outcome, "unknown", usage, tier, billed, price)
<1>1. row \in TransportRows
  BY RowType
<1>2. /\ row.outcome = outcome /\ row.charged = "unknown" /\ row.usage = usage /\ row.tier = tier
      /\ row.price = price
  BY DEF Row
<1> HIDE DEF row
<1>3. TransportCost(row) = RequestCost(usage, tier, TRUE)
  BY <1>2 DEF TransportCost
<1>4. TransportCost(row).lower <= price
  <2>1. CASE usage = None
    BY <1>3, <2>1 DEF RequestCost, Unpriced
  <2> QED BY <1>3, <2>1
<1> QED BY <1>1, <1>2, <1>4 DEF RowTrue, row

\* An answer, whatever its usage object left out.
LEMMA AnswerTrue ==
  ASSUME provider \in Providers, NEW t \in Usages, NEW tier \in Tiers, NEW omitted \in SUBSET Omittable,
         NEW present \in BOOLEAN
  PROVE  LET usage == IF present THEN Reported(t, omitted) ELSE None
             row == Row("succeeded", IF Normalized(usage) = None THEN "unknown" ELSE "known", usage, tier,
                        LogicalTokens(t), TruePrice(t, tier))
         IN row \in TransportRows /\ RowTrue(row) /\ row.billed > 0
<1> DEFINE usage == IF present THEN Reported(t, omitted) ELSE None
           charged == IF Normalized(usage) = None THEN "unknown" ELSE "known"
           row == Row("succeeded", charged, usage, tier, LogicalTokens(t), TruePrice(t, tier))
<1>1. TruePrice(t, tier) \in Nat /\ LogicalTokens(t) \in Nat /\ LogicalTokens(t) > 0 /\ t \in Counts
  BY TruePriceType
<1>2. usage \in Reports \cup {None}
  BY <1>1, ReportedType
<1>3. row \in TransportRows
  <2> HIDE DEF usage
  <2> QED BY <1>1, <1>2, RowType
<1>4. /\ row.outcome = "succeeded" /\ row.charged = charged /\ row.usage = usage /\ row.tier = tier
      /\ row.billed = LogicalTokens(t) /\ row.price = TruePrice(t, tier)
      /\ row.told = (usage = None \/ usage.cached # None)
  BY DEF Row
<1>5. present => usage = Reported(t, omitted) /\ usage \in Reports /\ (row.told <=> "cached" \notin omitted)
  <2> SUFFICES ASSUME present PROVE usage = Reported(t, omitted) /\ usage \in Reports /\ (row.told <=> "cached" \notin omitted)
    OBVIOUS
  <2>1. usage = Reported(t, omitted) /\ usage \in Reports /\ usage # None
    BY <1>1, ReportedType, NumbersAssumption
  <2>2. usage.cached = IF "cached" \in omitted THEN None ELSE t.cached
    BY <1>1, <2>1, ReportedType
  <2>3. t.cached # None
    BY <1>1, NumbersAssumption DEF Counts
  <2> HIDE DEF usage, row
  <2> QED BY <1>4, <2>1, <2>2, <2>3
<1>6. charged # "unknown" => CountsTokens(row.told, Normalized(usage), row.billed)
  <2> SUFFICES ASSUME Normalized(usage) # None PROVE CountsTokens(row.told, Normalized(usage), row.billed)
    OBVIOUS
  <2>1. present
    BY DEF Normalized
  <2>2. CountsTokens("cached" \notin omitted, Normalized(usage), LogicalTokens(t))
    BY <1>1, <1>5, <2>1, ReportedBelow
  <2> HIDE DEF usage, row, charged
  <2> QED BY <1>4, <1>5, <2>1, <2>2 DEF CountsTokens
<1>7. provider = "anthropic" \/ row.told => RequestCost(usage, tier, FALSE).lower <= TruePrice(t, tier)
  <2>1. CASE present
    <3> SUFFICES ASSUME provider = "anthropic" \/ row.told PROVE RequestCost(usage, tier, FALSE).lower <= TruePrice(t, tier)
      OBVIOUS
    <3>1. usage = Reported(t, omitted) /\ usage \in Reports /\ (provider = "anthropic" \/ "cached" \notin omitted)
      BY <1>5, <2>1
    <3>2. /\ Components(usage).uncached <= t.uncached /\ Components(usage).cached <= t.cached
          /\ Components(usage).output <= t.output
      BY <1>1, <3>1, ReportedBelow
    <3> HIDE DEF usage, row
    <3> QED BY <3>1, <3>2, RequestBelow
  <2>2. CASE ~present
    <3>1. RequestCost(None, tier, FALSE).lower = 0 /\ usage = None
      BY <2>2 DEF RequestCost, Unpriced
    <3>2. 0 <= TruePrice(t, tier)
      BY <1>1
    <3> HIDE DEF usage, row
    <3> QED BY <3>1, <3>2
  <2> QED BY <2>1, <2>2
<1>8. RowTrue(row)
  <2>1. TransportCost(row) = RequestCost(usage, tier, FALSE) /\ AnswerTokens(row) = Normalized(usage)
    <3> HIDE DEF row, usage, charged
    <3> QED BY <1>4 DEF TransportCost, AnswerTokens
  <2> HIDE DEF row, usage, charged
  <2> QED BY <1>4, <1>6, <1>7, <2>1 DEF RowTrue
<1> HIDE DEF row
<1>9. row.billed > 0
  BY <1>1, <1>4
<1> QED BY <1>3, <1>8, <1>9 DEF row, charged, usage

\* The record of a round says no more than its rows, and costs something when one did.
LEMMA RoundRecordTrue ==
  ASSUME provider \in Providers, NEW rows \in Seq(TransportRows), \A i \in DOMAIN rows : RowTrue(rows[i]),
         NEW valid \in BOOLEAN, NEW efficiency \in Nat \cup {None}
  PROVE  /\ RoundRecord(rows, valid, efficiency) \in RoundRecords
         /\ RoundTrue(RoundRecord(rows, valid, efficiency))
         /\ (\E i \in DOMAIN rows : rows[i].billed > 0) => RoundRecord(rows, valid, efficiency).billed > 0
<1> DEFINE D == DOMAIN rows
           billed == [i \in D |-> rows[i].billed]
           price == [i \in D |-> rows[i].price]
           lower == [i \in D |-> TransportCost(rows[i]).lower]
           tokens == [i \in D |-> AnswerTokens(rows[i])]
           told == \A i \in D : rows[i].told
           usd == [i \in D |-> TransportCost(rows[i]).usd]
           r == RoundRecord(rows, valid, efficiency)
<1>1. IsFiniteSet(D)
  <2>1. D = 1 .. Len(rows) /\ Len(rows) \in Nat
    OBVIOUS
  <2> QED BY <2>1, FS_Interval
<1>2. ASSUME NEW i \in D
      PROVE  /\ rows[i] \in TransportRows /\ rows[i].billed \in Nat /\ rows[i].price \in Nat
             /\ TransportCost(rows[i]) \in Costs
             /\ provider = "anthropic" \/ rows[i].told => TransportCost(rows[i]).lower <= rows[i].price
  <2>1. rows[i] \in TransportRows /\ RowTrue(rows[i])
    OBVIOUS
  <2> QED BY <2>1, TransportCostType DEF TransportRows, RowTrue
<1>3. billed \in [D -> Nat] /\ price \in [D -> Nat] /\ lower \in [D -> Nat]
  BY <1>2 DEF Costs
<1>4. Total(billed) \in Nat /\ Total(price) \in Nat /\ Total(lower) \in Nat
  <2> HIDE DEF billed, price, lower, D
  <2> QED BY <1>1, <1>3, TotalType
<1>5. provider = "anthropic" \/ told => Total(lower) <= Total(price)
  <2> SUFFICES ASSUME provider = "anthropic" \/ told PROVE Total(lower) <= Total(price)
    OBVIOUS
  <2>1. \A i \in D : lower[i] <= price[i]
    BY <1>2
  <2> HIDE DEF price, lower, D, told
  <2> QED BY <1>1, <1>3, <2>1, TotalMono
<1>6. AttemptCost(rows) # None => CountsTokens(told, AttemptCost(rows), Total(billed))
  <2> SUFFICES ASSUME AttemptCost(rows) # None PROVE CountsTokens(told, AttemptCost(rows), Total(billed))
    OBVIOUS
  <2>1. ~ \E i \in D : rows[i].charged = "unknown"
    BY DEF AttemptCost
  <2>2. \A i \in D : CountsTokens(rows[i].told, tokens[i], billed[i])
    BY <2>1 DEF RowTrue
  <2>3. AttemptCost(rows) = Total(tokens)
    BY <2>1 DEF AttemptCost, AnswerTokens
  <2>4. tokens \in [D -> Nat] /\ \A i \in D : tokens[i] <= billed[i]
    BY <2>2 DEF CountsTokens
  <2>5. Total(tokens) \in Nat /\ Total(tokens) <= Total(billed)
    <3> HIDE DEF tokens, billed, D
    <3> QED BY <1>1, <1>3, <2>4, TotalMono
  <2>6. provider = "openai" \/ told => Total(tokens) = Total(billed)
    <3> SUFFICES ASSUME provider = "openai" \/ told PROVE Total(tokens) = Total(billed)
      OBVIOUS
    <3>1. \A i \in D : tokens[i] = billed[i]
      BY <2>2 DEF CountsTokens
    <3>2. tokens = billed
      BY <3>1
    <3> HIDE DEF tokens, billed
    <3> QED BY <3>2
  <2> HIDE DEF tokens, billed, D, told
  <2> QED BY <2>3, <2>5, <2>6 DEF CountsTokens
<1>7. Combined(rows).lower = Total(lower) /\ Combined(rows).usd \in Nat \cup {None}
  <2> DEFINE costs == [i \in D |-> TransportCost(rows[i])]
  <2>1. Combined(rows) = [usd |-> IF \E i \in D : costs[i].usd = None THEN None ELSE Total([i \in D |-> costs[i].usd]),
                          lower |-> Total([i \in D |-> costs[i].lower])]
    BY DEF Combined
  <2>2. [i \in D |-> costs[i].lower] = lower /\ [i \in D |-> costs[i].usd] = usd
    OBVIOUS
  <2>3. \A i \in D : costs[i].usd = usd[i] /\ usd[i] \in Nat \cup {None}
    BY <1>2 DEF Costs
  <2>4. CASE \E i \in D : costs[i].usd = None
    BY <2>1, <2>2, <2>4
  <2>5. CASE ~ \E i \in D : costs[i].usd = None
    <3>1. usd \in [D -> Nat]
      BY <2>3, <2>5
    <3>2. Total(usd) \in Nat
      <4> HIDE DEF D, usd
      <4> QED BY <1>1, <3>1, TotalType
    <3> QED BY <2>1, <2>2, <2>5, <3>2
  <2> QED BY <2>4, <2>5
<1>8. r = [cost |-> AttemptCost(rows), usd |-> Combined(rows).usd, lower |-> Combined(rows).lower, valid |-> valid,
           efficiency |-> efficiency, billed |-> Total(billed), price |-> Total(price), told |-> told]
  BY DEF RoundRecord
<1>9. ASSUME NEW i \in D, rows[i].billed > 0 PROVE Total(billed) > 0
  <2> DEFINE none == [j \in {} |-> 0]
  <2>1. none \in [{} -> Nat]
    OBVIOUS
  <2>2. billed[i] > 0
    BY <1>9
  <2>3. Total(none) < Total(billed)
    <3> HIDE DEF none, billed, D
    <3> QED BY <1>1, <1>3, <2>1, <2>2, TotalStrict
  <2>4. Total(none) \in Nat
    <3> HIDE DEF none
    <3> QED BY <2>1, FS_EmptySet, TotalType
  <2> HIDE DEF none, billed
  <2> QED BY <1>4, <2>3, <2>4
<1>10. told \in BOOLEAN /\ AttemptCost(rows) \in Nat \cup {None}
  BY <1>6 DEF CountsTokens
<1> HIDE DEF r, billed, price, lower, D, told
<1> QED BY <1>4, <1>5, <1>6, <1>7, <1>8, <1>9, <1>10 DEF RoundRecords, RoundTrue, CountsTokens, r, D

-----------------------------------------------------------------------------
(* Every step keeps the invariant *)

LEMMA AccountingInitInv == AccountingInit => AccountingInv
<1> SUFFICES ASSUME AccountingInit PROVE AccountingInv
  OBVIOUS
<1>1. NewTrajectory \in AccountedTrajectories
  BY DEF NewTrajectory, AccountedTrajectories
<1>2. TrajectoryTrue(NewTrajectory)
  BY DEF NewTrajectory, TrajectoryTrue
<1> QED BY <1>1, <1>2 DEF AccountingInit, AccountingInv

LEMMA SameProvider ==
  ASSUME provider' = provider, NEW s
  PROVE  TrajectoryTrue(s) => TrajectoryTrue(s)'
<1>1. ASSUME NEW u PROVE Components(u)' = Components(u) /\ Normalized(u)' = Normalized(u)
  BY DEF Components, Normalized
<1>2. ASSUME NEW t, NEW tier PROVE RulesFor(t, tier)' = RulesFor(t, tier)
  BY DEF RulesFor
<1>3. ASSUME NEW u, NEW tier, NEW partial PROVE RequestCost(u, tier, partial)' = RequestCost(u, tier, partial)
  BY <1>1, <1>2 DEF RequestCost
<1>4. ASSUME NEW row PROVE TransportCost(row)' = TransportCost(row)
  BY <1>3 DEF TransportCost
<1>5. ASSUME NEW row PROVE RowTrue(row)' <=> RowTrue(row)
  BY <1>1, <1>4 DEF RowTrue, AnswerTokens, CountsTokens
<1>6. ASSUME NEW r PROVE RoundTrue(r)' <=> RoundTrue(r)
  BY DEF RoundTrue, CountsTokens
<1> QED BY <1>5, <1>6 DEF TrajectoryTrue

\* One trajectory moves at a time.
LEMMA SetKeeps ==
  ASSUME AccountingInv, NEW op \in Predeclared, NEW new \in AccountedTrajectories, TrajectoryTrue(new), Set(op, new)
  PROVE  AccountingInv'
<1>1. provider' = provider /\ supported' = supported /\ target' = target /\ state' = [state EXCEPT ![op] = new]
  BY DEF Set
<1>2. state' \in [Predeclared -> AccountedTrajectories]
  BY <1>1 DEF AccountingInv
<1>3. ASSUME NEW o \in Predeclared PROVE TrajectoryTrue(state[o])'
  <2>1. TrajectoryTrue(state'[o])
    BY <1>1 DEF AccountingInv
  <2> QED BY <1>1, <2>1, SameProvider
<1> QED BY <1>1, <1>2, <1>3 DEF AccountingInv

LEMMA AppendRow ==
  ASSUME provider \in Providers, NEW rows \in Seq(TransportRows), \A i \in DOMAIN rows : RowTrue(rows[i]),
         NEW row \in TransportRows, RowTrue(row)
  PROVE  /\ Append(rows, row) \in Seq(TransportRows)
         /\ \A i \in DOMAIN Append(rows, row) : RowTrue(Append(rows, row)[i])
         /\ Len(rows) + 1 \in DOMAIN Append(rows, row) /\ Append(rows, row)[Len(rows) + 1] = row
<1>1. /\ Append(rows, row) \in Seq(TransportRows) /\ Len(Append(rows, row)) = Len(rows) + 1 /\ Len(rows) \in Nat
      /\ \A i \in 1 .. Len(rows) : Append(rows, row)[i] = rows[i]
      /\ Append(rows, row)[Len(rows) + 1] = row
  OBVIOUS
<1>2. DOMAIN rows = 1 .. Len(rows) /\ DOMAIN Append(rows, row) = 1 .. Len(rows) + 1
  BY <1>1
<1>3. \A i \in 1 .. Len(rows) + 1 : i \in 1 .. Len(rows) \/ i = Len(rows) + 1
  BY <1>1
<1> QED BY <1>1, <1>2, <1>3

\* The record of a round follows those of the earlier rounds.
LEMMA AppendRound ==
  ASSUME NEW rounds \in Seq(RoundRecords), \A i \in DOMAIN rounds : RoundTrue(rounds[i]) /\ rounds[i].billed # 0,
         NEW r \in RoundRecords, RoundTrue(r)
  PROVE  LET new == Append(rounds, r)
         IN  /\ new \in Seq(RoundRecords) /\ new # <<>> /\ Len(new) = Len(rounds) + 1
             /\ \A i \in DOMAIN new : RoundTrue(new[i])
             /\ \A i \in DOMAIN new : new[i].billed = 0 => r.billed = 0 /\ i = Len(new)
<1>1. /\ Append(rounds, r) \in Seq(RoundRecords) /\ Len(Append(rounds, r)) = Len(rounds) + 1 /\ Len(rounds) \in Nat
      /\ \A i \in 1 .. Len(rounds) : Append(rounds, r)[i] = rounds[i]
      /\ Append(rounds, r)[Len(rounds) + 1] = r
  OBVIOUS
<1>2. DOMAIN rounds = 1 .. Len(rounds) /\ DOMAIN Append(rounds, r) = 1 .. Len(rounds) + 1
  BY <1>1
<1>3. \A i \in 1 .. Len(rounds) + 1 : i \in 1 .. Len(rounds) \/ i = Len(rounds) + 1
  BY <1>1
<1> DEFINE new == Append(rounds, r)
<1>4. new \in Seq(RoundRecords) /\ Len(new) = Len(rounds) + 1 /\ DOMAIN new = 1 .. Len(rounds) + 1
  BY <1>1, <1>2
<1>5. new # <<>>
  <2> HIDE DEF new
  <2> QED BY <1>1, <1>4
<1>6. \A i \in DOMAIN new : (i \in DOMAIN rounds /\ new[i] = rounds[i]) \/ (i = Len(new) /\ new[i] = r)
  BY <1>1, <1>2, <1>3
<1> HIDE DEF new
<1>7. /\ \A i \in DOMAIN new : RoundTrue(new[i])
      /\ \A i \in DOMAIN new : new[i].billed = 0 => r.billed = 0 /\ i = Len(new)
  BY <1>6
<1> QED BY <1>4, <1>5, <1>7 DEF new

\* What the invariant says of a trajectory whose round is open.
LEMMA OpenRound ==
  ASSUME AccountingInv, NEW op \in Predeclared, state[op].status # "incomplete"
  PROVE  /\ provider \in Providers /\ state[op] \in AccountedTrajectories
         /\ state[op].rounds \in Seq(RoundRecords) /\ state[op].rows \in Seq(TransportRows) /\ state[op].failures \in Nat
         /\ \A i \in DOMAIN state[op].rows : RowTrue(state[op].rows[i])
         /\ \A i \in DOMAIN state[op].rounds : RoundTrue(state[op].rounds[i]) /\ state[op].rounds[i].billed # 0
BY DEF AccountingInv, AccountedTrajectories, TrajectoryTrue

LEMMA StartTrajectoryInv ==
  ASSUME AccountingInv, NEW op \in Predeclared, StartTrajectory(op)
  PROVE  AccountingInv'
<1> DEFINE new == [state[op] EXCEPT !.status = "in_progress"]
<1>1. state[op].status # "incomplete" /\ Set(op, new)
  BY DEF StartTrajectory
<1>2. new \in AccountedTrajectories /\ new.rows = state[op].rows /\ new.rounds = state[op].rounds
  BY <1>1, OpenRound DEF AccountedTrajectories
<1>3. TrajectoryTrue(new)
  <2>1. new.status = "in_progress"
    BY <1>1, OpenRound DEF AccountedTrajectories
  <2> HIDE DEF new
  <2> QED BY <1>1, <1>2, <2>1, OpenRound DEF TrajectoryTrue
<1> HIDE DEF new
<1> QED BY <1>1, <1>2, <1>3, SetKeeps

LEMMA GiveUpInv ==
  ASSUME AccountingInv, NEW op \in Predeclared, state[op].status = "in_progress",
         NEW rows \in Seq(TransportRows), \A i \in DOMAIN rows : RowTrue(rows[i]), GiveUp(op, rows)
  PROVE  AccountingInv'
<1> DEFINE r == RoundRecord(rows, FALSE, None)
           rounds == Append(state[op].rounds, r)
           new == [status |-> "incomplete", rounds |-> rounds, rows |-> rows, failures |-> 0]
<1>1. Set(op, new)
  BY DEF GiveUp
<1>2. r \in RoundRecords /\ RoundTrue(r)
  BY OpenRound, RoundRecordTrue
<1>3. /\ rounds \in Seq(RoundRecords) /\ rounds # <<>>
      /\ \A i \in DOMAIN rounds : RoundTrue(rounds[i])
      /\ \A i \in DOMAIN rounds : rounds[i].billed = 0 => i = Len(rounds)
  <2> HIDE DEF r
  <2> QED BY <1>2, OpenRound, AppendRound
<1>4. new \in AccountedTrajectories
  <2> HIDE DEF rounds
  <2> QED BY <1>3 DEF AccountedTrajectories
<1>5. TrajectoryTrue(new)
  <2> HIDE DEF rounds
  <2> QED BY <1>3 DEF TrajectoryTrue
<1> HIDE DEF new
<1> QED BY <1>1, <1>4, <1>5, SetKeeps

\* The rows of an open round may grow.
LEMMA RowsKeep ==
  ASSUME AccountingInv, NEW op \in Predeclared, state[op].status = "in_progress",
         NEW rows \in Seq(TransportRows), \A i \in DOMAIN rows : RowTrue(rows[i]), NEW n \in Nat,
         Set(op, [state[op] EXCEPT !.rows = rows, !.failures = n])
  PROVE  AccountingInv'
<1> DEFINE new == [state[op] EXCEPT !.rows = rows, !.failures = n]
<1>1. /\ new \in AccountedTrajectories /\ new.rows = rows /\ new.rounds = state[op].rounds
      /\ new.status = "in_progress"
  BY OpenRound DEF AccountedTrajectories
<1>2. Set(op, new)
  OBVIOUS
<1> HIDE DEF new
<1>3. TrajectoryTrue(new)
  BY <1>1, OpenRound DEF TrajectoryTrue
<1> QED BY <1>1, <1>2, <1>3, SetKeeps

LEMMA FailedInv ==
  ASSUME AccountingInv, NEW op \in Predeclared, state[op].status = "in_progress",
         NEW row \in TransportRows, RowTrue(row), Failed(op, row)
  PROVE  AccountingInv'
<1> DEFINE rows == Append(state[op].rows, row)
<1>1. rows \in Seq(TransportRows) /\ \A i \in DOMAIN rows : RowTrue(rows[i])
  BY OpenRound, AppendRow
<1>2. CASE GiveUp(op, rows)
  <2> HIDE DEF rows
  <2> QED BY <1>1, <1>2, GiveUpInv
<1>3. CASE Set(op, [state[op] EXCEPT !.rows = rows, !.failures = @ + 1])
  <2>1. state[op].failures + 1 \in Nat
    BY OpenRound
  <2>2. Set(op, [state[op] EXCEPT !.rows = rows, !.failures = state[op].failures + 1])
    BY <1>3
  <2> HIDE DEF rows
  <2> QED BY <1>1, <2>1, <2>2, RowsKeep
<1> QED BY <1>2, <1>3 DEF Failed

LEMMA BreakInv ==
  ASSUME AccountingInv, NEW op \in Predeclared, Break(op)
  PROVE  AccountingInv'
<1>1. state[op].status = "in_progress" /\ provider \in Providers
  BY OpenRound DEF Break, Requesting
<1>2. PICK t \in Usages : \E tier \in Tiers, events \in {0, 1}, timeout \in BOOLEAN :
        /\ events > 0 \/ timeout
        /\ \E seen \in IF events > 0 THEN SeenUsages(t) ELSE {None} :
             Failed(op, Row("failed", ChargeAfter(events, timeout), seen, tier, LogicalTokens(t), TruePrice(t, tier)))
  BY DEF Break
<1>3. PICK tier \in Tiers : \E events \in {0, 1}, timeout \in BOOLEAN :
        /\ events > 0 \/ timeout
        /\ \E seen \in IF events > 0 THEN SeenUsages(t) ELSE {None} :
             Failed(op, Row("failed", ChargeAfter(events, timeout), seen, tier, LogicalTokens(t), TruePrice(t, tier)))
  BY <1>2
<1>4. PICK seen \in SeenUsages(t) :
        Failed(op, Row("failed", "unknown", seen, tier, LogicalTokens(t), TruePrice(t, tier)))
  BY <1>3 DEF SeenUsages, ChargeAfter
<1>5. TruePrice(t, tier) \in Nat /\ LogicalTokens(t) \in Nat /\ t \in Counts
  BY TruePriceType
<1>6. seen \in Reports \cup {None} /\ (seen # None => RequestCost(seen, tier, TRUE).lower <= TruePrice(t, tier))
  <2> SUFFICES ASSUME seen # None
               PROVE  seen \in Reports /\ RequestCost(seen, tier, TRUE).lower <= TruePrice(t, tier)
    OBVIOUS
  <2>1. PICK n \in 0 .. t.output : seen = Reported([t EXCEPT !.output = n], {})
    BY DEF SeenUsages
  <2> DEFINE v == [t EXCEPT !.output = n]
  <2>2. t.output \in Nat
    BY <1>5 DEF Counts
  <2>3. n \in Nat /\ n <= t.output
    BY <2>2
  <2>4. v \in Counts /\ v.uncached = t.uncached /\ v.cached = t.cached /\ v.output = n
    BY <1>5, <2>3 DEF Counts
  <2>5. seen = Reported(v, {})
    BY <2>1
  <2> HIDE DEF v
  <2>6. seen \in Reports
    BY <1>1, <2>4, <2>5, ReportedType
  <2>7. /\ Components(seen).uncached <= v.uncached /\ Components(seen).cached <= v.cached
        /\ Components(seen).output <= v.output
    BY <1>1, <2>4, <2>5, ReportedBelow
  <2>8. Components(seen) \in Counts
    BY <1>1, <2>6, ComponentsType
  <2>9. Components(seen).output <= t.output
    <3>1. Components(seen).output \in Nat
      BY <2>8 DEF Counts
    <3> QED BY <2>2, <2>3, <2>4, <2>7, <3>1
  <2> QED BY <1>1, <2>4, <2>6, <2>7, <2>9, RequestBelow
<1> DEFINE row == Row("failed", "unknown", seen, tier, LogicalTokens(t), TruePrice(t, tier))
<1>7. row \in TransportRows /\ RowTrue(row)
  BY <1>1, <1>5, <1>6, UnseenTrue
<1>8. Failed(op, row)
  BY <1>4
<1> HIDE DEF row
<1> QED BY <1>1, <1>7, <1>8, FailedInv

LEMMA DieSendingInv ==
  ASSUME AccountingInv, NEW op \in Predeclared, DieSending(op)
  PROVE  AccountingInv'
<1>1. state[op].status = "in_progress" /\ provider \in Providers
  BY OpenRound DEF DieSending, Requesting
<1>2. PICK t \in Usages \cup {NoTokens} : \E tier \in Tiers :
        Set(op, [state[op] EXCEPT !.failures = 0,
                                  !.rows = Append(@, Row("orphaned", "unknown", None, None, LogicalTokens(t),
                                                         IF t = NoTokens THEN 0 ELSE TruePrice(t, tier)))])
  BY DEF DieSending
<1>3. PICK tier \in Tiers :
        Set(op, [state[op] EXCEPT !.failures = 0,
                                  !.rows = Append(@, Row("orphaned", "unknown", None, None, LogicalTokens(t),
                                                         IF t = NoTokens THEN 0 ELSE TruePrice(t, tier)))])
  BY <1>2
<1> DEFINE price == IF t = NoTokens THEN 0 ELSE TruePrice(t, tier)
           row == Row("orphaned", "unknown", None, None, LogicalTokens(t), price)
           rows == Append(state[op].rows, row)
<1>4. LogicalTokens(t) \in Nat /\ price \in Nat
  <2>1. LogicalTokens(NoTokens) \in Nat
    BY DEF LogicalTokens, NoTokens
  <2> QED BY <2>1, TruePriceType
<1>5. row \in TransportRows /\ RowTrue(row)
  <2> HIDE DEF price
  <2> QED BY <1>1, <1>4, UnseenTrue
<1>6. rows \in Seq(TransportRows) /\ \A i \in DOMAIN rows : RowTrue(rows[i])
  <2> HIDE DEF row
  <2> QED BY <1>1, <1>5, OpenRound, AppendRow
<1>7. Set(op, [state[op] EXCEPT !.rows = rows, !.failures = 0])
  <2>1. [state[op] EXCEPT !.failures = 0, !.rows = Append(@, row)] = [state[op] EXCEPT !.rows = rows, !.failures = 0]
    <3>1. state[op] \in AccountedTrajectories
      BY <1>1, OpenRound
    <3> HIDE DEF row
    <3> QED BY <3>1 DEF AccountedTrajectories
  <2>2. Set(op, [state[op] EXCEPT !.failures = 0, !.rows = Append(@, row)])
    BY <1>3
  <2> HIDE DEF rows, row
  <2> QED BY <2>1, <2>2
<1> HIDE DEF rows
<1> QED BY <1>1, <1>6, <1>7, RowsKeep

LEMMA SucceedInv ==
  ASSUME AccountingInv, NEW op \in Predeclared, Succeed(op)
  PROVE  AccountingInv'
<1>1. state[op].status = "in_progress" /\ provider \in Providers
  BY OpenRound DEF Succeed, Requesting
<1> DEFINE Row2(t, tier, omitted, present) ==
             LET usage == IF present THEN Reported(t, omitted) ELSE None
             IN Row("succeeded", IF Normalized(usage) = None THEN "unknown" ELSE "known", usage, tier,
                    LogicalTokens(t), TruePrice(t, tier))
           Status(rounds) == IF Len(rounds) = Rounds THEN "complete" ELSE "in_progress"
<1>2. PICK row \in TransportRows, valid \in BOOLEAN, efficiency \in Nat \cup {None} :
        /\ RowTrue(row) /\ row.billed > 0
        /\ LET rounds == Append(state[op].rounds, RoundRecord(Append(state[op].rows, row), valid, efficiency))
           IN Set(op, [status |-> Status(rounds), rounds |-> rounds, rows |-> <<>>, failures |-> 0])
  <2>1. PICK t \in Usages, tier \in Tiers, omitted \in SUBSET Omittable, present \in BOOLEAN,
             valid \in BOOLEAN, efficiency \in Efficiencies \cup {None} :
          LET rounds == Append(state[op].rounds, RoundRecord(Append(state[op].rows, Row2(t, tier, omitted, present)), valid,
                                                             IF valid THEN efficiency ELSE None))
          IN Set(op, [status |-> Status(rounds), rounds |-> rounds, rows |-> <<>>, failures |-> 0])
    BY DEF Succeed
  <2> DEFINE row == Row2(t, tier, omitted, present)
  <2>2. row \in TransportRows /\ RowTrue(row) /\ row.billed > 0
    BY <1>1, AnswerTrue
  <2>3. (IF valid THEN efficiency ELSE None) \in Nat \cup {None}
    BY NumbersAssumption
  <2> HIDE DEF Row2, Status
  <2> QED BY <2>1, <2>2, <2>3
<1> DEFINE rows == Append(state[op].rows, row)
           r == RoundRecord(rows, valid, efficiency)
           rounds == Append(state[op].rounds, r)
           new == [status |-> Status(rounds), rounds |-> rounds, rows |-> <<>>, failures |-> 0]
<1>3. /\ rows \in Seq(TransportRows) /\ \A i \in DOMAIN rows : RowTrue(rows[i])
      /\ \E i \in DOMAIN rows : rows[i].billed > 0
  BY <1>1, <1>2, OpenRound, AppendRow
<1>4. r \in RoundRecords /\ RoundTrue(r) /\ r.billed > 0
  <2> HIDE DEF rows
  <2> QED BY <1>1, <1>3, RoundRecordTrue
<1>5. /\ rounds \in Seq(RoundRecords) /\ \A i \in DOMAIN rounds : RoundTrue(rounds[i])
      /\ \A i \in DOMAIN rounds : rounds[i].billed # 0
  <2> HIDE DEF r
  <2>1. r.billed # 0
    BY <1>4 DEF RoundRecords
  <2> QED BY <1>1, <1>4, <2>1, OpenRound, AppendRound
<1>6. new \in AccountedTrajectories /\ TrajectoryTrue(new)
  <2> HIDE DEF rounds
  <2>1. new \in AccountedTrajectories
    BY <1>5 DEF AccountedTrajectories
  <2>2. TrajectoryTrue(new)
    BY <1>5 DEF TrajectoryTrue
  <2> QED BY <2>1, <2>2
<1>7. Set(op, new)
  BY <1>2
<1> HIDE DEF new
<1> QED BY <1>6, <1>7, SetKeeps

LEMMA ReopenInv ==
  ASSUME AccountingInv, NEW op \in Predeclared, Reopen(op)
  PROVE  AccountingInv'
<1> DEFINE s == state[op]
           rounds == SubSeq(s.rounds, 1, Len(s.rounds) - 1)
           new == [s EXCEPT !.status = "in_progress", !.rounds = rounds]
<1>1. Set(op, new) /\ s.status = "incomplete"
  BY DEF Reopen
<1>2. s \in AccountedTrajectories /\ TrajectoryTrue(s)
  BY DEF AccountingInv
<1>3. s.rounds \in Seq(RoundRecords) /\ s.rounds # <<>> /\ s.rows \in Seq(TransportRows)
  BY <1>1, <1>2 DEF AccountedTrajectories, TrajectoryTrue
<1>4. Len(s.rounds) - 1 \in Nat /\ Len(s.rounds) \in Nat
  <2> HIDE DEF s
  <2> QED BY <1>3
<1>5. /\ rounds \in Seq(RoundRecords) /\ DOMAIN rounds = 1 .. Len(s.rounds) - 1
      /\ \A i \in 1 .. Len(s.rounds) - 1 : rounds[i] = s.rounds[i] /\ i \in DOMAIN s.rounds /\ i # Len(s.rounds)
  <2> HIDE DEF s
  <2> QED BY <1>3, <1>4
<1>6. \A i \in DOMAIN rounds : RoundTrue(rounds[i]) /\ rounds[i].billed # 0
  <2> HIDE DEF rounds, s
  <2> QED BY <1>2, <1>5 DEF TrajectoryTrue
<1>7. new \in AccountedTrajectories /\ new.rows = s.rows /\ new.rounds = rounds /\ new.status = "in_progress"
  <2> HIDE DEF rounds, s
  <2> QED BY <1>2, <1>5 DEF AccountedTrajectories
<1>8. TrajectoryTrue(new)
  <2> HIDE DEF new, rounds, s
  <2> QED BY <1>2, <1>6, <1>7 DEF TrajectoryTrue
<1> HIDE DEF new
<1> QED BY <1>1, <1>7, <1>8, SetKeeps

LEMMA AccountingNextInv == ASSUME AccountingInv, [AccountingNext]_accountingVars PROVE AccountingInv'
<1>1. CASE AccountingNext
  <2>1. PICK op \in Predeclared :
          \/ StartTrajectory(op) \/ Refuse(op) \/ Reject(op) \/ Break(op) \/ DieSending(op) \/ Succeed(op) \/ Reopen(op)
    BY <1>1 DEF AccountingNext
  <2>2. CASE Refuse(op)
    <3> DEFINE row == Row("refused", "no", None, None, 0, 0)
    <3>1. state[op].status = "in_progress" /\ GiveUp(op, Append(state[op].rows, row))
      BY <2>2 DEF Refuse, Requesting
    <3>2. row \in TransportRows /\ RowTrue(row)
      BY <3>1, OpenRound, UnchargedTrue
    <3> HIDE DEF row
    <3> DEFINE rows == Append(state[op].rows, row)
    <3>3. rows \in Seq(TransportRows) /\ \A i \in DOMAIN rows : RowTrue(rows[i])
      BY <3>1, <3>2, OpenRound, AppendRow
    <3>4. GiveUp(op, rows)
      BY <3>1
    <3> HIDE DEF rows
    <3> QED BY <3>1, <3>3, <3>4, GiveUpInv
  <2>3. CASE Reject(op)
    <3> DEFINE row == Row("failed", "no", None, None, 0, 0)
    <3>1. state[op].status = "in_progress" /\ Failed(op, row)
      BY <2>3 DEF Reject, Requesting
    <3>2. row \in TransportRows /\ RowTrue(row)
      BY <3>1, OpenRound, UnchargedTrue
    <3> HIDE DEF row
    <3> QED BY <3>1, <3>2, FailedInv
  <2> QED BY <2>1, <2>2, <2>3, StartTrajectoryInv, BreakInv, DieSendingInv, SucceedInv, ReopenInv
<1>2. CASE UNCHANGED accountingVars
  <2>1. provider' = provider /\ supported' = supported /\ target' = target /\ state' = state
    BY <1>2 DEF accountingVars
  <2>2. ASSUME NEW op \in Predeclared PROVE TrajectoryTrue(state[op])'
    <3>1. TrajectoryTrue(state[op]) /\ state'[op] = state[op]
      BY <2>1 DEF AccountingInv
    <3>2. TrajectoryTrue(state'[op])
      BY <3>1
    <3> QED BY <2>1, <3>2, SameProvider
  <2> QED BY <2>1, <2>2 DEF AccountingInv
<1> QED BY <1>1, <1>2

-----------------------------------------------------------------------------
(* E(B), the means and the dollar bounds are those of the real charges *)

\* What is known of the cumulative cost is true, and known of a prefix of the rounds.
LEMMA CumulativeTrue ==
  ASSUME NEW rounds \in Seq(RoundRecords), \A i \in DOMAIN rounds : rounds[i].cost \in {None, rounds[i].billed},
         NEW i \in DOMAIN rounds
  PROVE  /\ TrueCumulative(rounds, i) \in Nat
         /\ Cumulative(rounds, i) # None => Cumulative(rounds, i) = TrueCumulative(rounds, i)
         /\ Cumulative(rounds, i) # None <=> \A j \in 1 .. i : rounds[j].cost # None
<1> DEFINE known == [j \in 1 .. i |-> rounds[j].cost]
           billed == [j \in 1 .. i |-> rounds[j].billed]
<1>1. DOMAIN rounds = 1 .. Len(rounds) /\ Len(rounds) \in Nat /\ i \in Nat
  OBVIOUS
<1>2. ASSUME NEW j \in 1 .. i
      PROVE  j \in DOMAIN rounds /\ rounds[j] \in RoundRecords /\ rounds[j].billed \in Nat /\ rounds[j].cost \in {None, rounds[j].billed}
  <2>1. j \in DOMAIN rounds
    BY <1>1
  <2>2. rounds[j] \in RoundRecords /\ rounds[j].cost \in {None, rounds[j].billed}
    BY <2>1
  <2> QED BY <2>1, <2>2 DEF RoundRecords
<1>3. IsFiniteSet(1 .. i) /\ billed \in [1 .. i -> Nat]
  <2>1. IsFiniteSet(1 .. i)
    BY <1>1, FS_Interval
  <2>2. billed \in [1 .. i -> Nat]
    BY <1>2
  <2> QED BY <2>1, <2>2
<1>4. TrueCumulative(rounds, i) = Total(billed) /\ Total(billed) \in Nat
  <2>1. TrueCumulative(rounds, i) = Total(billed)
    BY DEF TrueCumulative
  <2> HIDE DEF billed
  <2> QED BY <1>3, <2>1, TotalType
<1>5. CASE \A j \in 1 .. i : rounds[j].cost # None
  <2>1. \A j \in 1 .. i : rounds[j].cost = rounds[j].billed
    BY <1>2, <1>5
  <2>2. known = billed
    BY <2>1
  <2>3. Cumulative(rounds, i) = Total(known)
    BY <1>5 DEF Cumulative
  <2> HIDE DEF known, billed
  <2> QED BY <1>4, <1>5, <2>2, <2>3, NumbersAssumption
<1>6. CASE ~ \A j \in 1 .. i : rounds[j].cost # None
  BY <1>4, <1>6 DEF Cumulative
<1> QED BY <1>5, <1>6

\* A later round that cost something makes more of it.
LEMMA CumulativeGrows ==
  ASSUME NEW rounds \in Seq(RoundRecords), \A k \in DOMAIN rounds : rounds[k].billed # 0,
         NEW m \in Nat, NEW i \in DOMAIN rounds, m < i
  PROVE  /\ m = 0 => TrueCumulative(rounds, i) > 0
         /\ m # 0 => TrueCumulative(rounds, i) > TrueCumulative(rounds, m)
<1> DEFINE f == [j \in 1 .. m |-> rounds[j].billed]
           g == [j \in 1 .. i |-> rounds[j].billed]
<1>1. DOMAIN rounds = 1 .. Len(rounds) /\ Len(rounds) \in Nat /\ i \in Nat
  OBVIOUS
<1>2. ASSUME NEW j \in 1 .. i PROVE j \in DOMAIN rounds /\ rounds[j].billed \in Nat /\ rounds[j].billed # 0
  <2>1. j \in DOMAIN rounds
    BY <1>1
  <2>2. rounds[j] \in RoundRecords /\ rounds[j].billed # 0
    BY <2>1
  <2> QED BY <2>1, <2>2 DEF RoundRecords
<1>3. IsFiniteSet(1 .. i) /\ g \in [1 .. i -> Nat] /\ f \in [1 .. m -> Nat] /\ 1 .. m \subseteq 1 .. i
  <2>1. IsFiniteSet(1 .. i)
    BY <1>1, FS_Interval
  <2>2. 1 .. m \subseteq 1 .. i
    BY <1>1
  <2>3. g \in [1 .. i -> Nat]
    BY <1>2
  <2>4. f \in [1 .. m -> Nat]
    BY <1>2, <2>2
  <2> QED BY <2>1, <2>2, <2>3, <2>4
<1>4. i \in 1 .. i /\ i \notin 1 .. m /\ g[i] > 0 /\ \A j \in 1 .. m : f[j] <= g[j]
  <2>1. i \in 1 .. i /\ i \notin 1 .. m
    BY <1>1
  <2>2. g[i] > 0
    BY <1>2, <2>1
  <2>3. \A j \in 1 .. m : f[j] = g[j] /\ f[j] \in Nat
    BY <1>2, <1>3
  <2> HIDE DEF f, g
  <2> QED BY <2>1, <2>2, <2>3
<1>5. Total(f) < Total(g) /\ Total(f) \in Nat /\ Total(g) \in Nat
  <2> HIDE DEF f, g
  <2> QED BY <1>3, <1>4, TotalStrict, TotalMono
<1>6. TrueCumulative(rounds, i) = Total(g) /\ TrueCumulative(rounds, m) = Total(f)
  BY DEF TrueCumulative
<1> HIDE DEF f, g
<1> QED BY <1>5, <1>6

LEMMA BestType ==
  ASSUME NEW rounds \in Seq(RoundRecords), NEW S \in SUBSET DOMAIN rounds
  PROVE  Best(rounds, S) \in Nat
<1> DEFINE C == {j \in S : Counted(rounds[j])}
           eff == [i \in C |-> rounds[i].efficiency]
           V == {rounds[i].efficiency : i \in C}
<1>1. IsFiniteSet(C)
  <2>1. DOMAIN rounds = 1 .. Len(rounds) /\ Len(rounds) \in Nat /\ C \subseteq DOMAIN rounds
    OBVIOUS
  <2> HIDE DEF C
  <2> QED BY <2>1, IndicesFinite
<1>2. IsFiniteSet(V)
  <2>1. eff \in Surjection(C, V)
    BY DEF Surjection
  <2> HIDE DEF C, eff, V
  <2> QED BY <1>1, <2>1, FS_Surjection
<1>3. V \subseteq Nat
  <2>1. ASSUME NEW i \in C PROVE rounds[i].efficiency \in Nat
    <3>1. rounds[i] \in RoundRecords /\ Counted(rounds[i])
      OBVIOUS
    <3> QED BY <3>1 DEF Counted, RoundRecords
  <2> QED BY <2>1
<1>6. Best(rounds, S) = Max({0} \cup V)
  BY DEF Best
<1> HIDE DEF V
<1>4. IsFiniteSet(V \cup {0}) /\ V \cup {0} = {0} \cup V
  BY <1>2, FS_AddElement
<1>5. Max({0} \cup V) \in {0} \cup V
  <2>1. IsFiniteSet({0} \cup V)
    BY <1>4
  <2>2. {0} \cup V # {} /\ {0} \cup V \subseteq Int
    BY <1>3
  <2> QED BY <2>1, <2>2, MaxIn
<1>7. {0} \cup V \subseteq Nat
  BY <1>3
<1>8. Max({0} \cup V) \in Nat
  BY <1>5, <1>7, Zenon
<1> QED BY <1>6, <1>8

\* An E(B) the code states is the one the real charges give.
LEMMA EfficiencyTrue ==
  ASSUME AccountingInv, NEW op \in Predeclared, NEW b \in Budgets
  PROVE  /\ Whole(op) => EfficiencyAt(op, b) \in {None, TrueEfficiency(op, b)}
         /\ TrueEfficiency(op, b) \in Nat
<1> DEFINE rounds == state[op].rounds
           D == DOMAIN rounds
           Cum(i) == Cumulative(rounds, i)
           True(i) == TrueCumulative(rounds, i)
           known == {i \in D : Cum(i) # None}
           lastKnown == IF known = {} THEN 0 ELSE Cum(Max(known))
           within == {i \in known : Cum(i) <= b}
           truly == {i \in D : True(i) <= b}
           later == \E i \in D \ known : Counted(rounds[i]) /\ rounds[i].efficiency > 0
<1>1. rounds \in Seq(RoundRecords) /\ (\A i \in D : RoundTrue(rounds[i])) /\ D = 1 .. Len(rounds) /\ Len(rounds) \in Nat
  BY DEF AccountingInv, AccountedTrajectories, TrajectoryTrue
<1>3. TrueEfficiency(op, b) \in Nat
  <2>1. Best(rounds, truly) \in Nat
    <3> HIDE DEF rounds
    <3> QED BY <1>1, BestType
  <2> QED BY <2>1 DEF TrueEfficiency
<1>4. SUFFICES ASSUME Whole(op), EfficiencyAt(op, b) # None
               PROVE  EfficiencyAt(op, b) = TrueEfficiency(op, b)
  BY <1>3
<1>a. \A i \in D : rounds[i].cost \in {None, rounds[i].billed}
  <2> TAKE i \in D
  <2>1. RoundTrue(rounds[i]) /\ (provider = "openai" \/ rounds[i].told)
    BY <1>1, <1>4 DEF Whole
  <2> QED BY <2>1 DEF RoundTrue, CountsTokens
<1>2. \A i \in D : /\ True(i) \in Nat
                   /\ Cum(i) # None => Cum(i) = True(i)
                   /\ Cum(i) # None <=> \A j \in 1 .. i : rounds[j].cost # None
  <2> HIDE DEF rounds
  <2> QED BY <1>1, <1>a, CumulativeTrue
<1>5. /\ Determinable(op) /\ (known = D \/ ~(b > lastKnown) \/ ~later)
      /\ EfficiencyAt(op, b) = Best(rounds, within)
  BY <1>4 DEF EfficiencyAt
<1>6. op \in target /\ TrueEfficiency(op, b) = Best(rounds, truly)
  BY <1>5 DEF Determinable, TrueEfficiency
<1>7. \A i \in D : rounds[i].billed # 0
  BY <1>5 DEF Determinable, AccountingInv, TrajectoryTrue
<1> HIDE DEF rounds, Cum, True
<1>8. within \subseteq truly
  BY <1>2
<1>9. \A i \in known : i \in truly => i \in within
  BY <1>2
<1>10. CASE known = D
  <2>1. within = truly
    BY <1>8, <1>9, <1>10
  <2> QED BY <1>5, <1>6, <2>1
<1>11. CASE ~(b > lastKnown)
  <2>1. ASSUME NEW i \in D, i \notin known PROVE True(i) > lastKnown
    <3>1. CASE known = {}
      <4>1. lastKnown = 0 /\ i > 0
        BY <1>1, <3>1
      <4> QED BY <1>1, <1>7, <4>1, CumulativeGrows DEF True
    <3>2. CASE known # {}
      <4>1. IsFiniteSet(known) /\ known \subseteq Int
        <5>1. known \subseteq D
          OBVIOUS
        <5> HIDE DEF known
        <5> QED BY <1>1, <5>1, IndicesFinite
      <4>2. Max(known) \in known
        <5> HIDE DEF known
        <5> QED BY <3>2, <4>1, MaxIn
      <4> DEFINE m == Max(known)
      <4>3. m \in D /\ lastKnown = True(m) /\ \A j \in 1 .. m : rounds[j].cost # None
        BY <1>2, <3>2, <4>2
      <4> HIDE DEF m
      <4>4. m < i
        <5>1. i \in Nat /\ m \in Nat
          BY <1>1, <4>3
        <5>2. i <= m => \A j \in 1 .. i : rounds[j].cost # None
          BY <4>3, <5>1
        <5> QED BY <1>2, <2>1, <5>1, <5>2
      <4>5. m \in Nat /\ m # 0
        BY <1>1, <4>3
      <4> HIDE DEF lastKnown
      <4> QED BY <1>1, <1>7, <4>3, <4>4, <4>5, CumulativeGrows DEF True
    <3> QED BY <3>1, <3>2
  <2>2. lastKnown \in Int /\ b \in Int
    <3>1. CASE known = {}
      BY <3>1, NumbersAssumption
    <3>2. CASE known # {}
      <4>1. IsFiniteSet(known) /\ known \subseteq Int
        <5>1. known \subseteq D
          OBVIOUS
        <5> HIDE DEF known
        <5> QED BY <1>1, <5>1, IndicesFinite
      <4>2. Max(known) \in known
        <5> HIDE DEF known
        <5> QED BY <3>2, <4>1, MaxIn
      <4>3. Cum(Max(known)) \in Nat
        <5> HIDE DEF known
        <5>1. \A i \in known : Cum(i) \in Nat
          BY <1>2 DEF known
        <5> QED BY <4>2, <5>1
      <4> QED BY <3>2, <4>3, NumbersAssumption
    <3> QED BY <3>1, <3>2
  <2>3. ASSUME NEW i \in truly PROVE i \in known
    <3>1. i \in D /\ True(i) <= b /\ True(i) \in Nat
      BY <1>2
    <3> HIDE DEF known, lastKnown
    <3> QED BY <1>11, <2>1, <2>2, <3>1
  <2>4. within = truly
    <3> HIDE DEF known, within, truly
    <3> QED BY <1>8, <1>9, <2>3
  <2> QED BY <1>5, <1>6, <2>4
<1>12. CASE ~later
  <2> DEFINE A == {0} \cup {rounds[i].efficiency : i \in {j \in within : Counted(rounds[j])}}
             B == {0} \cup {rounds[i].efficiency : i \in {j \in truly : Counted(rounds[j])}}
  <2>1. A \subseteq B
    <3> HIDE DEF within, truly
    <3> QED BY <1>8
  <2>2. ASSUME NEW i \in truly, Counted(rounds[i]) PROVE rounds[i].efficiency \in A
    <3>1. CASE i \in known
      <4>1. i \in within
        BY <1>9, <3>1
      <4> HIDE DEF within
      <4> QED BY <2>2, <4>1
    <3>2. CASE i \notin known
      <4>1. ~(rounds[i].efficiency > 0)
        BY <1>12, <2>2, <3>2
      <4>2. rounds[i].efficiency \in Nat
        <5>1. i \in D
          OBVIOUS
        <5>2. rounds[i] \in RoundRecords
          BY <1>1, <5>1
        <5> QED BY <2>2, <5>2 DEF Counted, RoundRecords
      <4>3. rounds[i].efficiency = 0
        BY <4>1, <4>2
      <4> QED BY <4>3
    <3> QED BY <3>1, <3>2
  <2>3. B \subseteq A
    <3>1. 0 \in A
      OBVIOUS
    <3> HIDE DEF A, truly
    <3> QED BY <2>2, <3>1
  <2>4. A = B
    <3> HIDE DEF A, B
    <3> QED BY <2>1, <2>3
  <2>5. Best(rounds, within) = Max(A) /\ Best(rounds, truly) = Max(B)
    BY DEF Best
  <2> QED BY <1>5, <1>6, <2>4, <2>5
<1> HIDE DEF known, later, lastKnown, within, truly
<1> QED BY <1>5, <1>10, <1>11, <1>12

\* The means over the predeclared set follow from the values.
LEMMA MeansTrue ==
  ASSUME AccountingInv, NEW b \in Budgets, \A op \in supported : Whole(op)
  PROVE  LET truth == Total([op \in supported |-> TrueEfficiency(op, b)])
             n == Cardinality(supported)
         IN /\ LowerBoundMean(b).sum * n <= truth * LowerBoundMean(b).over
            /\ ExactMean(b) # None => ExactMean(b).sum * n = truth * ExactMean(b).over
<1> DEFINE t == [op \in supported |-> TrueEfficiency(op, b)]
           l == [op \in supported |-> OrZero(EfficiencyAt(op, b))]
           e == [op \in supported |-> EfficiencyAt(op, b)]
           n == Cardinality(supported)
<1>1. IsFiniteSet(supported) /\ supported \subseteq Predeclared /\ n \in Nat
  BY PredeclaredAssumption, FS_Subset, FS_CardinalityType DEF AccountingInv
<1>2. ASSUME NEW op \in supported
      PROVE  /\ TrueEfficiency(op, b) \in Nat /\ EfficiencyAt(op, b) \in {None, TrueEfficiency(op, b)}
             /\ OrZero(EfficiencyAt(op, b)) \in Nat /\ OrZero(EfficiencyAt(op, b)) <= TrueEfficiency(op, b)
  <2>1. TrueEfficiency(op, b) \in Nat /\ EfficiencyAt(op, b) \in {None, TrueEfficiency(op, b)}
    BY <1>1, EfficiencyTrue
  <2>2. OrZero(EfficiencyAt(op, b)) \in {0, TrueEfficiency(op, b)}
    BY <2>1 DEF OrZero
  <2> QED BY <2>1, <2>2
<1>3. t \in [supported -> Nat] /\ l \in [supported -> Nat] /\ \A op \in supported : l[op] <= t[op]
  BY <1>2
<1>4. Total(l) \in Nat /\ Total(t) \in Nat /\ Total(l) <= Total(t)
  <2> HIDE DEF t, l
  <2> QED BY <1>1, <1>3, TotalMono
<1>5. LowerBoundMean(b).sum = Total(l) /\ LowerBoundMean(b).over = n
  BY DEF LowerBoundMean, Included
<1>6. ASSUME ExactMean(b) # None PROVE ExactMean(b).sum = Total(t) /\ ExactMean(b).over = n
  <2>1. \A op \in supported : EfficiencyAt(op, b) # None
    BY <1>6 DEF ExactMean, Included
  <2>2. \A op \in supported : EfficiencyAt(op, b) = TrueEfficiency(op, b)
    BY <1>2, <2>1
  <2>3. e = t
    BY <2>2
  <2>4. ExactMean(b) = [sum |-> Total(e), over |-> n]
    BY <1>6 DEF ExactMean, Included
  <2> HIDE DEF e, t
  <2> QED BY <2>3, <2>4
<1> HIDE DEF t, l, n
<1>7. Total(l) * n <= Total(t) * n
  <2>1. n <= n
    BY <1>1
  <2> QED BY <1>1, <1>4, <2>1, Products
<1> QED BY <1>5, <1>6, <1>7 DEF t, n

LEMMA AccountingInvIsSound == AccountingInv => CostsAreSound
<1> SUFFICES ASSUME AccountingInv PROVE CostsAreSound
  OBVIOUS
<1>1. \A op \in Predeclared, b \in Budgets : Whole(op) => EfficiencyAt(op, b) \in {None, TrueEfficiency(op, b)}
  BY EfficiencyTrue
<1>2. ASSUME NEW op \in Predeclared, NEW i \in DOMAIN state[op].rounds
      PROVE  LET r == state[op].rounds[i]
             IN  (r.cost # None => r.cost <= r.billed) /\ (provider = "anthropic" \/ r.told => r.lower <= r.price)
  <2>1. RoundTrue(state[op].rounds[i])
    BY DEF AccountingInv, TrajectoryTrue
  <2> QED BY <2>1 DEF RoundTrue, CountsTokens
<1> QED BY <1>1, <1>2, MeansTrue DEF CostsAreSound

\* Whatever usages and charges were lost on the way (usage.py normalize, cost.py combine,
\* efficiency.py efficiency_at and aggregate): the tokens of a round are at most those
\* charged; no E(B) and no mean is wrong but for a cached count that Anthropic left out, and
\* no dollar bound but for one that OpenAI left out.
THEOREM CostsAreAlwaysSound == AccountingSpec => []CostsAreSound
<1>1. AccountingInit => AccountingInv
  BY AccountingInitInv
<1>2. AccountingInv /\ [AccountingNext]_accountingVars => AccountingInv'
  BY AccountingNextInv
<1>3. AccountingInv => CostsAreSound
  BY AccountingInvIsSound
<1> QED BY <1>1, <1>2, <1>3, PTL DEF AccountingSpec
=============================================================================
