---------------------------- MODULE DecisionProofs ----------------------------
(***************************************************************************)
(* What is decided before the replay holds in all that follows, for every  *)
(* family of settings: the capabilities that were found (CapableInv), the  *)
(* vectors that were validated (ScenarioInv) and the queries that were     *)
(* sampled (SampleInv), each with its inductive invariant.                 *)
(***************************************************************************)
EXTENDS IntakeProofs

-----------------------------------------------------------------------------
(* A changeset that patches the configset at all.                          *)
Patches == \E change \in ToSet(settings.changes) : change.op \in ConfigsetOps

(* That a patched configset cannot be uploaded is reported.                *)
UploadNoted ==
  "configset_upload" \notin compat.caps /\ Patches =>
    <<"configset_upload", "unavailable">> \in compat.contract.fallbacks

(* The stages past the validation of the vector set-up.                    *)
Validated == {"replay", "compare"} \cup Compared

(* What has been done so far was possible with the capabilities, and what  *)
(* was given up had to be: the inductive invariant.                        *)
CapableInv ==
  /\ stage \in Later \ {"preflight"} => UploadNoted
  /\ stage \in Outset \cup {"snapshot", "preflight"} => workspace = settings.files /\ configset = settings.files
  /\ workspace # settings.files \/ configset # settings.files => Patches /\ UploadNoted
  /\ ~Patches => patched \in Nat
  /\ stage \in Intaking \cup {"vector_validate"} =>
       /\ vectorOn = (Vector.enabled /\ Vector.scenarios # <<>>)
       /\ \A s \in Scenarios : targets[s] = <<>>
  /\ vectorOn \in BOOLEAN /\ targets = [s \in Scenarios |-> targets[s]]
  /\ Vector.enabled /\ Vector.scenarios # <<>> /\ ~vectorOn => "vector" \notin compat.caps
  /\ stage \in Validated /\ vectorOn => "vector" \in compat.caps
  /\ \A s \in Scenarios : targets[s] # <<>> => "vector" \in compat.caps
  /\ Len(bundles) \in Nat /\ bundles = [n \in 1..Len(bundles) |-> bundles[n]]
  /\ \A n \in 1..Len(bundles) : bundles[n].structured = Structured

(* Where no change patches the configset there is nothing to patch.        *)
LEMMA NothingToPatch ==
  ASSUME Given, ~Patches
  PROVE  Len(Steps) = 0
<1>1. PICK seq, S, kind : /\ seq = settings.changes /\ S = ToSet(seq)
                          /\ kind = {change \in ToSet(seq) : change.op \in ConfigsetOps}
  OBVIOUS
<1>2. kind = {} /\ seq \in Seq(S)
  BY <1>1, WellFormedSettings DEF Patches, WellFormed, IsList
<1>3. PICK w : w = Within(seq, kind)
  OBVIOUS
<1>4. w \in Seq(S \cap kind)
  BY <1>2, <1>3, WithinType
<1>5. Len(w) = 0 /\ DOMAIN w = 1..0
  BY <1>2, <1>4
<1>6. PICK seqs : seqs = [i \in DOMAIN w |-> TargetsOf(w[i])]
  OBVIOUS
<1>7. seqs \in [1..0 -> Seq({})]
  BY <1>5, <1>6
<1>8. seqs \in Seq(Seq({}))
  BY <1>7
<1>9. FlattenSeq(seqs) \in Seq({})
  BY <1>8, FlattenSeqType
<1>10. Steps = FlattenSeq(seqs)
  BY <1>1, <1>3, <1>6, Zenon DEF Steps, PatchSteps
<1>. QED
  BY <1>9, <1>10

(* It holds at the start.                                                  *)
LEMMA InitCapable ==
  ASSUME Init
  PROVE  CapableInv
<1>1. /\ stage = "validate" /\ workspace = settings.files /\ configset = settings.files /\ patched = 0
      /\ vectorOn = (Vector.enabled /\ Vector.scenarios # <<>>) /\ targets = [s \in Scenarios |-> <<>>]
      /\ bundles = <<>>
  BY DEF Init, IntakeInit, ComparisonInit, VectorInit
<1>2. Len(bundles) = 0 /\ bundles = [n \in 1..Len(bundles) |-> bundles[n]]
  BY <1>1
<1>3. stage \notin Later /\ stage \notin Validated
  BY <1>1 DEF Later, Validated, Compared
<1>4. /\ \A s \in Scenarios : targets[s] = <<>>
      /\ targets = [s \in Scenarios |-> targets[s]]
  BY <1>1
<1>5. vectorOn \in BOOLEAN
  BY <1>1, Zenon
<1>6. Vector.enabled /\ Vector.scenarios # <<>> => vectorOn
  BY <1>1, Zenon
<1>7. patched \in Nat /\ Len(bundles) \in Nat /\ \A n \in 1..Len(bundles) : bundles[n].structured = Structured
  BY <1>1
<1>. QED
  BY <1>1, <1>2, <1>3, <1>4, <1>5, <1>6, <1>7, Zenon DEF CapableInv

(* The stages of S are entered from one of them only.                      *)
OnlyFrom(S) == stage' \in S => stage \in S

(* What only moves the stage on within the intake, or within what comes    *)
(* after the validation of the vectors, takes nothing up or back.          *)
LEMMA StaysCapable ==
  ASSUME CapableInv, UNCHANGED <<settings, compat, workspace, configset, patched, vectorOn, targets, bundles>>,
         OnlyFrom(Later \ {"preflight"}), OnlyFrom(Outset \cup {"snapshot", "preflight"}),
         OnlyFrom(Intaking \cup {"vector_validate"}), OnlyFrom(Validated)
  PROVE  CapableInv'
<1>1. /\ UploadNoted' = UploadNoted /\ Patches' = Patches /\ Vector' = Vector /\ Scenarios' = Scenarios
      /\ Structured' = Structured
  BY DEF UploadNoted, Patches, Vector, Scenarios, Structured
<1>. QED
  BY <1>1, Zenon DEF CapableInv, OnlyFrom

(* The steps of the intake that do not touch the configset.                *)
LEMMA IntakeKeepsCapable ==
  ASSUME CapableInv, IntakeNext, ~SnapshotNext, ~RunPreflight, ~PatchTarget, ~UploadConfigset,
         UNCHANGED <<comparisonVars, vectorVars>>
  PROVE  CapableInv'
<1>1. UNCHANGED <<settings, compat, workspace, configset, patched, vectorOn, targets, bundles>>
  BY DEF IntakeNext, comparisonVars, vectorVars, ValidateChangeset, InitializePlugins, CreateCollection, PrepareChange,
         CallSchemaApi, FinishShadow, LoadFromFile, LoadFromPlugin, ExtractFromLog, TakeRow, EndSampling, request,
         intakeVars, shadowVars, KeepRun
<1>2. /\ OnlyFrom(Later \ {"preflight"}) /\ OnlyFrom(Outset \cup {"snapshot", "preflight"})
      /\ OnlyFrom(Intaking \cup {"vector_validate"}) /\ OnlyFrom(Validated)
  BY DEF IntakeNext, ValidateChangeset, InitializePlugins, CreateCollection, PrepareChange, CallSchemaApi, FinishShadow,
         LoadFromFile, LoadFromPlugin, ExtractFromLog, TakeRow, EndSampling, request, intakeVars, shadowVars, KeepRun,
         Creating, Raise, Loading, Loaded, Enter, OnlyFrom, Later, Outset, Intaking, Validated, Compared, Stages
<1>. QED
  BY <1>1, <1>2, StaysCapable

(* Detecting the capabilities comes before all that depends on them.       *)
LEMMA SnapshotKeepsCapable ==
  ASSUME CapableInv, ReplayInv, SnapshotNext, UNCHANGED <<plugins, risks, shadowVars, taken, comparisonVars, vectorVars>>
  PROVE  CapableInv'
<1>1. /\ stage = "snapshot" /\ stage' \in {"snapshot", "preflight", "failed"} /\ settings' = settings
      /\ UNCHANGED <<workspace, configset, patched, vectorOn, targets, bundles>>
  BY DEF SnapshotNext, CaptureSnapshot, LoadSnapshot, WriteFile, DetectCompatibility, EndSnapshot, Enter, Snapshotting,
         KeepFiles, shadowVars, comparisonVars, vectorVars
<1>2. bundles = <<>>
  BY <1>1 DEF ReplayInv, NothingCompared, Intaking
<1>3. /\ workspace = settings.files /\ configset = settings.files /\ (~Patches => patched \in Nat)
      /\ vectorOn = (Vector.enabled /\ Vector.scenarios # <<>>) /\ \A s \in Scenarios : targets[s] = <<>>
      /\ vectorOn \in BOOLEAN /\ targets = [s \in Scenarios |-> targets[s]]
      /\ Len(bundles) \in Nat /\ bundles = [n \in 1..Len(bundles) |-> bundles[n]]
  BY <1>1, Zenon DEF CapableInv, Intaking
<1>4. /\ stage' \notin Later \ {"preflight"} /\ stage' \notin Validated
      /\ Patches' = Patches /\ Vector' = Vector /\ Scenarios' = Scenarios
  BY <1>1 DEF Later, Validated, Compared, Patches, Vector, Scenarios
<1>5. \A n \in 1..Len(bundles) : FALSE
  BY <1>2
<1>6. Vector.enabled /\ Vector.scenarios # <<>> => vectorOn
  BY <1>3, Zenon
<1>7. workspace' = settings'.files /\ configset' = settings'.files /\ (~Patches' => patched' \in Nat)
  BY <1>1, <1>3, <1>4, Zenon
<1>8. vectorOn' = (Vector'.enabled /\ Vector'.scenarios # <<>>) /\ \A s \in Scenarios' : targets'[s] = <<>>
  BY <1>1, <1>3, <1>4, Zenon
<1>9. vectorOn' \in BOOLEAN /\ targets' = [s \in Scenarios' |-> targets'[s]]
  BY <1>1, <1>3, <1>4, Zenon
<1>10. Len(bundles') \in Nat /\ bundles' = [n \in 1..Len(bundles') |-> bundles'[n]]
  BY <1>1, <1>3, Zenon
<1>11. \A n \in 1..Len(bundles') : FALSE
  BY <1>1, <1>5, Zenon
<1>12. Vector'.enabled /\ Vector'.scenarios # <<>> => vectorOn'
  BY <1>1, <1>4, <1>6, Zenon
<1>. QED
  BY <1>4, <1>7, <1>8, <1>9, <1>10, <1>11, <1>12, Zenon DEF CapableInv

(* That the configset cannot be uploaded is noted before it is patched.    *)
LEMMA PreflightKeepsCapable ==
  ASSUME CapableInv, ReplayInv, SnapshotInv, RunPreflight, UNCHANGED <<comparisonVars, vectorVars>>
  PROVE  CapableInv'
<1>1. /\ stage = "preflight" /\ settings' = settings
      /\ UNCHANGED <<workspace, configset, patched, vectorOn, targets, bundles>>
      /\ \/ stage' = "failed" /\ compat' = compat
         \/ stage' = "shadow_create" /\ compat' = [compat EXCEPT !.contract.fallbacks = @ \cup UploadReport]
  BY DEF RunPreflight, Enter, shadowVars, comparisonVars, vectorVars
<1>2. CASE stage' = "failed" /\ compat' = compat
  <2>1. /\ OnlyFrom(Later \ {"preflight"}) /\ OnlyFrom(Outset \cup {"snapshot", "preflight"})
        /\ OnlyFrom(Intaking \cup {"vector_validate"}) /\ OnlyFrom(Validated)
    BY <1>2 DEF OnlyFrom, Later, Outset, Intaking, Validated, Compared
  <2>. QED
    BY <1>1, <1>2, <2>1, StaysCapable
<1>3. CASE stage' = "shadow_create" /\ compat' = [compat EXCEPT !.contract.fallbacks = @ \cup UploadReport]
  <2>1. compat = [caps |-> compat.caps,
                  contract |-> [capabilities |-> compat.contract.capabilities,
                                disabled     |-> DisabledFeatures(compat.caps),
                                fallbacks    |-> compat.contract.fallbacks,
                                degraded     |-> DegradedFeatures(compat.caps)]]
    BY <1>1, Zenon DEF SnapshotInv, Reported, Later, Stages
  <2>2. PICK c, more : c = compat /\ more = compat.contract.fallbacks \cup UploadReport
    OBVIOUS
  <2>3. compat' = [caps |-> c.caps,
                   contract |-> [capabilities |-> c.contract.capabilities,
                                 disabled     |-> DisabledFeatures(c.caps),
                                 fallbacks    |-> more,
                                 degraded     |-> DegradedFeatures(c.caps)]]
    BY <1>3, <2>1, <2>2
  <2>4. compat'.caps = compat.caps /\ compat'.contract.fallbacks = compat.contract.fallbacks \cup UploadReport
    BY <2>2, <2>3
  <2>5. Patches' = Patches /\ Vector' = Vector /\ Scenarios' = Scenarios
    BY <1>1 DEF Patches, Vector, Scenarios
  <2>6. UploadNoted'
    BY <2>4, <2>5 DEF UploadNoted, UploadReport, Patches
  <2>7. bundles = <<>>
    BY <1>1 DEF ReplayInv, NothingCompared, Intaking
  <2>8. \A n \in 1..Len(bundles') : FALSE
    BY <1>1, <2>7
  <2>. QED
    BY <1>1, <1>3, <2>4, <2>5, <2>6, <2>8, Zenon DEF CapableInv, Intaking, Validated, Compared
<1>. QED
  BY <1>1, <1>2, <1>3

(* Only a changeset with a patch makes the configset another one.          *)
LEMMA PatchKeepsCapable ==
  ASSUME CapableInv, Given, PatchTarget \/ UploadConfigset, UNCHANGED <<comparisonVars, vectorVars>>
  PROVE  CapableInv'
<1>1. /\ stage = "shadow_create" /\ stage' \in {"shadow_create", "failed"}
      /\ UNCHANGED <<settings, compat, vectorOn, targets, bundles>>
  BY DEF PatchTarget, UploadConfigset, PatchFails, Raise, Enter, Creating, KeepRun, request, comparisonVars, vectorVars
<1>2. /\ Patches' = Patches /\ UploadNoted' = UploadNoted /\ Structured' = Structured
      /\ Vector' = Vector /\ Scenarios' = Scenarios
  BY <1>1 DEF Patches, UploadNoted, Structured, Vector, Scenarios
<1>3. UploadNoted
  BY <1>1 DEF CapableInv, Later, Stages
<1>4. ~Patches => patched \in Nat /\ Len(Steps) = 0
  BY NothingToPatch DEF CapableInv
<1>5. (workspace' # settings'.files \/ configset' # settings'.files) => Patches
  <2>1. CASE PatchTarget
    <3>1. patched < Len(Steps)
      BY <2>1 DEF PatchTarget
    <3>. QED
      BY <1>4, <3>1
  <2>2. CASE UploadConfigset
    <3>1. workspace' = workspace /\ configset' \in {configset, workspace}
      BY <2>2 DEF UploadConfigset, PatchFails
    <3>2. (workspace # settings.files \/ configset # settings.files) => Patches
      BY DEF CapableInv
    <3>. QED
      BY <1>1, <3>1, <3>2
  <2>. QED
    BY <2>1, <2>2
<1>6. ~Patches' => patched' \in Nat
  <2>1. patched' \in {patched, patched + 1, Len(Steps) + 1}
    BY DEF PatchTarget, UploadConfigset, PatchFails, Raise
  <2>. QED
    BY <1>2, <1>4, <2>1
<1>7. stage \in Intaking /\ stage' \notin Outset \cup {"snapshot", "preflight"} /\ stage' \notin Validated
  BY <1>1 DEF Intaking, Outset, Validated, Compared
<1>8. /\ vectorOn = (Vector.enabled /\ Vector.scenarios # <<>>) /\ \A s \in Scenarios : targets[s] = <<>>
      /\ vectorOn \in BOOLEAN /\ targets = [s \in Scenarios |-> targets[s]]
      /\ (Vector.enabled /\ Vector.scenarios # <<>> /\ ~vectorOn => "vector" \notin compat.caps)
      /\ Len(bundles) \in Nat /\ bundles = [n \in 1..Len(bundles) |-> bundles[n]]
      /\ \A n \in 1..Len(bundles) : bundles[n].structured = Structured
  BY <1>7, Zenon DEF CapableInv
<1>. QED
  BY <1>1, <1>2, <1>3, <1>5, <1>6, <1>7, <1>8, Zenon DEF CapableInv

(* Scenarios run with the capability only.                                 *)
LEMMA VectorKeepsCapable ==
  ASSUME CapableInv, VectorNext, UNCHANGED <<intakeVars, comparisonVars>>
  PROVE  CapableInv'
<1>1. UNCHANGED <<settings, compat, workspace, configset, patched, bundles>>
  BY VectorCourse DEF request, intakeVars, shadowVars, comparisonVars
<1>2. /\ Patches' = Patches /\ UploadNoted' = UploadNoted /\ Structured' = Structured
      /\ Vector' = Vector /\ Scenarios' = Scenarios
  BY <1>1 DEF Patches, UploadNoted, Structured, Vector, Scenarios
<1>3. /\ stage' \in Later \ {"preflight"} => stage \in Later \ {"preflight"}
      /\ stage' \notin Intaking \cup {"vector_validate"}
  BY VectorCourse DEF Later, Stages, Intaking, Outset
<1>4. stage' \notin Outset \cup {"snapshot", "preflight"}
  BY <1>3 DEF Intaking
<1>5. CASE VectorValidate
  <2>1. vectorOn' = (vectorOn /\ "vector" \in compat.caps) /\ targets' = targets /\ stage = "vector_validate"
    BY <1>5 DEF VectorValidate
  <2>2. vectorOn = (Vector.enabled /\ Vector.scenarios # <<>>) /\ vectorOn \in BOOLEAN
        /\ \A s \in Scenarios : targets[s] = <<>>
    BY <2>1, Zenon DEF CapableInv
  <2>3. vectorOn' \in BOOLEAN /\ (vectorOn' => "vector" \in compat.caps)
    BY <2>1, Zenon
  <2>4. Vector.enabled /\ Vector.scenarios # <<>> /\ ~vectorOn' => "vector" \notin compat.caps
    BY <2>1, <2>2, Zenon
  <2>. QED
    BY <1>1, <1>2, <1>3, <1>4, <2>1, <2>2, <2>3, <2>4, Zenon DEF CapableInv
<1>6. CASE stage = "scenario_replay" /\ vectorOn' = vectorOn /\
           (targets' = targets \/ (Running /\ \E result : Return(result)))
  <2>2. stage \in Validated
    BY <1>6 DEF Validated, Compared
  <2>3. /\ targets' = [s \in Scenarios |-> targets'[s]]
        /\ \A s \in Scenarios : targets'[s] # <<>> => "vector" \in compat.caps
    <3>1. CASE targets' = targets
      BY <3>1 DEF CapableInv
    <3>2. CASE Running /\ \E result : Return(result)
      <4>1. "vector" \in compat.caps
        BY <2>2, <3>2 DEF Running, CapableInv
      <4>2. targets' = [s \in DOMAIN targets |-> targets'[s]]
        BY <3>2 DEF Return
      <4>3. DOMAIN targets = Scenarios
        BY Zenon DEF CapableInv
      <4>. QED
        BY <4>1, <4>2, <4>3
    <3>. QED
      BY <1>6, <3>1, <3>2
  <2>4. stage \in Validated /\ (vectorOn => "vector" \in compat.caps) /\ stage \in Later \ {"preflight"}
    BY <1>6, <2>2 DEF CapableInv, Later, Stages
  <2>. QED
    BY <1>1, <1>2, <1>3, <1>4, <1>6, <2>3, <2>4, Zenon DEF CapableInv
<1>7. VectorNext /\ ~VectorValidate => stage = "scenario_replay" /\ vectorOn' = vectorOn /\
           (targets' = targets \/ (Running /\ \E result : Return(result)))
  BY DEF VectorNext, SkipTarget, RunSingle, RunLexicalPart, RunVectorPart, CompareScenarios, Running, WithinReplay
<1>. QED
  BY <1>5, <1>6, <1>7

(* Explains are structured where they can be.                              *)
LEMMA ComparisonKeepsCapable ==
  ASSUME CapableInv, ComparisonNext, UNCHANGED <<intakeVars, vectorVars>>
  PROVE  CapableInv'
<1>1. /\ UNCHANGED <<settings, compat, workspace, configset, patched, vectorOn, targets>>
      /\ stage \in Validated /\ stage' \in Validated
  BY DEF ComparisonNext, Replay, Compare, SelectRewrites, FetchRewrite, EndRewrites, SelectExplains, FetchExplain,
         EvaluateGate, Enter, request, intakeVars, shadowVars, vectorVars, Validated, Compared
<1>2. /\ OnlyFrom(Later \ {"preflight"}) /\ OnlyFrom(Outset \cup {"snapshot", "preflight"})
      /\ OnlyFrom(Intaking \cup {"vector_validate"}) /\ OnlyFrom(Validated)
  BY <1>1 DEF OnlyFrom, Later, Stages, Outset, Intaking, Validated, Compared
<1>3. CASE bundles' = bundles
  BY <1>1, <1>2, <1>3, StaysCapable
<1>4. CASE FetchExplain
  <2>1. PICK b : b.structured = Structured /\ bundles' = Append(bundles, b)
    <3>1. PICK x, explained : bundles' = Append(bundles, [of |-> x, explained |-> explained, structured |-> Structured])
      BY <1>4 DEF FetchExplain
    <3>. QED
      BY <3>1
  <2>2. PICK n \in Nat : n = Len(bundles)
    BY DEF CapableInv
  <2>3. bundles = [m \in 1..n |-> bundles[m]] /\ \A m \in 1..n : bundles[m].structured = Structured
    BY <2>2 DEF CapableInv
  <2>4. bundles' = [m \in 1..(n + 1) |-> IF m <= n THEN bundles[m] ELSE b]
    BY <2>1, <2>3, ItemsAppend
  <2>5. bundles' = [m \in 1..(n + 1) |-> bundles'[m]] /\ n + 1 \in Nat
    BY <2>4
  <2>6. Len(bundles') = n + 1
    BY <2>5, ItemsAreSequence
  <2>7. \A m \in 1..Len(bundles') : bundles'[m].structured = Structured
    BY <2>1, <2>3, <2>4, <2>6
  <2>8. /\ UploadNoted' = UploadNoted /\ Patches' = Patches /\ Vector' = Vector /\ Scenarios' = Scenarios
        /\ Structured' = Structured
    BY <1>1 DEF UploadNoted, Patches, Vector, Scenarios, Structured
  <2>. QED
    BY <1>1, <1>2, <2>5, <2>6, <2>7, <2>8, Zenon DEF CapableInv, OnlyFrom
<1>5. FetchExplain \/ bundles' = bundles
  BY DEF ComparisonNext, Replay, Compare, SelectRewrites, FetchRewrite, EndRewrites, SelectExplains, EvaluateGate
<1>. QED
  BY <1>3, <1>4, <1>5

(* Every step of the run keeps it.                                         *)
LEMMA CapableStep ==
  ASSUME Given, SnapshotInv, ReplayInv, CapableInv, [Next]_vars
  PROVE  CapableInv'
<1>1. CASE UNCHANGED vars
  <2>1. UNCHANGED <<stage, settings, compat, workspace, configset, patched, vectorOn, targets, bundles>>
    BY <1>1 DEF vars, intakeVars, shadowVars, comparisonVars, vectorVars
  <2>. QED
    BY <2>1, StaysCapable DEF OnlyFrom
<1>2. CASE IntakeNext /\ UNCHANGED <<comparisonVars, vectorVars>>
  <2>1. SnapshotNext => SnapshotNext /\ UNCHANGED <<plugins, risks, shadowVars, taken>>
    BY <1>2 DEF IntakeNext, SnapshotNext, CaptureSnapshot, LoadSnapshot, WriteFile, DetectCompatibility, EndSnapshot,
       ValidateChangeset, InitializePlugins, RunPreflight, PatchTarget, UploadConfigset, CreateCollection, PrepareChange,
       CallSchemaApi, FinishShadow, LoadFromFile, LoadFromPlugin, ExtractFromLog, TakeRow, EndSampling, Snapshotting,
       Creating, Loading
  <2>. QED
    BY <1>2, <2>1, SnapshotKeepsCapable, PreflightKeepsCapable, PatchKeepsCapable, IntakeKeepsCapable
<1>3. CASE ComparisonNext /\ UNCHANGED <<intakeVars, vectorVars>>
  BY <1>3, ComparisonKeepsCapable
<1>4. CASE VectorNext /\ UNCHANGED <<intakeVars, comparisonVars>>
  BY <1>4, VectorKeepsCapable
<1>. QED
  BY <1>1, <1>2, <1>3, <1>4 DEF Next, Over

(* What is switched off is in the record.                                  *)
LEMMA CapableRecords ==
  ASSUME SnapshotInv, CapableInv
  PROVE  DegradationsRecorded
<1>1. SUFFICES ASSUME compat # NoCompat PROVE DegradationsRecorded
  BY DEF DegradationsRecorded
<1>. DEFINE contract == compat.contract
            shared == {"vector_hybrid", "structured_explain", "metrics_capture", "configset_upload"}
<1>2. /\ contract.disabled = DisabledFeatures(compat.caps) /\ contract.degraded = DegradedFeatures(compat.caps)
      /\ Fallbacks(compat.caps) \subseteq contract.fallbacks
  BY <1>1 DEF SnapshotInv, Reported
<1>3. contract.degraded \cap shared = contract.disabled \cap shared
  BY <1>2 DEF DisabledFeatures, DegradedFeatures, Without, MetricsSupported
<1>4. writes = <<>> =>
        Read(out, "manifest").compatibility = [contract EXCEPT !.fallbacks = @ \ {LateReport}]
  <2>1. writes = <<>> => Read(out, "manifest").compatibility = Timely(contract)
    BY <1>1 DEF SnapshotInv, Recorded, Noted, Noting
  <2>2. PICK c : c = contract
    OBVIOUS
  <2>3. c = [capabilities |-> c.capabilities, disabled |-> c.disabled, fallbacks |-> c.fallbacks,
             degraded |-> c.degraded]
    <3>1. compat = [caps     |-> compat.caps,
                    contract |-> [capabilities |-> contract.capabilities,
                                  disabled     |-> DisabledFeatures(compat.caps),
                                  fallbacks    |-> contract.fallbacks,
                                  degraded     |-> DegradedFeatures(compat.caps)]]
      BY <1>1 DEF SnapshotInv, Reported
    <3>2. c = [capabilities |-> c.capabilities,
               disabled     |-> DisabledFeatures(compat.caps),
               fallbacks    |-> c.fallbacks,
               degraded     |-> DegradedFeatures(compat.caps)]
      BY <2>2, <3>1
    <3>. QED
      BY <3>2
  <2>4. [c EXCEPT !.fallbacks = @ \ {LateReport}] = Timely(c)
    BY <2>3 DEF Timely
  <2>. QED
    BY <2>1, <2>2, <2>4
<1>5. /\ "vector_hybrid" \in contract.disabled <=> "vector" \notin compat.caps
      /\ "structured_explain" \in contract.disabled <=> "structured_explain" \notin compat.caps
      /\ "configset_upload" \in contract.disabled <=> "configset_upload" \notin compat.caps
  BY <1>2 DEF DisabledFeatures, Without
<1>6. /\ "vector" \notin compat.caps => <<"vector_hybrid", "disable_vector_scenarios">> \in contract.fallbacks
      /\ "structured_explain" \notin compat.caps => <<"structured_explain", "raw_explain_output">> \in contract.fallbacks
  BY <1>2 DEF Fallbacks, Without
<1>7. settings.explain.structured => \A n \in DOMAIN bundles :
        bundles[n].structured <=> "structured_explain" \notin contract.disabled
  BY <1>5 DEF CapableInv, Structured
<1>8. configset # settings.files /\ "configset_upload" \in contract.disabled =>
        LateReport \in contract.fallbacks
  BY <1>5 DEF CapableInv, UploadNoted, LateReport
<1>9. Vector.enabled /\ Vector.scenarios # <<>> /\ ~vectorOn =>
        <<"vector_hybrid", "disable_vector_scenarios">> \in contract.fallbacks
  BY <1>6 DEF CapableInv
<1>10. \A s \in Scenarios : targets[s] # <<>> => "vector_hybrid" \notin contract.disabled
  BY <1>5 DEF CapableInv
<1>11. ExplainFallback => <<"structured_explain", "raw_explain_output">> \in contract.fallbacks
  BY <1>6 DEF ExplainFallback, Structured
<1>. QED
  BY <1>3, <1>4, <1>7, <1>8, <1>9, <1>10, <1>11, Zenon DEF DegradationsRecorded

(* compat/capabilities.py and runtime/snapshot_compat_service.py: vectors  *)
(* are left out, and explains are raw, just where the compatibility record *)
(* disables them; a configset that is uploaded although its upload is      *)
(* disabled is reported; the manifest of the snapshot has the record, all  *)
(* of it but that report; for any baseline, probes and changeset.          *)
THEOREM DegradationsAreRecorded == Spec => []DegradationsRecorded
<1>1. Init => Given /\ SnapshotInv /\ ReplayInv /\ CapableInv
  BY InitSnapshot, InitReplay, InitCapable
<1>2. Given /\ SnapshotInv /\ ReplayInv /\ CapableInv /\ [Next]_vars
        => (Given /\ SnapshotInv /\ ReplayInv /\ CapableInv)'
  BY SnapshotStep, ReplayStep, CapableStep
<1>3. SnapshotInv /\ CapableInv => DegradationsRecorded
  BY CapableRecords
<1>. QED
  BY <1>1, <1>2, <1>3, PTL DEF Spec

-----------------------------------------------------------------------------
(* Factors of inequalities.                                                *)
LEMMA ProductsOrder ==
  ASSUME NEW p \in Int, NEW q \in Int, NEW f \in Int, f > 0
  PROVE  /\ p > q <=> p * f > q * f
         /\ p >= q <=> p * f >= q * f
OBVIOUS

Ratio == {<<n, m>> : n \in Int, m \in Nat \ {0}}

(* The greater of two ratios: products across.                             *)
LEMMA RatiosCompare ==
  ASSUME NEW x \in Ratio, NEW y \in Ratio, NEW z \in Ratio
  PROVE  /\ ~Exceeds(x, x)
         /\ ~(Exceeds(x, y) /\ Exceeds(y, x))
         /\ Exceeds(x, y) /\ ~Exceeds(z, y) => Exceeds(x, z)
         /\ ~Exceeds(y, x) /\ Exceeds(y, z) => Exceeds(x, z)
         /\ ~Exceeds(y, x) /\ ~Exceeds(z, y) => ~Exceeds(z, x)
<1>1. PICK a, b, c, d, e, f \in Int : x = <<a, b>> /\ y = <<c, d>> /\ z = <<e, f>> /\ b > 0 /\ d > 0 /\ f > 0
  BY DEF Ratio
<1>2. /\ Exceeds(x, y) <=> a * d > c * b
      /\ Exceeds(y, x) <=> c * b > a * d
      /\ Exceeds(y, z) <=> c * f > e * d
      /\ Exceeds(z, y) <=> e * d > c * f
      /\ Exceeds(x, z) <=> a * f > e * b
      /\ Exceeds(z, x) <=> e * b > a * f
      /\ Exceeds(x, x) <=> a * b > a * b
  BY <1>1 DEF Exceeds
<1>3. /\ a * d \in Int /\ c * b \in Int /\ c * f \in Int /\ e * d \in Int /\ a * f \in Int /\ e * b \in Int
      /\ a * b \in Int
  BY <1>1
<1>4. (a * d) * f = (a * f) * d /\ (c * b) * f = (c * f) * b /\ (e * d) * b = (e * b) * d
  BY <1>1
<1>5. /\ a * d > c * b <=> (a * d) * f > (c * b) * f
      /\ a * d >= c * b <=> (a * d) * f >= (c * b) * f
      /\ c * f > e * d <=> (c * f) * b > (e * d) * b
      /\ c * f >= e * d <=> (c * f) * b >= (e * d) * b
      /\ a * f > e * b <=> (a * f) * d > (e * b) * d
      /\ a * f >= e * b <=> (a * f) * d >= (e * b) * d
  BY <1>1, <1>3, ProductsOrder
<1>6. PICK u, v, w \in Int : u = (a * d) * f /\ v = (c * b) * f /\ w = (e * d) * b
  BY <1>1, <1>3
<1>. QED
  BY <1>2, <1>3, <1>4, <1>5, <1>6

(* The weighted sum of two ratios is one, and greater if both are.         *)
LEMMA SumsCompare ==
  ASSUME NEW blend, NEW wl \in Int, NEW wv \in Int, blend.weight_lexical = wl, blend.weight_vector = wv,
         NEW x \in Ratio, NEW y \in Ratio, NEW p \in Ratio, NEW q \in Ratio
  PROVE  /\ WeightedSum(blend, x, y) \in Ratio
         /\ wl >= 0 /\ wv >= 0 /\ wl + wv > 0 /\ Exceeds(x, p) /\ Exceeds(y, q) =>
              Exceeds(WeightedSum(blend, x, y), WeightedSum(blend, p, q))
<1>1. PICK a, b, c, d \in Int : x = <<a, b>> /\ y = <<c, d>> /\ b > 0 /\ d > 0
  BY DEF Ratio
<1>2. PICK e, f, g, h \in Int : p = <<e, f>> /\ q = <<g, h>> /\ f > 0 /\ h > 0
  BY DEF Ratio
<1>3. b * d \in Nat \ {0} /\ f * h \in Nat \ {0} /\ b * f > 0 /\ d * h > 0
  BY <1>1, <1>2
<1>4. WeightedSum(blend, x, y) = <<wl * a * d + wv * c * b, b * d>>
      /\ WeightedSum(blend, p, q) = <<wl * e * h + wv * g * f, f * h>>
  BY <1>1, <1>2 DEF WeightedSum
<1>5. wl * a * d + wv * c * b \in Int /\ wl * e * h + wv * g * f \in Int
  BY <1>1, <1>2
<1>6. WeightedSum(blend, x, y) \in Ratio
  BY <1>3, <1>4, <1>5 DEF Ratio
<1>7. ASSUME wl >= 0, wv >= 0, wl + wv > 0, Exceeds(x, p), Exceeds(y, q)
      PROVE  Exceeds(WeightedSum(blend, x, y), WeightedSum(blend, p, q))
  <2>1. PICK s, t \in Int : s = a * f - e * b /\ t = c * h - g * d /\ s > 0 /\ t > 0
    BY <1>1, <1>2, <1>7 DEF Exceeds
  <2>2. (wl * a * d + wv * c * b) * (f * h) - (wl * e * h + wv * g * f) * (b * d)
          = wl * (s * (d * h)) + wv * (t * (b * f))
    BY <1>1, <1>2, <2>1
  <2>3. PICK m, n \in Int : m = s * (d * h) /\ n = t * (b * f) /\ m > 0 /\ n > 0
    BY <1>1, <1>2, <1>3, <2>1
  <2>4. wl * m \in Int /\ wv * n \in Int /\ wl * m + wv * n > 0
    BY <1>7, <2>3
  <2>5. PICK i, j \in Int : i = (wl * a * d + wv * c * b) * (f * h) /\ j = (wl * e * h + wv * g * f) * (b * d)
    BY <1>3, <1>5
  <2>6. i > j
    BY <2>2, <2>3, <2>4, <2>5
  <2>. QED
    BY <1>4, <2>5, <2>6 DEF Exceeds
<1>. QED
  BY <1>6, <1>7

(* An item of a list is of its kind.                                       *)
LEMMA ItemIs ==
  ASSUME NEW S, NEW seq \in Seq(S)
  PROVE  DOMAIN seq = 1..Len(seq) /\ Len(seq) \in Nat /\ \A i \in 1..Len(seq) : seq[i] \in S
OBVIOUS

(* A scored answer has numbers for documents and scores.                   *)
LEMMA ScoredItems ==
  ASSUME NEW docs, IsScored(docs)
  PROVE  /\ DOMAIN docs = 1..Len(docs) /\ Len(docs) \in Nat
         /\ \A i \in 1..Len(docs) : docs[i].id \in Nat /\ docs[i].score \in Nat
<1>1. /\ DOMAIN docs = 1..Len(docs) /\ Len(docs) \in Nat
      /\ \A i \in 1..Len(docs) : docs[i] \in [id : Nat, score : Nat]
  BY ItemIs DEF IsScored
<1>. QED
  BY <1>1

(* Where a document of a scored answer is.                                 *)
LEMMA PositionIs ==
  ASSUME NEW docs, IsScored(docs), NEW d \in ToSet(Ids(docs))
  PROVE  /\ Position(docs, d) \in 1..Len(docs) /\ docs[Position(docs, d)].id = d
         /\ Score(docs, d) = docs[Position(docs, d)].score /\ Score(docs, d) \in Nat /\ d \in Nat
<1>1. PICK i \in DOMAIN docs : docs[i].id = d
  BY DEF ToSet, Ids
<1>2. Position(docs, d) \in DOMAIN docs /\ docs[Position(docs, d)].id = d
  BY <1>1 DEF Position
<1>. QED
  BY <1>2, ScoredItems DEF Score

(* Who is ahead comes first.                                               *)
LEMMA AheadIsFirst ==
  ASSUME NEW docs, IsScored(docs), NEW d, NEW e, Ahead(docs, d, e)
  PROVE  Position(docs, d) < Position(docs, e)
<1>1. d \in ToSet(Ids(docs)) /\ e \in ToSet(Ids(docs)) /\ Score(docs, d) > Score(docs, e)
  BY DEF Ahead
<1>2. PICK m, n : m = Position(docs, e) /\ n = Position(docs, d)
  OBVIOUS
<1>3. /\ m \in 1..Len(docs) /\ n \in 1..Len(docs) /\ docs[n].score > docs[m].score
      /\ docs[n].score \in Nat /\ docs[m].score \in Nat
  BY <1>1, <1>2, PositionIs
<1>4. docs \in Seq([id : Nat, score : Nat])
      /\ \A i, j \in 1..Len(docs) : i < j => docs[i].score >= docs[j].score
  BY DEF IsScored
<1>5. ~(m < n)
  BY <1>3, <1>4
<1>6. m # n
  BY <1>3
<1>. QED
  BY <1>2, <1>3, <1>4, <1>5, <1>6

(* A side of the blend gives every document a ratio, and a greater one to  *)
(* who is ahead.                                                           *)
Fair(side, docs) ==
  /\ \A d : Value(side, d) \in Ratio
  /\ \A d, e : Ahead(docs, d, e) => Exceeds(Value(side, d), Value(side, e))

(* The scores as they are.                                                 *)
LEMMA PlainIsFair ==
  ASSUME NEW docs, IsScored(docs), NEW missing \in Int
  PROVE  Fair(Plain(docs, missing), docs)
<1>1. PICK ids, side : ids = ToSet(Ids(docs)) /\ side = Plain(docs, missing)
  OBVIOUS
<1>2. side.absent = <<missing, 1>> /\ side.value = [d \in ids |-> <<Score(docs, d), 1>>]
  BY <1>1 DEF Plain
<1>3. \A d \in ids : Value(side, d) = <<Score(docs, d), 1>> /\ Score(docs, d) \in Nat
  BY <1>1, <1>2, PositionIs DEF Value
<1>4. \A d : d \notin ids => Value(side, d) = <<missing, 1>>
  BY <1>2 DEF Value
<1>5. \A d : Value(side, d) \in Ratio
  BY <1>3, <1>4 DEF Ratio
<1>6. ASSUME NEW d, NEW e, Ahead(docs, d, e) PROVE Exceeds(Value(side, d), Value(side, e))
  <2>1. d \in ids /\ e \in ids /\ Score(docs, d) > Score(docs, e)
    BY <1>1, <1>6 DEF Ahead
  <2>. QED
    BY <1>3, <2>1 DEF Exceeds
<1>. QED
  BY <1>1, <1>5, <1>6 DEF Fair

(* One over the rank and k.                                                *)
LEMMA ReciprocalIsFair ==
  ASSUME NEW docs, IsScored(docs), NEW k \in Nat
  PROVE  Fair(Reciprocal(docs, k), docs)
<1>1. PICK ids, side : ids = ToSet(Ids(docs)) /\ side = Reciprocal(docs, k)
  OBVIOUS
<1>2. side.absent = <<0, 1>> /\ side.value = [d \in ids |-> <<1, k + Position(docs, d)>>]
  BY <1>1 DEF Reciprocal
<1>3. \A d \in ids : Value(side, d) = <<1, k + Position(docs, d)>> /\ Position(docs, d) \in Nat \ {0}
  <2>1. \A d \in ids : Position(docs, d) \in 1..Len(docs)
    BY <1>1, PositionIs
  <2>2. \A d \in ids : Position(docs, d) \in Nat \ {0}
    BY <2>1
  <2>. QED
    BY <1>2, <2>2 DEF Value
<1>4. \A d : d \notin ids => Value(side, d) = <<0, 1>>
  BY <1>2 DEF Value
<1>5. \A d : Value(side, d) \in Ratio
  BY <1>3, <1>4 DEF Ratio
<1>6. ASSUME NEW d, NEW e, Ahead(docs, d, e) PROVE Exceeds(Value(side, d), Value(side, e))
  <2>1. d \in ids /\ e \in ids /\ Position(docs, d) < Position(docs, e)
    BY <1>1, <1>6, AheadIsFirst DEF Ahead
  <2>. QED
    BY <1>3, <2>1 DEF Exceeds
<1>. QED
  BY <1>1, <1>5, <1>6 DEF Fair

(* Where the best and the worst score of an answer are.                    *)
LEMMA ScoresRange ==
  ASSUME NEW docs, IsScored(docs), docs # <<>>, NEW scores, scores = {docs[i].score : i \in DOMAIN docs}
  PROVE  /\ Max(scores) \in Nat /\ Min(scores) \in Nat
         /\ \A d \in ToSet(Ids(docs)) : Min(scores) <= Score(docs, d) /\ Score(docs, d) <= Max(scores)
<1>1. docs \in Seq([id : Nat, score : Nat]) /\ Len(docs) \in Nat \ {0} /\ DOMAIN docs = 1..Len(docs)
      /\ \A i, j \in 1..Len(docs) : i < j => docs[i].score >= docs[j].score
  BY DEF IsScored
<1>2. PICK n \in Nat \ {0} : n = Len(docs)
  BY <1>1
<1>3. \A i \in 1..n : docs[i].score \in Nat /\ docs[i].score \in scores
  BY <1>1, <1>2, ScoredItems
<1>4. PICK first, last \in Nat : first = docs[1].score /\ last = docs[n].score
  BY <1>2, <1>3
<1>5. first \in scores /\ last \in scores
  BY <1>2, <1>3, <1>4
<1>6. \A i \in 1..n : docs[i].score <= first /\ last <= docs[i].score
  <2>1. ASSUME NEW i \in 1..n PROVE docs[i].score <= first
    <3>1. CASE i = 1
      BY <1>3, <1>4, <3>1
    <3>2. CASE 1 < i
      BY <1>1, <1>2, <1>3, <1>4, <3>2
    <3>. QED
      BY <1>2, <3>1, <3>2
  <2>2. ASSUME NEW i \in 1..n PROVE last <= docs[i].score
    <3>1. CASE i = n
      BY <1>3, <1>4, <3>1
    <3>2. CASE i < n
      BY <1>1, <1>2, <1>3, <1>4, <3>2
    <3>. QED
      BY <1>2, <3>1, <3>2
  <2>. QED
    BY <2>1, <2>2
<1>7. \A x \in scores : x <= first /\ last <= x /\ x \in Nat
  BY <1>1, <1>2, <1>3, <1>6
<1>8. Max(scores) \in scores /\ \A x \in scores : Max(scores) >= x
  <2>1. \E x \in scores : \A y \in scores : x >= y
    BY <1>4, <1>5, <1>7
  <2>. QED
    BY <2>1, Zenon DEF Max
<1>9. Min(scores) \in scores /\ \A x \in scores : Min(scores) <= x
  <2>1. \E x \in scores : \A y \in scores : x <= y
    BY <1>4, <1>5, <1>7
  <2>. QED
    BY <2>1, Zenon DEF Min
<1>10. \A d \in ToSet(Ids(docs)) : Score(docs, d) \in scores
  BY <1>2, <1>3, PositionIs
<1>. QED
  BY <1>7, <1>8, <1>9, <1>10

(* The scores between their least and their greatest.                      *)
LEMMA MinMaxIsFair ==
  ASSUME NEW docs, IsScored(docs), docs # <<>>, NEW missing \in Int
  PROVE  Fair(MinMax(docs, missing), docs)
<1>1. PICK ids, side : ids = ToSet(Ids(docs)) /\ side = MinMax(docs, missing)
  OBVIOUS
<1>2. PICK scores : scores = {docs[i].score : i \in DOMAIN docs}
  OBVIOUS
<1>3. PICK lo, hi \in Nat : lo = Min(scores) /\ hi = Max(scores)
  BY <1>2, ScoresRange
<1>4. \A d \in ids : Score(docs, d) \in Nat /\ lo <= Score(docs, d) /\ Score(docs, d) <= hi
  BY <1>1, <1>2, <1>3, ScoresRange, PositionIs
<1>5. side.absent = <<missing, 1>>
      /\ side.value = [d \in ids |-> IF hi - lo = 0 THEN <<1, 1>> ELSE <<Score(docs, d) - lo, hi - lo>>]
  BY <1>1, <1>2, <1>3 DEF MinMax
<1>6. \A d \in ids : Value(side, d) = IF hi - lo = 0 THEN <<1, 1>> ELSE <<Score(docs, d) - lo, hi - lo>>
  BY <1>5 DEF Value
<1>7. \A d : d \notin ids => Value(side, d) = <<missing, 1>>
  BY <1>5 DEF Value
<1>8. ASSUME NEW d \in ids PROVE Value(side, d) \in Ratio
  <2>1. hi - lo = 0 \/ hi - lo \in Nat \ {0}
    BY <1>3, <1>4
  <2>2. Score(docs, d) - lo \in Int
    BY <1>4
  <2>. QED
    BY <1>6, <2>1, <2>2 DEF Ratio
<1>9. \A d : Value(side, d) \in Ratio
  BY <1>7, <1>8 DEF Ratio
<1>10. ASSUME NEW d, NEW e, Ahead(docs, d, e) PROVE Exceeds(Value(side, d), Value(side, e))
  <2>1. d \in ids /\ e \in ids /\ Score(docs, d) > Score(docs, e)
    BY <1>1, <1>10 DEF Ahead
  <2>2. PICK x, y, f \in Int : x = Score(docs, d) - lo /\ y = Score(docs, e) - lo /\ f = hi - lo /\ x > y /\ f > 0
    BY <1>3, <1>4, <2>1
  <2>3. Value(side, d) = <<x, f>> /\ Value(side, e) = <<y, f>>
    BY <1>6, <2>1, <2>2
  <2>4. x * f > y * f
    BY <2>2, ProductsOrder
  <2>. QED
    BY <2>3, <2>4 DEF Exceeds
<1>. QED
  BY <1>1, <1>9, <1>10 DEF Fair

(* Both sides of every blend are fair.                                     *)
LEMMA SidesAreFair ==
  ASSUME NEW l, NEW v, IsScored(l), IsScored(v), NEW blend, IsBlend(blend)
  PROVE  Fair(Sides(l, v, blend)[1], l) /\ Fair(Sides(l, v, blend)[2], v)
<1>1. PICK ml, mv \in Int, k \in Nat : ml = blend.missing_lexical /\ mv = blend.missing_vector /\ k = blend.rrf_k
  BY DEF IsBlend
<1>2. Fair(Normalized(l, blend.normalize, ml), l) /\ Fair(Normalized(v, blend.normalize, mv), v)
  BY <1>1, PlainIsFair, MinMaxIsFair DEF Normalized
<1>3. CASE blend.method = "rrf"
  BY <1>1, <1>3, ReciprocalIsFair DEF Sides
<1>4. CASE blend.method = "normalize_linear"
  BY <1>1, <1>2, <1>4 DEF Sides
<1>5. CASE blend.method \notin {"rrf", "normalize_linear"}
  BY <1>1, <1>5, PlainIsFair DEF Sides
<1>. QED
  BY <1>3, <1>4, <1>5

(* An order of the documents of a blend: each of them once, and none       *)
(* before one with a greater score.                                        *)
Ordered(order, ids, score) ==
  /\ order \in Seq(ids) /\ Len(order) = Cardinality(ids) /\ ToSet(order) = ids
  /\ \A i, j \in 1..Len(order) : i < j => order[i] # order[j] /\ ~Exceeds(score[order[j]], score[order[i]])

(* A permutation that puts no greater score behind is such an order.       *)
LEMMA OrderIs ==
  ASSUME NEW ids, IsFiniteSet(ids), NEW score, NEW order \in SetToSeqs(ids),
         \A i, j \in DOMAIN order : i < j => ~Exceeds(score[order[j]], score[order[i]])
  PROVE  Ordered(order, ids, score)
<1>1. PICK n \in Nat : n = Cardinality(ids)
  BY FS_CardinalityType
<1>2. order \in [1..n -> ids] /\ \A i, j \in 1..n : i # j => order[i] # order[j]
  BY <1>1, Zenon DEF SetToSeqs
<1>3. order \in Seq(ids) /\ Len(order) = n /\ DOMAIN order = 1..n
  BY <1>2
<1>4. order \in Injection(1..n, ids)
  BY <1>2 DEF Injection, IsInjective
<1>5. order \in Surjection(1..n, ids)
  <2>1. Cardinality(1..n) = n
    BY FS_Interval
  <2>. QED
    BY <1>1, <1>4, <2>1, FS_Injection
<1>6. ToSet(order) = ids
  <2>1. \A d \in ids : \E p \in 1..n : order[p] = d
    BY <1>5 DEF Surjection
  <2>2. \A p \in 1..n : order[p] \in ids
    BY <1>2
  <2>3. \A d : d \in ToSet(order) <=> \E p \in 1..n : order[p] = d
    BY <1>3, ToSetIs
  <2>. QED
    BY <2>1, <2>2, <2>3
<1>7. \A i, j \in 1..n : i < j => order[i] # order[j] /\ ~Exceeds(score[order[j]], score[order[i]])
  <2>1. \A i, j \in 1..n : i < j => i # j
    OBVIOUS
  <2>. QED
    BY <1>2, <1>3, <2>1
<1>. QED
  BY <1>1, <1>3, <1>6, <1>7, Zenon DEF Ordered

(* Of two orders by the same scores neither has, at any place, a document  *)
(* with a greater score: all that the one has up to there would have to be *)
(* before that place of the other.                                         *)
LEMMA OrdersAgree ==
  ASSUME NEW ids, NEW score \in [ids -> Ratio], NEW x, NEW y, Ordered(x, ids, score), Ordered(y, ids, score),
         NEW p \in 1..Len(x)
  PROVE  ~Exceeds(score[x[p]], score[y[p]])
<1>1. PICK n \in Nat : n = Len(x) /\ n = Len(y)
  BY DEF Ordered
<1>2. /\ x \in Seq(ids) /\ y \in Seq(ids) /\ ToSet(y) = ids /\ p \in 1..n
      /\ \A i \in 1..n : x[i] \in ids /\ y[i] \in ids
  BY <1>1 DEF Ordered
<1>. SUFFICES ASSUME Exceeds(score[x[p]], score[y[p]])
     PROVE  FALSE
  OBVIOUS
<1>3. ASSUME NEW i \in 1..p PROVE \E q \in 1..(p - 1) : y[q] = x[i]
  <2>1. i \in 1..n
    BY <1>2
  <2>2. PICK a, b, c \in Ratio : a = score[x[i]] /\ b = score[x[p]] /\ c = score[y[p]]
    BY <1>2, <2>1
  <2>3. ~Exceeds(b, a)
    <3>1. CASE i = p
      BY <2>2, <3>1, RatiosCompare
    <3>2. CASE i < p
      BY <1>1, <1>2, <2>1, <2>2, <3>2 DEF Ordered
    <3>. QED
      BY <3>1, <3>2
  <2>4. Exceeds(a, c)
    BY <2>2, <2>3, RatiosCompare
  <2>5. PICK q \in 1..n : y[q] = x[i]
    BY <1>1, <1>2, <2>1, ToSetIs
  <2>6. ~(p < q)
    BY <1>1, <1>2, <2>2, <2>4, <2>5 DEF Ordered
  <2>7. p # q
    BY <2>2, <2>4, <2>5, RatiosCompare
  <2>8. q \in 1..(p - 1)
    BY <2>6, <2>7
  <2>. QED
    BY <2>5, <2>8
<1>4. PICK f : f = [i \in 1..p |-> CHOOSE q \in 1..(p - 1) : y[q] = x[i]]
  OBVIOUS
<1>5. \A i \in 1..p : f[i] \in 1..(p - 1) /\ y[f[i]] = x[i]
  BY <1>3, <1>4
<1>6. f \in [1..p -> 1..(p - 1)]
  BY <1>4, <1>5
<1>7. \A i, j \in 1..p : f[i] = f[j] => i = j
  <2>1. SUFFICES ASSUME NEW i \in 1..p, NEW j \in 1..p, f[i] = f[j], i # j PROVE FALSE
    OBVIOUS
  <2>2. x[i] = x[j] /\ i \in 1..n /\ j \in 1..n /\ (i < j \/ j < i)
    BY <1>2, <1>5, <2>1
  <2>. QED
    BY <1>1, <2>2 DEF Ordered
<1>8. f \in Injection(1..p, 1..(p - 1))
  BY <1>6, <1>7 DEF Injection, IsInjective
<1>9. p \in Int /\ p - 1 \in Int /\ 1 \in Int /\ 1 <= p
  BY <1>2
<1>10. /\ IsFiniteSet(1..(p - 1)) /\ Cardinality(1..p) = p - 1 + 1
       /\ Cardinality(1..(p - 1)) = IF 1 > p - 1 THEN 0 ELSE (p - 1) - 1 + 1
  <2>1. PICK one \in Int, m \in Int : one = 1 /\ m = p - 1
    BY <1>9
  <2>2. /\ IsFiniteSet(one..m) /\ Cardinality(one..m) = IF one > m THEN 0 ELSE m - one + 1
        /\ Cardinality(one..p) = IF one > p THEN 0 ELSE p - one + 1
    BY <1>9, FS_Interval
  <2>. QED
    BY <1>9, <2>1, <2>2
<1>11. Cardinality(1..p) <= Cardinality(1..(p - 1))
  BY <1>8, <1>10, FS_Injection
<1>. QED
  BY <1>9, <1>10, <1>11

(* The first n of the first n are all of them.                             *)
LEMMA FirstOfFirst ==
  ASSUME NEW S, NEW seq \in Seq(S), NEW n \in Nat
  PROVE  /\ FirstOf(FirstOf(seq, n), n) = FirstOf(seq, n)
         /\ Len(seq) >= n => Len(FirstOf(seq, n)) = n
<1>1. PICK m \in Nat : m = (IF Len(seq) < n THEN Len(seq) ELSE n) /\ m <= Len(seq) /\ m <= n
  OBVIOUS
<1>2. PICK first : first = SubSeq(seq, 1, m)
  OBVIOUS
<1>3. first = FirstOf(seq, n)
  BY <1>1, <1>2, Zenon DEF FirstOf
<1>4. first \in Seq(S) /\ Len(first) = m
  BY <1>1, <1>2
<1>5. SubSeq(first, 1, m) = first
  BY <1>4
<1>6. FirstOf(first, n) = first
  <2>1. (IF Len(first) < n THEN Len(first) ELSE n) = m
    BY <1>1, <1>4
  <2>. QED
    BY <1>5, <2>1, Zenon DEF FirstOf
<1>. QED
  BY <1>1, <1>3, <1>4, <1>6

(* The first of a scored answer are one.                                   *)
LEMMA FirstOfScored ==
  ASSUME NEW docs, IsScored(docs), NEW n \in Nat, NEW first, first = FirstOf(docs, n)
  PROVE  IsScored(first) /\ FirstOf(first, n) = first
<1>1. PICK S : S = [id : Nat, score : Nat]
  OBVIOUS
<1>2. docs \in Seq(S) /\ DOMAIN docs = 1..Len(docs)
  BY <1>1 DEF IsScored
<1>3. /\ first \in Seq(S) /\ DOMAIN first = 1..Len(first)
      /\ \A i \in 1..Len(first) : i \in 1..Len(docs) /\ first[i] = docs[i]
  BY <1>2, FirstOfType
<1>4. \A i, j \in DOMAIN first : i < j => first[i].id # first[j].id /\ first[i].score >= first[j].score
  BY <1>2, <1>3 DEF IsScored
<1>5. IsScored(first)
  BY <1>1, <1>3, <1>4 DEF IsScored
<1>6. FirstOf(first, n) = first
  BY <1>2, FirstOfFirst
<1>. QED
  BY <1>5, <1>6

(* The documents of a scored answer are finitely many numbers.             *)
LEMMA IdsAreNumbers ==
  ASSUME NEW docs, IsScored(docs)
  PROVE  ToSet(Ids(docs)) \subseteq Nat /\ IsFiniteSet(ToSet(Ids(docs)))
<1>1. PICK ids : ids = Ids(docs)
  OBVIOUS
<1>2. ids = [i \in 1..Len(docs) |-> docs[i].id] /\ Len(docs) \in Nat /\ \A i \in 1..Len(docs) : docs[i].id \in Nat
  BY <1>1, ScoredItems DEF Ids
<1>3. ids \in Seq(Nat)
  BY <1>2
<1>. QED
  BY <1>1, <1>3, RangeFinite

(* The first of an order: whatever has a greater score than one that is in *)
(* is in, and ranks before it.                                             *)
LEMMA OrderFirst ==
  ASSUME NEW ids, IsFiniteSet(ids), NEW score, NEW order, Ordered(order, ids, score), NEW n \in Nat,
         NEW docs, docs = FirstOf(order, n)
  PROVE  /\ Cardinality(ids) >= n => Len(docs) = n
         /\ \A i \in 1..Len(docs) : i \in 1..Len(order) /\ docs[i] = order[i]
         /\ \A d \in ids, e \in ToSet(docs) : Exceeds(score[d], score[e]) /\ d # e =>
              d \in ToSet(docs) /\ Rank(docs, d) < Rank(docs, e)
<1>1. PICK c \in Nat : c = Cardinality(ids)
  BY FS_CardinalityType
<1>2. /\ order \in Seq(ids) /\ Len(order) = c /\ ToSet(order) = ids
      /\ \A i, j \in 1..c : i < j => order[i] # order[j] /\ ~Exceeds(score[order[j]], score[order[i]])
  BY <1>1 DEF Ordered
<1>3. /\ docs \in Seq(ids) /\ \A i \in 1..Len(docs) : i \in 1..c /\ docs[i] = order[i]
      /\ \A i \in 1..c : i <= n => i \in 1..Len(docs)
  <2>1. order \in Seq(ids) /\ n \in Int
    BY <1>2
  <2>2. /\ docs \in Seq(ids) /\ \A i \in 1..Len(docs) : i \in 1..Len(order) /\ docs[i] = order[i]
        /\ \A i \in 1..Len(order) : i <= n => i \in 1..Len(docs)
    BY <2>1, FirstOfType, Zenon
  <2>. QED
    BY <1>2, <2>2
<1>4. Len(docs) <= n /\ (c >= n => Len(docs) = n)
  BY <1>2, FirstOfLength, FirstOfFirst
<1>5. ASSUME NEW d \in ids, NEW e \in ToSet(docs), Exceeds(score[d], score[e]), d # e
      PROVE  d \in ToSet(docs) /\ Rank(docs, d) < Rank(docs, e)
  <2>1. PICK i \in 1..c : order[i] = d
    BY <1>2, ToSetIs
  <2>2. PICK j, j1 : j = Rank(docs, e) /\ j1 = Rank(docs, d)
    OBVIOUS
  <2>3. j \in 1..Len(docs) /\ docs[j] = e
    BY <1>3, <2>2, RankIs
  <2>4. j \in 1..c /\ order[j] = e /\ j <= n
    BY <1>3, <1>4, <2>3
  <2>5. i < j
    BY <1>2, <1>5, <2>1, <2>4
  <2>6. i \in 1..Len(docs) /\ docs[i] = d
    BY <1>3, <2>1, <2>4, <2>5
  <2>7. d \in ToSet(docs)
    BY <1>3, <2>6, ToSetIs
  <2>8. j1 \in 1..Len(docs) /\ docs[j1] = d
    BY <1>3, <2>2, <2>7, RankIs
  <2>9. j1 \in 1..c /\ order[j1] = d
    BY <1>3, <2>8
  <2>10. j1 < j
    BY <1>2, <1>5, <2>4, <2>9
  <2>. QED
    BY <2>2, <2>7, <2>10
<1>. QED
  BY <1>1, <1>2, <1>3, <1>4, <1>5

(* The scores that decide about a blend.                                   *)
Scores(l, v, blend, pool) == BlendScores(BlendValues(l, v, blend, pool), blend)
Blending(l, v) == ToSet(Ids(l)) \cup ToSet(Ids(v))

(* They are ratios, greater for whoever is ahead in both answers.          *)
LEMMA ScoresAre ==
  ASSUME NEW l, NEW v, IsScored(l), IsScored(v), NEW blend, IsBlend(blend), NEW pool,
         FirstOf(l, pool) = l, FirstOf(v, pool) = v, NEW score, score = Scores(l, v, blend, pool)
  PROVE  /\ Blending(l, v) \subseteq Nat /\ IsFiniteSet(Blending(l, v))
         /\ score \in [Blending(l, v) -> Ratio] /\ DOMAIN BlendValues(l, v, blend, pool) = Blending(l, v)
         /\ blend.weight_lexical >= 0 /\ blend.weight_vector >= 0 /\ blend.weight_lexical + blend.weight_vector > 0 =>
              \A d, e : Ahead(l, d, e) /\ Ahead(v, d, e) => d # e /\ d \in Blending(l, v) /\ Exceeds(score[d], score[e])
<1>1. PICK one, two : one = Sides(l, v, blend)[1] /\ two = Sides(l, v, blend)[2]
  OBVIOUS
<1>2. Fair(one, l) /\ Fair(two, v)
  BY <1>1, SidesAreFair
<1>3. PICK ids : ids = Blending(l, v)
  OBVIOUS
<1>4. ids \subseteq Nat /\ IsFiniteSet(ids)
  <2>1. PICK A, B : A = ToSet(Ids(l)) /\ B = ToSet(Ids(v))
    OBVIOUS
  <2>2. A \subseteq Nat /\ B \subseteq Nat /\ IsFiniteSet(A) /\ IsFiniteSet(B)
    BY <2>1, IdsAreNumbers
  <2>3. IsFiniteSet(A \cup B)
    BY <2>2, FS_Union
  <2>. QED
    BY <1>3, <2>1, <2>2, <2>3 DEF Blending
<1>5. BlendValues(l, v, blend, pool) = [d \in ids |-> <<Value(one, d), Value(two, d)>>]
  BY <1>1, <1>3, Zenon DEF BlendValues, Blending
<1>6. score = [d \in ids |-> WeightedSum(blend, Value(one, d), Value(two, d))]
  BY <1>5 DEF Scores, BlendScores
<1>7. PICK wl, wv \in Int : wl = blend.weight_lexical /\ wv = blend.weight_vector
  BY DEF IsBlend
<1>8. score \in [ids -> Ratio]
  <2>1. \A d \in ids : WeightedSum(blend, Value(one, d), Value(two, d)) \in Ratio
    BY <1>2, <1>7, SumsCompare DEF Fair
  <2>. QED
    BY <1>6, <2>1
<1>9. ASSUME wl >= 0, wv >= 0, wl + wv > 0, NEW d, NEW e, Ahead(l, d, e), Ahead(v, d, e)
      PROVE  d # e /\ d \in ids /\ Exceeds(score[d], score[e])
  <2>1. d \in ids /\ e \in ids
    BY <1>3, <1>9 DEF Ahead, Blending
  <2>2. Exceeds(Value(one, d), Value(one, e)) /\ Exceeds(Value(two, d), Value(two, e))
        /\ \A x \in {d, e} : Value(one, x) \in Ratio /\ Value(two, x) \in Ratio
    BY <1>2, <1>9 DEF Fair
  <2>3. Exceeds(WeightedSum(blend, Value(one, d), Value(two, d)), WeightedSum(blend, Value(one, e), Value(two, e)))
    BY <1>7, <1>9, <2>2, SumsCompare
  <2>4. Exceeds(score[d], score[e])
    BY <1>6, <2>1, <2>3
  <2>5. d # e
    BY <1>8, <2>1, <2>4, RatiosCompare
  <2>. QED
    BY <2>1, <2>4, <2>5
<1>. QED
  BY <1>3, <1>4, <1>5, <1>7, <1>8, <1>9

(* A ranking of a blend is the first of an order.                          *)
LEMMA RankingIs ==
  ASSUME NEW l, NEW v, IsScored(l), IsScored(v), NEW blend, IsBlend(blend), NEW topK, NEW pool,
         FirstOf(l, pool) = l, FirstOf(v, pool) = v, NEW docs \in BlendRankings(l, v, blend, topK, pool)
  PROVE  \E order : Ordered(order, Blending(l, v), Scores(l, v, blend, pool)) /\ docs = FirstOf(order, topK)
<1>1. PICK values, score, ids : /\ values = BlendValues(l, v, blend, pool) /\ score = Scores(l, v, blend, pool)
                                /\ ids = Blending(l, v)
  OBVIOUS
<1>2. DOMAIN values = ids /\ IsFiniteSet(ids) /\ score = BlendScores(values, blend)
  BY <1>1, ScoresAre DEF Scores
<1>3. PICK order \in SetToSeqs(ids) :
        /\ docs = FirstOf(order, topK)
        /\ \A i, j \in DOMAIN order : i < j => ~Exceeds(score[order[j]], score[order[i]])
  <2>1. PICK order \in {o \in SetToSeqs(DOMAIN values) :
                           \A i, j \in DOMAIN o : i < j =>
                             /\ ~Exceeds(score[o[j]], score[o[i]])
                             /\ values[o[i]] = values[o[j]] => \A m \in i..(j - 1) : o[m] < o[m + 1]} :
          docs = FirstOf(order, topK)
    BY <1>1, <1>2, Zenon DEF BlendRankings
  <2>. QED
    BY <1>2, <2>1
<1>. QED
  BY <1>1, <1>2, <1>3, OrderIs

(* vector/blend.py: the blend of two scored answers is as long as it can   *)
(* be, and whoever is ahead in both is ahead in it.                        *)
LEMMA BlendIs ==
  ASSUME NEW l, NEW v, IsScored(l), IsScored(v), NEW blend, IsBlend(blend), NEW topK \in Nat, NEW pool,
         FirstOf(l, pool) = l, FirstOf(v, pool) = v, NEW docs \in BlendRankings(l, v, blend, topK, pool)
  PROVE  /\ Cardinality(ToSet(Ids(l)) \cup ToSet(Ids(v))) >= topK => Len(docs) = topK
         /\ blend.weight_lexical >= 0 /\ blend.weight_vector >= 0 /\ blend.weight_lexical + blend.weight_vector > 0 =>
              \A d, e : Ahead(l, d, e) /\ Ahead(v, d, e) /\ e \in ToSet(docs) =>
                d \in ToSet(docs) /\ Rank(docs, d) < Rank(docs, e)
<1>1. PICK ids, score : ids = Blending(l, v) /\ score = Scores(l, v, blend, pool)
  OBVIOUS
<1>2. PICK order : Ordered(order, ids, score) /\ docs = FirstOf(order, topK)
  BY <1>1, RankingIs
<1>3. IsFiniteSet(ids)
  BY <1>1, ScoresAre
<1>4. /\ Cardinality(ids) >= topK => Len(docs) = topK
      /\ \A d \in ids, e \in ToSet(docs) : Exceeds(score[d], score[e]) /\ d # e =>
           d \in ToSet(docs) /\ Rank(docs, d) < Rank(docs, e)
  BY <1>2, <1>3, OrderFirst
<1>5. blend.weight_lexical >= 0 /\ blend.weight_vector >= 0 /\ blend.weight_lexical + blend.weight_vector > 0 =>
        \A d, e : Ahead(l, d, e) /\ Ahead(v, d, e) => d # e /\ d \in ids /\ Exceeds(score[d], score[e])
  BY <1>1, ScoresAre
<1>. QED
  BY <1>1, <1>4, <1>5, Zenon DEF Blending

(* Two rankings of one blend are as long as each other, and what the one   *)
(* has at a place scores just what the other has there.                    *)
LEMMA BlendsAgree ==
  ASSUME NEW l, NEW v, IsScored(l), IsScored(v), NEW blend, IsBlend(blend), NEW topK \in Nat, NEW pool,
         FirstOf(l, pool) = l, FirstOf(v, pool) = v, NEW x \in BlendRankings(l, v, blend, topK, pool),
         NEW y \in BlendRankings(l, v, blend, topK, pool), NEW score, score = Scores(l, v, blend, pool)
  PROVE  /\ Len(x) = Len(y)
         /\ \A p \in DOMAIN x : ~Exceeds(score[x[p]], score[y[p]]) /\ ~Exceeds(score[y[p]], score[x[p]])
<1>1. PICK ids : ids = Blending(l, v)
  OBVIOUS
<1>2. PICK ox : Ordered(ox, ids, score) /\ x = FirstOf(ox, topK)
  BY <1>1, RankingIs
<1>3. PICK oy : Ordered(oy, ids, score) /\ y = FirstOf(oy, topK)
  BY <1>1, RankingIs
<1>4. IsFiniteSet(ids) /\ score \in [ids -> Ratio]
  BY <1>1, ScoresAre
<1>5. ox \in Seq(ids) /\ oy \in Seq(ids) /\ Len(ox) = Len(oy)
  BY <1>2, <1>3 DEF Ordered
<1>6. x \in Seq(ids) /\ y \in Seq(ids)
  BY <1>2, <1>3, <1>5, FirstOfType
<1>7. Len(x) = Len(y)
  <2>1. PICK n \in Nat : n = Len(ox) /\ n = Len(oy)
    BY <1>5
  <2>2. PICK m : m = IF n < topK THEN n ELSE topK
    OBVIOUS
  <2>3. x = SubSeq(ox, 1, m) /\ y = SubSeq(oy, 1, m)
    BY <1>2, <1>3, <2>1, <2>2, Zenon DEF FirstOf
  <2>4. m \in Nat
    BY <2>1, <2>2
  <2>. QED
    BY <1>5, <2>3, <2>4
<1>8. ASSUME NEW p \in DOMAIN x
      PROVE  ~Exceeds(score[x[p]], score[y[p]]) /\ ~Exceeds(score[y[p]], score[x[p]])
  <2>1. p \in 1..Len(x) /\ p \in 1..Len(y)
    BY <1>6, <1>7
  <2>2. p \in 1..Len(ox) /\ p \in 1..Len(oy) /\ x[p] = ox[p] /\ y[p] = oy[p]
    BY <1>2, <1>3, <1>4, <2>1, OrderFirst
  <2>3. ~Exceeds(score[ox[p]], score[oy[p]])
    BY <1>2, <1>3, <1>4, <2>2, OrdersAgree
  <2>4. ~Exceeds(score[oy[p]], score[ox[p]])
    BY <1>2, <1>3, <1>4, <2>2, OrdersAgree
  <2>. QED
    BY <2>2, <2>3, <2>4
<1>. QED
  BY <1>7, <1>8

-----------------------------------------------------------------------------
(* The query that result n of a scenario is about.                         *)
CaseOf(n) == cases[(n + 1) \div 2]

(* A result says of the vector of its query what is so, the blend of a     *)
(* hybrid is that of the answers it has kept, and a hybrid that reports no *)
(* error has kept two.                                                     *)
IsWhole(result) == result.inputs \in Answered(Vector.lexical) \X Answered(Vector.vector)

TrueResult(scenario, case, result) ==
  /\ ClientHybrid(scenario, case) /\ ~result.error /\ ~result.skipped => IsWhole(result)
  /\ result.skipped => NeedsVector(scenario, case) /\ ~HasVector(case)
  /\ ~result.skipped /\ NeedsVector(scenario, case) => HasVector(case)
  /\ result.inputs # <<>> =>
       /\ IsWhole(result)
       /\ result.docs \in BlendRankings(result.inputs[1], result.inputs[2], scenario.blend, TopK, Pool)

(* The results of each scenario, up to both of every query.                *)
ResultsInv ==
  \A s \in Scenarios :
    /\ \E k \in 0..(2 * Len(cases)) : targets[s] = [n \in 1..k |-> targets[s][n]]
    /\ \A n \in DOMAIN targets[s] : TrueResult(Vector.scenarios[s], CaseOf(n), targets[s][n])
    /\ targets[s] # <<>> => ~BlockRun

(* What a hybrid has of its lexical half, and what has been analyzed.      *)
HalfInv ==
  lexicalPart # <<>> =>
    /\ stage = "scenario_replay" /\ vectorOn /\ Current \in Scenarios
    /\ ClientHybrid(Scenario, Case) /\ HasVector(Case)
    /\ lexicalPart[1] \in Execute(Vector.lexical, Pool)

FailuresOf(s) == Cardinality({n \in DOMAIN targets[s] : targets[s][n].error})
Analyzed == sensitivity # <<>> \/ summaries # <<>>
Analyses == Selections([s \in Scenarios |-> Sensitivities(s)])

AnalyzedInv ==
  /\ Analyzed =>
       /\ stage \in Compared \ {"scenario_replay"}
       /\ \A s \in Scenarios : ~(Len(targets[s]) < 2 * Len(cases))
  /\ sensitivity # <<>> => sensitivity \in Analyses
  /\ summaries # <<>> => \A s \in Scenarios : summaries[s].failures = FailuresOf(s)

(* The inductive invariant of the scenarios.                               *)
ScenarioInv ==
  /\ ResultsInv /\ HalfInv /\ AnalyzedInv
  /\ stage \in Validated /\ vectorOn => ~BlockRun

(* No results are a list of none.                                          *)
LEMMA NoResults ==
  ASSUME Len(cases) \in Nat, \A s \in Scenarios : targets[s] = <<>>
  PROVE  ResultsInv
<1>1. 0 \in 0..(2 * Len(cases))
  OBVIOUS
<1>2. \A s \in Scenarios : targets[s] = [n \in 1..0 |-> targets[s][n]] /\ DOMAIN targets[s] = {}
  OBVIOUS
<1>. QED
  BY <1>1, <1>2, Zenon DEF ResultsInv

(* It holds at the start.                                                  *)
LEMMA InitScenarios ==
  ASSUME Init
  PROVE  ScenarioInv
<1>1. /\ stage = "validate" /\ cases = <<>> /\ \A s \in Scenarios : targets[s] = <<>>
      /\ lexicalPart = <<>> /\ ~Analyzed
  BY DEF Analyzed, Init, IntakeInit, VectorInit
<1>2. ResultsInv
  BY <1>1, NoResults
<1>. QED
  BY <1>1, <1>2 DEF ScenarioInv, HalfInv, AnalyzedInv, Analyzed, Validated, Compared

(* The scenario the replay has come to is the first that lacks a result;   *)
(* where there is none, none lacks any.                                    *)
LEMMA CurrentLacks ==
  ASSUME Given
  PROVE  /\ Current \in Scenarios => Len(targets[Current]) < 2 * Len(cases)
         /\ Current \notin Scenarios => \A s \in Scenarios : ~(Len(targets[s]) < 2 * Len(cases))
<1>1. PICK n \in Nat : n = Len(Vector.scenarios) /\ Scenarios = 1..n
  <2>1. IsList(Vector.scenarios)
    BY WellFormedSettings DEF WellFormed, Vector
  <2>2. PICK seq, S : seq = Vector.scenarios /\ seq \in Seq(S)
    BY <2>1 DEF IsList
  <2>. QED
    BY <2>2 DEF Scenarios
<1>. DEFINE lacking == {s \in Scenarios : Len(targets[s]) < 2 * Len(cases)}
            T == lacking \cup {n + 1}
<1>2. Current = Min(T)
  BY <1>1 DEF Current
<1>3. T \subseteq Nat /\ T # {}
  BY <1>1
<1>4. Min(T) \in T /\ \A y \in T : Min(T) <= y
  <2>. HIDE DEF T
  <2>1. \E x \in T : \A y \in T : x <= y
    BY <1>3, LeastNumber
  <2>. QED
    BY <2>1, Zenon DEF Min
<1>5. n + 1 \notin Scenarios /\ \A s \in Scenarios : ~(n + 1 <= s)
  BY <1>1
<1>. QED
  BY <1>2, <1>4, <1>5

(* What validation finds depends on the settings and the cases only.       *)
LEMMA FoundAgain ==
  ASSUME UNCHANGED <<settings, cases>>
  PROVE  /\ Vector' = Vector /\ Scenarios' = Scenarios /\ TopK' = TopK /\ Pool' = Pool
         /\ BlockRun' = BlockRun
         /\ \A sc, c, r : TrueResult(sc, c, r)' = TrueResult(sc, c, r)
<1>1. Vector' = Vector /\ Scenarios' = Scenarios /\ TopK' = TopK
  BY DEF Vector, Scenarios, TopK
<1>2. Pool' = Pool
  BY <1>1 DEF Pool
<1>3. Expected' = Expected
  BY <1>1 DEF Expected
<1>4. Queries' = Queries /\ MissingVectors' = MissingVectors
  BY DEF MissingVectors, Queries
<1>5. WrongDimension' = WrongDimension
  BY <1>3, <1>4 DEF WrongDimension
<1>6. BlockRun' = BlockRun
  BY <1>1, <1>4, <1>5 DEF BlockRun
<1>7. \A sc, c, r : TrueResult(sc, c, r)' = TrueResult(sc, c, r)
  <2>1. \A r : IsWhole(r)' = IsWhole(r)
    BY <1>1, <1>2 DEF IsWhole, Answered
  <2>. QED
    BY <1>1, <1>2, <2>1 DEF TrueResult
<1>. QED
  BY <1>1, <1>2, <1>6, <1>7

(* What none of this depends on may change.                                *)
LEMMA ScenariosStay ==
  ASSUME ScenarioInv, UNCHANGED <<settings, cases, targets, vectorOn, lexicalPart, sensitivity, summaries>>,
         stage' \in Validated => stage \in Validated,
         lexicalPart # <<>> => stage' = "scenario_replay",
         Analyzed => stage' \in Compared \ {"scenario_replay"}
  PROVE  ScenarioInv'
<1>1. ResultsInv'
  BY FoundAgain DEF ScenarioInv, ResultsInv, CaseOf
<1>2. HalfInv'
  <2>1. Execute(Vector.lexical, Pool)' = Execute(Vector.lexical, Pool)
    BY FoundAgain DEF Execute
  <2>. QED
    BY <2>1 DEF ScenarioInv, HalfInv, Current, Scenario, Case, Scenarios, Vector
<1>3. AnalyzedInv'
  <2>1. Scenarios' = Scenarios
    BY DEF Scenarios, Vector
  <2>2. Analyses' = Analyses
    BY DEF Analyses, Scenarios, Vector, Sensitivities, Progressions, Reblend, ShadowOf, TopK, Pool, Queries
  <2>3. \A s \in Scenarios : FailuresOf(s)' = FailuresOf(s)
    BY DEF FailuresOf
  <2>. QED
    BY <2>1, <2>2, <2>3, Zenon DEF ScenarioInv, AnalyzedInv, Analyzed
<1>4. stage' \in Validated /\ vectorOn' => ~BlockRun'
  BY FoundAgain DEF ScenarioInv
<1>. QED
  BY <1>1, <1>2, <1>3, <1>4 DEF ScenarioInv

(* Nothing is replayed before or during the intake.                        *)
LEMMA IntakeKeepsScenarios ==
  ASSUME Given, ReplayInv, CapableInv, ScenarioInv, IntakeNext, UNCHANGED <<comparisonVars, vectorVars>>
  PROVE  ScenarioInv'
<1>1. stage \in Intaking /\ stage' \in Intaking \cup {"vector_validate", "failed"} /\ UNCHANGED settings
  BY IntakeCourse
<1>2. \A s \in Scenarios : targets[s] = <<>>
  BY <1>1, Zenon DEF CapableInv
<1>3. lexicalPart = <<>> /\ ~Analyzed
  BY <1>1 DEF ScenarioInv, HalfInv, AnalyzedInv, Intaking, Outset, Compared
<1>4. cases' \in Seq(Pool0)
  BY IntakeCases DEF ReplayInv
<1>5. Len(cases') \in Nat /\ \A s \in Scenarios' : targets'[s] = <<>>
  BY <1>1, <1>2, <1>4 DEF vectorVars, Scenarios, Vector
<1>6. ResultsInv'
  <2>1. 0 \in 0..(2 * Len(cases'))
    BY <1>5
  <2>2. \A s \in Scenarios' : targets'[s] = [n \in 1..0 |-> targets'[s][n]] /\ DOMAIN targets'[s] = {}
    BY <1>5
  <2>. QED
    BY <1>5, <2>1, <2>2, Zenon DEF ResultsInv
<1>7. lexicalPart' = <<>> /\ ~Analyzed' /\ stage' \notin Validated
  BY <1>1, <1>3 DEF Analyzed, vectorVars, Intaking, Outset, Validated, Compared
<1>. QED
  BY <1>6, <1>7, Zenon DEF ScenarioInv, HalfInv, AnalyzedInv, Analyzed

(* The comparison leaves the scenarios alone, and comes before or after    *)
(* their replay.                                                           *)
LEMMA ComparisonKeepsScenarios ==
  ASSUME ScenarioInv, ComparisonNext, UNCHANGED <<intakeVars, vectorVars>>
  PROVE  ScenarioInv'
<1>1. /\ stage \in Validated \ {"scenario_replay"} /\ stage' \in Validated
      /\ UNCHANGED <<settings, cases, targets, vectorOn, lexicalPart, sensitivity, summaries>>
      /\ stage \in Compared => stage' \in Compared \ {"scenario_replay"}
  BY DEF ComparisonNext, Replay, Compare, SelectRewrites, FetchRewrite, EndRewrites, SelectExplains, FetchExplain,
         EvaluateGate, Enter, request, intakeVars, vectorVars, Validated, Compared
<1>2. lexicalPart = <<>>
  BY <1>1 DEF ScenarioInv, HalfInv
<1>3. Analyzed => stage' \in Compared \ {"scenario_replay"}
  BY <1>1 DEF ScenarioInv, AnalyzedInv
<1>. QED
  BY <1>1, <1>2, <1>3, ScenariosStay

(* One more result of the scenario under way.                              *)
LEMMA ReturnKeepsResults ==
  ASSUME Given, ReplayInv, CapableInv, ScenarioInv, Running, UNCHANGED request, NEW result, Return(result),
         TrueResult(Scenario, Case, result)
  PROVE  ResultsInv'
<1>1. Current \in Scenarios /\ targets' = [targets EXCEPT ![Current] = Append(@, result)]
      /\ Len(targets[Current]) < 2 * Len(cases) /\ ~BlockRun /\ DOMAIN targets = Scenarios
  <2>1. stage \in Validated /\ vectorOn /\ Current \in Scenarios
    BY DEF Running, Validated, Compared
  <2>2. DOMAIN targets = Scenarios
    BY Zenon DEF CapableInv
  <2>. QED
    BY <2>1, <2>2, CurrentLacks DEF Return, ScenarioInv
<1>2. /\ Scenarios' = Scenarios /\ Vector' = Vector /\ BlockRun' = BlockRun /\ cases' = cases
      /\ \A sc, c, r : TrueResult(sc, c, r)' = TrueResult(sc, c, r)
  BY FoundAgain DEF request
<1>. SUFFICES ASSUME NEW s \in Scenarios
     PROVE  /\ \E k \in 0..(2 * Len(cases)) : targets'[s] = [n \in 1..k |-> targets'[s][n]]
            /\ \A n \in DOMAIN targets'[s] : TrueResult(Vector.scenarios[s], CaseOf(n), targets'[s][n])
            /\ targets'[s] # <<>> => ~BlockRun
  BY <1>2 DEF ResultsInv, CaseOf
<1>4. CASE s # Current
  <2>1. targets'[s] = targets[s]
    BY <1>1, <1>4
  <2>. QED
    BY <2>1 DEF ScenarioInv, ResultsInv
<1>5. CASE s = Current
  <2>1. PICK t, new : t = targets[s] /\ new = targets'[s]
    OBVIOUS
  <2>2. PICK k \in 0..(2 * Len(cases)) : t = [n \in 1..k |-> t[n]]
    BY <2>1 DEF ScenarioInv, ResultsInv
  <2>3. Len(cases) \in Nat /\ k \in Nat
    BY DEF ReplayInv
  <2>4. new = Append(t, result)
    BY <1>1, <1>5, <2>1
  <2>5. new = [n \in 1..(k + 1) |-> IF n <= k THEN t[n] ELSE result]
    BY <2>2, <2>3, <2>4, ItemsAppend
  <2>6. k < 2 * Len(cases)
    <3>1. Len(t) = k
      BY <2>2, <2>3, ItemsAreSequence
    <3>. QED
      BY <1>1, <1>5, <2>1, <3>1
  <2>7. k + 1 \in 0..(2 * Len(cases))
    BY <2>3, <2>6
  <2>8. new = [n \in 1..(k + 1) |-> new[n]]
    BY <2>5
  <2>9. ASSUME NEW n \in 1..(k + 1) PROVE TrueResult(Vector.scenarios[s], CaseOf(n), new[n])
    <3>1. CASE n <= k
      <4>1. new[n] = t[n] /\ n \in DOMAIN t
        BY <2>2, <2>3, <2>5, <3>1
      <4>. QED
        BY <2>1, <4>1 DEF ScenarioInv, ResultsInv
    <3>2. CASE ~(n <= k)
      <4>1. n = k + 1 /\ new[n] = result
        BY <2>3, <2>5, <3>2
      <4>2. (k + 2) \div 2 = (k \div 2) + 1
        BY <2>3
      <4>3. n + 1 = k + 2
        BY <2>3, <4>1
      <4>4. CaseOf(n) = cases[(k \div 2) + 1]
        BY <4>2, <4>3 DEF CaseOf
      <4>5. Len(targets[Current]) = k
        BY <1>5, <2>1, <2>2, <2>3, ItemsAreSequence
      <4>. QED
        BY <1>5, <4>1, <4>4, <4>5 DEF Scenario, Case
    <3>. QED
      BY <3>1, <3>2
  <2>10. DOMAIN new = 1..(k + 1)
    BY <2>5
  <2>. QED
    BY <1>1, <2>1, <2>7, <2>8, <2>9, <2>10
<1>. QED
  BY <1>4, <1>5

(* What a failure, an answer and a skipped query say is so.                *)
LEMMA PlainResults ==
  ASSUME NEW scenario, NEW case, NEW docs
  PROVE  /\ NeedsVector(scenario, case) /\ ~HasVector(case) => TrueResult(scenario, case, Skipped)
         /\ (NeedsVector(scenario, case) => HasVector(case)) =>
              /\ TrueResult(scenario, case, Failed)
              /\ ~ClientHybrid(scenario, case) => TrueResult(scenario, case, Result(docs))
<1>1. Skipped.skipped /\ Skipped.inputs = <<>>
  BY DEF Skipped, Result
<1>2. Failed.error /\ ~Failed.skipped /\ Failed.inputs = <<>>
  BY DEF Failed, Result
<1>3. ~Result(docs).skipped /\ Result(docs).inputs = <<>>
  BY DEF Result
<1>. QED
  BY <1>1, <1>2, <1>3, Zenon DEF TrueResult

(* The blend of two answers is that of what it keeps.                      *)
LEMMA BlendedResult ==
  ASSUME NEW lexical \in Execute(Vector.lexical, Pool), NEW vector \in Execute(Vector.vector, Pool), HasVector(Case),
         NEW r \in Blended(lexical, vector)
  PROVE  TrueResult(Scenario, Case, r)
<1>1. CASE lexical.error \/ vector.error
  BY <1>1, PlainResults DEF Blended
<1>2. CASE ~(lexical.error \/ vector.error)
  <2>1. PICK docs \in BlendRankings(lexical.docs, vector.docs, Scenario.blend, TopK, Pool) :
          r = [Result(docs) EXCEPT !.inputs = <<lexical.docs, vector.docs>>]
    BY <1>2, Zenon DEF Blended, Blends
  <2>2. PICK l, v : l = lexical.docs /\ v = vector.docs
    OBVIOUS
  <2>3. r = [docs |-> docs, skipped |-> FALSE, error |-> FALSE, inputs |-> <<l, v>>]
    BY <2>1, <2>2 DEF Result
  <2>4. r.docs = docs /\ ~r.skipped /\ r.inputs[1] = l /\ r.inputs[2] = v
    BY <2>3
  <2>5. r.docs \in BlendRankings(r.inputs[1], r.inputs[2], Scenario.blend, TopK, Pool)
    BY <2>1, <2>2, <2>4
  <2>6. l \in Answered(Vector.lexical) /\ v \in Answered(Vector.vector)
    BY <1>2, <2>2 DEF Execute, Answered
  <2>7. IsWhole(r)
    BY <2>3, <2>6 DEF IsWhole
  <2>. QED
    BY <2>4, <2>5, <2>7, Zenon DEF TrueResult
<1>. QED
  BY <1>1, <1>2

(* A returned result ends the half it was made of.                         *)
LEMMA ReturnKeepsScenarios ==
  ASSUME Given, ReplayInv, CapableInv, ScenarioInv, Running, WithinReplay, lexicalPart' = <<>>,
         NEW result, Return(result), TrueResult(Scenario, Case, result)
  PROVE  ScenarioInv'
<1>1. ResultsInv'
  BY ReturnKeepsResults DEF WithinReplay
<1>2. UNCHANGED <<settings, cases, stage, vectorOn, sensitivity, summaries>> /\ stage = "scenario_replay" /\ lexicalPart' = <<>>
  BY DEF WithinReplay, request, Running
<1>3. ~Analyzed'
  BY <1>2 DEF ScenarioInv, AnalyzedInv, Analyzed
<1>4. stage' \in Validated /\ vectorOn' => ~BlockRun'
  BY <1>2, FoundAgain DEF ScenarioInv
<1>. QED
  BY <1>1, <1>2, <1>3, <1>4 DEF ScenarioInv, HalfInv, AnalyzedInv, Analyzed

(* VectorScenarios keeps it.                                               *)
LEMMA VectorKeepsScenarios ==
  ASSUME Given, ReplayInv, CapableInv, ScenarioInv, VectorNext, UNCHANGED <<intakeVars, comparisonVars>>
  PROVE  ScenarioInv'
<1>1. CASE VectorValidate
  <2>1. /\ stage = "vector_validate" /\ stage' \in {"failed", "compare", "replay"}
        /\ vectorOn' /\ BlockRun => stage' = "failed"
        /\ UNCHANGED <<settings, cases, targets, lexicalPart, sensitivity, summaries>>
    BY <1>1 DEF VectorValidate, Enter, request
  <2>2. \A s \in Scenarios : targets[s] = <<>>
    BY <2>1, Zenon DEF CapableInv
  <2>3. lexicalPart = <<>> /\ ~Analyzed
    BY <2>1 DEF ScenarioInv, HalfInv, AnalyzedInv, Compared
  <2>4. ResultsInv'
    BY <2>1, FoundAgain DEF ScenarioInv, ResultsInv, CaseOf
  <2>5. stage' \in Validated /\ vectorOn' => ~BlockRun'
    BY <2>1, FoundAgain DEF Validated, Compared
  <2>. QED
    BY <2>1, <2>3, <2>4, <2>5 DEF ScenarioInv, HalfInv, AnalyzedInv, Analyzed
<1>2. CASE SkipTarget
  <2>1. lexicalPart = <<>>
    BY <1>2 DEF SkipTarget, ScenarioInv, HalfInv
  <2>. QED
    BY <1>2, <2>1, PlainResults, ReturnKeepsScenarios DEF SkipTarget
<1>3. CASE RunSingle
  <2>1. lexicalPart = <<>>
    BY <1>3 DEF RunSingle, ScenarioInv, HalfInv
  <2>2. PICK result : Return(result) /\ TrueResult(Scenario, Case, result)
    <3>1. (NeedsVector(Scenario, Case) => HasVector(Case)) /\ ~ClientHybrid(Scenario, Case)
      BY <1>3 DEF RunSingle
    <3>2. PICK reply : Return(IF reply.error THEN Failed ELSE Result(Ids(reply.docs)))
      BY <1>3 DEF RunSingle
    <3>. QED
      BY <3>1, <3>2, PlainResults
  <2>. QED
    BY <1>3, <2>1, <2>2, ReturnKeepsScenarios DEF RunSingle
<1>4. CASE RunLexicalPart
  <2>1. /\ Running /\ ClientHybrid(Scenario, Case) /\ HasVector(Case)
        /\ lexicalPart'[1] \in Execute(Vector.lexical, Pool)
        /\ UNCHANGED <<settings, cases, stage, vectorOn, targets, sensitivity, summaries>>
    BY <1>4 DEF RunLexicalPart, WithinReplay, request
  <2>2. ResultsInv' /\ (stage' \in Validated /\ vectorOn' => ~BlockRun')
    BY <2>1, FoundAgain DEF ScenarioInv, ResultsInv, CaseOf
  <2>3. Current' = Current /\ Scenarios' = Scenarios /\ Vector' = Vector
    BY <2>1 DEF Current, Scenarios, Vector
  <2>4. Scenario' = Scenario /\ Case' = Case
    BY <2>1, <2>3 DEF Scenario, Case
  <2>5. HalfInv'
    <3>1. Execute(Vector.lexical, Pool)' = Execute(Vector.lexical, Pool)
      BY <2>1, FoundAgain DEF Execute
    <3>. QED
      BY <2>1, <2>3, <2>4, <3>1 DEF HalfInv, Running
  <2>6. ~Analyzed'
    BY <2>1 DEF ScenarioInv, AnalyzedInv, Running, Analyzed
  <2>. QED
    BY <2>2, <2>5, <2>6 DEF ScenarioInv, AnalyzedInv, Analyzed
<1>5. CASE RunVectorPart
  <2>1. /\ Running /\ WithinReplay /\ lexicalPart' = <<>> /\ HasVector(Case)
        /\ lexicalPart[1] \in Execute(Vector.lexical, Pool)
    BY <1>5 DEF RunVectorPart, ScenarioInv, HalfInv
  <2>2. PICK reply \in Execute(Vector.vector, Pool) : \E some \in Blended(lexicalPart[1], reply) : Return(some)
    BY <1>5 DEF RunVectorPart
  <2>3. PICK result \in Blended(lexicalPart[1], reply) : Return(result)
    BY <2>2
  <2>4. TrueResult(Scenario, Case, result)
    BY <2>1, BlendedResult
  <2>. QED
    BY <2>1, <2>3, <2>4, ReturnKeepsScenarios
<1>6. CASE CompareScenarios
  <2>1. /\ stage = "scenario_replay" /\ stage' = "rewrite_diff" /\ (vectorOn => Current \notin Scenarios)
        /\ UNCHANGED <<settings, cases, targets, vectorOn, lexicalPart>>
    BY <1>6 DEF CompareScenarios, Enter, request
  <2>2. lexicalPart' = <<>> /\ ~Analyzed
    BY <2>1 DEF ScenarioInv, HalfInv, AnalyzedInv
  <2>3. ResultsInv' /\ (stage' \in Validated /\ vectorOn' => ~BlockRun')
    <3>1. ResultsInv'
      BY <2>1, FoundAgain DEF ScenarioInv, ResultsInv, CaseOf
    <3>2. stage \in Validated /\ vectorOn' = vectorOn /\ BlockRun' = BlockRun
      BY <2>1, FoundAgain DEF Validated, Compared
    <3>. QED
      BY <3>1, <3>2 DEF ScenarioInv
  <2>4. AnalyzedInv'
    <3>1. Analyses' = Analyses
      BY <2>1 DEF Analyses, Scenarios, Vector, Sensitivities, Progressions, Reblend, ShadowOf, TopK, Pool, Queries
    <3>2. \A s \in Scenarios : FailuresOf(s)' = FailuresOf(s)
      BY <2>1 DEF FailuresOf
    <3>3. ~vectorOn => sensitivity' = <<>> /\ summaries' = <<>>
      BY <1>6, <2>2 DEF CompareScenarios, Analyzed
    <3>4. vectorOn => /\ sensitivity' # <<>> => sensitivity' \in Analyses
                      /\ \A s \in Scenarios : summaries'[s].failures = FailuresOf(s)
      <4>1. \A s \in Scenarios : Summary(s).failures = FailuresOf(s)
        BY DEF Summary, FailuresOf
      <4>. QED
        BY <1>6, <4>1 DEF CompareScenarios, Analyses
    <3>5. vectorOn => \A s \in Scenarios' : ~(Len(targets'[s]) < 2 * Len(cases'))
      BY <2>1, CurrentLacks, FoundAgain
    <3>6. stage' \in Compared \ {"scenario_replay"}
      BY <2>1 DEF Compared
    <3>. QED
      BY <2>1, <3>1, <3>2, <3>3, <3>4, <3>5, <3>6, FoundAgain, Zenon DEF AnalyzedInv, Analyzed
  <2>. QED
    BY <2>2, <2>3, <2>4 DEF ScenarioInv, HalfInv
<1>. QED
  BY <1>1, <1>2, <1>3, <1>4, <1>5, <1>6 DEF VectorNext

(* Every step of the run keeps it.                                         *)
LEMMA ScenarioStep ==
  ASSUME Given, ReplayInv, CapableInv, ScenarioInv, [Next]_vars
  PROVE  ScenarioInv'
<1>1. CASE UNCHANGED vars
  <2>1. UNCHANGED <<stage, settings, cases, targets, vectorOn, lexicalPart, sensitivity, summaries>>
    BY <1>1 DEF vars, vectorVars
  <2>2. (lexicalPart # <<>> => stage = "scenario_replay")
        /\ (Analyzed => stage \in Compared \ {"scenario_replay"})
    BY DEF ScenarioInv, HalfInv, AnalyzedInv
  <2>3. /\ stage' \in Validated => stage \in Validated
        /\ lexicalPart # <<>> => stage' = "scenario_replay"
        /\ Analyzed => stage' \in Compared \ {"scenario_replay"}
    BY <2>1, <2>2
  <2>. QED
    BY <2>1, <2>3, ScenariosStay
<1>. QED
  BY <1>1, IntakeKeepsScenarios, ComparisonKeepsScenarios, VectorKeepsScenarios DEF Next, Over

(* The case of a result is one of the queries.                             *)
LEMMA CaseIsQuery ==
  ASSUME ReplayInv, ScenarioInv, NEW s \in Scenarios, NEW n \in DOMAIN targets[s]
  PROVE  (n + 1) \div 2 \in Queries /\ targets[s] # <<>>
<1>1. PICK t : t = targets[s]
  OBVIOUS
<1>2. PICK k \in 0..(2 * Len(cases)) : t = [m \in 1..k |-> t[m]]
  BY <1>1 DEF ScenarioInv, ResultsInv
<1>3. PICK c \in Nat : c = Len(cases) /\ Queries = 1..c
  BY DEF ReplayInv, Queries
<1>4. n \in 1..k /\ k <= 2 * c
  BY <1>1, <1>2, <1>3
<1>5. (n + 1) \div 2 \in 1..c
  BY <1>3, <1>4
<1>6. t # <<>>
  BY <1>1, <1>2, <1>4
<1>. QED
  BY <1>1, <1>3, <1>5, <1>6

(* vector/validation.py and vector/replay.py: past the validation no       *)
(* scenario skips a query under the policy `fail`, and no vector whose     *)
(* length is known to be wrong is sent; for any scenarios, queries and     *)
(* dimensions, whichever calls fail.                                       *)
THEOREM ScenariosAreValidated == Spec => []ValidatedVectorsOnly
<1>1. Init => Given /\ SnapshotInv /\ ReplayInv /\ CapableInv /\ ScenarioInv
  BY InitSnapshot, InitReplay, InitCapable, InitScenarios
<1>2. Given /\ SnapshotInv /\ ReplayInv /\ CapableInv /\ ScenarioInv /\ [Next]_vars
        => (Given /\ SnapshotInv /\ ReplayInv /\ CapableInv /\ ScenarioInv)'
  BY SnapshotStep, ReplayStep, CapableStep, ScenarioStep
<1>3. ReplayInv /\ ScenarioInv => ValidatedVectorsOnly
  <2>1. SUFFICES ASSUME ReplayInv, ScenarioInv, NEW s \in Scenarios, NEW n \in DOMAIN targets[s]
        PROVE  /\ Vector.policy = "fail" => ~targets[s][n].skipped
               /\ ~targets[s][n].skipped /\ NeedsVector(Vector.scenarios[s], CaseOf(n)) /\ Expected # 0 =>
                    CaseOf(n).dimension = Expected
    BY Zenon DEF ValidatedVectorsOnly, CaseOf
  <2>2. (n + 1) \div 2 \in Queries /\ ~BlockRun
    BY <2>1, CaseIsQuery DEF ScenarioInv, ResultsInv
  <2>3. TrueResult(Vector.scenarios[s], CaseOf(n), targets[s][n])
    BY <2>1 DEF ScenarioInv, ResultsInv
  <2>4. Vector.policy = "fail" => HasVector(CaseOf(n))
    BY <2>2 DEF BlockRun, MissingVectors, CaseOf
  <2>5. HasVector(CaseOf(n)) /\ Expected # 0 => CaseOf(n).dimension = Expected
    BY <2>2 DEF BlockRun, WrongDimension, MissingVectors, CaseOf
  <2>. QED
    BY <2>3, <2>4, <2>5, Zenon DEF TrueResult
<1>. QED
  BY <1>1, <1>2, <1>3, PTL DEF Spec

(* vector/scenario_parser.py: a ranking has a place, and the pool a        *)
(* document for each.                                                      *)
LEMMA PoolIsThere ==
  ASSUME Given
  PROVE  TopK \in Nat \ {0} /\ Pool \in Nat
<1>1. settings.k \in Nat \ {0} /\ Vector.topK \in Int /\ Vector.pool \in Int
  BY WellFormedSettings DEF WellFormed, Vector
<1>2. PICK k \in Nat \ {0} : k = TopK
  BY <1>1 DEF TopK
<1>3. PICK p \in Int : p = Vector.pool
  BY <1>1
<1>4. PICK S : S = {k, p}
  OBVIOUS
<1>5. Max(S) \in S /\ \A x \in S : Max(S) >= x
  <2>1. \E x \in S : \A y \in S : x >= y
    BY <1>2, <1>3, <1>4
  <2>. QED
    BY <2>1, Zenon DEF Max
<1>6. Max(S) \in Nat
  BY <1>2, <1>3, <1>4, <1>5
<1>. QED
  BY <1>2, <1>3, <1>4, <1>6 DEF Pool

(* What Solr has answered to one half of a hybrid.                         *)
LEMMA HalvesAreScored ==
  ASSUME Given, NEW answers, answers \in {Vector.lexical, Vector.vector}, NEW docs \in Answered(answers)
  PROVE  IsScored(docs) /\ FirstOf(docs, Pool) = docs
<1>1. PICK all \in answers : docs = FirstOf(all, Pool)
  BY DEF Answered
<1>2. IsScored(all)
  BY WellFormedSettings DEF WellFormed, Vector
<1>. QED
  BY <1>1, <1>2, PoolIsThere, FirstOfScored

(* A scenario has a blend with weights that are numbers.                   *)
LEMMA BlendOfScenario ==
  ASSUME Given, NEW s \in Scenarios
  PROVE  IsBlend(Vector.scenarios[s].blend)
<1>1. PICK scenario : scenario = Vector.scenarios[s]
  OBVIOUS
<1>2. scenario \in ToSet(Vector.scenarios)
  BY <1>1 DEF Scenarios, ToSet
<1>3. \A some \in ToSet(Vector.scenarios) : IsBlend(some.blend)
  BY WellFormedSettings, Zenon DEF WellFormed, Vector
<1>. QED
  BY <1>1, <1>2, <1>3, Zenon

(* The weights of a blend set to what they are give the blend.             *)
LEMMA SameWeights ==
  ASSUME NEW blend, IsBlend(blend), NEW weight, blend.weight_vector = weight, blend.weight_lexical = 10 - weight
  PROVE  [blend EXCEPT !.weight_vector = weight, !.weight_lexical = 10 - weight] = blend
<1>1. PICK ex, method, normalize, lexical, vector, ml, mv, rrf :
        blend = [execution |-> ex, method |-> method, normalize |-> normalize,
                 weight_lexical |-> lexical, weight_vector |-> vector,
                 missing_lexical |-> ml, missing_vector |-> mv, rrf_k |-> rrf]
  BY DEF IsBlend
<1>. QED
  BY <1>1

(* vector/sensitivity.py and vector/replay.py: at the weights that the     *)
(* scenario itself has, the analysis shows the ranking that was replayed,  *)
(* up to documents with just the same score, whose order the floats of the *)
(* two may decide differently; whatever the method, the normalization and  *)
(* the answers are.                                                        *)
THEOREM SensitivityIsReplay == Spec => []SensitivityAgreesWithReplay
<1>1. Init => Given /\ SnapshotInv /\ ReplayInv /\ CapableInv /\ ScenarioInv
  BY InitSnapshot, InitReplay, InitCapable, InitScenarios
<1>2. Given /\ SnapshotInv /\ ReplayInv /\ CapableInv /\ ScenarioInv /\ [Next]_vars
        => (Given /\ SnapshotInv /\ ReplayInv /\ CapableInv /\ ScenarioInv)'
  BY SnapshotStep, ReplayStep, CapableStep, ScenarioStep
<1>3. Given /\ ReplayInv /\ ScenarioInv => SensitivityAgreesWithReplay
  <2>1. SUFFICES ASSUME Given, ReplayInv, ScenarioInv, NEW s \in DOMAIN sensitivity, NEW i \in DOMAIN sensitivity[s],
                        NEW blend, blend = Vector.scenarios[s].blend,
                        blend.weight_vector \in Vector.weights, blend.weight_lexical = 10 - blend.weight_vector
        PROVE  LET replay == ShadowOf(s, i)
                   score == Scores(replay.inputs[1], replay.inputs[2], blend, Pool)
                   analysis == sensitivity[s][i][blend.weight_vector]
               IN  /\ Len(analysis) = Len(replay.docs)
                   /\ \A p \in DOMAIN analysis :
                        /\ ~Exceeds(score[analysis[p]], score[replay.docs[p]])
                        /\ ~Exceeds(score[replay.docs[p]], score[analysis[p]])
    BY Zenon DEF SensitivityAgreesWithReplay, Scores
  <2>2. sensitivity # <<>>
    BY <2>1
  <2>3. s \in Scenarios /\ sensitivity[s] \in Sensitivities(s) /\ ~(Len(targets[s]) < 2 * Len(cases))
    <3>1. sensitivity \in Selections([x \in Scenarios |-> Sensitivities(x)])
      BY <2>1, <2>2 DEF ScenarioInv, AnalyzedInv, Analyses
    <3>2. s \in Scenarios /\ sensitivity[s] \in Sensitivities(s)
      BY <2>1, <3>1, SelectionsAre
    <3>. QED
      BY <2>1, <2>2, <3>2 DEF ScenarioInv, AnalyzedInv, Analyzed
  <2>4. /\ i \in Queries /\ ShadowOf(s, i).inputs # <<>>
        /\ sensitivity[s][i][blend.weight_vector] \in Reblend(s, i, blend.weight_vector)
    <3>1. PICK some : some = {j \in Queries : Vector.scenarios[s].mode = "hybrid" /\ ShadowOf(s, j).inputs # <<>>}
      OBVIOUS
    <3>2. sensitivity[s] \in Selections([j \in some |-> Progressions(s, j)])
      BY <2>3, <3>1 DEF Sensitivities
    <3>3. i \in some /\ sensitivity[s][i] \in Progressions(s, i)
      BY <2>1, <3>2, SelectionsAre
    <3>4. sensitivity[s][i] \in Selections([w \in Vector.weights |-> Reblend(s, i, w)])
      BY <3>3 DEF Progressions
    <3>5. sensitivity[s][i][blend.weight_vector] \in Reblend(s, i, blend.weight_vector)
      BY <2>1, <3>4, SelectionsAre
    <3>. QED
      BY <3>1, <3>3, <3>5
  <2>5. 2 * i \in DOMAIN targets[s] /\ CaseOf(2 * i) = cases[i]
    <3>1. PICK t : t = targets[s]
      OBVIOUS
    <3>2. PICK k \in 0..(2 * Len(cases)) : t = [m \in 1..k |-> t[m]]
      BY <2>1, <2>3, <3>1 DEF ScenarioInv, ResultsInv
    <3>3. PICK c \in Nat : c = Len(cases) /\ Queries = 1..c
      BY <2>1 DEF ReplayInv, Queries
    <3>4. Len(t) = k /\ DOMAIN t = 1..k
      BY <3>2, <3>3, ItemsAreSequence
    <3>5. i \in 1..c /\ ~(k < 2 * c) /\ k \in Nat
      BY <2>3, <2>4, <3>1, <3>2, <3>3, <3>4
    <3>6. 2 * i \in 1..k
      BY <3>5
    <3>7. (2 * i + 1) \div 2 = i
      BY <3>5
    <3>. QED
      BY <3>1, <3>4, <3>6, <3>7 DEF CaseOf
  <2>6. PICK r : r = targets[s][2 * i]
    OBVIOUS
  <2>7. r.docs \in BlendRankings(r.inputs[1], r.inputs[2], blend, TopK, Pool) /\ IsWhole(r)
    BY <2>1, <2>3, <2>4, <2>5, <2>6 DEF ScenarioInv, ResultsInv, TrueResult, ShadowOf
  <2>8. [blend EXCEPT !.weight_vector = blend.weight_vector, !.weight_lexical = 10 - blend.weight_vector] = blend
    <3>1. IsBlend(blend)
      BY <2>1, <2>3, BlendOfScenario
    <3>2. PICK weight : weight = blend.weight_vector
      OBVIOUS
    <3>. QED
      BY <2>1, <3>1, <3>2, SameWeights
  <2>9. Reblend(s, i, blend.weight_vector) = BlendRankings(r.inputs[1], r.inputs[2], blend, TopK, Pool)
    BY <2>1, <2>6, <2>8, Zenon DEF Reblend, ShadowOf
  <2>10. PICK A, B, both : A = Answered(Vector.lexical) /\ B = Answered(Vector.vector) /\ both = r.inputs
    OBVIOUS
  <2>11. both \in A \X B
    BY <2>7, <2>10 DEF IsWhole
  <2>12. both[1] \in A /\ both[2] \in B
    BY ONLY <2>11
  <2>13. PICK l, v : l = r.inputs[1] /\ v = r.inputs[2] /\ l \in Answered(Vector.lexical) /\ v \in Answered(Vector.vector)
    BY <2>10, <2>12
  <2>14. IsScored(l) /\ IsScored(v) /\ FirstOf(l, Pool) = l /\ FirstOf(v, Pool) = v /\ IsBlend(blend) /\ TopK \in Nat
    BY <2>1, <2>3, <2>13, HalvesAreScored, BlendOfScenario, PoolIsThere
  <2>15. PICK analysis, docs, score : /\ analysis = sensitivity[s][i][blend.weight_vector] /\ docs = r.docs
                                      /\ score = Scores(l, v, blend, Pool)
    OBVIOUS
  <2>16. analysis \in BlendRankings(l, v, blend, TopK, Pool) /\ docs \in BlendRankings(l, v, blend, TopK, Pool)
    BY <2>4, <2>7, <2>9, <2>13, <2>15
  <2>17. /\ Len(analysis) = Len(docs)
         /\ \A p \in DOMAIN analysis :
              ~Exceeds(score[analysis[p]], score[docs[p]]) /\ ~Exceeds(score[docs[p]], score[analysis[p]])
    BY <2>14, <2>15, <2>16, BlendsAgree
  <2>. QED
    BY <2>6, <2>13, <2>15, <2>17, Zenon DEF ShadowOf
<1>. QED
  BY <1>1, <1>2, <1>3, PTL DEF Spec

(* A result with an error is a failure of the scenario.                    *)
LEMMA ErrorsAreCounted ==
  ASSUME ReplayInv, ScenarioInv, NEW s \in Scenarios, NEW n \in DOMAIN targets[s], targets[s][n].error, summaries # <<>>
  PROVE  summaries[s].failures > 0
<1>1. PICK t : t = targets[s]
  OBVIOUS
<1>2. PICK k \in 0..(2 * Len(cases)) : t = [m \in 1..k |-> t[m]]
  BY <1>1 DEF ScenarioInv, ResultsInv
<1>3. Len(cases) \in Nat /\ k \in Int
  BY DEF ReplayInv
<1>4. PICK one \in Int : one = 1
  OBVIOUS
<1>5. IsFiniteSet(DOMAIN t)
  BY <1>2, <1>3, <1>4, FS_Interval
<1>6. PICK failed : failed = {m \in DOMAIN t : t[m].error}
  OBVIOUS
<1>7. n \in failed /\ IsFiniteSet(failed)
  BY <1>1, <1>5, <1>6, FS_Subset
<1>8. Cardinality(failed) \in Nat /\ Cardinality(failed) # 0
  BY <1>7, FS_CardinalityType, FS_EmptySet
<1>9. summaries[s].failures = Cardinality(failed)
  BY <1>1, <1>6 DEF ScenarioInv, AnalyzedInv, FailuresOf
<1>. QED
  BY <1>8, <1>9

(* vector/replay.py: a hybrid never passes off one half as the blend, the  *)
(* blend is as long as it can be, and with weights that are not negative a *)
(* document that is ahead of another on both sides is ahead in it; for any *)
(* answers, methods, normalizations and weights, whichever calls fail.     *)
THEOREM HybridsAreWhole == Spec => []BlendsAreWhole
<1>1. Init => Given /\ SnapshotInv /\ ReplayInv /\ CapableInv /\ ScenarioInv
  BY InitSnapshot, InitReplay, InitCapable, InitScenarios
<1>2. Given /\ SnapshotInv /\ ReplayInv /\ CapableInv /\ ScenarioInv /\ [Next]_vars
        => (Given /\ SnapshotInv /\ ReplayInv /\ CapableInv /\ ScenarioInv)'
  BY SnapshotStep, ReplayStep, CapableStep, ScenarioStep
<1>3. Given /\ ReplayInv /\ ScenarioInv => BlendsAreWhole
  <2>1. SUFFICES ASSUME Given, ReplayInv, ScenarioInv, NEW s \in Scenarios, NEW n \in DOMAIN targets[s],
                        NEW r, r = targets[s][n], NEW blend, blend = Vector.scenarios[s].blend
        PROVE  /\ ClientHybrid(Vector.scenarios[s], CaseOf(n)) /\ ~r.error /\ ~r.skipped =>
                    /\ r.inputs \in Answered(Vector.lexical) \X Answered(Vector.vector)
                    /\ Cardinality(ToSet(Ids(r.inputs[1])) \cup ToSet(Ids(r.inputs[2]))) >= TopK => Len(r.docs) = TopK
                    /\ /\ blend.weight_lexical >= 0 /\ blend.weight_vector >= 0
                       /\ blend.weight_lexical + blend.weight_vector > 0
                       => \A d, e \in ToSet(Ids(r.inputs[1])) :
                            Ahead(r.inputs[1], d, e) /\ Ahead(r.inputs[2], d, e) /\ e \in ToSet(r.docs) =>
                              d \in ToSet(r.docs) /\ Rank(r.docs, d) < Rank(r.docs, e)
               /\ summaries # <<>> => (r.error => summaries[s].failures > 0)
    BY Zenon DEF BlendsAreWhole, CaseOf
  <2>2. summaries # <<>> => (r.error => summaries[s].failures > 0)
    BY <2>1, ErrorsAreCounted
  <2>3. SUFFICES ASSUME ClientHybrid(Vector.scenarios[s], CaseOf(n)), ~r.error, ~r.skipped
        PROVE  /\ r.inputs \in Answered(Vector.lexical) \X Answered(Vector.vector)
               /\ Cardinality(ToSet(Ids(r.inputs[1])) \cup ToSet(Ids(r.inputs[2]))) >= TopK => Len(r.docs) = TopK
               /\ /\ blend.weight_lexical >= 0 /\ blend.weight_vector >= 0
                  /\ blend.weight_lexical + blend.weight_vector > 0
                  => \A d, e \in ToSet(Ids(r.inputs[1])) :
                       Ahead(r.inputs[1], d, e) /\ Ahead(r.inputs[2], d, e) /\ e \in ToSet(r.docs) =>
                         d \in ToSet(r.docs) /\ Rank(r.docs, d) < Rank(r.docs, e)
    BY <2>2
  <2>4. TrueResult(Vector.scenarios[s], CaseOf(n), r)
    BY <2>1 DEF ScenarioInv, ResultsInv
  <2>5. r.inputs \in Answered(Vector.lexical) \X Answered(Vector.vector)
    BY <2>3, <2>4 DEF TrueResult, IsWhole
  <2>6. PICK A, B : A = Answered(Vector.lexical) /\ B = Answered(Vector.vector)
    OBVIOUS
  <2>7. PICK both : both = r.inputs
    OBVIOUS
  <2>8. both \in A \X B
    BY <2>5, <2>6, <2>7
  <2>9. both[1] \in A /\ both[2] \in B /\ both # <<>>
    <3>1. PICK a \in A, b \in B : both = <<a, b>>
      BY ONLY <2>8
    <3>2. both[1] = a /\ both[2] = b /\ Len(both) = 2
      BY ONLY <3>1
    <3>. QED
      BY ONLY <3>1, <3>2
  <2>10. PICK l, v : l = r.inputs[1] /\ v = r.inputs[2] /\ l \in Answered(Vector.lexical) /\ v \in Answered(Vector.vector)
    BY <2>6, <2>7, <2>9
  <2>11. r.inputs # <<>>
    BY <2>7, <2>9
  <2>12. r.docs \in BlendRankings(l, v, blend, TopK, Pool)
    BY <2>1, <2>4, <2>10, <2>11 DEF TrueResult
  <2>13. IsScored(l) /\ IsScored(v) /\ FirstOf(l, Pool) = l /\ FirstOf(v, Pool) = v /\ IsBlend(blend) /\ TopK \in Nat
    BY <2>1, <2>10, HalvesAreScored, BlendOfScenario, PoolIsThere
  <2>14. PICK docs : docs = r.docs
    OBVIOUS
  <2>15. Cardinality(ToSet(Ids(l)) \cup ToSet(Ids(v))) >= TopK => Len(docs) = TopK
    BY <2>12, <2>13, <2>14, BlendIs
  <2>16. blend.weight_lexical >= 0 /\ blend.weight_vector >= 0 /\ blend.weight_lexical + blend.weight_vector > 0 =>
           \A d, e : Ahead(l, d, e) /\ Ahead(v, d, e) /\ e \in ToSet(docs) =>
             d \in ToSet(docs) /\ Rank(docs, d) < Rank(docs, e)
    BY <2>12, <2>13, <2>14, BlendIs
  <2>. QED
    BY <2>5, <2>10, <2>14, <2>15, <2>16
<1>. QED
  BY <1>1, <1>2, <1>3, PTL DEF Spec

-----------------------------------------------------------------------------
(* The cases are some of the first n rows of the log, each row once.       *)
DrawnFrom(n) ==
  \E pos \in [1..Len(cases) -> 1..n] :
    /\ \A i, j \in 1..Len(cases) : pos[i] = pos[j] => i = j
    /\ \A i \in 1..Len(cases) : cases[i] = settings.queries[Cleaned[pos[i]]]

Reservoir == Limited /\ Source.mode = "reservoir"
Smaller(m, n) == IF m < n THEN m ELSE n

(* The stages that have all the cases.                                     *)
Sampled == {"vector_validate"} \cup Validated

(* The inductive invariant of sampling a log: the reservoir holds rows of  *)
(* what has been gone through, each at most once, as many as fit.          *)
SampleInv ==
  Source.type = "log" =>
    /\ stage \in Outset \cup {"snapshot", "preflight", "shadow_create"} => cases = <<>> /\ taken = 0
    /\ Loading => /\ taken \in 0..Len(Cleaned) /\ DrawnFrom(taken)
                  /\ Len(cases) = IF Limited THEN Smaller(Source.max_queries, taken) ELSE taken
    /\ stage \in Sampled =>
         IF Reservoir
         THEN DrawnFrom(Len(Cleaned)) /\ Len(cases) = Smaller(Source.max_queries, Len(Cleaned))
         ELSE \E sample \in IF Limited THEN SampleTop(Cleaned) ELSE {Cleaned} : cases = Cases(sample)

(* Nothing drawn is drawn from nothing.                                    *)
LEMMA NothingDrawn ==
  ASSUME cases = <<>>
  PROVE  DrawnFrom(0) /\ Len(cases) = 0
<1>1. Len(cases) = 0 /\ 1..Len(cases) = {}
  BY DEF DrawnFrom
<1>2. PICK none : none = [i \in 1..Len(cases) |-> 1]
  OBVIOUS
<1>3. none \in [1..Len(cases) -> 1..0]
  BY <1>1, <1>2
<1>. QED
  BY <1>1, <1>3 DEF DrawnFrom

(* It holds at the start.                                                  *)
LEMMA InitSample ==
  ASSUME Init
  PROVE  SampleInv
<1>1. stage = "validate" /\ cases = <<>> /\ taken = 0
  BY DEF Init, IntakeInit
<1>. QED
  BY <1>1 DEF SampleInv, Loading, Sampled, Validated, Compared

(* What the sample depends on.                                             *)
LEMMA SampleStays ==
  ASSUME SampleInv, UNCHANGED <<settings, cases, taken>>,
         OnlyFrom(Outset \cup {"snapshot", "preflight", "shadow_create"}), Loading' => Loading, OnlyFrom(Sampled)
  PROVE  SampleInv'
<1>1. /\ Cleaned' = Cleaned /\ Limited' = Limited /\ Source' = Source /\ (Reservoir' <=> Reservoir)
      /\ \A rows1 : Cases(rows1)' = Cases(rows1)
  BY DEF Cleaned, Readable0, Limited, Source, Reservoir, Cases
<1>2. \A n : DrawnFrom(n)' <=> DrawnFrom(n)
  BY <1>1 DEF DrawnFrom
<1>3. SampleTop(Cleaned)' = SampleTop(Cleaned)
  BY <1>1 DEF SampleTop, CountOf, FirstSeen, FirstRows
<1>. QED
  BY <1>1, <1>2, <1>3 DEF SampleInv, OnlyFrom

(* To have drawn the cases is to have drawn these.                         *)
LEMMA DrawnByThese ==
  ASSUME NEW m \in Nat, NEW n \in Nat, NEW pos \in [1..m -> 1..n], Len(cases') = m, UNCHANGED settings,
         \A i, j \in 1..m : pos[i] = pos[j] => i = j,
         \A i \in 1..m : cases'[i] = settings.queries[Cleaned[pos[i]]]
  PROVE  DrawnFrom(n)'
<1>1. Cleaned' = Cleaned
  BY DEF Cleaned, Readable0, Source
<1>2. \A i \in 1..Len(cases') : cases'[i] = settings'.queries[Cleaned'[pos[i]]]
  BY <1>1
<1>3. pos \in [1..Len(cases') -> 1..n] /\ \A i, j \in 1..Len(cases') : pos[i] = pos[j] => i = j
  OBVIOUS
<1>. QED
  BY <1>2, <1>3, Zenon DEF DrawnFrom

(* A row that finds room is put after the others.                          *)
LEMMA RowAdded ==
  ASSUME NEW n \in Nat, DrawnFrom(n), cases \in Seq(Pool0), NEW row,
         row = settings.queries[Cleaned[n + 1]], cases' = Append(cases, row), UNCHANGED settings
  PROVE  DrawnFrom(n + 1)'
<1>1. PICK m \in Nat : m = Len(cases)
  OBVIOUS
<1>2. PICK pos \in [1..m -> 1..n] : /\ \A i, j \in 1..m : pos[i] = pos[j] => i = j
                                   /\ \A i \in 1..m : cases[i] = settings.queries[Cleaned[pos[i]]]
  BY <1>1 DEF DrawnFrom
<1>3. cases = [i \in 1..m |-> cases[i]]
  BY <1>1
<1>4. cases' = [i \in 1..(m + 1) |-> IF i <= m THEN cases[i] ELSE row] /\ Len(cases') = m + 1
  <2>1. cases' = [i \in 1..(m + 1) |-> IF i <= m THEN cases[i] ELSE row]
    BY <1>3, ItemsAppend
  <2>2. cases' = [i \in 1..(m + 1) |-> cases'[i]] /\ m + 1 \in Nat
    BY <2>1
  <2>. QED
    BY <2>1, <2>2, ItemsAreSequence
<1>5. PICK new : new = [i \in 1..(m + 1) |-> IF i <= m THEN pos[i] ELSE n + 1]
  OBVIOUS
<1>6. \A i \in 1..(m + 1) : (i <= m /\ i \in 1..m /\ new[i] = pos[i] /\ pos[i] \in 1..n) \/ (i = m + 1 /\ new[i] = n + 1)
  BY <1>2, <1>5
<1>7. new \in [1..(m + 1) -> 1..(n + 1)]
  BY <1>5, <1>6
<1>8. \A i, j \in 1..(m + 1) : new[i] = new[j] => i = j
  BY <1>2, <1>6
<1>9. \A i \in 1..(m + 1) : cases'[i] = settings.queries[Cleaned[new[i]]]
  BY <1>2, <1>4, <1>6
<1>10. PICK l, n1 \in Nat : l = m + 1 /\ n1 = n + 1
  OBVIOUS
<1>11. /\ new \in [1..l -> 1..n1] /\ Len(cases') = l /\ \A i, j \in 1..l : new[i] = new[j] => i = j
       /\ \A i \in 1..l : cases'[i] = settings.queries[Cleaned[new[i]]]
  BY <1>4, <1>7, <1>8, <1>9, <1>10
<1>12. DrawnFrom(n1)'
  <2>1. new \in [1..l -> 1..n1] /\ Len(cases') = l
    BY <1>11
  <2>2. \A i, j \in 1..l : new[i] = new[j] => i = j
    BY <1>11
  <2>3. \A i \in 1..l : cases'[i] = settings.queries[Cleaned[new[i]]]
    BY <1>11
  <2>. QED
    BY <2>1, <2>2, <2>3, DrawnByThese, ZenonT(60)
<1>. QED
  BY <1>10, <1>12

(* A row that finds none takes the place of another, or is dropped.        *)
LEMMA RowReplaced ==
  ASSUME NEW n \in Nat, DrawnFrom(n), cases \in Seq(Pool0), NEW row, NEW k \in 1..Len(cases),
         row = settings.queries[Cleaned[n + 1]], cases' = [cases EXCEPT ![k] = row], UNCHANGED settings
  PROVE  DrawnFrom(n + 1)' /\ Len(cases') = Len(cases)
<1>1. PICK m \in Nat : m = Len(cases)
  OBVIOUS
<1>2. PICK pos \in [1..m -> 1..n] : /\ \A i, j \in 1..m : pos[i] = pos[j] => i = j
                                   /\ \A i \in 1..m : cases[i] = settings.queries[Cleaned[pos[i]]]
  BY <1>1 DEF DrawnFrom
<1>3. cases' = [i \in 1..m |-> IF i = k THEN row ELSE cases[i]] /\ Len(cases') = m
  <2>0. cases \in [1..m -> Pool0]
    BY <1>1
  <2>1. cases' = [i \in 1..m |-> IF i = k THEN row ELSE cases[i]]
    BY <2>0
  <2>2. cases' = [i \in 1..m |-> cases'[i]]
    BY <2>1
  <2>. QED
    BY <2>1, <2>2, ItemsAreSequence
<1>4. PICK new : new = [i \in 1..m |-> IF i = k THEN n + 1 ELSE pos[i]]
  OBVIOUS
<1>5. \A i \in 1..m : (i # k /\ new[i] = pos[i] /\ pos[i] \in 1..n) \/ (i = k /\ new[i] = n + 1)
  BY <1>2, <1>4
<1>6. new \in [1..m -> 1..(n + 1)]
  BY <1>4, <1>5
<1>7. \A i, j \in 1..m : new[i] = new[j] => i = j
  BY <1>2, <1>5
<1>8. \A i \in 1..m : cases'[i] = settings.queries[Cleaned[new[i]]]
  BY <1>2, <1>3, <1>5
<1>9. PICK n1 \in Nat : n1 = n + 1
  OBVIOUS
<1>10. new \in [1..m -> 1..n1]
  BY <1>6, <1>9
<1>11. DrawnFrom(n1)'
  <2>1. Len(cases') = m
    BY <1>3
  <2>. QED
    BY <1>7, <1>8, <1>10, <2>1, DrawnByThese, ZenonT(60)
<1>. QED
  BY <1>1, <1>3, <1>9, <1>11

(* What was drawn from the first rows is drawn from one row more.          *)
LEMMA RowDropped ==
  ASSUME NEW n \in Nat, DrawnFrom(n), UNCHANGED <<settings, cases>>
  PROVE  DrawnFrom(n + 1)'
<1>1. PICK pos \in [1..Len(cases) -> 1..n] :
        /\ \A i, j \in 1..Len(cases) : pos[i] = pos[j] => i = j
        /\ \A i \in 1..Len(cases) : cases[i] = settings.queries[Cleaned[pos[i]]]
  BY DEF DrawnFrom
<1>2. pos \in [1..Len(cases) -> 1..(n + 1)]
  BY <1>1
<1>3. Cleaned' = Cleaned
  BY DEF Cleaned, Readable0, Source
<1>. QED
  BY <1>1, <1>2, <1>3 DEF DrawnFrom

(* The log and what it allows are the run's.                               *)
LEMMA LogStays ==
  ASSUME UNCHANGED settings
  PROVE  /\ Cleaned' = Cleaned /\ Limited' = Limited /\ Source' = Source /\ (Reservoir' <=> Reservoir)
         /\ SampleTop(Cleaned)' = SampleTop(Cleaned) /\ \A rows1 : Cases(rows1)' = Cases(rows1)
<1>1. Cleaned' = Cleaned /\ Limited' = Limited /\ Source' = Source /\ (Reservoir' <=> Reservoir)
  BY DEF Cleaned, Readable0, Limited, Source, Reservoir
<1>2. SampleTop(Cleaned)' = SampleTop(Cleaned)
  BY <1>1 DEF SampleTop, CountOf, FirstSeen, FirstRows
<1>. QED
  BY <1>1, <1>2 DEF Cases

(* The reservoir takes its next row.                                       *)
LEMMA TakeRowKeepsSample ==
  ASSUME Given, ReplayInv, SampleInv, TakeRow
  PROVE  SampleInv'
<1>1. /\ Loading /\ Loading' /\ Reservoir /\ Source.type = "log" /\ Source.max_queries \in Nat
      /\ taken < Len(Cleaned) /\ taken' = taken + 1 /\ UNCHANGED settings
  BY WellFormedSettings DEF TakeRow, Loading, Reservoir, Limited, Source, WellFormed
<1>2. /\ taken \in Nat /\ cases \in Seq(Pool0) /\ DrawnFrom(taken) /\ Len(Cleaned) \in Nat
      /\ Len(cases) = Smaller(Source.max_queries, taken)
  BY <1>1, CleanedRows DEF SampleInv, ReplayInv, Reservoir
<1>3. PICK n, max, len \in Nat : n = taken /\ max = Source.max_queries /\ len = Len(cases)
  BY <1>1, <1>2
<1>4. PICK row : row = settings.queries[Cleaned[n + 1]]
  OBVIOUS
<1>5. len = IF max < n THEN max ELSE n
  BY <1>2, <1>3 DEF Smaller
<1>6. DrawnFrom(n + 1)' /\ Len(cases') = IF max < n + 1 THEN max ELSE n + 1
  <2>1. CASE n < max
    <3>1. cases' = Append(cases, row)
      BY <1>1, <1>3, <1>4, <2>1 DEF TakeRow
    <3>2. Len(cases') = len + 1
      BY <1>2, <1>3, <3>1
    <3>. QED
      BY <1>1, <1>2, <1>3, <1>4, <1>5, <2>1, <3>1, <3>2, RowAdded
  <2>2. CASE ~(n < max)
    <3>1. PICK j \in 1..(n + 1) : cases' = IF j <= max THEN [cases EXCEPT ![j] = row] ELSE cases
      BY <1>1, <1>3, <1>4, <2>2 DEF TakeRow
    <3>2. CASE j <= max
      <4>1. j \in 1..Len(cases) /\ cases' = [cases EXCEPT ![j] = row]
        BY <1>3, <1>5, <2>2, <3>1, <3>2
      <4>2. DrawnFrom(n + 1)' /\ Len(cases') = len
        BY <1>1, <1>2, <1>3, <1>4, <4>1, RowReplaced
      <4>. QED
        BY <1>5, <2>2, <4>2
    <3>3. CASE ~(j <= max)
      BY <1>1, <1>2, <1>3, <1>5, <2>2, <3>1, <3>3, RowDropped
    <3>. QED
      BY <3>2, <3>3
  <2>. QED
    BY <2>1, <2>2
<1>7. DrawnFrom(taken)' /\ Len(cases') = Smaller(Source.max_queries, taken')
  BY <1>1, <1>3, <1>6 DEF Smaller
<1>8. taken' \in 0..Len(Cleaned)
  BY <1>1, <1>2
<1>9. Cleaned' = Cleaned /\ Source' = Source /\ Limited' = Limited /\ Limited
  BY <1>1, LogStays DEF Reservoir
<1>. QED
  BY <1>1, <1>7, <1>8, <1>9 DEF SampleInv, Loading, Outset, Sampled, Validated, Compared, Smaller

(* The steps that load from a log.                                         *)
LEMMA LoadingKeepsSample ==
  ASSUME Given, ReplayInv, SampleInv, ExtractFromLog \/ EndSampling
  PROVE  SampleInv'
<1>1. /\ Loading /\ Source.type = "log" /\ stage' = "vector_validate" /\ UNCHANGED settings
  BY DEF ExtractFromLog, EndSampling, Loaded, Enter, request
<1>2. /\ taken \in 0..Len(Cleaned) /\ DrawnFrom(taken)
      /\ Len(cases) = IF Limited THEN Smaller(Source.max_queries, taken) ELSE taken
  BY <1>1 DEF SampleInv
<1>3. /\ Cleaned' = Cleaned /\ Limited' = Limited /\ Source' = Source /\ (Reservoir' <=> Reservoir)
      /\ SampleTop(Cleaned)' = SampleTop(Cleaned) /\ \A rows1 : Cases(rows1)' = Cases(rows1)
  BY <1>1, LogStays
<1>4. CASE EndSampling
  <2>1. Reservoir /\ Limited /\ taken = Len(Cleaned) /\ UNCHANGED cases
    BY <1>4 DEF EndSampling, Reservoir, request
  <2>2. DrawnFrom(Len(Cleaned))' /\ Len(cases') = Smaller(Source.max_queries, Len(Cleaned))
    BY <1>1, <1>2, <1>3, <2>1 DEF DrawnFrom
  <2>. QED
    BY <1>1, <1>3, <2>1, <2>2 DEF SampleInv, Outset, Loading
<1>5. CASE ExtractFromLog
  <2>1. ~Reservoir
    BY <1>5 DEF ExtractFromLog, Reservoir
  <2>2. \E sample \in IF Limited THEN SampleTop(Cleaned) ELSE {Cleaned} : cases' = Cases(sample)
    BY <1>5 DEF ExtractFromLog, Loaded
  <2>. QED
    BY <1>1, <1>3, <2>1, <2>2 DEF SampleInv, Outset, Loading
<1>. QED
  BY <1>4, <1>5

(* The other steps of the intake draw nothing.                             *)
LEMMA IntakeKeepsSample ==
  ASSUME Given, ReplayInv, SampleInv, IntakeNext
  PROVE  SampleInv'
<1>1. CASE LoadFromFile \/ LoadFromPlugin
  <2>1. Source.type # "log" /\ Source' = Source
    BY <1>1 DEF LoadFromFile, LoadFromPlugin, Source
  <2>. QED
    BY <2>1 DEF SampleInv
<1>2. CASE FinishShadow
  <2>1. stage = "shadow_create" /\ stage' = "queries_extract_or_load" /\ UNCHANGED <<settings, cases, taken>>
    BY <1>2 DEF FinishShadow, Creating, Enter, KeepRun, request
  <2>2. SUFFICES ASSUME Source.type = "log" PROVE SampleInv'
    BY <2>1 DEF SampleInv, Source
  <2>3. cases = <<>> /\ taken = 0
    BY <2>1, <2>2 DEF SampleInv
  <2>4. DrawnFrom(0) /\ Len(cases) = 0
    BY <2>3, NothingDrawn
  <2>5. Cleaned' = Cleaned /\ Limited' = Limited /\ Source' = Source
    BY <2>1, LogStays
  <2>6. DrawnFrom(0)'
    <3>1. \A n : DrawnFrom(n)' <=> DrawnFrom(n)
      BY <2>1, <2>5 DEF DrawnFrom
    <3>. QED
      BY <2>4, <3>1
  <2>7. Len(Cleaned) \in Nat /\ (Limited => Source.max_queries > 0 /\ Source.max_queries \in Int)
    BY CleanedRows, WellFormedSettings DEF WellFormed, Source, Limited
  <2>8. Len(cases') = IF Limited' THEN Smaller(Source'.max_queries, taken') ELSE taken'
    BY <2>1, <2>3, <2>4, <2>5, <2>7 DEF Smaller
  <2>9. taken' \in 0..Len(Cleaned') /\ taken' = 0
    BY <2>1, <2>3, <2>5, <2>7
  <2>10. DrawnFrom(taken)'
    BY <2>6, <2>9
  <2>. QED
    BY <2>1, <2>8, <2>9, <2>10 DEF SampleInv, Outset, Sampled, Validated, Compared
<1>3. CASE /\ ~(LoadFromFile \/ LoadFromPlugin \/ ExtractFromLog \/ EndSampling \/ TakeRow) /\ ~FinishShadow
  <2>1. UNCHANGED <<settings, cases, taken>>
    BY <1>3 DEF IntakeNext, SnapshotNext, CaptureSnapshot, LoadSnapshot, WriteFile, DetectCompatibility, EndSnapshot,
       KeepFiles, ValidateChangeset, InitializePlugins, RunPreflight, PatchTarget, UploadConfigset, CreateCollection,
       PrepareChange, CallSchemaApi, request, intakeVars, shadowVars, KeepRun
  <2>2. /\ OnlyFrom(Outset \cup {"snapshot", "preflight", "shadow_create"}) /\ (Loading' => Loading)
        /\ OnlyFrom(Sampled)
    BY <1>3 DEF IntakeNext, SnapshotNext, CaptureSnapshot, LoadSnapshot, WriteFile, DetectCompatibility, EndSnapshot,
       Snapshotting, ValidateChangeset, InitializePlugins, RunPreflight, PatchTarget, UploadConfigset, CreateCollection,
       PrepareChange, CallSchemaApi, KeepRun, Creating, Raise, PatchFails, Loading, Enter, OnlyFrom, Outset, Sampled,
       Validated, Compared
  <2>. QED
    BY <2>1, <2>2, SampleStays
<1>. QED
  BY <1>1, <1>2, <1>3, LoadingKeepsSample, TakeRowKeepsSample

(* Every step of the run keeps it.                                         *)
LEMMA SampleStep ==
  ASSUME Given, ReplayInv, SampleInv, [Next]_vars
  PROVE  SampleInv'
<1>1. CASE UNCHANGED vars \/ Over
  <2>1. UNCHANGED <<settings, stage, cases, taken>>
    BY <1>1 DEF vars, intakeVars, Over
  <2>. QED
    BY <2>1, SampleStays DEF OnlyFrom, Loading
<1>2. CASE ComparisonNext /\ UNCHANGED <<intakeVars, vectorVars>>
  <2>1. UNCHANGED <<settings, cases, taken>> /\ stage \in Validated /\ stage' \in Validated
    BY <1>2 DEF ComparisonNext, Replay, Compare, SelectRewrites, FetchRewrite, EndRewrites, SelectExplains,
       FetchExplain, EvaluateGate, request, intakeVars, Validated, Compared, Enter
  <2>. QED
    BY <2>1, SampleStays DEF OnlyFrom, Loading, Outset, Sampled, Validated, Compared
<1>3. CASE VectorNext /\ UNCHANGED <<intakeVars, comparisonVars>>
  <2>1. /\ UNCHANGED <<settings, cases, taken>> /\ stage \in Sampled
        /\ stage' \in Sampled \cup {"failed"}
    BY <1>3, VectorCourse DEF request, intakeVars, Sampled, Validated, Compared
  <2>. QED
    BY <2>1, SampleStays DEF OnlyFrom, Loading, Outset, Sampled, Validated, Compared
<1>. QED
  BY <1>1, <1>2, <1>3, IntakeKeepsSample DEF Next

-----------------------------------------------------------------------------
(* The lesser of two lengths.                                              *)
LEMMA SmallerIsMin ==
  ASSUME NEW m \in Int, NEW n \in Int
  PROVE  Min({m, n}) = Smaller(m, n)
<1>1. PICK S : S = {m, n}
  OBVIOUS
<1>2. Smaller(m, n) \in S /\ \A x \in S : Smaller(m, n) <= x
  BY <1>1 DEF Smaller
<1>3. \A x \in S : (\A y \in S : x <= y) => x = Smaller(m, n)
  BY <1>1 DEF Smaller
<1>4. Min(S) = CHOOSE x \in S : \A y \in S : x <= y
  BY DEF Min
<1>. QED
  BY <1>1, <1>2, <1>3, <1>4

(* How often the log makes a query.                                        *)
Times(q) == Cardinality({i \in DOMAIN Cases(Cleaned) : Cases(Cleaned)[i] = q})

(* What is drawn from the log has no query more often than the log.        *)
LEMMA DrawnNotOftener ==
  ASSUME Given, cases \in Seq(Pool0), DrawnFrom(Len(Cleaned)), NEW q
  PROVE  Cardinality({i \in DOMAIN cases : cases[i] = q}) <= Times(q)
<1>1. PICK clean \in Seq(DOMAIN settings.queries) : clean = Cleaned
  BY CleanedRows
<1>2. PICK m, n \in Nat : m = Len(cases) /\ n = Len(clean)
  BY <1>1
<1>3. PICK pos \in [1..m -> 1..n] : /\ \A i, j \in 1..m : pos[i] = pos[j] => i = j
                                   /\ \A i \in 1..m : cases[i] = settings.queries[clean[pos[i]]]
  BY <1>1, <1>2 DEF DrawnFrom
<1>4. PICK log : log = Cases(clean)
  OBVIOUS
<1>5. DOMAIN log = 1..n /\ \A i \in 1..n : log[i] = settings.queries[clean[i]]
  <2>1. DOMAIN clean = 1..n
    BY <1>1, <1>2
  <2>2. log = [i \in 1..n |-> settings.queries[clean[i]]]
    BY <1>4, <2>1, Zenon DEF Cases
  <2>. QED
    BY <2>2
<1>6. PICK S, T : S = {i \in 1..m : cases[i] = q} /\ T = {i \in 1..n : log[i] = q}
  OBVIOUS
<1>7. PICK f : f = [i \in S |-> pos[i]]
  OBVIOUS
<1>8. f \in [S -> T] /\ \A i, j \in S : f[i] = f[j] => i = j
  <2>1. \A i \in S : i \in 1..m /\ f[i] = pos[i]
    BY <1>6, <1>7
  <2>2. \A i \in S : pos[i] \in 1..n /\ log[pos[i]] = q
    BY <1>3, <1>5, <1>6
  <2>3. \A i \in S : pos[i] \in T
    BY <1>6, <2>2
  <2>. QED
    BY <1>3, <1>7, <2>1, <2>3
<1>9. f \in Injection(S, T)
  BY <1>8 DEF Injection, IsInjective
<1>10. IsFiniteSet(T)
  <2>1. IsFiniteSet(1..n) /\ T \subseteq 1..n
    BY <1>6, FS_Interval
  <2>. QED
    BY <2>1, FS_Subset
<1>11. Cardinality(S) <= Cardinality(T)
  BY <1>9, <1>10, FS_Injection
<1>12. DOMAIN cases = 1..m
  BY <1>2
<1>. QED
  BY <1>1, <1>4, <1>5, <1>6, <1>11, <1>12 DEF Times

(* queries/sampler.py: what `top` can take: the rows in an order by their  *)
(* counts, each once, up to the limit.                                     *)
LEMMA TopRows ==
  ASSUME Given, NEW D, NEW clean \in Seq(D), Limited, NEW sample \in SampleTop(clean)
  PROVE  \E c, l \in Nat : \E order \in [1..c -> ToSet(clean)] :
           /\ c = Cardinality(ToSet(clean)) /\ l = Smaller(Source.max_queries, c)
           /\ sample = [i \in 1..l |-> order[i]]
           /\ \A i, j \in 1..c : order[i] = order[j] => i = j
           /\ \A r \in ToSet(clean) : \E j \in 1..c : order[j] = r
           /\ \A i, j \in 1..c : i < j => CountOf(clean, order[i]) >= CountOf(clean, order[j])
<1>1. PICK C : C = ToSet(clean)
  OBVIOUS
<1>2. PICK c \in Nat : c = Cardinality(C)
  BY <1>1, RangeFinite
<1>3. PICK order \in [1..c -> C] :
        /\ sample = FirstRows(order) /\ ToSet(order) = C
        /\ \A m, n \in DOMAIN order : m < n =>
             \/ CountOf(clean, order[m]) > CountOf(clean, order[n])
             \/ CountOf(clean, order[m]) = CountOf(clean, order[n])
                /\ FirstSeen(clean, order[m]) < FirstSeen(clean, order[n])
  BY <1>1, <1>2, Zenon DEF SampleTop
<1>4. \A r \in C : \E j \in 1..c : order[j] = r
  BY <1>3 DEF ToSet
<1>5. \A i, j \in 1..c : order[i] = order[j] => i = j
  <2>1. PICK M : M = 1..c
    OBVIOUS
  <2>2. order \in Surjection(M, C)
    BY <1>4, <2>1 DEF Surjection
  <2>3. IsFiniteSet(1..c) /\ Cardinality(1..c) = c
    BY FS_Interval
  <2>4. IsFiniteSet(M) /\ Cardinality(M) = Cardinality(C)
    BY <1>2, <2>1, <2>3
  <2>5. order \in Injection(M, C)
    BY <2>2, <2>4, FS_SurjSameCardinalityImpliesInj
  <2>. QED
    BY <2>1, <2>5 DEF Injection, IsInjective
<1>6. \A r : CountOf(clean, r) \in Nat
  <2>1. PICK n \in Nat : DOMAIN clean = 1..n
    OBVIOUS
  <2>2. SUFFICES ASSUME NEW r PROVE CountOf(clean, r) \in Nat
    OBVIOUS
  <2>3. PICK S : S = {i \in 1..n : clean[i] = r}
    OBVIOUS
  <2>4. IsFiniteSet(1..n) /\ S \subseteq 1..n
    BY <2>3, FS_Interval
  <2>5. IsFiniteSet(S)
    BY <2>4, FS_Subset
  <2>6. Cardinality(S) \in Nat
    BY <2>5, FS_CardinalityType
  <2>. QED
    BY <2>1, <2>3, <2>6 DEF CountOf
<1>7. \A i, j \in 1..c : i < j => CountOf(clean, order[i]) >= CountOf(clean, order[j])
  <2>1. SUFFICES ASSUME NEW i \in 1..c, NEW j \in 1..c, i < j
                 PROVE  CountOf(clean, order[i]) >= CountOf(clean, order[j])
    OBVIOUS
  <2>2. CountOf(clean, order[i]) > CountOf(clean, order[j]) \/ CountOf(clean, order[i]) = CountOf(clean, order[j])
    BY <1>3, <2>1
  <2>3. PICK x, y \in Nat : x = CountOf(clean, order[i]) /\ y = CountOf(clean, order[j])
    BY <1>6
  <2>. QED
    BY <2>2, <2>3
<1>8. PICK l \in Nat : l = Smaller(Source.max_queries, c) /\ l <= c
  BY WellFormedSettings DEF WellFormed, Source, Limited, Smaller
<1>9. sample = [i \in 1..l |-> order[i]]
  <2>1. order \in Seq(C) /\ Len(order) = c
    BY <1>3
  <2>2. sample = SubSeq(order, 1, l)
    BY <1>3, <1>8, <2>1 DEF FirstRows, Smaller
  <2>. QED
    BY <1>8, <2>1, <2>2
<1>10. order \in [1..c -> ToSet(clean)] /\ c = Cardinality(ToSet(clean))
  BY <1>1, <1>2, <1>3
<1>11. \A r \in ToSet(clean) : \E j \in 1..c : order[j] = r
  BY <1>1, <1>4
<1>. QED
  BY <1>5, <1>7, <1>8, <1>9, <1>10, <1>11, Zenon

(* What Cases makes of rows.                                               *)
LEMMA CasesOf ==
  ASSUME NEW D, NEW seq \in Seq(D), NEW n, n = Len(seq)
  PROVE  DOMAIN Cases(seq) = 1..n /\ \A i \in 1..n : Cases(seq)[i] = settings.queries[seq[i]]
<1>1. DOMAIN seq = 1..n
  OBVIOUS
<1>2. PICK log : log = Cases(seq)
  OBVIOUS
<1>3. log = [i \in 1..n |-> settings.queries[seq[i]]]
  BY <1>1, <1>2, Zenon DEF Cases
<1>4. DOMAIN log = 1..n /\ \A i \in 1..n : log[i] = settings.queries[seq[i]]
  BY <1>3
<1>. QED
  BY <1>2, <1>4

(* However the log is sampled, each case has a row of its own in it.       *)
LEMMA SampleIsDrawn ==
  ASSUME Given, SampleInv, Source.type = "log", stage \in Sampled
  PROVE  DrawnFrom(Len(Cleaned))
<1>1. PICK clean \in Seq(DOMAIN settings.queries) : clean = Cleaned
  BY CleanedRows
<1>2. PICK n \in Nat : n = Len(clean)
  OBVIOUS
<1>3. CASE Reservoir
  BY <1>3 DEF SampleInv
<1>4. CASE ~Reservoir /\ ~Limited
  <2>1. cases = Cases(clean)
    BY <1>1, <1>4 DEF SampleInv
  <2>2. DOMAIN cases = 1..n /\ (\A i \in 1..n : cases[i] = settings.queries[clean[i]]) /\ Len(cases) = n
    <3>1. DOMAIN cases = 1..n /\ \A i \in 1..n : cases[i] = settings.queries[clean[i]]
      BY <1>2, <2>1, CasesOf
    <3>2. cases = [i \in 1..n |-> cases[i]]
      <4>1. cases = [i \in DOMAIN clean |-> settings.queries[clean[i]]]
        BY <2>1, Zenon DEF Cases
      <4>. QED
        BY <3>1, <4>1
    <3>3. Len(cases) = n
      BY <3>2, ItemsAreSequence
    <3>. QED
      BY <3>1, <3>3
  <2>3. PICK pos : pos = [i \in 1..n |-> i]
    OBVIOUS
  <2>4. pos \in [1..n -> 1..n] /\ \A i \in 1..n : pos[i] = i
    BY <2>3
  <2>. QED
    BY <1>1, <1>2, <2>2, <2>4 DEF DrawnFrom
<1>5. CASE ~Reservoir /\ Limited
  <2>1. PICK sample \in SampleTop(clean) : cases = Cases(sample)
    BY <1>1, <1>5 DEF SampleInv
  <2>0. PICK c, l \in Nat : \E order \in [1..c -> ToSet(clean)] :
           /\ c = Cardinality(ToSet(clean)) /\ l = Smaller(Source.max_queries, c)
           /\ sample = [i \in 1..l |-> order[i]]
           /\ \A i, j \in 1..c : order[i] = order[j] => i = j
           /\ \A r \in ToSet(clean) : \E j \in 1..c : order[j] = r
           /\ \A i, j \in 1..c : i < j => CountOf(clean, order[i]) >= CountOf(clean, order[j])
    BY <1>5, TopRows
  <2>2. PICK order \in [1..c -> ToSet(clean)] :
          /\ l = Smaller(Source.max_queries, c)
          /\ sample = [i \in 1..l |-> order[i]] /\ \A i, j \in 1..c : order[i] = order[j] => i = j
    BY <2>0
  <2>3. l <= c
    BY <1>5, <2>2, WellFormedSettings DEF WellFormed, Source, Smaller
  <2>4. \A i \in 1..l : order[i] \in ToSet(clean) /\ sample[i] = order[i]
    BY <2>2, <2>3
  <2>5. DOMAIN cases = 1..l /\ Len(cases) = l /\ \A i \in 1..l : cases[i] = settings.queries[order[i]]
    <3>1. cases = [i \in 1..l |-> settings.queries[sample[i]]]
      BY <2>1, <2>2 DEF Cases
    <3>2. cases = [i \in 1..l |-> cases[i]]
      BY <3>1
    <3>3. Len(cases) = l
      BY <2>2, <3>2, ItemsAreSequence
    <3>. QED
      BY <2>4, <3>1, <3>3
  <2>6. PICK pos : pos = [i \in 1..l |-> CHOOSE p \in 1..n : clean[p] = order[i]]
    OBVIOUS
  <2>7. \A i \in 1..l : pos[i] \in 1..n /\ clean[pos[i]] = order[i]
    BY <1>2, <2>4, <2>6 DEF ToSet
  <2>8. pos \in [1..l -> 1..n]
    BY <2>6, <2>7
  <2>9. \A i, j \in 1..l : pos[i] = pos[j] => i = j
    <3>1. \A i, j \in 1..l : pos[i] = pos[j] => order[i] = order[j]
      BY <2>7
    <3>2. \A i \in 1..l : i \in 1..c
      BY <2>3
    <3>. QED
      BY <2>2, <3>1, <3>2
  <2>10. \A i \in 1..l : cases[i] = settings.queries[Cleaned[pos[i]]]
    BY <1>1, <2>5, <2>7
  <2>. QED
    BY <1>1, <1>2, <2>5, <2>8, <2>9, <2>10 DEF DrawnFrom
<1>. QED
  BY <1>3, <1>4, <1>5

(* A row's query is in the log as often as the row.                        *)
LEMMA TimesOfRow ==
  ASSUME Given, Source.type = "log", NEW r \in DOMAIN settings.queries
  PROVE  Times(settings.queries[r]) = CountOf(Cleaned, r)
<1>1. PICK clean \in Seq(DOMAIN settings.queries) : clean = Cleaned
  BY CleanedRows
<1>2. PICK n : n = Len(clean)
  OBVIOUS
<1>3. \A x, y \in DOMAIN settings.queries : settings.queries[x] = settings.queries[y] => x = y
  BY WellFormedSettings DEF WellFormed, Source, IsInjective
<1>4. PICK log : log = Cases(clean)
  OBVIOUS
<1>5. DOMAIN log = 1..n /\ \A i \in 1..n : log[i] = settings.queries[clean[i]]
  BY <1>2, <1>4, CasesOf
<1>6. DOMAIN clean = 1..n /\ \A i \in 1..n : clean[i] \in DOMAIN settings.queries
  BY <1>2
<1>7. \A i \in 1..n : log[i] = settings.queries[r] <=> clean[i] = r
  BY <1>3, <1>5, <1>6
<1>8. {i \in DOMAIN log : log[i] = settings.queries[r]} = {i \in DOMAIN clean : clean[i] = r}
  BY <1>5, <1>6, <1>7
<1>. QED
  BY <1>1, <1>4, <1>8 DEF Times, CountOf

(* The log has as many queries as rows.                                    *)
LEMMA QueriesOfLog ==
  ASSUME Given, Source.type = "log"
  PROVE  Cardinality(ToSet(Cases(Cleaned))) = Cardinality(ToSet(Cleaned))
<1>1. PICK clean \in Seq(DOMAIN settings.queries) : clean = Cleaned
  BY CleanedRows
<1>2. PICK n : n = Len(clean)
  OBVIOUS
<1>3. PICK log : log = Cases(clean)
  OBVIOUS
<1>4. DOMAIN log = 1..n /\ \A i \in 1..n : log[i] = settings.queries[clean[i]]
  BY <1>2, <1>3, CasesOf
<1>5. PICK S, T : S = ToSet(clean) /\ T = ToSet(log)
  OBVIOUS
<1>6. S \subseteq DOMAIN settings.queries /\ IsFiniteSet(S)
  BY <1>5, RangeFinite
<1>7. \A x, y \in S : settings.queries[x] = settings.queries[y] => x = y
  BY <1>6, WellFormedSettings DEF WellFormed, Source, IsInjective
<1>8. PICK f : f = [x \in S |-> settings.queries[x]]
  OBVIOUS
<1>9. DOMAIN clean = 1..n
  BY <1>2
<1>10. f \in [S -> T]
  <2>1. \A x \in S : \E i \in 1..n : x = clean[i]
    BY <1>5, <1>9 DEF ToSet
  <2>2. \A x \in S : settings.queries[x] \in T
    BY <1>4, <1>5, <2>1 DEF ToSet
  <2>. QED
    BY <1>8, <2>2
<1>11. \A t \in T : \E x \in S : f[x] = t
  <2>1. SUFFICES ASSUME NEW t \in T PROVE \E x \in S : f[x] = t
    OBVIOUS
  <2>2. PICK i \in 1..n : t = settings.queries[clean[i]]
    BY <1>4, <1>5, <2>1 DEF ToSet
  <2>3. clean[i] \in S
    BY <1>5, <1>9 DEF ToSet
  <2>. QED
    BY <1>8, <2>2, <2>3
<1>12. f \in Injection(S, T) /\ f \in Surjection(S, T)
  BY <1>7, <1>8, <1>10, <1>11 DEF Injection, IsInjective, Surjection
<1>13. Cardinality(T) = Cardinality(S)
  BY <1>6, <1>12, FS_Surjection
<1>. QED
  BY <1>1, <1>3, <1>5, <1>13

(* queries/sampler.py: `top` takes as many rows as it may and passes none  *)
(* over for a rarer one.                                                   *)
LEMMA TopIsFair ==
  ASSUME Given, SampleInv, Source.type = "log", stage \in Sampled, Limited, ~Reservoir
  PROVE  /\ Len(cases) = Smaller(Source.max_queries, Cardinality(ToSet(Cases(Cleaned))))
         /\ \A q \in ToSet(Cases(Cleaned)) \ ToSet(cases), r \in ToSet(cases) : Times(q) <= Times(r)
<1>1. PICK clean \in Seq(DOMAIN settings.queries) : clean = Cleaned
  BY CleanedRows
<1>2. PICK n : n = Len(clean)
  OBVIOUS
<1>3. PICK sample \in SampleTop(clean) : cases = Cases(sample)
  BY <1>1 DEF SampleInv
<1>4. PICK c, l \in Nat : \E order \in [1..c -> ToSet(clean)] :
         /\ c = Cardinality(ToSet(clean)) /\ l = Smaller(Source.max_queries, c)
         /\ sample = [i \in 1..l |-> order[i]]
         /\ \A i, j \in 1..c : order[i] = order[j] => i = j
         /\ \A r \in ToSet(clean) : \E j \in 1..c : order[j] = r
         /\ \A i, j \in 1..c : i < j => CountOf(clean, order[i]) >= CountOf(clean, order[j])
  BY TopRows
<1>5. PICK order \in [1..c -> ToSet(clean)] :
         /\ c = Cardinality(ToSet(clean)) /\ l = Smaller(Source.max_queries, c)
         /\ sample = [i \in 1..l |-> order[i]]
         /\ \A r \in ToSet(clean) : \E j \in 1..c : order[j] = r
         /\ \A i, j \in 1..c : i < j => CountOf(clean, order[i]) >= CountOf(clean, order[j])
  BY <1>4
<1>6. \A i \in 1..c : order[i] \in DOMAIN settings.queries
  <2>1. ToSet(clean) \subseteq DOMAIN settings.queries
    BY RangeFinite
  <2>. QED
    BY <2>1
<1>7. cases = [i \in 1..l |-> settings.queries[order[i]]]
  BY <1>3, <1>5, Zenon DEF Cases
<1>8. Len(cases) = l
  <2>1. cases = [i \in 1..l |-> cases[i]]
    BY <1>7
  <2>. QED
    BY <2>1, ItemsAreSequence
<1>9. ASSUME NEW q \in ToSet(Cases(clean)) \ ToSet(cases), NEW r \in ToSet(cases)
      PROVE  Times(q) <= Times(r)
  <2>1. PICK i \in 1..l : r = settings.queries[order[i]]
    BY <1>7, <1>9 DEF ToSet
  <2>2. PICK k \in 1..n : q = settings.queries[clean[k]]
    <3>1. DOMAIN Cases(clean) = 1..n /\ \A m \in 1..n : Cases(clean)[m] = settings.queries[clean[m]]
      BY <1>2, CasesOf
    <3>. QED
      BY <1>9, <3>1 DEF ToSet
  <2>3. PICK j \in 1..c : q = settings.queries[order[j]]
    <3>1. clean[k] \in ToSet(clean)
      BY <1>2 DEF ToSet
    <3>. QED
      BY <1>5, <2>2, <3>1
  <2>4. j \notin 1..l
    BY <1>7, <1>9, <2>3 DEF ToSet
  <2>5. l <= c
    BY <1>5, WellFormedSettings DEF WellFormed, Source, Smaller
  <2>6. i \in 1..c /\ i < j
    BY <2>4, <2>5
  <2>7. CountOf(clean, order[i]) >= CountOf(clean, order[j])
    BY <1>5, <2>6
  <2>8. Times(r) = CountOf(clean, order[i]) /\ Times(q) = CountOf(clean, order[j])
    BY <1>1, <1>6, <2>1, <2>3, <2>6, TimesOfRow
  <2>. QED
    BY <2>7, <2>8
<1>10. Cardinality(ToSet(Cases(Cleaned))) = c
  BY <1>1, <1>5, QueriesOfLog
<1>. QED
  BY <1>1, <1>5, <1>8, <1>9, <1>10

(* queries/sampler.py: a sample of a log is as large as the limit and the  *)
(* log allow, has no query more often than the log once it is sanitized,   *)
(* and `top` passes no query over for a rarer one; for any log, limit and  *)
(* sanitizing.                                                             *)
THEOREM SamplesAreDrawnFairly == Spec => []SamplesAreFair
<1>1. Init => Given /\ ReplayInv /\ SampleInv
  BY InitReplay, InitSample DEF Init, Given
<1>2. Given /\ ReplayInv /\ SampleInv /\ [Next]_vars => (Given /\ ReplayInv /\ SampleInv)'
  BY NextKeepsGiven, ReplayStep, SampleStep
<1>3. Given /\ ReplayInv /\ SampleInv => SamplesAreFair
  <2>1. SUFFICES ASSUME Given, ReplayInv, SampleInv, Source.type = "log", stage \in Sampled
        PROVE  /\ \A q \in ToSet(cases) : Cardinality({i \in DOMAIN cases : cases[i] = q}) <= Times(q)
               /\ Limited /\ Source.mode = "reservoir" =>
                    Len(cases) = Min({Source.max_queries, Len(Cases(Cleaned))})
               /\ Limited /\ Source.mode = "top" =>
                    /\ Len(cases) = Min({Source.max_queries, Cardinality(ToSet(Cases(Cleaned)))})
                    /\ \A q \in ToSet(Cases(Cleaned)) \ ToSet(cases), r \in ToSet(cases) : Times(q) <= Times(r)
    <3>1. stage \notin {"validate", "plugins_init", "snapshot", "preflight", "shadow_create",
                        "queries_extract_or_load", "failed"} /\ ReplayInv => stage \in Sampled
      BY DEF ReplayInv, Stages, Sampled, Validated, Compared
    <3>. QED
      BY <2>1, <3>1, Zenon DEF SamplesAreFair, Times
  <2>2. \A q \in ToSet(cases) : Cardinality({i \in DOMAIN cases : cases[i] = q}) <= Times(q)
    BY <2>1, SampleIsDrawn, DrawnNotOftener DEF ReplayInv
  <2>3. PICK clean \in Seq(DOMAIN settings.queries) : clean = Cleaned
    BY CleanedRows, <2>1
  <2>4. PICK max, len, c \in Int : max = Source.max_queries /\ len = Len(Cleaned) /\ c = Cardinality(ToSet(Cleaned))
    BY <2>1, <2>3, RangeFinite, WellFormedSettings DEF WellFormed, Source
  <2>5. Len(Cases(Cleaned)) = len /\ Cardinality(ToSet(Cases(Cleaned))) = c
    BY <2>1, <2>3, <2>4, CasesAreQueries, QueriesOfLog, CasesOf
  <2>6. Limited /\ Source.mode = "reservoir" => Len(cases) = Smaller(max, len)
    BY <2>1, <2>4 DEF SampleInv, Reservoir
  <2>7. Limited /\ Source.mode = "top" =>
          /\ Len(cases) = Smaller(max, c)
          /\ \A q \in ToSet(Cases(Cleaned)) \ ToSet(cases), r \in ToSet(cases) : Times(q) <= Times(r)
    BY <2>1, <2>4, <2>5, TopIsFair DEF Reservoir
  <2>8. Min({max, len}) = Smaller(max, len) /\ Min({max, c}) = Smaller(max, c)
    BY SmallerIsMin
  <2>. QED
    BY <2>2, <2>4, <2>5, <2>6, <2>7, <2>8
<1>. QED
  BY <1>1, <1>2, <1>3, PTL DEF Spec
=============================================================================
