-------------------------- MODULE EvaluationProofs --------------------------
(***************************************************************************)
(* The snapshot, the replay and the gate of an evaluation, for every       *)
(* family of settings: what a run leaves on disk as its baseline is one    *)
(* capture (SnapshotInv says how far the copying has come, also after a    *)
(* crash); each row is made of both answers to its query (ReplayInv); and  *)
(* a verdict of pass is earned.  Both are inductive invariants.            *)
(***************************************************************************)
EXTENDS Evaluation, SublistProofs

-----------------------------------------------------------------------------
(* Sequences as functions.  A function on 1..n is a sequence of length n.  *)
LEMMA ItemsAreSequence ==
  ASSUME NEW n \in Nat, NEW s, s = [i \in 1..n |-> s[i]]
  PROVE  s \in Seq({s[i] : i \in 1..n}) /\ Len(s) = n
<1>1. s \in [1..n -> {s[i] : i \in 1..n}]
  OBVIOUS
<1>. QED
  BY <1>1

(* Its head is its first item, its tail the others.                        *)
LEMMA ItemsTail ==
  ASSUME NEW n \in Nat, NEW s, s = [i \in 1..(n + 1) |-> s[i]]
  PROVE  Head(s) = s[1] /\ Tail(s) = [i \in 1..n |-> s[i + 1]]
<1>1. s \in Seq({s[i] : i \in 1..(n + 1)}) /\ Len(s) = n + 1
  BY ItemsAreSequence
<1>2. Tail(s) \in Seq({s[i] : i \in 1..(n + 1)}) /\ Len(Tail(s)) = n /\ \A i \in 1..n : Tail(s)[i] = s[i + 1]
  BY <1>1
<1>. QED
  BY <1>1, <1>2

(* An item added at its end is the last one.                               *)
LEMMA ItemsAppend ==
  ASSUME NEW n \in Nat, NEW s, s = [i \in 1..n |-> s[i]], NEW x
  PROVE  /\ s \o <<x>> = [i \in 1..(n + 1) |-> IF i <= n THEN s[i] ELSE x]
         /\ Append(s, x) = [i \in 1..(n + 1) |-> IF i <= n THEN s[i] ELSE x]
<1>. DEFINE S == {s[i] : i \in 1..n} \cup {x}
<1>1. s \in Seq(S) /\ Len(s) = n
  BY ItemsAreSequence
<1>2. <<x>> \in Seq(S) /\ Len(<<x>>) = 1 /\ <<x>>[1] = x
  OBVIOUS
<1>. HIDE DEF S
<1>3. Append(s, x) = [i \in 1..(n + 1) |-> IF i <= n THEN s[i] ELSE x]
  BY <1>1
<1>4. s \o <<x>> \in Seq(S) /\ Len(s \o <<x>>) = n + 1
  BY <1>1, <1>2
<1>5. \A i \in 1..(n + 1) : (s \o <<x>>)[i] = IF i <= n THEN s[i] ELSE x
  BY <1>1, <1>2
<1>. QED
  BY <1>3, <1>4, <1>5

(* The contents of a hash are its fields but the first.                    *)
LEMMA TailOfFour ==
  ASSUME NEW a, NEW b, NEW c, NEW d
  PROVE  Tail(<<a, b, c, d>>) = <<b, c, d>>
  OBVIOUS

-----------------------------------------------------------------------------
(* The stages before the snapshot and those after it, and the steps that   *)
(* stay on their side of it.                                               *)
Outset == {"validate", "plugins_init"}
Later == Stages \ {"validate", "plugins_init", "snapshot", "failed"}

Onward ==
  \/ stage' = stage
  \/ stage \in Outset /\ stage' \in Outset \cup {"snapshot", "failed"}
  \/ stage \in Later /\ stage' \in Later \cup {"failed"}

(* No step of the intake but the snapshot's own and the preflight's        *)
(* touches the files or what the run remembers of them.                    *)
LEMMA IntakeKeepsSnapshot ==
  ASSUME IntakeNext, ~SnapshotNext, ~RunPreflight
  PROVE  UNCHANGED <<settings, compat, out, writes, baseline>> /\ Onward
<1>. USE DEF Onward, Outset, Later, Stages, Enter, request, intakeVars, shadowVars, KeepRun, Creating, Raise,
             Loading, Loaded
<1>1. CASE ValidateChangeset
  BY <1>1 DEF ValidateChangeset
<1>2. CASE InitializePlugins
  BY <1>2 DEF InitializePlugins
<1>3. CASE PatchTarget
  BY <1>3 DEF PatchTarget, PatchFails
<1>4. CASE UploadConfigset
  BY <1>4 DEF UploadConfigset, PatchFails
<1>5. CASE CreateCollection
  BY <1>5 DEF CreateCollection
<1>6. CASE PrepareChange
  BY <1>6 DEF PrepareChange
<1>7. CASE CallSchemaApi
  BY <1>7 DEF CallSchemaApi
<1>8. CASE FinishShadow
  BY <1>8 DEF FinishShadow
<1>9. CASE LoadFromFile
  BY <1>9 DEF LoadFromFile
<1>10. CASE LoadFromPlugin
  BY <1>10 DEF LoadFromPlugin
<1>11. CASE ExtractFromLog
  BY <1>11 DEF ExtractFromLog
<1>12. CASE TakeRow
  BY <1>12 DEF TakeRow
<1>13. CASE EndSampling
  BY <1>13 DEF EndSampling
<1>. QED
  BY <1>1, <1>2, <1>3, <1>4, <1>5, <1>6, <1>7, <1>8, <1>9, <1>10, <1>11, <1>12, <1>13 DEF IntakeNext

(* Neither does a step of the replay, the comparison or the gate.          *)
LEMMA ComparisonKeepsSnapshot ==
  ASSUME ComparisonNext, UNCHANGED <<intakeVars, vectorVars>>
  PROVE  UNCHANGED <<settings, compat, out, writes, baseline>> /\ Onward
<1>. USE DEF Onward, Outset, Later, Stages, Enter, request, intakeVars
<1>1. CASE Replay
  BY <1>1 DEF Replay
<1>2. CASE Compare
  BY <1>2 DEF Compare
<1>3. CASE SelectRewrites
  BY <1>3 DEF SelectRewrites
<1>4. CASE FetchRewrite
  BY <1>4 DEF FetchRewrite
<1>5. CASE EndRewrites
  BY <1>5 DEF EndRewrites
<1>6. CASE SelectExplains
  BY <1>6 DEF SelectExplains
<1>7. CASE FetchExplain
  BY <1>7 DEF FetchExplain
<1>8. CASE EvaluateGate
  BY <1>8 DEF EvaluateGate
<1>. QED
  BY <1>1, <1>2, <1>3, <1>4, <1>5, <1>6, <1>7, <1>8 DEF ComparisonNext

(* Nor one of the vector scenarios.                                        *)
LEMMA VectorKeepsSnapshot ==
  ASSUME VectorNext, UNCHANGED <<intakeVars, comparisonVars>>
  PROVE  UNCHANGED <<settings, compat, out, writes, baseline>> /\ Onward
<1>. USE DEF Onward, Outset, Later, Stages, Enter, request, intakeVars, WithinReplay
<1>1. CASE VectorValidate
  BY <1>1 DEF VectorValidate
<1>2. CASE SkipTarget
  BY <1>2 DEF SkipTarget
<1>3. CASE RunSingle
  BY <1>3 DEF RunSingle
<1>4. CASE RunLexicalPart
  BY <1>4 DEF RunLexicalPart
<1>5. CASE RunVectorPart
  BY <1>5 DEF RunVectorPart
<1>6. CASE CompareScenarios
  BY <1>6 DEF CompareScenarios
<1>. QED
  BY <1>1, <1>2, <1>3, <1>4, <1>5, <1>6 DEF VectorNext

-----------------------------------------------------------------------------
(* The order in which the files are written: the manifest is the last of a *)
(* capture and the first of a copy.                                        *)
Order ==
  IF settings.solr.snapshot = <<>> THEN <<"schema", "system", "collection", "hash", "manifest">>
  ELSE <<"manifest", "schema", "system", "collection", "hash">>

(* The files that the run's baseline and a collection state make.          *)
Capture(collection) ==
  LET b == baseline[1]
  IN  [schema |-> b.schema, system |-> b.system, collection |-> collection, manifest |-> b.manifest,
       hash |-> SnapshotHash(b.manifest.origin, b.schema, b.system, collection)]

(* The baseline was taken from Solr, or read from a snapshot that loads.   *)
CapturedAs(collection) ==
  /\ settings.solr.snapshot = <<>> /\ collection \in {"state", "warning"}
  /\ baseline[1].schema = settings.baseline /\ baseline[1].system = settings.solr.system
  /\ baseline[1].manifest.hash = Capture(collection).hash

LoadedAs(collection) ==
  /\ settings.solr.snapshot # <<>>
  /\ LET dir == settings.solr.snapshot[1]
     IN  /\ ~LoadRaises(dir) /\ collection = Read(dir, "collection")
         /\ baseline[1].schema = Read(dir, "schema") /\ baseline[1].system = Read(dir, "system")
         /\ baseline[1].manifest = Read(dir, "manifest")

Collections ==
  {"state", "warning"} \cup
    {Read(dir, "collection") : dir \in {d \in ToSet(settings.solr.snapshot) : ~LoadRaises(d)}}

Taken(collection) ==
  /\ CapturedAs(collection) \/ LoadedAs(collection)
  /\ baseline[1].manifest = [origin |-> baseline[1].manifest.origin, hash |-> baseline[1].manifest.hash,
                             compatibility |-> baseline[1].manifest.compatibility]

(* k files are written, the next one may be truncated, the others are as   *)
(* the run found them.                                                     *)
Copied(collection, k) ==
  /\ writes = [i \in 1..(5 - k) |-> <<Order[k + i], Capture(collection)[Order[k + i]]>>]
  /\ \A i \in 1..k : out[Order[i]] = Written(Capture(collection)[Order[i]])
  /\ \A i \in (k + 1)..5 :
       \/ out[Order[i]] = settings.solr.out[Order[i]]
       \/ i = k + 1 /\ out[Order[i]] = [state |-> Torn]

(* The record of the capabilities without what is only reported once they  *)
(* are in the manifest.                                                    *)
Timely(contract) ==
  [capabilities |-> contract.capabilities, disabled |-> contract.disabled,
   fallbacks |-> contract.fallbacks \ {LateReport}, degraded |-> contract.degraded]

(* The manifest holds the compatibility that was detected, or is about to. *)
Noted ==
  /\ out["manifest"].state = "written"
  /\ Read(out, "manifest").origin = baseline[1].manifest.origin
  /\ Read(out, "manifest").hash = baseline[1].manifest.hash
  /\ Read(out, "manifest").compatibility = Timely(compat.contract)

Noting ==
  /\ stage = "snapshot" /\ compat.contract = Timely(compat.contract)
  /\ writes = <<<<"manifest", [baseline[1].manifest EXCEPT !.compatibility = compat.contract]>>>>
  /\ out["manifest"] \in {Written(baseline[1].manifest), [state |-> Torn]}

Recorded(collection) ==
  /\ \A file \in Files \ {"manifest"} : out[file] = Written(Capture(collection)[file])
  /\ (writes = <<>> /\ Noted) \/ Noting

(* What the run reports of the detected capabilities is all they imply.    *)
Reported ==
  compat # NoCompat =>
    /\ compat = [caps |-> compat.caps,
                 contract |-> [capabilities |-> compat.contract.capabilities,
                               disabled     |-> DisabledFeatures(compat.caps),
                               fallbacks    |-> compat.contract.fallbacks,
                               degraded     |-> DegradedFeatures(compat.caps)]]
    /\ Fallbacks(compat.caps) \subseteq compat.contract.fallbacks

Given == \E family \in Families : settings \in family

(* Nothing is written before a baseline is taken; then the files are       *)
(* copied one after the other; then the compatibility is detected and put  *)
(* into the manifest.                                                      *)
SnapshotInv ==
  /\ out = [file \in Files |-> out[file]]
  /\ baseline = <<>> => out = settings.solr.out /\ writes = <<>> /\ compat = NoCompat
  /\ baseline # <<>> =>
       \E collection \in Collections :
         /\ Taken(collection)
         /\ \/ compat = NoCompat /\ \E k \in 0..5 : Copied(collection, k)
            \/ compat # NoCompat /\ Recorded(collection)
  /\ stage \in Later => compat # NoCompat
  /\ writes # <<>> => stage = "snapshot"
  /\ Reported

-----------------------------------------------------------------------------
(* Each file is written once.                                              *)
LEMMA OrderFacts ==
  /\ Order \in [1..5 -> Files] /\ Len(Order) = 5
  /\ \A i, j \in 1..5 : Order[i] = Order[j] => i = j
  /\ \A file \in Files : \E i \in 1..5 : Order[i] = file
  /\ settings.solr.snapshot = <<>> => Order[5] = "manifest"
  /\ settings.solr.snapshot # <<>> => Order[1] = "manifest"
<1>1. CASE settings.solr.snapshot = <<>>
  <2>1. Order = <<"schema", "system", "collection", "hash", "manifest">>
    BY <1>1 DEF Order
  <2>. QED
    BY <1>1, <2>1 DEF Files
<1>2. CASE settings.solr.snapshot # <<>>
  <2>1. Order = <<"manifest", "schema", "system", "collection", "hash">>
    BY <1>2 DEF Order
  <2>. QED
    BY <1>2, <2>1 DEF Files
<1>. QED
  BY <1>1, <1>2

(* The directories a run starts from.                                      *)
LEMMA FoundFacts ==
  ASSUME Given
  PROVE  /\ settings.solr.out \in Found
         /\ settings.solr.snapshot # <<>> => /\ settings.solr.snapshot[1] \in ToSet(settings.solr.snapshot)
                                            /\ settings.solr.snapshot[1] \in Found
<1>1. settings.solr.snapshot # <<>> => settings.solr.snapshot = <<settings.solr.snapshot[1]>>
  BY EvaluationAssumption DEF Given, WellFormed
<1>2. settings.solr.snapshot # <<>> => settings.solr.snapshot[1] \in ToSet(settings.solr.snapshot)
  BY <1>1 DEF ToSet
<1>. QED
  BY <1>2 DEF Found

(* A run starts with its output directory as it finds it.                  *)
LEMMA InitSnapshot ==
  ASSUME Init
  PROVE  Given /\ SnapshotInv
<1>1. PICK family \in Families : settings \in family
  BY DEF Init
<1>2. IsDirectory(settings.solr.out)
  BY <1>1, EvaluationAssumption DEF WellFormed
<1>3. out = settings.solr.out /\ writes = <<>> /\ baseline = <<>> /\ compat = NoCompat /\ stage = "validate"
  BY DEF Init, IntakeInit, SnapshotInit
<1>. QED
  BY <1>1, <1>2, <1>3 DEF Given, SnapshotInv, IsDirectory, Later, Reported

(* A capture from Solr lists five files to write.                          *)
LEMMA CaptureKeeps ==
  ASSUME Given, SnapshotInv, CaptureSnapshot
  PROVE  SnapshotInv'
<1>. USE DEF CaptureSnapshot, KeepFiles, Snapshotting, Enter
<1>1. /\ UNCHANGED <<settings, out, compat>> /\ out = settings.solr.out /\ compat = NoCompat /\ baseline = <<>>
      /\ settings.solr.snapshot = <<>> /\ stage = "snapshot"
  BY DEF SnapshotInv
<1>2. ASSUME NEW collection \in {"state", "warning"},
             baseline' = <<[schema |-> Captured(Origin, settings.baseline, settings.solr.system, collection).schema,
                            system |-> Captured(Origin, settings.baseline, settings.solr.system, collection).system,
                            manifest |-> Captured(Origin, settings.baseline, settings.solr.system, collection).manifest]>>,
             writes' = <<<<"schema", Captured(Origin, settings.baseline, settings.solr.system, collection).schema>>,
                         <<"system", Captured(Origin, settings.baseline, settings.solr.system, collection).system>>,
                         <<"collection", collection>>,
                         <<"hash", Captured(Origin, settings.baseline, settings.solr.system, collection).hash>>,
                         <<"manifest", Captured(Origin, settings.baseline, settings.solr.system, collection).manifest>>>>,
             UNCHANGED stage
      PROVE  SnapshotInv'
  <2>1. PICK hash : hash = SnapshotHash(Origin, settings.baseline, settings.solr.system, collection)
    OBVIOUS
  <2>2. PICK manifest :
          manifest = Captured(Origin, settings.baseline, settings.solr.system, collection).manifest
    OBVIOUS
  <2>3. manifest = [origin |-> Origin, hash |-> hash,
                    compatibility |-> CompatibilityContract(settings.solr.system, <<>>)]
    BY <2>1, <2>2 DEF Captured
  <2>4. baseline' = <<[schema |-> settings.baseline, system |-> settings.solr.system, manifest |-> manifest]>>
    BY <1>2, <2>2 DEF Captured
  <2>5. writes' = <<<<"schema", settings.baseline>>, <<"system", settings.solr.system>>,
                    <<"collection", collection>>, <<"hash", hash>>, <<"manifest", manifest>>>>
    BY <1>2, <2>1, <2>2 DEF Captured
  <2>6. Capture(collection)' = [schema |-> settings.baseline, system |-> settings.solr.system,
                               collection |-> collection, manifest |-> manifest, hash |-> hash]
    BY <2>1, <2>3, <2>4 DEF Capture
  <2>7. Order' = <<"schema", "system", "collection", "hash", "manifest">>
    BY <1>1 DEF Order
  <2>8. Copied(collection, 0)'
    <3>1. \A i \in 1..5 : writes'[i] = <<Order'[i], Capture(collection)'[Order'[i]]>>
      BY <2>5, <2>6, <2>7
    <3>2. writes' = [i \in 1..5 |-> <<Order'[i], Capture(collection)'[Order'[i]]>>]
      BY <2>5, <3>1
    <3>. QED
      BY <1>1, <3>2 DEF Copied
  <2>9. Taken(collection)'
    BY <1>1, <2>3, <2>4, <2>6 DEF Taken, CapturedAs
  <2>. QED
    BY <1>1, <1>2, <2>4, <2>8, <2>9 DEF SnapshotInv, Collections, Later, Reported
<1>3. CASE Enter("failed") /\ UNCHANGED <<baseline, writes>>
  BY <1>1, <1>3 DEF SnapshotInv, Later, Reported
<1>. QED
  BY <1>2, <1>3

(* So does a copy of a snapshot that loads; one that does not ends the run *)
(* before a file is touched.                                               *)
LEMMA LoadKeeps ==
  ASSUME Given, SnapshotInv, LoadSnapshot
  PROVE  SnapshotInv'
<1>. USE DEF KeepFiles, Snapshotting, Enter
<1>1. /\ UNCHANGED <<settings, out, compat>> /\ out = settings.solr.out /\ compat = NoCompat /\ baseline = <<>>
      /\ settings.solr.snapshot # <<>> /\ stage = "snapshot"
  BY DEF LoadSnapshot, SnapshotInv
<1>2. PICK dir : dir = settings.solr.snapshot[1]
  OBVIOUS
<1>3. CASE LoadRaises(dir)
  <2>1. UNCHANGED <<baseline, writes>> /\ stage' = "failed"
    BY <1>2, <1>3 DEF LoadSnapshot
  <2>. QED
    BY <1>1, <2>1 DEF SnapshotInv, Later, Reported
<1>4. CASE ~LoadRaises(dir)
  <2>1. /\ baseline' = <<[schema |-> Read(dir, "schema"), system |-> Read(dir, "system"),
                          manifest |-> Read(dir, "manifest")]>>
        /\ writes' = [i \in 1..4 |-> <<<<"manifest", "schema", "system", "collection">>[i],
                                      Read(dir, <<"manifest", "schema", "system", "collection">>[i])>>]
                       \o <<<<"hash", ComputedHash(dir)>>>>
        /\ stage' = stage
    BY <1>2, <1>4 DEF LoadSnapshot
  <2>2. PICK collection : collection = Read(dir, "collection")
    OBVIOUS
  <2>3. Capture(collection)' = [schema |-> Read(dir, "schema"), system |-> Read(dir, "system"),
                               collection |-> collection, manifest |-> Read(dir, "manifest"),
                               hash |-> ComputedHash(dir)]
    BY <2>1, <2>2 DEF Capture, ComputedHash
  <2>4. Order' = <<"manifest", "schema", "system", "collection", "hash">>
    BY <1>1 DEF Order
  <2>5. Copied(collection, 0)'
    <3>1. PICK first : first = [i \in 1..4 |-> <<<<"manifest", "schema", "system", "collection">>[i],
                                      Read(dir, <<"manifest", "schema", "system", "collection">>[i])>>]
      OBVIOUS
    <3>2. first = [i \in 1..4 |-> first[i]]
      BY <3>1
    <3>3. /\ first[1] = <<"manifest", Read(dir, "manifest")>> /\ first[2] = <<"schema", Read(dir, "schema")>>
          /\ first[3] = <<"system", Read(dir, "system")>> /\ first[4] = <<"collection", Read(dir, "collection")>>
      BY <3>1
    <3>4. writes' = [i \in 1..5 |-> IF i <= 4 THEN first[i] ELSE <<"hash", ComputedHash(dir)>>]
      BY <2>1, <3>1, <3>2, ItemsAppend
    <3>5. \A i \in 1..5 : writes'[i] = <<Order'[i], Capture(collection)'[Order'[i]]>>
      BY <2>2, <2>3, <2>4, <3>3, <3>4
    <3>6. writes' = [i \in 1..5 |-> <<Order'[i], Capture(collection)'[Order'[i]]>>]
      BY <3>4, <3>5
    <3>. QED
      BY <1>1, <3>6 DEF Copied
  <2>6. Read(dir, "manifest") = [origin |-> Read(dir, "manifest").origin, hash |-> Read(dir, "manifest").hash,
                                 compatibility |-> Read(dir, "manifest").compatibility]
    BY <1>1, <1>2, <1>4, EvaluationAssumption DEF Given, WellFormed, IsDirectory, LoadRaises, Complete, Files
  <2>7. Taken(collection)'
    <3>1. LoadedAs(collection)'
      BY <1>1, <1>2, <1>4, <2>1, <2>2 DEF LoadedAs
    <3>. QED
      BY <2>1, <2>6, <3>1 DEF Taken
  <2>8. collection \in Collections'
    <3>1. dir \in ToSet(settings.solr.snapshot)
      BY <1>1, <1>2, FoundFacts
    <3>. QED
      BY <1>1, <1>4, <2>2, <3>1 DEF Collections
  <2>. QED
    BY <1>1, <2>1, <2>5, <2>7, <2>8 DEF SnapshotInv, Later, Reported
<1>. QED
  BY <1>3, <1>4

(* One of the files is truncated or written; the others stay.              *)
LEMMA WriteKeepsCopying ==
  ASSUME Given, SnapshotInv, WriteFile,
         NEW collection, NEW k \in 0..5, Copied(collection, k)
  PROVE  \E n \in 0..5 : Copied(collection, n)'
<1>. USE DEF WriteFile
<1>1. /\ UNCHANGED <<settings, baseline>> /\ out = [file \in Files |-> out[file]]
      /\ Order' = Order /\ Capture(collection)' = Capture(collection)
  BY DEF SnapshotInv, Order, Capture
<1>2. PICK target : target = Capture(collection)
  OBVIOUS
<1>3. /\ writes = [i \in 1..(5 - k) |-> <<Order[k + i], target[Order[k + i]]>>]
      /\ \A i \in 1..k : out[Order[i]] = Written(target[Order[i]])
      /\ \A i \in (k + 1)..5 :
        out[Order[i]] = settings.solr.out[Order[i]] \/ (i = k + 1 /\ out[Order[i]] = [state |-> Torn])
  <2>1. writes = [i \in 1..(5 - k) |-> <<Order[k + i], target[Order[k + i]]>>]
    BY <1>2, Zenon DEF Copied
  <2>2. \A i \in 1..k : out[Order[i]] = Written(target[Order[i]])
    BY <1>2, Zenon DEF Copied
  <2>3. \A i \in (k + 1)..5 :
        out[Order[i]] = settings.solr.out[Order[i]] \/ (i = k + 1 /\ out[Order[i]] = [state |-> Torn])
    BY SMT DEF Copied
  <2>. QED
    BY <2>1, <2>2, <2>3
<1>4. k < 5
  BY <1>3
<1>5. PICK file \in Files : file = Order[k + 1]
  BY <1>4, OrderFacts
<1>6. /\ Head(writes) = <<file, target[file]>>
      /\ Tail(writes) = [i \in 1..(4 - k) |-> <<Order[k + 1 + i], target[Order[k + 1 + i]]>>]
  <2>1. PICK n \in Nat : n = 4 - k
    BY <1>4
  <2>2. writes = [i \in 1..(n + 1) |-> writes[i]]
    BY <1>3, <2>1
  <2>3. Head(writes) = writes[1] /\ Tail(writes) = [i \in 1..n |-> writes[i + 1]]
    BY <2>2, ItemsTail
  <2>4. ASSUME NEW i \in 1..n
        PROVE  writes[i + 1] = <<Order[k + 1 + i], target[Order[k + 1 + i]]>>
    <3>1. i + 1 \in 1..(5 - k) /\ k + (i + 1) = k + 1 + i
      BY <2>1
    <3>. QED
      BY <1>3, <3>1
  <2>5. writes[1] = <<file, target[file]>>
    BY <1>3, <1>4, <1>5
  <2>6. Tail(writes) = [i \in 1..n |-> <<Order[k + 1 + i], target[Order[k + 1 + i]]>>]
    BY <2>3, <2>4
  <2>. QED
    BY <2>1, <2>3, <2>5, <2>6
<1>7. \A i \in 1..5 : i # k + 1 => Order[i] \in Files \ {file}
  BY <1>4, <1>5, OrderFacts
<1>8. CASE out[file].state = Torn
  <2>1. out' = [out EXCEPT ![file] = Written(target[file])] /\ writes' = Tail(writes)
    BY <1>6, <1>8
  <2>2. out'[file] = Written(target[file]) /\ \A f \in Files \ {file} : out'[f] = out[f]
    BY <1>1, <1>5, <2>1
  <2>3. 5 - (k + 1) = 4 - k
    BY <1>4
  <2>4. writes' = [i \in 1..(5 - (k + 1)) |-> <<Order[k + 1 + i], target[Order[k + 1 + i]]>>]
    BY <1>6, <2>1, <2>3
  <2>5. \A i \in 1..(k + 1) : out'[Order[i]] = Written(target[Order[i]])
    BY <1>3, <1>4, <1>5, <1>7, <2>2
  <2>6. ASSUME NEW i \in (k + 2)..5
        PROVE  out'[Order[i]] = settings.solr.out[Order[i]]
    <3>1. i \in (k + 1)..5 /\ i \in 1..5 /\ i # k + 1
      BY <1>4
    <3>. QED
      BY <1>3, <1>7, <2>2, <3>1
  <2>7. Copied(collection, k + 1)'
    BY <1>1, <1>2, <1>4, <2>4, <2>5, <2>6 DEF Copied
  <2>. QED
    BY <1>4, <2>7
<1>9. CASE out[file].state # Torn
  <2>1. out' = [out EXCEPT ![file] = [state |-> Torn]] /\ writes' = writes
    BY <1>6, <1>9
  <2>2. out'[file] = [state |-> Torn] /\ \A f \in Files \ {file} : out'[f] = out[f]
    BY <1>1, <1>5, <2>1
  <2>3. \A i \in 1..k : out'[Order[i]] = Written(target[Order[i]])
    BY <1>3, <1>4, <1>7, <2>2
  <2>4. ASSUME NEW i \in (k + 1)..5
        PROVE  \/ out'[Order[i]] = settings.solr.out[Order[i]]
               \/ i = k + 1 /\ out'[Order[i]] = [state |-> Torn]
    <3>1. CASE i = k + 1
      BY <1>5, <2>2, <3>1
    <3>2. CASE i # k + 1
      <4>1. i \in 1..5
        OBVIOUS
      <4>. QED
        BY <1>3, <1>7, <2>2, <3>2, <4>1
    <3>. QED
      BY <3>1, <3>2
  <2>5. writes' = [i \in 1..(5 - k) |-> <<Order[k + i], target[Order[k + i]]>>]
    BY <1>3, <2>1
  <2>6. Copied(collection, k)'
    BY <1>1, <1>2, <2>3, <2>4, <2>5 DEF Copied
  <2>. QED
    BY <2>6
<1>. QED
  BY <1>8, <1>9

(* That is a step of the copying, or of the manifest's second writing.      *)
LEMMA WriteKeeps ==
  ASSUME Given, SnapshotInv, WriteFile
  PROVE  SnapshotInv'
<1>1. /\ UNCHANGED <<settings, baseline, stage, compat>> /\ stage = "snapshot" /\ writes # <<>>
      /\ out = [file \in Files |-> out[file]] /\ baseline # <<>>
  BY DEF WriteFile, Snapshotting, SnapshotInv
<1>2. out' = [file \in Files |-> out'[file]]
  <2>1. PICK file : file = Head(writes)[1]
    OBVIOUS
  <2>2. \/ out' = [out EXCEPT ![file] = Written(Head(writes)[2])]
        \/ out' = [out EXCEPT ![file] = [state |-> Torn]]
    BY <2>1 DEF WriteFile
  <2>. QED
    BY <1>1, <2>2
<1>3. PICK collection \in Collections :
        /\ Taken(collection)
        /\ \/ compat = NoCompat /\ \E k \in 0..5 : Copied(collection, k)
           \/ compat # NoCompat /\ Recorded(collection)
  BY <1>1 DEF SnapshotInv
<1>4. collection \in Collections' /\ Taken(collection)' /\ Capture(collection)' = Capture(collection)
  <2>1. Capture(collection)' = Capture(collection)
    BY <1>1 DEF Capture
  <2>2. collection \in Collections'
    BY <1>1, <1>3 DEF Collections
  <2>3. (CapturedAs(collection) => CapturedAs(collection)') /\ (LoadedAs(collection) => LoadedAs(collection)')
    BY <1>1, <2>1 DEF CapturedAs, LoadedAs
  <2>. QED
    BY <1>1, <1>3, <2>1, <2>2, <2>3 DEF Taken
<1>5. CASE compat = NoCompat
  <2>1. PICK k \in 0..5 : Copied(collection, k)
    BY <1>3, <1>5
  <2>2. \E n \in 0..5 : Copied(collection, n)'
    BY <2>1, WriteKeepsCopying
  <2>. QED
    BY <1>1, <1>2, <1>4, <1>5, <2>2 DEF SnapshotInv, Later, Reported
<1>6. CASE compat # NoCompat
  <2>1. Recorded(collection) /\ Noting
    BY <1>1, <1>3, <1>6 DEF Recorded
  <2>2. PICK manifest : manifest = [baseline[1].manifest EXCEPT !.compatibility = compat.contract]
    OBVIOUS
  <2>3. writes = <<<<"manifest", manifest>>>>
    BY <2>1, <2>2 DEF Noting
  <2>4. /\ Head(writes)[1] = "manifest" /\ Head(writes)[2] = manifest /\ Tail(writes) = <<>>
        /\ "manifest" \in Files
    BY <2>3 DEF Files
  <2>5. CASE out["manifest"].state = Torn
    <3>1. out' = [out EXCEPT !["manifest"] = Written(manifest)] /\ writes' = <<>>
      BY <2>4, <2>5 DEF WriteFile
    <3>2. out'["manifest"] = Written(manifest) /\ \A file \in Files \ {"manifest"} : out'[file] = out[file]
      BY <1>1, <2>4, <3>1
    <3>3. /\ manifest.origin = baseline[1].manifest.origin /\ manifest.hash = baseline[1].manifest.hash
          /\ manifest.compatibility = Timely(compat.contract)
      BY <1>3, <2>1, <2>2 DEF Taken, Noting
    <3>4. Noted'
      BY <1>1, <3>2, <3>3 DEF Noted, Written, Read
    <3>5. Recorded(collection)'
      BY <1>4, <2>1, <3>1, <3>2, <3>4 DEF Recorded
    <3>. QED
      BY <1>1, <1>2, <1>4, <1>6, <3>5 DEF SnapshotInv, Later, Reported
  <2>6. CASE out["manifest"].state # Torn
    <3>1. out' = [out EXCEPT !["manifest"] = [state |-> Torn]] /\ writes' = writes
      BY <2>4, <2>6 DEF WriteFile
    <3>2. out'["manifest"] = [state |-> Torn] /\ \A file \in Files \ {"manifest"} : out'[file] = out[file]
      BY <1>1, <2>4, <3>1
    <3>3. Noting'
      BY <1>1, <2>1, <3>1, <3>2 DEF Noting
    <3>4. Recorded(collection)'
      BY <1>4, <2>1, <3>2, <3>3 DEF Recorded
    <3>. QED
      BY <1>1, <1>2, <1>4, <1>6, <3>4 DEF SnapshotInv, Later, Reported
  <2>. QED
    BY <2>5, <2>6
<1>. QED
  BY <1>5, <1>6

(* Detection runs once all five are written and lists the manifest again.  *)
LEMMA DetectKeeps ==
  ASSUME Given, SnapshotInv, DetectCompatibility
  PROVE  SnapshotInv'
<1>1. /\ UNCHANGED <<settings, baseline, stage, out>> /\ stage = "snapshot" /\ writes = <<>>
      /\ out = [file \in Files |-> out[file]] /\ baseline # <<>> /\ compat = NoCompat
  BY DEF DetectCompatibility, Snapshotting, SnapshotInv, KeepFiles
<1>2. PICK system : system = baseline[1].system
  OBVIOUS
<1>3. PICK answered \in settings.solr.probes :
        compat' = [caps     |-> CapabilitiesForVersion(DetectVersion(system), <<answered>>),
                   contract |-> [CompatibilityContract(system, <<answered>>)
                                   EXCEPT !.degraded = DegradedFeatures(
                                            CapabilitiesForVersion(DetectVersion(system), <<answered>>))]]
  BY <1>2 DEF DetectCompatibility
<1>4. PICK caps : caps = CapabilitiesForVersion(DetectVersion(system), <<answered>>)
  OBVIOUS
<1>5. /\ caps = Probed(DefaultsForMajor(DetectVersion(system)), <<answered>>)
      /\ compat' = [caps     |-> caps,
                    contract |-> [CompatibilityContract(system, <<answered>>)
                                    EXCEPT !.degraded = DegradedFeatures(caps)]]
  BY <1>3, <1>4 DEF CapabilitiesForVersion
<1>6. CompatibilityContract(system, <<answered>>)
        = [capabilities |-> caps, disabled |-> DisabledFeatures(caps), fallbacks |-> Fallbacks(caps),
           degraded |-> {}]
  BY <1>5 DEF CompatibilityContract, DetectedCapabilities
<1>7. compat' = [caps     |-> caps,
                 contract |-> [capabilities |-> caps, disabled |-> DisabledFeatures(caps),
                               fallbacks |-> Fallbacks(caps), degraded |-> DegradedFeatures(caps)]]
  BY <1>5, <1>6
<1>8. compat' # NoCompat
  <2>1. caps = {} => "vector_hybrid" \in DisabledFeatures(caps)
    BY DEF DisabledFeatures, Without
  <2>2. compat' = NoCompat => caps = {} /\ DisabledFeatures(caps) = {}
    BY <1>7 DEF NoCompat
  <2>. QED
    BY <2>1, <2>2
<1>9. Reported'
  BY <1>7 DEF Reported
<1>10. PICK collection \in Collections, k \in 0..5 : Taken(collection) /\ Copied(collection, k)
  BY <1>1 DEF SnapshotInv
<1>11. k = 5
  <2>1. DOMAIN writes = 1..(5 - k)
    BY <1>10, Zenon DEF Copied
  <2>2. DOMAIN writes = {}
    BY <1>1
  <2>3. SUFFICES ASSUME k # 5 PROVE 1 \in 1..(5 - k)
    BY <2>1, <2>2, Zenon
  <2>. QED
    BY <2>3
<1>12. \A file \in Files : out[file] = Written(Capture(collection)[file])
  BY <1>10, <1>11, OrderFacts DEF Copied
<1>13. collection \in Collections' /\ Taken(collection)' /\ Capture(collection)' = Capture(collection)
  <2>1. Capture(collection)' = Capture(collection)
    BY <1>1 DEF Capture
  <2>2. collection \in Collections'
    BY <1>1, <1>10 DEF Collections
  <2>3. (CapturedAs(collection) => CapturedAs(collection)') /\ (LoadedAs(collection) => LoadedAs(collection)')
    BY <1>1, <2>1 DEF CapturedAs, LoadedAs
  <2>. QED
    BY <1>1, <1>10, <2>1, <2>2, <2>3 DEF Taken
<1>14. Noting'
  <2>1. writes' = <<<<"manifest", [baseline[1].manifest EXCEPT !.compatibility = compat'.contract]>>>>
    BY DEF DetectCompatibility
  <2>2. out["manifest"] = Written(baseline[1].manifest)
    BY <1>12 DEF Capture, Files
  <2>3. LateReport \notin Fallbacks(caps)
    BY DEF LateReport, Fallbacks, Without
  <2>4. compat'.contract = Timely(compat'.contract)
    BY <1>7, <2>3 DEF Timely
  <2>. QED
    BY <1>1, <2>1, <2>2, <2>4 DEF Noting
<1>. QED
  BY <1>1, <1>8, <1>9, <1>12, <1>13, <1>14 DEF SnapshotInv, Recorded, Later

(* A step that leaves the snapshot alone, or only adds a fallback to the   *)
(* record.                                                                 *)
LEMMA OthersKeep ==
  ASSUME SnapshotInv, UNCHANGED <<settings, out, writes, baseline>>,
         (compat' # NoCompat) <=> (compat # NoCompat), Reported',
         Timely(compat'.contract) = Timely(compat.contract),
         stage' \in Later => compat # NoCompat,
         writes # <<>> => UNCHANGED <<stage, compat>>
  PROVE  SnapshotInv'
<1>1. ASSUME NEW collection \in Collections, Taken(collection)
      PROVE  /\ collection \in Collections' /\ Taken(collection)'
             /\ \A k \in 0..5 : Copied(collection, k) => Copied(collection, k)'
             /\ Recorded(collection) => Recorded(collection)'
  <2>1. Capture(collection)' = Capture(collection)
    BY DEF Capture
  <2>2. collection \in Collections'
    BY <1>1 DEF Collections
  <2>3. (CapturedAs(collection) => CapturedAs(collection)') /\ (LoadedAs(collection) => LoadedAs(collection)')
    BY <2>1 DEF CapturedAs, LoadedAs
  <2>4. Taken(collection)'
    BY <1>1, <2>3 DEF Taken
  <2>5. ASSUME NEW k \in 0..5, Copied(collection, k) PROVE Copied(collection, k)'
    <3>1. Order' = Order
      BY DEF Order
    <3>. QED
      BY <2>1, <2>5, <3>1, Zenon DEF Copied
  <2>6. ASSUME Recorded(collection) PROVE Recorded(collection)'
    <3>1. Noted => Noted'
      BY DEF Noted
    <3>2. Noting => Noting'
      BY DEF Noting
    <3>. QED
      BY <2>1, <2>6, <3>1, <3>2 DEF Recorded
  <2>. QED
    BY <2>2, <2>4, <2>5, <2>6
<1>2. baseline # <<>> =>
       \E collection \in Collections' :
         /\ Taken(collection)'
         /\ \/ compat = NoCompat /\ \E k \in 0..5 : Copied(collection, k)'
            \/ compat # NoCompat /\ Recorded(collection)'
  BY <1>1 DEF SnapshotInv
<1>3. baseline = <<>> => compat' = NoCompat
  BY DEF SnapshotInv
<1>. QED
  BY <1>2, <1>3 DEF SnapshotInv

(* Every step of the run keeps the invariant.                              *)
LEMMA SnapshotStep ==
  ASSUME Given, SnapshotInv, [Next]_vars
  PROVE  Given' /\ SnapshotInv'
<1>1. CASE SnapshotNext
  <2>1. Given'
    BY <1>1 DEF SnapshotNext, CaptureSnapshot, LoadSnapshot, WriteFile, DetectCompatibility, EndSnapshot,
                KeepFiles, Given
  <2>2. CASE CaptureSnapshot
    BY <2>1, <2>2, CaptureKeeps
  <2>3. CASE LoadSnapshot
    BY <2>1, <2>3, LoadKeeps
  <2>4. CASE WriteFile
    BY <2>1, <2>4, WriteKeeps
  <2>5. CASE DetectCompatibility
    BY <2>1, <2>5, DetectKeeps
  <2>6. CASE EndSnapshot
    <3>1. UNCHANGED <<settings, out, writes, baseline, compat>> /\ writes = <<>> /\ compat # NoCompat
      BY <2>6 DEF EndSnapshot, KeepFiles
    <3>2. Reported'
      BY <3>1 DEF SnapshotInv, Reported
    <3>. QED
      BY <2>1, <3>1, <3>2, OthersKeep
  <2>. QED
    BY <1>1, <2>1, <2>2, <2>3, <2>4, <2>5, <2>6 DEF SnapshotNext
<1>2. CASE RunPreflight
  <2>1. /\ UNCHANGED <<settings, out, writes, baseline>> /\ compat # NoCompat /\ writes = <<>>
        /\ compat' \in {compat, [compat EXCEPT !.contract.fallbacks = @ \cup UploadReport]}
    BY <1>2 DEF RunPreflight, SnapshotInv, Later, Stages
  <2>2. compat = [caps |-> compat.caps,
                 contract |-> [capabilities |-> compat.contract.capabilities,
                               disabled     |-> DisabledFeatures(compat.caps),
                               fallbacks    |-> compat.contract.fallbacks,
                               degraded     |-> DegradedFeatures(compat.caps)]]
        /\ Fallbacks(compat.caps) \subseteq compat.contract.fallbacks
    BY <2>1 DEF SnapshotInv, Reported
  <2>3. PICK more : more = compat.contract.fallbacks \cup UploadReport
    OBVIOUS
  <2>4. compat' = compat \/
        compat' = [caps |-> compat.caps,
                 contract |-> [capabilities |-> compat.contract.capabilities,
                               disabled     |-> DisabledFeatures(compat.caps),
                               fallbacks    |-> more,
                               degraded     |-> DegradedFeatures(compat.caps)]]
    BY <2>1, <2>2, <2>3
  <2>5. Reported'
    BY <2>2, <2>3, <2>4 DEF Reported
  <2>6. Timely(compat'.contract) = Timely(compat.contract)
    <3>1. UploadReport \subseteq {LateReport}
      BY DEF UploadReport, LateReport
    <3>2. more \ {LateReport} = compat.contract.fallbacks \ {LateReport}
      BY <2>3, <3>1
    <3>3. PICK c, d : c = compat.contract /\ d = compat'.contract
      OBVIOUS
    <3>4. /\ d.capabilities = c.capabilities /\ d.disabled = c.disabled /\ d.degraded = c.degraded
          /\ d.fallbacks \ {LateReport} = c.fallbacks \ {LateReport}
      BY <2>2, <2>4, <3>2, <3>3
    <3>5. Timely(d) = Timely(c)
      BY <3>4 DEF Timely
    <3>. QED
      BY <3>3, <3>5
  <2>7. compat' # NoCompat
    <3>1. compat.caps = {} => "vector_hybrid" \in DisabledFeatures(compat.caps)
      BY DEF DisabledFeatures, Without
    <3>2. compat' = NoCompat => compat.caps = {} /\ DisabledFeatures(compat.caps) = {}
      BY <2>2, <2>4 DEF NoCompat
    <3>. QED
      BY <3>1, <3>2
  <2>. QED
    BY <2>1, <2>5, <2>6, <2>7, OthersKeep DEF Given
<1>3. CASE UNCHANGED <<settings, compat, out, writes, baseline>> /\ Onward
  <2>1. Reported'
    BY <1>3 DEF SnapshotInv, Reported
  <2>2. writes # <<>> => UNCHANGED <<stage, compat>>
    BY <1>3 DEF Onward, SnapshotInv, Outset, Later
  <2>3. stage' \in Later => compat # NoCompat
    BY <1>3 DEF Onward, SnapshotInv, Outset, Later
  <2>. QED
    BY <1>3, <2>1, <2>2, <2>3, OthersKeep DEF Given
<1>4. CASE UNCHANGED vars
  BY <1>3, <1>4 DEF vars, intakeVars, Onward
<1>. QED
  BY <1>1, <1>2, <1>3, <1>4, IntakeKeepsSnapshot, ComparisonKeepsSnapshot, VectorKeepsSnapshot DEF Next, Over

-----------------------------------------------------------------------------
(* A directory that loads is the capture that its manifest is of.          *)
LEMMA SoundDirectory ==
  ASSUME NEW dir, ~LoadRaises(dir)
  PROVE  /\ Contents(dir) \in CaptureOf(dir)
         /\ \A file \in Files \ {"hash"} : dir[file].state = "written"
<1>1. \A file \in Files \ {"hash"} : dir[file].state = "written"
  BY DEF LoadRaises, Complete
<1>2. dir["manifest"].state = "written"
  BY <1>1 DEF Files
<1>3. CASE Read(dir, "manifest").hash = NoHash
  BY <1>1, <1>2, <1>3 DEF CaptureOf
<1>4. CASE Read(dir, "manifest").hash # NoHash
  <2>1. Read(dir, "manifest").hash = <<Read(dir, "manifest").origin, Read(dir, "schema"), Read(dir, "system"),
                                       Read(dir, "collection")>>
    <3>1. ComputedHash(dir) = Read(dir, "manifest").hash
      BY <1>4 DEF LoadRaises
    <3>. QED
      BY <3>1, Zenon DEF ComputedHash, SnapshotHash
  <2>2. Tail(Read(dir, "manifest").hash) = Contents(dir)
    <3>1. PICK origin, schema, system, collection :
            /\ origin = Read(dir, "manifest").origin /\ schema = Read(dir, "schema")
            /\ system = Read(dir, "system") /\ collection = Read(dir, "collection")
      OBVIOUS
    <3>2. Read(dir, "manifest").hash = <<origin, schema, system, collection>>
      BY <2>1, <3>1
    <3>3. Contents(dir) = <<schema, system, collection>>
      BY <3>1 DEF Contents
    <3>4. Tail(<<origin, schema, system, collection>>) = <<schema, system, collection>>
      BY TailOfFour
    <3>. QED
      BY <3>2, <3>3, <3>4
  <2>. QED
    BY <1>1, <1>2, <1>4, <2>2 DEF CaptureOf
<1>. QED
  BY <1>3, <1>4

(* With a hash it is that also where the other files are somebody else's.  *)
LEMMA ManifestDecides ==
  ASSUME NEW dir, NEW old, ~LoadRaises(dir), old["manifest"].state = "written",
         Read(dir, "manifest") = Read(old, "manifest"), Hashed(old)
  PROVE  Contents(dir) \in CaptureOf(old)
<1>1. Contents(dir) \in CaptureOf(dir) /\ dir["manifest"].state = "written"
  BY SoundDirectory DEF Files
<1>. QED
  BY <1>1 DEF CaptureOf, Hashed

(* Once the contents are copied, they are those of the capture.            *)
LEMMA CopiedContents ==
  ASSUME Given, NEW collection, CapturedAs(collection) \/ LoadedAs(collection),
         \A file \in {"schema", "system", "collection"} : out[file] = Written(Capture(collection)[file])
  PROVE  OfOneCapture
<1>1. Contents(out) = <<baseline[1].schema, baseline[1].system, collection>>
  BY DEF Contents, Read, Written, Capture
<1>2. CASE CapturedAs(collection)
  BY <1>1, <1>2 DEF CapturedAs, OfOneCapture
<1>3. CASE LoadedAs(collection)
  <2>1. PICK dir : dir = settings.solr.snapshot[1]
    OBVIOUS
  <2>2. Contents(out) = Contents(dir) /\ ~LoadRaises(dir) /\ dir \in Found
    BY <1>1, <1>3, <2>1, FoundFacts DEF LoadedAs, Contents
  <2>. QED
    BY <2>2, SoundDirectory DEF OfOneCapture
<1>. QED
  BY <1>2, <1>3

(* While files are being copied, the manifest tells whose they are.        *)
LEMMA CopyingReloads ==
  ASSUME Given, NEW collection, CapturedAs(collection) \/ LoadedAs(collection),
         NEW k \in 0..5, Copied(collection, k), ~LoadRaises(out),
         settings.solr.out = Empty \/ \A dir \in Found : Hashed(dir)
  PROVE  OfOneCapture
<1>1. \A file \in Files \ {"hash"} : out[file].state = "written"
  BY SoundDirectory
<1>2. PICK old : old = settings.solr.out
  OBVIOUS
<1>3. ASSUME NEW i \in (k + 1)..5, Order[i] # "hash"
      PROVE  out[Order[i]] = old[Order[i]] /\ old # Empty
  <2>1. out[Order[i]].state = "written" /\ Order[i] \in Files
    BY <1>1, <1>3, OrderFacts
  <2>2. out[Order[i]] = old[Order[i]]
    BY <1>2, <2>1, SMT DEF Copied, Torn
  <2>. QED
    BY <2>1, <2>2 DEF Empty, Missing
<1>4. ASSUME out["manifest"] = old["manifest"], old # Empty PROVE OfOneCapture
  <2>1. Hashed(old) /\ old \in Found /\ old["manifest"].state = "written"
    BY <1>1, <1>2, <1>4, FoundFacts DEF Files
  <2>. QED
    BY <1>4, <2>1, ManifestDecides DEF OfOneCapture, Read
<1>5. CASE CapturedAs(collection)
  <2>1. Order = <<"schema", "system", "collection", "hash", "manifest">>
    BY <1>5 DEF CapturedAs, Order
  <2>2. CASE k < 3
    <3>1. 5 \in (k + 1)..5 /\ Order[5] = "manifest"
      BY <2>1, <2>2
    <3>. QED
      BY <1>3, <1>4, <3>1
  <2>3. CASE k >= 3
    BY <2>1, <2>3, CopiedContents DEF Copied
  <2>. QED
    BY <2>2, <2>3
<1>6. CASE LoadedAs(collection)
  <2>1. Order = <<"manifest", "schema", "system", "collection", "hash">>
    BY <1>6 DEF LoadedAs, Order
  <2>2. CASE k = 0
    <3>1. 1 \in (k + 1)..5 /\ Order[1] = "manifest"
      BY <2>1, <2>2
    <3>. QED
      BY <1>3, <1>4, <3>1
  <2>3. CASE k \in 1..3
    <3>1. PICK dir : dir = settings.solr.snapshot[1]
      OBVIOUS
    <3>2. out["manifest"] = Written(Capture(collection)["manifest"])
      BY <2>1, <2>3 DEF Copied
    <3>3. Read(out, "manifest") = Read(dir, "manifest")
      BY <1>6, <3>1, <3>2 DEF Read, Written, Capture, LoadedAs
    <3>4. dir["manifest"].state = "written" /\ dir \in Found
      BY <1>6, <3>1, SoundDirectory, FoundFacts DEF LoadedAs, Files
    <3>5. 4 \in (k + 1)..5 /\ Order[4] = "collection"
      BY <2>1, <2>3
    <3>6. Hashed(dir)
      BY <1>2, <1>3, <3>4, <3>5
    <3>. QED
      BY <3>3, <3>4, <3>6, ManifestDecides DEF OfOneCapture
  <2>4. CASE k >= 4
    BY <2>1, <2>4, CopiedContents DEF Copied
  <2>. QED
    BY <2>2, <2>3, <2>4
<1>. QED
  BY <1>5, <1>6

(* So the output directory, when it loads, is one capture.                 *)
LEMMA InvReloads ==
  ASSUME Given, SnapshotInv
  PROVE  SnapshotsReload
<1>1. ASSUME ~LoadRaises(out), settings.solr.out = Empty \/ \A dir \in Found : Hashed(dir)
      PROVE  OfOneCapture
  <2>1. CASE baseline = <<>>
    BY <1>1, <2>1, SoundDirectory, FoundFacts DEF SnapshotInv, OfOneCapture
  <2>2. CASE baseline # <<>>
    <3>1. PICK collection \in Collections :
            /\ Taken(collection)
            /\ \/ compat = NoCompat /\ \E k \in 0..5 : Copied(collection, k)
               \/ compat # NoCompat /\ Recorded(collection)
      BY <2>2 DEF SnapshotInv
    <3>2. CapturedAs(collection) \/ LoadedAs(collection)
      BY <3>1 DEF Taken
    <3>3. CASE \E k \in 0..5 : Copied(collection, k)
      BY <1>1, <3>2, <3>3, CopyingReloads
    <3>4. CASE Recorded(collection)
      <4>1. \A file \in {"schema", "system", "collection"} : out[file] = Written(Capture(collection)[file])
        BY <3>4 DEF Recorded, Files
      <4>. QED
        BY <3>2, <4>1, CopiedContents
    <3>. QED
      BY <3>1, <3>3, <3>4
  <2>. QED
    BY <2>1, <2>2
<1>2. ASSUME compat # NoCompat, writes = <<>>
      PROVE  /\ ~LoadRaises(out)
             /\ Read(out, "schema") = baseline[1].schema /\ Read(out, "system") = baseline[1].system
             /\ Read(out, "hash") = ComputedHash(out)
  <2>1. PICK collection \in Collections : Taken(collection) /\ Recorded(collection)
    BY <1>2 DEF SnapshotInv
  <2>2. PICK b : b = baseline[1]
    OBVIOUS
  <2>3. /\ out["schema"] = Written(b.schema) /\ out["system"] = Written(b.system)
        /\ out["collection"] = Written(collection)
        /\ out["hash"] = Written(SnapshotHash(b.manifest.origin, b.schema, b.system, collection))
    BY <2>1, <2>2 DEF Recorded, Capture, Files
  <2>4. /\ out["manifest"].state = "written" /\ Read(out, "manifest").origin = b.manifest.origin
        /\ Read(out, "manifest").hash = b.manifest.hash
    BY <1>2, <2>1, <2>2 DEF Recorded, Noted, Noting
  <2>5. ComputedHash(out) = SnapshotHash(b.manifest.origin, b.schema, b.system, collection)
    BY <2>3, <2>4 DEF ComputedHash, Read, Written
  <2>6. b.manifest.hash \in {NoHash, SnapshotHash(b.manifest.origin, b.schema, b.system, collection)}
    <3>1. CASE CapturedAs(collection)
      BY <2>2, <3>1 DEF CapturedAs, Capture
    <3>2. CASE LoadedAs(collection)
      BY <2>2, <3>2 DEF LoadedAs, LoadRaises, ComputedHash
    <3>. QED
      BY <2>1, <3>1, <3>2 DEF Taken
  <2>7. ~LoadRaises(out)
    BY <2>3, <2>4, <2>5, <2>6 DEF LoadRaises, Complete, Files, Written
  <2>. QED
    BY <2>2, <2>3, <2>5, <2>7 DEF Read, Written
<1>. QED
  BY <1>1, <1>2 DEF SnapshotsReload

(* The output directory, loaded at any moment, is refused or is one        *)
(* capture, and past the snapshot stage the one that this run goes by      *)
(* (snapshot/snapshotter.py, snapshot/loader.py): for any contents of the  *)
(* directory and of the snapshot that is given, and a crash anywhere; a    *)
(* mixture is told from a capture by the hash in the manifest, which every *)
(* directory found here must have unless the output directory is empty.    *)
THEOREM SnapshotsAreReloaded == Spec => []SnapshotsReload
<1>1. Init => Given /\ SnapshotInv
  BY InitSnapshot
<1>2. Given /\ SnapshotInv /\ [Next]_vars => (Given /\ SnapshotInv)'
  BY SnapshotStep
<1>3. Given /\ SnapshotInv => SnapshotsReload
  BY InvReloads
<1>. QED
  BY <1>1, <1>2, <1>3, PTL DEF Spec

-----------------------------------------------------------------------------
(* What a case can be, and the stages before there are all of them.        *)
Pool0 == ToSet(settings.queries)

(* The stages of the intake.                                               *)
Intaking == Outset \cup {"snapshot", "preflight", "shadow_create", "queries_extract_or_load"}

(* The assumption on the settings, of the run's own.                       *)
LEMMA WellFormedSettings ==
  ASSUME Given
  PROVE  WellFormed(settings)
BY EvaluationAssumption DEF Given

(* queries/log_extractor.py and replay/runner.py: of the rows of a source  *)
(* those with an id are replayed, each as one of the queries.              *)
LEMMA CasesAreQueries ==
  ASSUME Given, NEW rows0 \in Seq(DOMAIN settings.queries)
  PROVE  Cases(rows0) \in Seq(Pool0)
<1>1. \A i \in 1..Len(rows0) : settings.queries[rows0[i]] \in Pool0
  BY DEF Pool0, ToSet
<1>2. Cases(rows0) \in [1..Len(rows0) -> Pool0]
  BY <1>1 DEF Cases
<1>. QED
  BY <1>2

(* Rows that can be read are rows.                                         *)
LEMMA ReadableRows ==
  ASSUME Given
  PROVE  Readable0(Source.rows) \in Seq(DOMAIN settings.queries)
<1>1. Source.rows \in Seq({0} \cup DOMAIN settings.queries)
  BY WellFormedSettings DEF WellFormed, Source
<1>2. PICK seq : seq = Source.rows
  OBVIOUS
<1>3. PICK kind : kind = ToSet(seq) \ {0}
  OBVIOUS
<1>4. Within(seq, kind) \in Seq(({0} \cup DOMAIN settings.queries) \cap kind)
  BY <1>1, <1>2, WithinType
<1>5. ({0} \cup DOMAIN settings.queries) \cap kind \subseteq DOMAIN settings.queries
  BY <1>3
<1>6. Within(seq, kind) \in Seq(DOMAIN settings.queries)
  BY <1>4, <1>5
<1>. QED
  BY <1>2, <1>3, <1>6 DEF Readable0, Omitting

(* Sanitizing makes queries of queries.                                    *)
LEMMA CleanedRows ==
  ASSUME Given
  PROVE  Cleaned \in Seq(DOMAIN settings.queries)
<1>1. PICK seq \in Seq(DOMAIN settings.queries) : seq = Readable0(Source.rows)
  BY ReadableRows
<1>2. \A i \in 1..Len(seq) : Source.sanitized[seq[i]] \in DOMAIN settings.queries
  BY WellFormedSettings DEF WellFormed, Source
<1>3. Cleaned = [i \in 1..Len(seq) |-> Source.sanitized[seq[i]]]
  BY <1>1 DEF Cleaned
<1>4. Cleaned \in [1..Len(seq) -> DOMAIN settings.queries]
  BY <1>2, <1>3
<1>. QED
  BY <1>4

(* The first rows are rows.                                                *)
LEMMA FirstRowsType ==
  ASSUME NEW S, NEW seq \in Seq(S), Given
  PROVE  FirstRows(seq) \in Seq(S)
<1>1. CASE Limited /\ Source.max_queries < Len(seq)
  <2>1. Source.max_queries \in Nat /\ Source.max_queries <= Len(seq)
    BY <1>1, WellFormedSettings DEF WellFormed, Limited, Source
  <2>. QED
    BY <1>1, <2>1 DEF FirstRows
<1>2. CASE ~(Limited /\ Source.max_queries < Len(seq))
  BY <1>2 DEF FirstRows
<1>. QED
  BY <1>1, <1>2

(* So are those that the loader of a file takes.                           *)
LEMMA FileRowsType ==
  ASSUME NEW S, NEW seq \in Seq(S), Given
  PROVE  FileRows(seq) \in Seq(S)
<1>1. CASE Source.max_queries < 0
  <2>1. CASE seq = <<>>
    BY <1>1, <2>1 DEF FileRows
  <2>2. CASE seq # <<>>
    BY <1>1, <2>2 DEF FileRows
  <2>. QED
    BY <2>1, <2>2
<1>2. CASE ~(Source.max_queries < 0)
  BY <1>2, FirstRowsType DEF FileRows
<1>. QED
  BY <1>1, <1>2

(* Intake leaves the settings alone and goes through its stages in their   *)
(* order.                                                                  *)
LEMMA IntakeCourse ==
  ASSUME IntakeNext
  PROVE  /\ stage \in Intaking /\ stage' \in Intaking \cup {"vector_validate", "failed"}
         /\ UNCHANGED settings
<1>. USE DEF Intaking, Outset, Enter, Raise, Creating, Loading, Loaded, request, Snapshotting, KeepFiles, KeepRun
<1>1. CASE SnapshotNext
  <2>1. CASE CaptureSnapshot
    BY <2>1 DEF CaptureSnapshot
  <2>2. CASE LoadSnapshot
    BY <2>2 DEF LoadSnapshot
  <2>3. CASE WriteFile
    BY <2>3 DEF WriteFile
  <2>4. CASE DetectCompatibility
    BY <2>4 DEF DetectCompatibility
  <2>5. CASE EndSnapshot
    BY <2>5 DEF EndSnapshot
  <2>. QED
    BY <1>1, <2>1, <2>2, <2>3, <2>4, <2>5 DEF SnapshotNext
<1>2. CASE ValidateChangeset
  BY <1>2 DEF ValidateChangeset
<1>3. CASE InitializePlugins
  BY <1>3 DEF InitializePlugins
<1>4. CASE RunPreflight
  BY <1>4 DEF RunPreflight
<1>5. CASE PatchTarget
  BY <1>5 DEF PatchTarget, PatchFails
<1>6. CASE UploadConfigset
  BY <1>6 DEF UploadConfigset, PatchFails
<1>7. CASE CreateCollection
  BY <1>7 DEF CreateCollection
<1>8. CASE PrepareChange
  BY <1>8 DEF PrepareChange
<1>9. CASE CallSchemaApi
  BY <1>9 DEF CallSchemaApi
<1>10. CASE FinishShadow
  BY <1>10 DEF FinishShadow
<1>11. CASE LoadFromFile
  BY <1>11 DEF LoadFromFile
<1>12. CASE LoadFromPlugin
  BY <1>12 DEF LoadFromPlugin
<1>13. CASE ExtractFromLog
  BY <1>13 DEF ExtractFromLog
<1>14. CASE TakeRow
  BY <1>14 DEF TakeRow
<1>15. CASE EndSampling
  BY <1>15 DEF EndSampling
<1>. QED
  BY <1>1, <1>2, <1>3, <1>4, <1>5, <1>6, <1>7, <1>8, <1>9, <1>10, <1>11, <1>12, <1>13, <1>14, <1>15 DEF IntakeNext

(* The cases are queries at every step of the intake, also while the       *)
(* reservoir is sampled.                                                   *)
LEMMA IntakeCases ==
  ASSUME Given, IntakeNext, cases \in Seq(Pool0), taken \in Nat
  PROVE  cases' \in Seq(Pool0) /\ taken' \in Nat
<1>0. taken' \in Nat
  <2>1. CASE TakeRow
    BY <2>1 DEF TakeRow
  <2>2. CASE SnapshotNext /\ UNCHANGED <<plugins, risks, shadowVars, taken>>
    BY <2>2
  <2>3. CASE ValidateChangeset \/ LoadFromFile \/ LoadFromPlugin \/ ExtractFromLog \/ EndSampling
    BY <2>3 DEF ValidateChangeset, LoadFromFile, LoadFromPlugin, ExtractFromLog, EndSampling, intakeVars
  <2>4. CASE InitializePlugins \/ RunPreflight
    BY <2>4 DEF InitializePlugins, RunPreflight
  <2>5. CASE PatchTarget \/ UploadConfigset \/ CreateCollection \/ PrepareChange \/ CallSchemaApi \/ FinishShadow
    BY <2>5 DEF PatchTarget, UploadConfigset, CreateCollection, PrepareChange, CallSchemaApi, FinishShadow, KeepRun
  <2>. QED
    BY <2>1, <2>2, <2>3, <2>4, <2>5 DEF IntakeNext
<1>. SUFFICES cases' \in Seq(Pool0)
  BY <1>0
<1>1. CASE UNCHANGED cases
  BY <1>1
<1>2. CASE LoadFromFile
  <2>1. PICK some \in Seq({0} \cup DOMAIN settings.queries) : some = FileRows(Source.rows)
    BY FileRowsType, WellFormedSettings DEF WellFormed, Source
  <2>2. CASE 0 \in ToSet(some)
    BY <1>1, <1>2, <2>1, <2>2 DEF LoadFromFile
  <2>3. CASE 0 \notin ToSet(some)
    <3>1. \A i \in 1..Len(some) : some[i] \in DOMAIN settings.queries
      BY <2>1, <2>3 DEF ToSet
    <3>2. some \in Seq(DOMAIN settings.queries)
      BY <2>1, <3>1
    <3>. QED
      BY <1>2, <2>1, <2>3, <3>2, CasesAreQueries DEF LoadFromFile, Loaded
  <2>. QED
    BY <2>2, <2>3
<1>3. CASE LoadFromPlugin
  BY <1>1, <1>3, CasesAreQueries, ReadableRows DEF LoadFromPlugin, Loaded
<1>4. CASE ExtractFromLog
  <2>1. CASE ~Limited
    BY <1>4, <2>1, CleanedRows, CasesAreQueries DEF ExtractFromLog, Loaded
  <2>2. CASE Limited
    <3>1. PICK sample \in SampleTop(Cleaned) : cases' = Cases(sample)
      BY <1>4, <2>2 DEF ExtractFromLog, Loaded
    <3>2. PICK n : n = Cardinality(ToSet(Cleaned))
      OBVIOUS
    <3>3. PICK order \in [1..n -> ToSet(Cleaned)] : sample = FirstRows(order)
      BY <3>1, <3>2 DEF SampleTop
    <3>4. ToSet(Cleaned) \subseteq DOMAIN settings.queries /\ n \in Nat
      <4>1. PICK seq \in Seq(DOMAIN settings.queries) : seq = Cleaned
        BY CleanedRows
      <4>2. IsFiniteSet(ToSet(seq))
        BY <4>1, RangeFinite
      <4>. QED
        BY <3>2, <4>1, <4>2, FS_CardinalityType DEF ToSet
    <3>5. order \in Seq(DOMAIN settings.queries)
      BY <3>3, <3>4
    <3>. QED
      BY <3>1, <3>3, <3>5, FirstRowsType, CasesAreQueries
  <2>. QED
    BY <2>1, <2>2
<1>5. CASE TakeRow
  <2>1. Cleaned \in Seq(DOMAIN settings.queries) /\ taken' = taken + 1 /\ taken < Len(Cleaned)
    BY <1>5, CleanedRows DEF TakeRow
  <2>2. PICK row : row = settings.queries[Cleaned[taken']]
    OBVIOUS
  <2>3. row \in Pool0
    <3>1. taken' \in 1..Len(Cleaned)
      BY <2>1
    <3>2. Cleaned[taken'] \in DOMAIN settings.queries
      BY <2>1, <3>1
    <3>. QED
      BY <2>2, <3>2 DEF Pool0, ToSet
  <2>4. CASE taken < Source.max_queries
    <3>1. cases' = Append(cases, row)
      BY <1>5, <2>2, <2>4 DEF TakeRow
    <3>. QED
      BY <2>3, <3>1
  <2>5. CASE ~(taken < Source.max_queries)
    <3>1. PICK j \in 1..taken' : cases' = IF j <= Source.max_queries THEN [cases EXCEPT ![j] = row] ELSE cases
      BY <1>5, <2>2, <2>5 DEF TakeRow
    <3>2. [cases EXCEPT ![j] = row] \in Seq(Pool0)
      <4>1. PICK n \in Nat : cases \in [1..n -> Pool0]
        OBVIOUS
      <4>2. [cases EXCEPT ![j] = row] \in [1..n -> Pool0]
        BY <2>3, <4>1
      <4>. QED
        BY <4>2
    <3>. QED
      BY <3>1, <3>2
  <2>. QED
    BY <2>4, <2>5
<1>. QED
  BY <1>0, <1>1, <1>2, <1>3, <1>4, <1>5
     DEF IntakeNext, SnapshotNext, CaptureSnapshot, LoadSnapshot, WriteFile, DetectCompatibility, EndSnapshot, KeepFiles,
         ValidateChangeset, InitializePlugins, RunPreflight, PatchTarget, UploadConfigset, CreateCollection,
         PrepareChange, CallSchemaApi, FinishShadow, EndSampling, KeepRun, request

-----------------------------------------------------------------------------
(* Where VectorScenarios can go, and that it leaves the request alone.     *)
LEMMA VectorCourse ==
  ASSUME VectorNext
  PROVE  /\ UNCHANGED request
         /\ \/ stage = "vector_validate" /\ cases = <<>> /\ stage' = "compare"
            \/ stage = "vector_validate" /\ cases # <<>> /\ stage' = "replay"
            \/ stage = "vector_validate" /\ stage' = "failed"
            \/ stage = "scenario_replay" /\ stage' \in {"scenario_replay", "rewrite_diff"}
<1>. USE DEF Enter, WithinReplay, Running
<1>1. CASE VectorValidate
  BY <1>1 DEF VectorValidate
<1>2. CASE SkipTarget
  BY <1>2 DEF SkipTarget
<1>3. CASE RunSingle
  BY <1>3 DEF RunSingle
<1>4. CASE RunLexicalPart
  BY <1>4 DEF RunLexicalPart
<1>5. CASE RunVectorPart
  BY <1>5 DEF RunVectorPart
<1>6. CASE CompareScenarios
  BY <1>6 DEF CompareScenarios
<1>. QED
  BY <1>1, <1>2, <1>3, <1>4, <1>5, <1>6 DEF VectorNext

(* The answers of the replay and the rows made of them.                    *)
NothingCompared ==
  /\ replayed = <<>> /\ failures = 0 /\ rows = <<>>
  /\ selected = <<>> /\ fetched = <<>> /\ rewrites = <<>>
  /\ picked = <<>> /\ bundles = <<>> /\ verdict = "none"

(* What is still as it was while the answers come in.                      *)
Untouched ==
  /\ rows = <<>> /\ selected = <<>> /\ fetched = <<>> /\ rewrites = <<>>
  /\ picked = <<>> /\ bundles = <<>> /\ verdict = "none"

(* The stages that have the rows.                                          *)
Compared == {"scenario_replay", "rewrite_diff", "explain", "gate", "done"}

(* A row with other flags.                                                 *)
Flagged(row, flags) == [row EXCEPT !.flags = flags]

(* A row is what DiffRows makes of both answers, but for its flags.        *)
RowOf(i) ==
  \E row \in DiffRows(Baseline(replayed, i), Shadow(replayed, i), settings.k) :
    rows[i] = Flagged(row, rows[i].flags)

(* The inductive invariant about the replay: failures counts an error      *)
(* exactly if there is one, no query is left without both answers, and     *)
(* each row is made of the answers to its query.                           *)
ReplayInv ==
  /\ cases \in Seq(Pool0) /\ taken \in Nat
  /\ stage \in Intaking \cup {"vector_validate", "failed"} => NothingCompared
  /\ replayed \in Seq(Reply) /\ failures \in Nat
  /\ failures = 0 <=> \A n \in 1..Len(replayed) : ~replayed[n].error
  /\ stage = "replay" => Len(replayed) < 2 * Len(cases)
  /\ stage \in {"replay", "compare"} => Untouched
  /\ stage \in Compared \cup {"compare"} => Len(replayed) = 2 * Len(cases)
  /\ stage \in Compared => rows = [i \in Queries |-> rows[i]] /\ \A i \in Queries : RowOf(i)
  /\ verdict # "none" => stage = "done"
  /\ stage \in Stages

(* It holds at the start.                                                  *)
LEMMA InitReplay ==
  ASSUME Init
  PROVE  ReplayInv
<1>1. cases = <<>> /\ taken = 0 /\ stage = "validate" /\ NothingCompared
  BY DEF Init, IntakeInit, ComparisonInit, NothingCompared
<1>. QED
  BY <1>1 DEF ReplayInv, NothingCompared, Intaking, Outset, Compared, Stages

(* Nothing has been replayed before or during the intake.                  *)
LEMMA IntakeKeepsReplay ==
  ASSUME Given, ReplayInv, IntakeNext, UNCHANGED <<comparisonVars, vectorVars>>
  PROVE  ReplayInv'
<1>1. cases' \in Seq(Pool0) /\ taken' \in Nat
  BY IntakeCases DEF ReplayInv
<1>2. stage \in Intaking /\ stage' \in Intaking \cup {"vector_validate", "failed"} /\ UNCHANGED settings
  BY IntakeCourse
<1>3. NothingCompared /\ NothingCompared'
  BY <1>2 DEF ReplayInv, NothingCompared, comparisonVars
<1>4. Pool0' = Pool0 /\ Reply' = Reply
  BY <1>2 DEF Pool0, Reply
<1>. QED
  BY <1>1, <1>2, <1>3, <1>4 DEF ReplayInv, NothingCompared, Intaking, Outset, Compared, Stages

(* VectorScenarios only hands the turn on.                                 *)
LEMMA VectorKeepsReplay ==
  ASSUME ReplayInv, VectorNext, UNCHANGED <<intakeVars, comparisonVars>>
  PROVE  ReplayInv'
<1>1. UNCHANGED <<settings, cases, taken, replayed, failures, rows, selected, fetched, rewrites, picked, bundles, verdict>>
  BY VectorCourse DEF request, comparisonVars, intakeVars
<1>2. Pool0' = Pool0 /\ Reply' = Reply /\ Queries' = Queries /\ NothingCompared' = NothingCompared /\ Untouched' = Untouched
      /\ \A i : RowOf(i)' = RowOf(i)
  BY <1>1 DEF Pool0, Reply, Queries, NothingCompared, Untouched, RowOf
<1>. QED
  BY <1>1, <1>2, VectorCourse DEF ReplayInv, NothingCompared, Untouched, Intaking, Outset, Compared, Stages

(* Rows differ in their flags only.                                        *)
LEMMA RowIsRecord ==
  ASSUME NEW base, NEW shadow1, NEW k, NEW row \in DiffRows(base, shadow1, k), NEW flags, NEW more
  PROVE  /\ row = Flagged(row, row.flags)
         /\ Flagged(row, flags).flags = flags
         /\ Flagged(Flagged(row, flags), more) = Flagged(row, more)
<1>1. PICK b, s, overlap, tau, moved, dropped, new, facets, severity, own :
        row = [base |-> b, shadow |-> s, overlap |-> overlap, tau |-> tau, moved |-> moved, dropped |-> dropped,
               new |-> new, facets |-> facets, severity |-> severity, flags |-> own]
  BY DEF DiffRows
<1>. QED
  BY <1>1 DEF Flagged

(* One more answer.                                                        *)
LEMMA ReplayKeepsReplay ==
  ASSUME Given, ReplayInv, Replay, UNCHANGED <<intakeVars, vectorVars>>
  PROVE  ReplayInv'
<1>1. PICK reply \in Reply :
        /\ replayed' = Append(replayed, reply)
        /\ failures' = IF reply.error THEN failures + 1 ELSE failures
        /\ stage' = IF Len(replayed') = 2 * Len(cases) THEN "compare" ELSE stage
        /\ stage = "replay"
        /\ UNCHANGED <<settings, cases, taken, rows, selected, fetched, rewrites, picked, bundles, verdict>>
  BY DEF Replay, Enter, request, intakeVars
<1>2. /\ replayed' \in Seq(Reply) /\ Len(replayed') = Len(replayed) + 1 /\ failures' \in Nat
      /\ Len(cases) \in Nat /\ Len(replayed) < 2 * Len(cases)
  BY <1>1 DEF ReplayInv
<1>3. failures' = 0 <=> \A n \in 1..Len(replayed') : ~replayed'[n].error
  <2>1. /\ \A n \in 1..Len(replayed) : n \in 1..Len(replayed') /\ replayed'[n] = replayed[n]
        /\ Len(replayed') \in 1..Len(replayed') /\ replayed'[Len(replayed')] = reply
        /\ \A n \in 1..Len(replayed') : n = Len(replayed') \/ n \in 1..Len(replayed)
    BY <1>1, <1>2 DEF ReplayInv
  <2>2. failures' = 0 <=> failures = 0 /\ ~reply.error
    BY <1>1 DEF ReplayInv
  <2>3. failures = 0 <=> \A n \in 1..Len(replayed) : ~replayed[n].error
    BY DEF ReplayInv
  <2>. QED
    BY <2>1, <2>2, <2>3
<1>4. Pool0' = Pool0 /\ Reply' = Reply /\ Untouched' = Untouched /\ Untouched
  BY <1>1 DEF Pool0, Reply, Untouched, ReplayInv
<1>5. \/ stage' = "replay" /\ Len(replayed') # 2 * Len(cases')
      \/ stage' = "compare" /\ Len(replayed') = 2 * Len(cases')
  BY <1>1, <1>2
<1>6. stage' = "replay" => Len(replayed') < 2 * Len(cases')
  BY <1>1, <1>2, <1>5
<1>7. cases' \in Seq(Pool0') /\ taken' \in Nat /\ verdict' = "none" /\ replayed' \in Seq(Reply') /\ failures' \in Nat
  BY <1>1, <1>2, <1>4 DEF ReplayInv, Untouched
<1>8. stage' \notin Intaking \cup {"vector_validate", "failed"} \cup Compared /\ stage' \in Stages
  BY <1>5 DEF Intaking, Outset, Compared, Stages
<1>. QED
  BY <1>3, <1>4, <1>5, <1>6, <1>7, <1>8 DEF ReplayInv

(* The rows are made of the answers.                                       *)
LEMMA CompareKeepsReplay ==
  ASSUME ReplayInv, Compare, UNCHANGED <<intakeVars, vectorVars>>
  PROVE  ReplayInv'
<1>1. /\ stage = "compare" /\ stage' = "scenario_replay" /\ rows' = [i \in Queries |-> rows'[i]]
      /\ \A i \in Queries : rows'[i] \in DiffRows(Baseline(replayed, i), Shadow(replayed, i), settings.k)
      /\ UNCHANGED <<settings, cases, taken, replayed, failures, selected, fetched, rewrites, picked, bundles, verdict>>
  BY SelectionsAre DEF Compare, Enter, request, intakeVars
<1>2. \A i \in Queries : RowOf(i)'
  <2>1. SUFFICES ASSUME NEW i \in Queries PROVE RowOf(i)'
    OBVIOUS
  <2>2. rows'[i] = Flagged(rows'[i], rows'[i].flags)
    BY <1>1, RowIsRecord
  <2>. QED
    BY <1>1, <2>2 DEF RowOf
<1>3. Pool0' = Pool0 /\ Reply' = Reply /\ Queries' = Queries
  BY <1>1 DEF Pool0, Reply, Queries
<1>. QED
  BY <1>1, <1>2, <1>3 DEF ReplayInv, Intaking, Outset, Compared, Stages, Untouched

(* Merging flags into the rows leaves the rest of them.                    *)
LEMMA EndRewritesKeepsReplay ==
  ASSUME ReplayInv, EndRewrites, UNCHANGED <<intakeVars, vectorVars>>
  PROVE  ReplayInv'
<1>1. /\ stage = "rewrite_diff" /\ stage' = "explain"
      /\ rows' = [i \in Queries |-> Flagged(rows[i], MergedFlags(i, rewrites'))]
      /\ UNCHANGED <<settings, cases, taken, replayed, failures, selected, fetched, picked, bundles, verdict>>
  BY Zenon DEF EndRewrites, Enter, request, intakeVars, Flagged
<1>2. \A i \in Queries : RowOf(i)'
  <2>1. SUFFICES ASSUME NEW i \in Queries PROVE RowOf(i)'
    OBVIOUS
  <2>2. PICK row \in DiffRows(Baseline(replayed, i), Shadow(replayed, i), settings.k) :
          rows[i] = Flagged(row, rows[i].flags)
    BY <1>1 DEF ReplayInv, RowOf, Compared
  <2>3. PICK more : rows'[i] = Flagged(rows[i], more)
    BY <1>1
  <2>4. rows'[i] = Flagged(row, more) /\ rows'[i].flags = more
    BY <2>2, <2>3, RowIsRecord
  <2>. QED
    BY <1>1, <2>4 DEF RowOf
<1>3. Pool0' = Pool0 /\ Reply' = Reply /\ Queries' = Queries
  BY <1>1 DEF Pool0, Reply, Queries
<1>. QED
  BY <1>1, <1>2, <1>3 DEF ReplayInv, Intaking, Outset, Compared, Stages, Untouched

(* The other steps of the comparison leave answers and rows.               *)
LEMMA ComparisonKeepsReplay ==
  ASSUME Given, ReplayInv, ComparisonNext, UNCHANGED <<intakeVars, vectorVars>>
  PROVE  ReplayInv'
<1>1. CASE Replay
  BY <1>1, ReplayKeepsReplay
<1>2. CASE Compare
  BY <1>2, CompareKeepsReplay
<1>3. CASE EndRewrites
  BY <1>3, EndRewritesKeepsReplay
<1>4. CASE ~Replay /\ ~Compare /\ ~EndRewrites
  <2>1. /\ UNCHANGED <<settings, cases, taken, replayed, failures, rows>>
        /\ stage \in {"rewrite_diff", "explain", "gate"} /\ stage' \in Compared
        /\ verdict' # verdict => stage' = "done"
        /\ stage # "gate" => UNCHANGED verdict
    <3>. USE DEF Enter, request, intakeVars, Compared
    <3>1. CASE SelectRewrites
      BY <3>1 DEF SelectRewrites
    <3>2. CASE FetchRewrite
      BY <3>2 DEF FetchRewrite
    <3>3. CASE SelectExplains
      BY <3>3 DEF SelectExplains
    <3>4. CASE FetchExplain
      BY <3>4 DEF FetchExplain
    <3>5. CASE EvaluateGate
      BY <3>5 DEF EvaluateGate
    <3>. QED
      BY <1>4, <3>1, <3>2, <3>3, <3>4, <3>5 DEF ComparisonNext
  <2>2. Pool0' = Pool0 /\ Reply' = Reply /\ Queries' = Queries /\ \A i : RowOf(i)' = RowOf(i)
    BY <2>1 DEF Pool0, Reply, Queries, RowOf
  <2>. QED
    BY <2>1, <2>2 DEF ReplayInv, Intaking, Outset, Compared, Stages
<1>. QED
  BY <1>1, <1>2, <1>3, <1>4

(* The invariant is inductive.                                             *)
LEMMA ReplayStep ==
  ASSUME Given, ReplayInv, [Next]_vars
  PROVE  ReplayInv'
<1>1. CASE UNCHANGED vars
  <2>1. UNCHANGED <<settings, stage, cases, taken, replayed, failures, rows, selected, fetched, rewrites, picked,
                    bundles, verdict>>
    BY <1>1 DEF vars, intakeVars, comparisonVars
  <2>2. Pool0' = Pool0 /\ Reply' = Reply /\ Queries' = Queries /\ NothingCompared' = NothingCompared /\ Untouched' = Untouched
        /\ \A i : RowOf(i)' = RowOf(i)
    BY <2>1 DEF Pool0, Reply, Queries, NothingCompared, Untouched, RowOf
  <2>. QED
    BY <2>1, <2>2 DEF ReplayInv
<1>. QED
  BY <1>1, IntakeKeepsReplay, VectorKeepsReplay, ComparisonKeepsReplay DEF Next, Over

-----------------------------------------------------------------------------
(* An answer has numbers for documents, also an answer that failed.        *)
LEMMA RepliesHaveDocs ==
  ASSUME Given, NEW reply \in Reply
  PROVE  reply.docs \in Seq(Nat)
<1>1. \A a \in settings.answers : ExtractDocs(a.rows) \in Seq(Nat)
  <2>1. SUFFICES ASSUME NEW a \in settings.answers PROVE ExtractDocs(a.rows) \in Seq(Nat)
    OBVIOUS
  <2>2. PICK seq \in Seq(Nat) : seq = a.rows
    BY WellFormedSettings DEF WellFormed, IsAnswer
  <2>3. PICK kind : kind = ToSet(seq) \ {0}
    OBVIOUS
  <2>4. Within(seq, kind) \in Seq(Nat)
    BY WithinKeeps
  <2>. QED
    BY <2>2, <2>3, <2>4 DEF ExtractDocs, Omitting
<1>. DEFINE Whole == {[error |-> FALSE, docs |-> ExtractDocs(a.rows), facets |-> a.facets] : a \in settings.answers}
<1>2. \A a \in Whole : a.docs \in Seq(Nat) /\ a = [error |-> a.error, docs |-> a.docs, facets |-> a.facets]
  BY <1>1
<1>3. reply \in Whole \/ reply = [error |-> TRUE, docs |-> <<>>, facets |-> <<>>]
      \/ \E a \in Whole : reply = [a EXCEPT !.error = TRUE, !.facets = <<>>]
  BY DEF Reply
<1>4. <<>> \in Seq(Nat)
  OBVIOUS
<1>. HIDE DEF Whole
<1>5. ASSUME NEW a \in Whole, reply = [a EXCEPT !.error = TRUE, !.facets = <<>>] PROVE reply.docs = a.docs
  BY <1>2, <1>5
<1>6. CASE reply = [error |-> TRUE, docs |-> <<>>, facets |-> <<>>]
  <2>1. reply.docs = <<>>
    BY <1>6
  <2>. QED
    BY <1>4, <2>1
<1>. QED
  BY <1>2, <1>3, <1>5, <1>6, Zenon

(* The first n of a list are in it, and where they were.                   *)
LEMMA FirstOfType ==
  ASSUME NEW S, NEW seq \in Seq(S), NEW n \in Int
  PROVE  /\ FirstOf(seq, n) \in Seq(S) /\ ToSet(FirstOf(seq, n)) \subseteq ToSet(seq)
         /\ \A i \in 1..Len(FirstOf(seq, n)) : i \in 1..Len(seq) /\ FirstOf(seq, n)[i] = seq[i]
         /\ \A i \in 1..Len(seq) : i <= n => i \in 1..Len(FirstOf(seq, n))
<1>1. PICK m : m = IF Len(seq) < n THEN Len(seq) ELSE n
  OBVIOUS
<1>2. m \in Int /\ m <= Len(seq)
  BY <1>1
<1>3. PICK first : first = SubSeq(seq, 1, m)
  OBVIOUS
<1>4. /\ first \in Seq(S) /\ \A i \in 1..Len(seq) : i <= n => i \in 1..Len(first)
      /\ \A i \in 1..Len(first) : i \in 1..Len(seq) /\ first[i] = seq[i]
  BY <1>1, <1>2, <1>3
<1>5. ToSet(first) \subseteq ToSet(seq)
  BY <1>4 DEF ToSet
<1>. QED
  BY <1>1, <1>3, <1>4, <1>5 DEF FirstOf

(* At most n of a list are its first n.                                    *)
LEMMA FirstOfLength ==
  ASSUME NEW S, NEW seq \in Seq(S), NEW n \in Nat
  PROVE  Len(FirstOf(seq, n)) <= n
<1>1. PICK m \in Nat : m = (IF Len(seq) < n THEN Len(seq) ELSE n) /\ m <= Len(seq) /\ m <= n
  OBVIOUS
<1>2. FirstOf(seq, n) = SubSeq(seq, 1, m)
  BY <1>1, Zenon DEF FirstOf
<1>3. Len(SubSeq(seq, 1, m)) = m
  BY <1>1
<1>. QED
  BY <1>1, <1>2, <1>3

(* The first of a list without duplicates are without duplicates.          *)
LEMMA FirstOfDistinct ==
  ASSUME NEW seq \in Seq(Nat), Distinct(seq), NEW n \in Nat, NEW first, first = FirstOf(seq, n)
  PROVE  first \in Seq(Nat) /\ Distinct(first)
<1>1. /\ first \in Seq(Nat)
      /\ \A i \in 1..Len(first) : i \in 1..Len(seq) /\ first[i] = seq[i]
  BY FirstOfType
<1>. QED
  BY <1>1 DEF Distinct

(* Where a document is in a list that has it.                              *)
LEMMA RankIs ==
  ASSUME NEW S, NEW seq \in Seq(S), NEW d, d \in ToSet(seq)
  PROVE  Rank(seq, d) \in 1..Len(seq) /\ seq[Rank(seq, d)] = d
<1>1. \E i \in DOMAIN seq : seq[i] = d
  BY DEF ToSet
<1>2. Rank(seq, d) \in DOMAIN seq /\ seq[Rank(seq, d)] = d
  BY <1>1 DEF Rank
<1>. QED
  BY <1>2

-----------------------------------------------------------------------------
(* The documents that moved, and by how much.                              *)
MovedBy(b, s, order) == [i \in DOMAIN order |-> <<order[i], Delta(b, s, order[i])>>]

(* What the row of a query says, in terms of both answers cut at k.        *)
LEMMA RowFacts ==
  ASSUME NEW base, NEW shadow1, NEW k, NEW row \in DiffRows(base, shadow1, k), NEW flags, NEW r,
         r = Flagged(row, flags),
         NEW b, NEW s, b = FirstOf(base.docs, k), s = FirstOf(shadow1.docs, k)
  PROVE  /\ r.base = b /\ r.shadow = s /\ r.overlap = Overlap(b, s) /\ r.tau = KendallTau(b, s)
         /\ r.dropped = Omitting(b, ToSet(s)) /\ r.new = Omitting(s, ToSet(b))
         /\ \E order \in MovedOrders(b, s) : r.moved = MovedBy(b, s, order)
         /\ ErrorFlags(base, shadow1) = {} => r.severity = Risk(Overlap(b, s), KendallTau(b, s), k)
         /\ ErrorFlags(base, shadow1) # {} => r.severity = "HIGH"
<1>1. PICK order \in MovedOrders(FirstOf(base.docs, k), FirstOf(shadow1.docs, k)),
           facets \in FacetDiffs(base.facets, shadow1.facets), own \in {row.flags} :
        row = [base     |-> FirstOf(base.docs, k),
               shadow   |-> FirstOf(shadow1.docs, k),
               overlap  |-> Overlap(FirstOf(base.docs, k), FirstOf(shadow1.docs, k)),
               tau      |-> KendallTau(FirstOf(base.docs, k), FirstOf(shadow1.docs, k)),
               moved    |-> [i \in DOMAIN order |->
                               <<order[i], Delta(FirstOf(base.docs, k), FirstOf(shadow1.docs, k), order[i])>>],
               dropped  |-> Omitting(FirstOf(base.docs, k), ToSet(FirstOf(shadow1.docs, k))),
               new      |-> Omitting(FirstOf(shadow1.docs, k), ToSet(FirstOf(base.docs, k))),
               facets   |-> facets,
               severity |-> IF ErrorFlags(base, shadow1) = {}
                            THEN Risk(Overlap(FirstOf(base.docs, k), FirstOf(shadow1.docs, k)),
                                      KendallTau(FirstOf(base.docs, k), FirstOf(shadow1.docs, k)), k)
                            ELSE "HIGH",
               flags    |-> own]
  BY DEF DiffRows
<1>3. /\ r.base = b /\ r.shadow = s /\ r.overlap = Overlap(b, s) /\ r.tau = KendallTau(b, s)
      /\ r.dropped = Omitting(b, ToSet(s)) /\ r.new = Omitting(s, ToSet(b))
      /\ r.moved = MovedBy(b, s, order)
      /\ ErrorFlags(base, shadow1) = {} => r.severity = Risk(Overlap(b, s), KendallTau(b, s), k)
      /\ ErrorFlags(base, shadow1) # {} => r.severity = "HIGH"
      /\ order \in MovedOrders(b, s)
  <2>1. PICK overlap, tau, dropped, new, moved, severity :
          /\ overlap = Overlap(b, s) /\ tau = KendallTau(b, s)
          /\ dropped = Omitting(b, ToSet(s)) /\ new = Omitting(s, ToSet(b))
          /\ moved = MovedBy(b, s, order)
          /\ severity = (IF ErrorFlags(base, shadow1) = {} THEN Risk(Overlap(b, s), KendallTau(b, s), k) ELSE "HIGH")
    OBVIOUS
  <2>2. row = [base |-> b, shadow |-> s, overlap |-> overlap, tau |-> tau, moved |-> moved, dropped |-> dropped,
               new |-> new, facets |-> facets, severity |-> severity, flags |-> own]
    <3>1. moved = [i \in DOMAIN order |-> <<order[i], Delta(b, s, order[i])>>]
      BY <2>1, Zenon DEF MovedBy
    <3>. QED
      BY <1>1, <2>1, <3>1, Zenon
  <2>3. r.base = b /\ r.shadow = s /\ r.overlap = overlap /\ r.tau = tau /\ r.moved = moved
        /\ r.dropped = dropped /\ r.new = new /\ r.severity = severity
    BY <2>2 DEF Flagged
  <2>4. order \in MovedOrders(b, s)
    OBVIOUS
  <2>. QED
    BY <2>1, <2>3, <2>4, Zenon
<1>. QED
  BY <1>3, Zenon

(* A failed side makes the row HIGH.                                       *)
LEMMA RowOfErrors ==
  ASSUME NEW base, NEW shadow1, NEW k, NEW row \in DiffRows(base, shadow1, k), NEW flags,
         ErrorFlags(base, shadow1) # {}
  PROVE  Flagged(row, flags).severity = "HIGH"
<1>1. PICK b, s, r : b = FirstOf(base.docs, k) /\ s = FirstOf(shadow1.docs, k) /\ r = Flagged(row, flags)
  OBVIOUS
<1>2. r.severity = "HIGH"
  BY <1>1, RowFacts
<1>. QED
  BY <1>1, <1>2

(* Both sides of every query are there once the replay is over.            *)
LEMMA SidesReplayed ==
  ASSUME ReplayInv, stage \in Compared, NEW i \in Queries
  PROVE  /\ Baseline(replayed, i) \in Reply /\ 2 * i - 1 \in 1..Len(replayed)
         /\ Shadow(replayed, i) \in Reply /\ 2 * i \in 1..Len(replayed)
<1>1. i \in 1..Len(cases) /\ Len(replayed) = 2 * Len(cases) /\ Len(cases) \in Nat /\ replayed \in Seq(Reply)
  BY DEF ReplayInv, Queries
<1>2. 2 * i - 1 \in 1..Len(replayed) /\ 2 * i \in 1..Len(replayed)
  BY <1>1
<1>. QED
  BY <1>1, <1>2 DEF Baseline, Shadow

(* Each row is one of DiffRows.                                            *)
LEMMA RowsOfReplay ==
  ASSUME ReplayInv, stage \in Compared, NEW i \in Queries
  PROVE  \E row \in DiffRows(Baseline(replayed, i), Shadow(replayed, i), settings.k) :
           rows[i] = Flagged(row, rows[i].flags)
BY DEF ReplayInv, RowOf

-----------------------------------------------------------------------------
(* A verdict of pass has no failed rule and no failed golden query behind  *)
(* it, at this moment and not only when it was given.                      *)
Gated ==
  /\ verdict \in {"none", "pass", "fail"}
  /\ verdict = "pass" => FailedRules = {} /\ FailedGolden = {}

(* Nothing the verdict rests on changes after it.                          *)
LEMMA VerdictKept ==
  ASSUME ReplayInv, Next, ~EvaluateGate
  PROVE  UNCHANGED verdict /\ (verdict # "none" => UNCHANGED vars)
<1>1. CASE Over
  BY <1>1 DEF Over, vars, comparisonVars
<1>2. CASE IntakeNext /\ UNCHANGED <<comparisonVars, vectorVars>>
  BY <1>2, IntakeCourse DEF comparisonVars, ReplayInv, Intaking, Outset
<1>3. CASE VectorNext /\ UNCHANGED <<intakeVars, comparisonVars>>
  BY <1>3, VectorCourse DEF comparisonVars, ReplayInv
<1>4. CASE ComparisonNext
  BY <1>4 DEF ComparisonNext, Replay, Compare, SelectRewrites, FetchRewrite, EndRewrites, SelectExplains,
              FetchExplain, ReplayInv
<1>. QED
  BY <1>1, <1>2, <1>3, <1>4 DEF Next

(* The assumption on the settings is kept, as the settings are.            *)
LEMMA NextKeepsGiven ==
  ASSUME [Next]_vars
  PROVE  UNCHANGED settings /\ (Given => Given')
<1>1. UNCHANGED settings
  <2>1. CASE ComparisonNext
    BY <2>1 DEF ComparisonNext, Replay, Compare, SelectRewrites, FetchRewrite, EndRewrites, SelectExplains,
                FetchExplain, EvaluateGate, request
  <2>2. CASE VectorNext
    BY <2>2, VectorCourse DEF request
  <2>. QED
    BY <2>1, <2>2, IntakeCourse DEF Next, Over, vars
<1>. QED
  BY <1>1 DEF Given

(* Only the gate gives a verdict, and the rows it looked at stay.          *)
LEMMA GatedStep ==
  ASSUME ReplayInv, Gated, [Next]_vars
  PROVE  Gated'
<1>1. CASE EvaluateGate
  <2>1. UNCHANGED <<settings, cases, rows>>
    BY <1>1 DEF EvaluateGate, request
  <2>2. FailedRules' = FailedRules /\ FailedGolden' = FailedGolden
    BY <2>1 DEF FailedRules, FailedGolden, SegmentsOf, Queries
  <2>. QED
    BY <1>1, <2>2 DEF EvaluateGate, Gated
<1>2. CASE UNCHANGED vars
  <2>1. UNCHANGED <<settings, cases, rows, verdict>>
    BY <1>2 DEF vars, comparisonVars
  <2>2. FailedRules' = FailedRules /\ FailedGolden' = FailedGolden
    BY <2>1 DEF FailedRules, FailedGolden, SegmentsOf, Queries
  <2>. QED
    BY <2>1, <2>2 DEF Gated
<1>. QED
  BY <1>1, <1>2, VerdictKept DEF Gated

-----------------------------------------------------------------------------
(* A replay with a failure has a HIGH row.                                 *)
LEMMA ErrorsAreHigh ==
  ASSUME ReplayInv, stage \in Compared, NEW i \in Queries, rows[i].severity # "HIGH"
  PROVE  ~Baseline(replayed, i).error /\ ~Shadow(replayed, i).error
<1>1. PICK row \in DiffRows(Baseline(replayed, i), Shadow(replayed, i), settings.k) :
        rows[i] = Flagged(row, rows[i].flags)
  BY RowsOfReplay
<1>2. PICK r : r = rows[i]
  OBVIOUS
<1>3. PICK flags : flags = r.flags
  OBVIOUS
<1>4. PICK base, shadow1 : base = Baseline(replayed, i) /\ shadow1 = Shadow(replayed, i)
  OBVIOUS
<1>5. r = Flagged(row, flags) /\ row \in DiffRows(base, shadow1, settings.k)
  BY <1>1, <1>2, <1>3, <1>4
<1>6. ErrorFlags(base, shadow1) # {} => r.severity = "HIGH"
  BY <1>5, RowOfErrors
<1>7. ErrorFlags(base, shadow1) = {}
  BY <1>2, <1>6
<1>. QED
  BY <1>4, <1>7 DEF ErrorFlags

(* Without a HIGH row nothing has failed.                                  *)
LEMMA CleanRun ==
  ASSUME ReplayInv, stage \in Compared, \A i \in Queries : rows[i].severity # "HIGH"
  PROVE  failures = 0
<1>1. replayed \in Seq(Reply) /\ Len(replayed) = 2 * Len(cases) /\ Queries = 1..Len(cases) /\ Len(cases) \in Nat
  BY DEF ReplayInv, Queries
<1>2. SUFFICES ASSUME NEW n \in 1..Len(replayed) PROVE ~replayed[n].error
  BY DEF ReplayInv
<1>3. PICK i \in Queries : n = 2 * i - 1 \/ n = 2 * i
  <2>1. (n + 1) \div 2 \in Queries /\ (n = 2 * ((n + 1) \div 2) - 1 \/ n = 2 * ((n + 1) \div 2))
    BY <1>1
  <2>. QED
    BY <2>1
<1>. QED
  BY <1>3, ErrorsAreHigh DEF Baseline, Shadow

(* The rule of no tolerance holds unless no row is HIGH.                   *)
LEMMA NoHighRows ==
  ASSUME ReplayInv, stage \in Compared, ZeroTolerance \in settings.gate.fail, FailedRules = {}
  PROVE  DOMAIN rows = Queries /\ \A i \in Queries : rows[i].severity # "HIGH"
<1>1. DOMAIN rows = Queries
  BY DEF ReplayInv
<1>2. PICK buckets : buckets = Buckets(rows, SegmentsOf)
  OBVIOUS
<1>3. DEFINE high == {i \in DOMAIN rows : rows[i].severity = "HIGH"}
<1>4. PICK ratio : ratio = Share(high, DOMAIN rows)
  OBVIOUS
<1>5. MetricValue(rows, buckets, settings.k, ZeroTolerance) = ratio
  BY <1>4 DEF MetricValue, ZeroTolerance
<1>6. ~Holds(">", ratio, 0)
  BY <1>2, <1>5 DEF FailedRules, ZeroTolerance
<1>7. IsFiniteSet(DOMAIN rows) /\ high \subseteq DOMAIN rows
  <2>1. Queries = 1..Len(cases) /\ Len(cases) \in Nat
    BY DEF ReplayInv, Queries
  <2>. QED
    BY <1>1, <2>1, FS_Interval
<1>8. IsFiniteSet(high) /\ Cardinality(high) \in Nat /\ Cardinality(DOMAIN rows) \in Nat
  BY <1>7, FS_Subset, FS_CardinalityType
<1>9. ratio[1] = 100 * Cardinality(high) /\ ratio[2] \in Nat
  BY <1>4, <1>8 DEF Share
<1>10. ~(ratio[1] > 0)
  BY <1>6, <1>9 DEF Holds
<1>11. Cardinality(high) = 0
  BY <1>8, <1>9, <1>10
<1>12. high = {}
  BY <1>8, <1>11, FS_EmptySet
<1>. QED
  BY <1>1, <1>12

(* Without a HIGH row no segment has one.                                  *)
LEMMA CleanSegments ==
  ASSUME DOMAIN rows = Queries, \A i \in Queries : rows[i].severity # "HIGH"
  PROVE  \A b \in {Buckets(rows, SegmentsOf)} : \A label \in DOMAIN b : b[label][1] = 0
<1>1. PICK segments : segments = SegmentsOf
  OBVIOUS
<1>2. SUFFICES ASSUME NEW label \in DOMAIN Buckets(rows, segments) PROVE Buckets(rows, segments)[label][1] = 0
  BY <1>1
<1>3. {i \in {j \in DOMAIN rows : segments[j] = label} : rows[i].severity = "HIGH"} = {}
  OBVIOUS
<1>4. 100 * Cardinality({i \in {j \in DOMAIN rows : segments[j] = label} : rows[i].severity = "HIGH"}) = 0
  BY <1>3, FS_EmptySet
<1>. QED
  BY <1>4 DEF Buckets

(* A golden query that does not fail was replayed, and its documents found *)
(* in what the shadow answered.                                            *)
LEMMA GoldenFound ==
  ASSUME Given, ReplayInv, stage \in Compared, FailedGolden = {}, NEW golden \in settings.gate.golden
  PROVE  \/ golden.expected = {} \/ settings.gate.missing >= 100
         \/ \E i \in Queries :
              /\ cases[i].params = golden.params
              /\ 100 * Cardinality(golden.expected \ ToSet(Shadow(replayed, i).docs))
                   <= settings.gate.missing * Cardinality(golden.expected)
<1>1. /\ IsFiniteSet(golden.expected) /\ golden.topk \in Int /\ settings.gate.missing \in Nat
      /\ settings.k \in Nat \ {0}
  BY WellFormedSettings DEF WellFormed
<1>2. SUFFICES ASSUME golden.expected # {}, settings.gate.missing < 100
      PROVE  \E i \in Queries :
               /\ cases[i].params = golden.params
               /\ 100 * Cardinality(golden.expected \ ToSet(Shadow(replayed, i).docs))
                    <= settings.gate.missing * Cardinality(golden.expected)
  <2>1. settings.gate.missing < 100 \/ settings.gate.missing >= 100
    BY <1>1
  <2>. QED
    BY <2>1, Zenon
<1>. DEFINE same == {i \in DOMAIN rows : cases[i].params = golden.params}
            missing == MissingGolden(golden, cases, rows)
<1>3. ~(100 * Cardinality(missing) > settings.gate.missing * Cardinality(golden.expected))
  BY <1>2 DEF FailedGolden, GoldenFails
<1>4. Cardinality(golden.expected) \in Nat \ {0}
  BY <1>1, <1>2, FS_CardinalityType, FS_EmptySet
<1>5. same # {}
  <2>1. SUFFICES ASSUME same = {} PROVE FALSE
    OBVIOUS
  <2>2. missing = golden.expected
    BY <2>1 DEF MissingGolden
  <2>3. PICK c, m \in Nat : c = Cardinality(golden.expected) /\ m = settings.gate.missing
    BY <1>1, <1>4
  <2>4. 100 * c > m * c
    BY <1>2, <1>4, <2>3
  <2>. QED
    BY <1>3, <2>2, <2>3, <2>4
<1>6. same \subseteq 1..Len(cases) /\ Len(cases) \in Nat /\ DOMAIN rows = Queries
  BY DEF ReplayInv, Queries
<1>7. PICK i \in same : i = Max(same)
  <2>. HIDE DEF same
  <2>. QED
    BY <1>5, <1>6, GreatestNumber
<1>8. i \in Queries /\ cases[i].params = golden.params
  BY <1>6, <1>7
<1>9. missing = golden.expected \ ToSet(FirstOf(rows[i].shadow, golden.topk))
  BY <1>5, <1>7 DEF MissingGolden
<1>10. Shadow(replayed, i).docs \in Seq(Nat)
  BY <1>8, SidesReplayed, RepliesHaveDocs
<1>11. rows[i].shadow = FirstOf(Shadow(replayed, i).docs, settings.k)
  <2>1. PICK row \in DiffRows(Baseline(replayed, i), Shadow(replayed, i), settings.k) :
          rows[i] = Flagged(row, rows[i].flags)
    BY <1>8, RowsOfReplay
  <2>. QED
    BY <2>1, RowFacts
<1>12. ToSet(FirstOf(rows[i].shadow, golden.topk)) \subseteq ToSet(Shadow(replayed, i).docs)
  <2>1. PICK docs \in Seq(Nat) : docs = Shadow(replayed, i).docs
    BY <1>10
  <2>2. PICK top : top = FirstOf(docs, settings.k)
    OBVIOUS
  <2>3. top \in Seq(Nat) /\ ToSet(top) \subseteq ToSet(docs)
    BY <1>1, <2>2, FirstOfType
  <2>4. ToSet(FirstOf(top, golden.topk)) \subseteq ToSet(top)
    BY <1>1, <2>3, FirstOfType
  <2>. QED
    BY <1>11, <2>1, <2>2, <2>3, <2>4
<1>13. PICK lost : lost = golden.expected \ ToSet(Shadow(replayed, i).docs)
  OBVIOUS
<1>14. lost \subseteq missing /\ missing \subseteq golden.expected
  BY <1>9, <1>12, <1>13
<1>15. Cardinality(lost) \in Nat /\ Cardinality(missing) \in Nat /\ Cardinality(lost) <= Cardinality(missing)
  <2>. HIDE DEF missing
  <2>1. IsFiniteSet(missing)
    BY <1>1, <1>14, FS_Subset
  <2>. QED
    BY <1>14, <2>1, FS_Subset, FS_CardinalityType
<1>16. PICK c \in Nat : c = settings.gate.missing * Cardinality(golden.expected)
  BY <1>1, <1>4
<1>17. 100 * Cardinality(lost) <= c
  <2>. HIDE DEF missing
  <2>. QED
    BY <1>3, <1>15, <1>16
<1>. QED
  BY <1>8, <1>13, <1>16, <1>17

(* compare/gate.py: under the rule of no tolerance a verdict of pass is    *)
(* given only if no call of the replay failed and no segment has a query   *)
(* of HIGH risk; and whatever the rules, every golden query has been       *)
(* replayed and its documents found, as far as the policy asks for them.   *)
THEOREM GateIsEarned == Spec => []GatePassIsEarned
<1>1. Init => Given /\ ReplayInv /\ Gated
  BY InitReplay DEF Init, Given, ComparisonInit, Gated
<1>2. Given /\ ReplayInv /\ Gated /\ [Next]_vars => (Given /\ ReplayInv /\ Gated)'
  BY ReplayStep, GatedStep, NextKeepsGiven
<1>3. Given /\ ReplayInv /\ Gated => GatePassIsEarned
  <2>1. SUFFICES ASSUME Given, ReplayInv, Gated, verdict = "pass"
                 PROVE  GatePassIsEarned
    BY DEF GatePassIsEarned
  <2>2. stage \in Compared /\ FailedRules = {} /\ FailedGolden = {}
    BY <2>1 DEF ReplayInv, Gated, Compared
  <2>3. ZeroTolerance \in settings.gate.fail =>
          /\ failures = 0
          /\ \A b \in {Buckets(rows, SegmentsOf)} : \A label \in DOMAIN b : b[label][1] = 0
    BY <2>1, <2>2, NoHighRows, CleanRun, CleanSegments
  <2>. QED
    BY <2>1, <2>2, <2>3, GoldenFound, Zenon DEF GatePassIsEarned
<1>. QED
  BY <1>1, <1>2, <1>3, PTL DEF Spec
=============================================================================
