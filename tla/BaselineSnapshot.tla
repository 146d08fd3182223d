--------------------------- MODULE BaselineSnapshot ---------------------------
(***************************************************************************)
(* The snapshot stage: the baseline is captured from Solr, or loaded from  *)
(* the directory of an earlier capture, and is written file by file into   *)
(* the output directory, where an earlier run may have left its own; then  *)
(* Solr is probed and what it supports is put into the manifest.           *)
(* A file is torn while it is being written: whoever reads the directory   *)
(* then, or after a crash, finds it so.                                    *)
(***************************************************************************)
EXTENDS EvaluationStages, Compatibility

VARIABLES
  out,        \* the snapshot files of the output directory
  writes,     \* <<file, contents>> still to be written
  baseline    \* <<baseline_schema and system of this run>>

Files == {"manifest", "schema", "system", "collection", "hash"}
Missing == "missing"
Torn == "torn"
Empty == [file \in Files |-> [state |-> Missing]]
Written(value) == [state |-> "written", value |-> value]

-----------------------------------------------------------------------------
(* snapshotter.py: the hash is over all that was captured and where.       *)
SnapshotHash(origin, schema, system, collection) == <<origin, schema, system, collection>>
NoHash == <<>>   \* a manifest without one

Captured(origin, schema, system, collection) ==
  [schema |-> schema, system |-> system, collection |-> collection,
   hash |-> SnapshotHash(origin, schema, system, collection),
   manifest |-> [origin |-> origin, hash |-> SnapshotHash(origin, schema, system, collection),
                 compatibility |-> CompatibilityContract(system, <<>>)]]

Read(dir, file) == dir[file].value
Complete(dir) == \A file \in Files \ {"hash"} : dir[file].state = "written"
ComputedHash(dir) ==
  SnapshotHash(Read(dir, "manifest").origin, Read(dir, "schema"), Read(dir, "system"), Read(dir, "collection"))

(* Mutant: the files are taken as they are.                                *)
LoadRaisesIncomplete(dir) == ~Complete(dir)

LoadRaises(dir) ==
  \/ ~Complete(dir)
  \/ /\ Read(dir, "manifest").hash # NoHash
     /\ ComputedHash(dir) # Read(dir, "manifest").hash

-----------------------------------------------------------------------------
SnapshotInit ==
  /\ out = settings.solr.out /\ writes = <<>> /\ baseline = <<>> /\ compat = NoCompat

Snapshotting == stage = "snapshot"
Origin == settings.solr.origin
KeepFiles == UNCHANGED <<settings, cases, out>>

(* The schema and the system info must be there; of the state of the       *)
(* collection a failure leaves a warning.                                  *)
CaptureSnapshot ==
  /\ Snapshotting /\ baseline = <<>> /\ settings.solr.snapshot = <<>>
  /\ \/ \E collection \in {"state", "warning"} :
          LET captured == Captured(Origin, settings.baseline, settings.solr.system, collection)
          IN  /\ baseline' = <<[schema |-> captured.schema, system |-> captured.system,
                               manifest |-> captured.manifest]>>
              /\ writes' = <<<<"schema", captured.schema>>, <<"system", captured.system>>,
                             <<"collection", collection>>, <<"hash", captured.hash>>,
                             <<"manifest", captured.manifest>>>>
              /\ UNCHANGED stage
     \/ Enter("failed") /\ UNCHANGED <<baseline, writes>>
  /\ UNCHANGED compat /\ KeepFiles

(* What was loaded is copied, the manifest first.                          *)
LoadSnapshot ==
  /\ Snapshotting /\ baseline = <<>> /\ settings.solr.snapshot # <<>>
  /\ LET dir == settings.solr.snapshot[1]
     IN  IF LoadRaises(dir)
         THEN Enter("failed") /\ UNCHANGED <<baseline, writes>>
         ELSE /\ baseline' = <<[schema |-> Read(dir, "schema"), system |-> Read(dir, "system"),
                               manifest |-> Read(dir, "manifest")]>>
              /\ writes' = [i \in 1..4 |-> LET file == <<"manifest", "schema", "system", "collection">>[i]
                                           IN  <<file, Read(dir, file)>>]
                             \o <<<<"hash", ComputedHash(dir)>>>>
              /\ UNCHANGED stage
  /\ UNCHANGED compat /\ KeepFiles

(* write_json: the file is truncated, then it is written.                  *)
WriteFile ==
  /\ Snapshotting /\ writes # <<>>
  /\ LET file == Head(writes)[1]
     IN  IF out[file].state = Torn
         THEN out' = [out EXCEPT ![file] = Written(Head(writes)[2])] /\ writes' = Tail(writes)
         ELSE out' = [out EXCEPT ![file] = [state |-> Torn]] /\ UNCHANGED writes
  /\ UNCHANGED <<settings, cases, stage, baseline, compat>>

(* The system is the one of the snapshot, what is probed is Solr as it is  *)
(* now.                                                                    *)
DetectCompatibility ==
  /\ Snapshotting /\ baseline # <<>> /\ writes = <<>> /\ compat = NoCompat
  /\ \E answered \in settings.solr.probes :
       LET system == baseline[1].system
           caps == CapabilitiesForVersion(DetectVersion(system), <<answered>>)
       IN  compat' = [caps     |-> caps,
                      contract |-> [CompatibilityContract(system, <<answered>>)
                                      EXCEPT !.degraded = DegradedFeatures(caps)]]
  /\ writes' = <<<<"manifest", [baseline[1].manifest EXCEPT !.compatibility = compat'.contract]>>>>
  /\ UNCHANGED <<stage, baseline>> /\ KeepFiles

EndSnapshot ==
  /\ Snapshotting /\ writes = <<>> /\ compat # NoCompat
  /\ Enter("preflight")
  /\ UNCHANGED <<writes, baseline, compat>> /\ KeepFiles

SnapshotNext ==
  CaptureSnapshot \/ LoadSnapshot \/ WriteFile \/ DetectCompatibility \/ EndSnapshot
=============================================================================
