----------------------------- MODULE Compatibility -----------------------------
(***************************************************************************)
(* compat/: from the version of a Solr and a few probes to capabilities,   *)
(* and what is disabled or replaced where one is missing.  Versions are    *)
(* major numbers, 0 is an unknown one.                                     *)
(***************************************************************************)
EXTENDS Integers, SequencesExt, TLC

Basic == {"metrics_json", "metrics_mbeans", "configset_upload", "configset_download", "collections_api",
          "alias_ops", "luke", "parsedquery", "json_request", "ltr"}
Capabilities == Basic \cup {"metrics_prometheus", "structured_explain", "vector", "vector_native_hybrid",
                            "feature_logging", "package_manager"}

(* compat/matrix.py                                                        *)
DefaultsForMajor(major) ==
  CASE major = 0 -> Basic
    [] major \in 1..8 -> Basic \cup {"feature_logging"}
    [] major = 9 -> Capabilities \ {"metrics_prometheus"}
    [] major >= 10 -> Capabilities

(* compat/detect.py: the first place of the system info that has a version *)
(* that can be read.                                                       *)
DetectVersion(system) ==
  LET readable == SelectSeq(system.versions, LAMBDA v : v # 0)
  IN  IF readable = <<>> THEN 0 ELSE readable[1]

(* The capabilities that a probe decides, whatever the version says.       *)
ProbeOf ==
  [metrics_json |-> "metrics_json", metrics_mbeans |-> "metrics_mbeans", collections_api |-> "collections_api",
   alias_ops |-> "alias_ops", configset_upload |-> "configset_list", configset_download |-> "configset_list",
   luke |-> "luke", json_request |-> "json_query", structured_explain |-> "structured_explain"]
Probes == {ProbeOf[c] : c \in DOMAIN ProbeOf}

(* Without an answer to the probes, <<>>, the version alone counts.        *)
Probed(caps, probes) ==
  IF probes = <<>> THEN caps
  ELSE {c \in Capabilities : IF c \in DOMAIN ProbeOf THEN ProbeOf[c] \in probes[1] ELSE c \in caps}

(* compat/capabilities.py: once for what the run does, ...                 *)
(* Mutant: the probes are not passed on.                                   *)
CapabilitiesUnprobed(version, probes) == DefaultsForMajor(version)

CapabilitiesForVersion(version, probes) == Probed(DefaultsForMajor(version), probes)

(* ... and once for what it reports.                                       *)
Without(caps, capability, entry) == IF capability \in caps THEN {} ELSE {entry}

DisabledFeatures(caps) ==
  Without(caps, "vector", "vector_hybrid")
    \cup Without(caps, "structured_explain", "structured_explain")
    \cup (IF {"metrics_json", "metrics_mbeans"} \cap caps = {} THEN {"metrics_capture"} ELSE {})
    \cup Without(caps, "configset_upload", "configset_upload")
    \cup Without(caps, "luke", "index_luke_inspection")
    \cup Without(caps, "ltr", "ltr_impact")

Fallbacks(caps) ==
  Without(caps, "vector", <<"vector_hybrid", "disable_vector_scenarios">>)
    \cup (IF "vector" \in caps
          THEN Without(caps, "vector_native_hybrid", <<"vector_hybrid", "client_side_hybrid_simulation">>)
          ELSE {})
    \cup Without(caps, "structured_explain", <<"structured_explain", "raw_explain_output">>)
    \cup (IF "metrics_mbeans" \in caps
          THEN Without(caps, "metrics_json", <<"metrics_capture", "admin_mbeans">>)
          ELSE {})
    \cup Without(caps, "configset_upload", <<"configset_upload", "local_configset_directory">>)
    \cup Without(caps, "luke", <<"index_inspection", "skip_luke_stats">>)

DetectedCapabilities(system, probes) == Probed(DefaultsForMajor(DetectVersion(system)), probes)

CompatibilityContract(system, probes) ==
  LET caps == DetectedCapabilities(system, probes)
  IN  [capabilities |-> caps, disabled |-> DisabledFeatures(caps), fallbacks |-> Fallbacks(caps),
       degraded |-> {}]

(* snapshot_compat_service.py: the list that the run itself makes.         *)
MetricsSupported(caps) == {"metrics_json", "metrics_mbeans"} \cap caps # {}

DegradedFeatures(caps) ==
  Without(caps, "vector", "vector_hybrid")
    \cup Without(caps, "structured_explain", "structured_explain")
    \cup (IF MetricsSupported(caps) THEN {} ELSE {"metrics_capture"})
    \cup Without(caps, "configset_upload", "configset_upload")
    \cup Without(caps, "configset_download", "configset_download")
=============================================================================
