-------------------------- MODULE ChangesetValidation --------------------------
(***************************************************************************)
(* changesets/validator.py: what a changeset must be for a run to start.   *)
(* Only whether there are errors is kept, not their wording; the key names *)
(* that are missing or of the wrong kind are in `missing`.                 *)
(***************************************************************************)
EXTENDS SchemaChanges, ConfigsetPatch

SupportedOps == SchemaOps \cup ConfigsetOps \cup {"queryparams.set"}

RequiredKeys(op) ==
  CASE op = "schema.field.update" -> {"field", "set"}
    [] op = "schema.fieldType.replace" -> {"name", "with"}
    [] op = "schema.analyzer.remove_filter" -> {"fieldType", "analyzer", "filter_class"}
    [] op = "queryparams.set" -> {"set"}
    [] OTHER -> {}

(* A target file has a path, a mode that there is or none, and a source of *)
(* its own or of the change.  What is null counts as not there, an empty   *)
(* source as one.                                                          *)
(* Mutant: one target with a source is enough.                             *)
ValidTargetsAny(change) ==
  LET none == {NoKey, Null}
  IN  /\ change.mode \in UpdateModes
      /\ change.files # <<>>
      /\ \A i \in DOMAIN change.files :
           change.files[i].path \notin none \cup {Blank} /\ change.files[i].mode \in UpdateModes \cup none
      /\ \E i \in DOMAIN change.files : change.files[i].source_file \notin none \/ change.source_file \notin none

ValidTargets(change) ==
  LET none == {NoKey, Null}
  IN  /\ change.mode \in UpdateModes
      /\ change.files # <<>>
      /\ \A i \in DOMAIN change.files :
           /\ change.files[i].path \notin none \cup {Blank}
           /\ change.files[i].mode \in UpdateModes \cup none
           /\ change.files[i].source_file \notin none \/ change.source_file \notin none

ValidChange(change) ==
  /\ change.op \in SupportedOps
  /\ RequiredKeys(change.op) \cap change.missing = {}
  /\ change.op = "schema.analyzer.remove_filter" => change.analyzer \in {"index", "query"}
  /\ change.op \in ConfigsetOps => ValidTargets(change)

(* check_paths: every source file that is named, also one that another     *)
(* overrides.  An empty one leads to the directory of the changeset, which *)
(* is there.                                                               *)
SourceFiles(change) ==
  IF change.op \in ConfigsetOps
  THEN ({change.source_file} \cup {change.files[i].source_file : i \in DOMAIN change.files}) \ {NoKey, Null, Blank}
  ELSE {}

PathsExist(changes, source, sources) ==
  /\ \A change \in ToSet(changes) : SourceFiles(change) \subseteq DOMAIN sources
  /\ source.type # "plugin" => source.exists

ValidQuerySource(source) ==
  /\ source.type \in {"file", "log", "plugin"}
  /\ source.type = "plugin" => source.provider # 0
  /\ source.mode \in {"top", "reservoir"}

ValidRewriteDiff(rewrite) ==
  rewrite.max > 0 /\ rewrite.spike > 0 /\ rewrite.mode \in {"debugQuery", "results"}

ValidScenario(scenario) ==
  /\ scenario.mode \in {"lexical_only", "vector_only", "hybrid"}
  /\ scenario.mode = "hybrid" =>
       /\ scenario.blend.method \in {"linear", "normalize_linear", "rrf"}
       /\ scenario.blend.execution \in {"auto", "client", "solr_native"}
       /\ scenario.blend.normalize \in {"none", "minmax", "zscore"}

ValidVector(vector) ==
  vector.enabled =>
    /\ vector.policy \in {"skip", "fail"}
    /\ vector.scenarios # <<>>
    /\ \A i \in DOMAIN vector.scenarios : ValidScenario(vector.scenarios[i])

ValidChangeset(changeset) ==
  /\ ValidQuerySource(changeset.source)
  /\ ValidRewriteDiff(changeset.rewrite)
  /\ ValidVector(changeset.vector)
  /\ \A change \in ToSet(changeset.changes) : ValidChange(change)
  /\ PathsExist(changeset.changes, changeset.source, changeset.sources)
=============================================================================
