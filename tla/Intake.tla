--------------------------------- MODULE Intake ---------------------------------
(***************************************************************************)
(* The stages of a run before the queries are replayed, as far as they     *)
(* decide what is evaluated: the validation of the changeset, the          *)
(* discovery of plugins, the preflight, the patched configset and the      *)
(* changed schema of the shadow collection, and the loading of queries.    *)
(* Calls to Solr may fail.                                                 *)
(***************************************************************************)
EXTENDS BaselineSnapshot, ChangesetValidation, PluginDiscovery

VARIABLES
  plugins,     \* LoadedPlugins of this run
  risks,       \* findings of schema_risk.json
  workspace,   \* files of the configset that is being patched
  patched,     \* target files worked off
  configset,   \* files of the configset that the shadow collection gets
  shadow,      \* <<its schema>> once the collection is there
  calls,       \* calls to the schema API left of the change under way
  worked,      \* changes worked off
  applied,     \* applied_changes of create_shadow
  raised,      \* what create_shadow has raised
  taken        \* rows of the log that the sampler has gone through

intakeVars == <<out, writes, baseline, plugins, risks, workspace, patched, configset, shadow, calls, worked, applied,
                raised, taken>>
shadowVars == <<workspace, patched, configset, shadow, calls, worked, applied, raised>>

IntakeInit ==
  /\ SnapshotInit
  /\ plugins = [active |-> <<>>, issues |-> {}] /\ risks = {}
  /\ workspace = settings.files /\ patched = 0 /\ configset = settings.files
  /\ shadow = <<>> /\ calls = <<>> /\ worked = 0 /\ applied = <<>> /\ raised = "none"
  /\ taken = 0 /\ cases = <<>>

-----------------------------------------------------------------------------
ValidateChangeset ==
  /\ stage = "validate"
  /\ IF ValidChangeset(settings) THEN Enter("plugins_init") ELSE Enter("failed")
  /\ UNCHANGED <<request, intakeVars>>

(* The rest of the intake knows the baseline by its snapshot only.         *)
BaselineSchema == baseline[1].schema

(* initialize_plugins: in strict mode any issue ends the run.              *)
InitializePlugins ==
  /\ stage = "plugins_init"
  /\ plugins' = LoadedPlugins(settings.plugins)
  /\ IF settings.plugins.strict_mode /\ plugins'.issues # {} THEN Enter("failed") ELSE Enter("snapshot")
  /\ UNCHANGED <<request, out, writes, baseline, risks, shadowVars, taken>>

(* A configset that could not be uploaded is reported as the next stage    *)
(* begins.                                                                 *)
UploadReport ==
  IF "configset_upload" \notin compat.caps /\ \E change \in ToSet(settings.changes) : change.op \in ConfigsetOps
  THEN {<<"configset_upload", "unavailable">>} ELSE {}

RunPreflight ==
  /\ stage = "preflight"
  /\ risks' = Preflight(BaselineSchema, settings.changes)
  /\ IF settings.fail_on_risk /\ HighRisk(risks')
     THEN Enter("failed") /\ UNCHANGED compat
     ELSE /\ Enter("shadow_create")
          /\ compat' = [compat EXCEPT !.contract.fallbacks = @ \cup UploadReport]
  /\ UNCHANGED <<settings, cases, out, writes, baseline, plugins, shadowVars, taken>>

-----------------------------------------------------------------------------
(* create_shadow: the target files one by one, in a copy of the            *)
(* baseline's configset, then the upload and the collection, then the      *)
(* schema changes, one call after the other.                               *)
Creating == stage = "shadow_create"
Steps == PatchSteps(settings.changes)
Raise(error) == raised' = error /\ Enter("failed")
KeepRun == UNCHANGED <<request, out, writes, baseline, plugins, risks, taken>>

(* Whatever goes wrong with the patch, with the fallback the shadow gets   *)
(* the configset as it was.                                                *)
PatchFails(error) ==
  IF settings.allow_shared_configset_fallback
  THEN patched' = Len(Steps) + 1 /\ UNCHANGED <<configset, raised, stage>>
  ELSE Raise(error) /\ UNCHANGED <<patched, configset>>

PatchTarget ==
  /\ Creating /\ patched < Len(Steps)
  /\ LET step == Steps[patched + 1]
     IN  \/ /\ PatchRaises(settings.sources, step)
            /\ PatchFails("ValidationError") /\ UNCHANGED workspace
         \/ /\ ~PatchRaises(settings.sources, step) /\ step.path = Outside
            /\ PatchFails("ValueError") /\ UNCHANGED workspace
         \/ /\ ~PatchRaises(settings.sources, step)   \* a file cannot be read or written
            /\ PatchFails("OSError") /\ UNCHANGED workspace
         \/ /\ ~PatchRaises(settings.sources, step) /\ step.path # Outside
            /\ workspace' = PatchFile(workspace, settings.sources, step)
            /\ patched' = patched + 1
            /\ UNCHANGED <<configset, raised, stage>>
  /\ UNCHANGED <<shadow, calls, worked, applied>> /\ KeepRun

UploadConfigset ==
  /\ Creating /\ patched = Len(Steps) /\ shadow = <<>>
  /\ \/ /\ configset' = workspace /\ patched' = Len(Steps) + 1
        /\ UNCHANGED <<raised, stage>>
     \/ PatchFails("SolrRequestError")
  /\ UNCHANGED <<workspace, shadow, calls, worked, applied>> /\ KeepRun

CreateCollection ==
  /\ Creating /\ patched > Len(Steps) /\ shadow = <<>>
  /\ \/ shadow' = <<settings.baseline>> /\ UNCHANGED <<raised, stage>>
     \/ Raise("SolrRequestError") /\ UNCHANGED shadow
  /\ UNCHANGED <<workspace, patched, configset, calls, worked, applied>> /\ KeepRun

(* apply_schema_operations: changes of another kind are passed over.       *)
Change == settings.changes[worked + 1]
Report(skipped) ==
  /\ applied' = Append(applied, [change |-> worked + 1, skipped |-> skipped])
  /\ worked' = worked + 1

PrepareChange ==
  /\ Creating /\ shadow # <<>> /\ calls = <<>> /\ worked < Len(settings.changes)
  /\ CASE Change.op \notin SchemaOps ->
            worked' = worked + 1 /\ UNCHANGED <<calls, applied, raised, stage>>
       [] Change.op \in SchemaOps /\ NamesUnknown(BaselineSchema, Change) ->
            Raise("ValidationError") /\ UNCHANGED <<calls, worked, applied>>
       [] Change.op \in SchemaOps /\ ~NamesUnknown(BaselineSchema, Change) ->
            IF NothingToRemove(BaselineSchema, Change)
            THEN Report(TRUE) /\ UNCHANGED <<calls, raised, stage>>
            ELSE /\ calls' = Payloads(BaselineSchema, Change)
                 /\ IF calls' = <<>> THEN Report(FALSE) ELSE UNCHANGED <<worked, applied>>
                 /\ UNCHANGED <<raised, stage>>
  /\ UNCHANGED <<workspace, patched, configset, shadow>> /\ KeepRun

CallSchemaApi ==
  /\ Creating /\ calls # <<>>
  /\ \/ /\ Replaceable(shadow[1], Head(calls))
        /\ shadow' = <<Replaced(shadow[1], Head(calls))>>
        /\ calls' = Tail(calls)
        /\ IF calls' = <<>> THEN Report(FALSE) ELSE UNCHANGED <<worked, applied>>
        /\ UNCHANGED <<raised, stage>>
     \/ Raise("SolrRequestError") /\ UNCHANGED <<shadow, calls, worked, applied>>
  /\ UNCHANGED <<workspace, patched, configset>> /\ KeepRun

FinishShadow ==
  /\ Creating /\ shadow # <<>> /\ calls = <<>> /\ worked = Len(settings.changes)
  /\ Enter("queries_extract_or_load")
  /\ UNCHANGED <<shadowVars>> /\ KeepRun

-----------------------------------------------------------------------------
(* The rows of the source are numbers of queries, 0 is one that cannot be  *)
(* read: it ends the reading of a file but is passed over in a log or in   *)
(* what a plugin delivers.  Rows of a log are sanitized, which may make    *)
(* two queries the same.                                                   *)
Source == settings.source
Loading == stage = "queries_extract_or_load"
Limited == Source.max_queries > 0
Cases(rows) == [i \in DOMAIN rows |-> settings.queries[rows[i]]]
Readable0(rows) == Omitting(rows, {0})
FirstRows(rows) ==
  SubSeq(rows, 1, IF Limited /\ Source.max_queries < Len(rows) THEN Source.max_queries ELSE Len(rows))

(* queries/loader.py looks at the limit once a query has been taken: below *)
(* 0 it is reached by the first one.                                       *)
FileRows(rows) ==
  IF Source.max_queries < 0 THEN SubSeq(rows, 1, IF rows = <<>> THEN 0 ELSE 1) ELSE FirstRows(rows)

Loaded(rows) == cases' = Cases(rows) /\ Enter("vector_validate")

LoadFromFile ==
  /\ Loading /\ Source.type = "file"
  /\ IF 0 \in ToSet(FileRows(Source.rows))
     THEN Enter("failed") /\ UNCHANGED cases
     ELSE Loaded(FileRows(Source.rows))
  /\ UNCHANGED <<settings, compat, intakeVars>>

LoadFromPlugin ==
  /\ Loading /\ Source.type = "plugin"
  /\ \/ Source.provider \in ToSet(plugins.active) /\ Loaded(Readable0(Source.rows))
     \/ Enter("failed") /\ UNCHANGED cases   \* the plugin is not there, or raises
  /\ UNCHANGED <<settings, compat, intakeVars>>

Cleaned ==
  LET rows == Readable0(Source.rows)
  IN  [i \in DOMAIN rows |-> Source.sanitized[rows[i]]]

(* queries/sampler.py: the most frequent rows, each once, equals in the    *)
(* order in which they first came.                                         *)
CountOf(rows, row) == Cardinality({i \in DOMAIN rows : rows[i] = row})
FirstSeen(rows, row) == Min({i \in DOMAIN rows : rows[i] = row})
SampleTop(rows) ==
  {FirstRows(order) : order \in
     {o \in [1..Cardinality(ToSet(rows)) -> ToSet(rows)] :
        /\ ToSet(o) = ToSet(rows)
        /\ \A m, n \in DOMAIN o : m < n =>
             \/ CountOf(rows, o[m]) > CountOf(rows, o[n])
             \/ CountOf(rows, o[m]) = CountOf(rows, o[n]) /\ FirstSeen(rows, o[m]) < FirstSeen(rows, o[n])}}

ExtractFromLog ==
  /\ Loading /\ Source.type = "log" /\ (Limited => Source.mode = "top")
  /\ \E sample \in IF Limited THEN SampleTop(Cleaned) ELSE {Cleaned} : Loaded(sample)
  /\ UNCHANGED <<settings, compat, intakeVars>>

(* The reservoir is filled, then row i takes the place of a random one of  *)
(* i, if that is in the reservoir.                                         *)
(* Mutant: a row that comes later is put into a place next to the last.    *)
TakeRowPastEnd ==
  /\ Loading /\ Source.type = "log" /\ Limited /\ Source.mode = "reservoir" /\ taken < Len(Cleaned)
  /\ taken' = taken + 1
  /\ LET row == settings.queries[Cleaned[taken']]
     IN  IF taken < Source.max_queries
         THEN cases' = Append(cases, row)
         ELSE \E j \in 1..taken' : cases' = IF j <= Source.max_queries + 1 THEN (j :> row) @@ cases ELSE cases
  /\ UNCHANGED <<settings, stage, compat, out, writes, baseline, plugins, risks, shadowVars>>

TakeRow ==
  /\ Loading /\ Source.type = "log" /\ Limited /\ Source.mode = "reservoir" /\ taken < Len(Cleaned)
  /\ taken' = taken + 1
  /\ LET row == settings.queries[Cleaned[taken']]
     IN  IF taken < Source.max_queries
         THEN cases' = Append(cases, row)
         ELSE \E j \in 1..taken' :
                cases' = IF j <= Source.max_queries THEN [cases EXCEPT ![j] = row] ELSE cases
  /\ UNCHANGED <<settings, stage, compat, out, writes, baseline, plugins, risks, shadowVars>>

EndSampling ==
  /\ Loading /\ Source.type = "log" /\ Limited /\ Source.mode = "reservoir" /\ taken = Len(Cleaned)
  /\ Enter("vector_validate")
  /\ UNCHANGED <<request, intakeVars>>

IntakeNext ==
  \/ SnapshotNext /\ UNCHANGED <<plugins, risks, shadowVars, taken>>
  \/ ValidateChangeset \/ InitializePlugins \/ RunPreflight
  \/ PatchTarget \/ UploadConfigset \/ CreateCollection
  \/ PrepareChange \/ CallSchemaApi \/ FinishShadow
  \/ LoadFromFile \/ LoadFromPlugin \/ ExtractFromLog \/ TakeRow \/ EndSampling
=============================================================================
