----------------------------- MODULE RunPipeline -----------------------------
(***************************************************************************)
(* `run' of cli.py with runtime/: one run goes through its stages and then *)
(* through a finally block, in which whatever raises ends everything.  The *)
(* runs of one API process may overlap (inline handlers, worker threads);  *)
(* they share the module global with the masking rules.                    *)
(***************************************************************************)
EXTENDS Naturals, Sequences, FiniteSets

CONSTANTS Runs,
          Options,        \* the settings the runs may have
          Faulty,         \* the runs in which something may fail
          Plugins,        \* the types of the loaded plugins, in loading order
          Plain, Absent   \* contents of an artifact: not masked, not there

Settings == [strict: BOOLEAN,     \* plugins.strict_mode
             mask: BOOLEAN,       \* privacy.profile is not "off"
             suppress: BOOLEAN,   \* the profile suppresses raw documents
             persist: BOOLEAN,    \* sensitive artifacts may be kept
             summary: BOOLEAN,    \* security.profile is "summary-only"
             vector: BOOLEAN,     \* vector scenarios are replayed
             cleanup: BOOLEAN]    \* the shadow is to be deleted

ASSUME RunPipelineAssumption ==
  /\ Options \subseteq [Runs -> {s \in Settings : s.summary => ~s.persist}]
  /\ Faulty \subseteq Runs
  /\ Plugins \in Seq({"gate", "report", "observability", "other"})
  /\ Plain \notin Runs /\ Absent \notin Runs /\ Plain # Absent

(* The artifacts that SENSITIVE_ARTIFACTS and SUMMARY_ONLY_EXTRA_ARTIFACTS *)
(* name, and some of those that every run keeps.  "details" stands for     *)
(* rootcauses.json, recommendations.json, perf_metrics.json and            *)
(* ltr_impact.json.  audit.json, governance.json, compat.json and files    *)
(* that are never masked nor deleted (shadow.json, ...) are left out.      *)
Sensitive == {"docs_sample.jsonl", "queries_extracted.jsonl", "replay.json"}
SummaryOnlyExtra == {"compare.json", "details", "plugins.json"}
Artifacts == Sensitive \cup SummaryOnlyExtra \cup
             {"privacy.json", "report.json", "run_manifest.json"}

(* What is written by write_json and write_jsonl, without masking.         *)
Unmasked == {"docs_sample.jsonl", "queries_extracted.jsonl", "details"}

(* The steps of a run in order.  The name of an artifact is the step that  *)
(* writes it.  Several writes of compare.json in a row count as one.       *)
Setup == <<"plugins", "on_run_started", "clients", "masking", "privacy.json">>
Prepare == <<"create_shadow", "docs_sample.jsonl", "queries_extracted.jsonl">>
Compare == <<"replay.json", "compare.json", "replay.json", "details", "compare.json">>
Extend == <<"gate", "report", "execute", "plugins.json", "compare.json",
            "on_gate_failed", "report.json">>
(* Mutant: the rules are reset as soon as the stages are through.          *)
FinallyResetFirst ==
  <<"reset", "cleanup_plugins", "cleanup_shadow", "on_run_completed", "compare.json",
    "retention", "privacy.json", "privacy_report", "compare.json", "run_manifest.json", "close">>

Finally == <<"cleanup_plugins", "cleanup_shadow", "on_run_completed", "compare.json", "retention",
             "privacy.json", "privacy_report", "compare.json",
             "run_manifest.json", "reset", "close">>
Program == Setup \o Prepare \o Compare \o Extend \o Finally
End == Len(Program) + 1
FinallyAt == End - Len(Finally)

VARIABLES
  opt,        \* the settings of each run
  pc,         \* the step each run is at; 0 before it is called
  outcome,    \* "ok", an exception is pending or was raised ("failed"), the
              \* finally block was left ("aborted"), the process died ("killed")
  got,        \* the local variables of each run that have been assigned
  next,       \* the next plugin in a loop over them
  plugin,     \* the state of each run's plugins
  files,      \* files[r][a]: whose masking rules artifact a was written with
  shadow,     \* the shadow collection of each run
  masking,    \* _PRIVACY_RUNTIME_CFG: the run whose rules are active, or Plain
  overlapped  \* runs that were not alone in the process all the time

vars == <<opt, pc, outcome, got, next, plugin, files, shadow, masking, overlapped>>

Indices == 1..Len(Plugins)
Locals == {"plugins", "clients", "privacy", "shadow"}
PluginStates == {"new", "broken", "ready", "cleaned", "reopened", "misused"}
Active(r) == pc[r] \in 1..(End - 1)
Completed(r) == pc[r] = End /\ outcome[r] \in {"ok", "failed"}

TypeOK ==
  /\ opt \in Options
  /\ pc \in [Runs -> 0..End]
  /\ outcome \in [Runs -> {"ok", "failed", "aborted", "killed"}]
  /\ got \in [Runs -> SUBSET Locals]
  /\ next \in [Runs -> 1..(Len(Plugins) + 1)]
  /\ plugin \in [Runs -> [Indices -> PluginStates]]
  /\ files \in [Runs -> [Artifacts -> Runs \cup {Plain, Absent}]]
  /\ shadow \in [Runs -> {"none", "partial", "created", "deleted", "undeletable"}]
  /\ masking \in Runs \cup {Plain}
  /\ overlapped \subseteq Runs

Init ==
  /\ opt \in Options
  /\ pc = [r \in Runs |-> 0]
  /\ outcome = [r \in Runs |-> "ok"]
  /\ got = [r \in Runs |-> {}]
  /\ next = [r \in Runs |-> 1]
  /\ plugin = [r \in Runs |-> [i \in Indices |-> "new"]]
  /\ files = [r \in Runs |-> [a \in Artifacts |-> Absent]]
  /\ shadow = [r \in Runs |-> "none"]
  /\ masking = Plain
  /\ overlapped = {}

-----------------------------------------------------------------------------
At(r, step) == Active(r) /\ Program[pc[r]] = step

Goto(r, i) ==
  /\ pc' = [pc EXCEPT ![r] = i]
  /\ next' = [next EXCEPT ![r] = 1]

Advance(r) == Goto(r, pc[r] + 1) /\ UNCHANGED outcome

(* An exception leads from a stage to the finally block, and out of that   *)
(* to the caller.                                                          *)
Raise(r) ==
  IF pc[r] < FinallyAt
  THEN Goto(r, FinallyAt) /\ outcome' = [outcome EXCEPT ![r] = "failed"]
  ELSE Goto(r, End) /\ outcome' = [outcome EXCEPT ![r] = "aborted"]

Assign(r, local) == got' = [got EXCEPT ![r] = @ \cup {local}]

Begin(r) ==
  /\ pc[r] = 0
  /\ Goto(r, 1)
  /\ LET others == {s \in Runs \ {r} : Active(s)} IN
     overlapped' = IF others = {} THEN overlapped ELSE overlapped \cup others \cup {r}
  /\ UNCHANGED <<opt, outcome, got, plugin, files, shadow, masking>>

(* Any step may fail: Solr, a disk, a malformed section of the changeset.  *)
Fail(r) ==
  /\ r \in Faulty
  /\ Active(r) /\ Program[pc[r]] \notin {"reset", "close"}
  /\ Raise(r)
  /\ UNCHANGED <<opt, got, plugin, files, shadow, masking, overlapped>>

(* The process dies, and with it all its runs and the module global.       *)
Crash ==
  /\ \E r \in Runs : Active(r)
  /\ pc' = [r \in Runs |-> IF Active(r) THEN End ELSE pc[r]]
  /\ outcome' = [r \in Runs |-> IF Active(r) THEN "killed" ELSE outcome[r]]
  /\ masking' = Plain
  /\ UNCHANGED <<opt, got, next, plugin, files, shadow, overlapped>>

-----------------------------------------------------------------------------
(* Artifacts.  _write_json_maybe_redacted masks with whatever the global   *)
(* holds at that moment, except for privacy.json.                          *)
Rules(r) == IF opt[r].mask THEN r ELSE Plain

Content(r, a) ==
  CASE a \in Unmasked     -> Plain
    [] a = "privacy.json" -> IF "privacy" \in got[r] THEN Rules(r) ELSE Plain
    [] OTHER              -> masking

(* Mutant: no_persist_sensitive is left to retention.                      *)
MayWriteAnyhow(r, a) ==
  CASE a = "docs_sample.jsonl" -> ~opt[r].suppress
    [] a = "replay.json"       -> opt[r].vector \/ files[r][a] = Absent
    [] OTHER                   -> TRUE

MayWrite(r, a) ==
  CASE a = "docs_sample.jsonl"       -> opt[r].persist /\ ~opt[r].suppress
    [] a = "queries_extracted.jsonl" -> opt[r].persist
    [] a = "replay.json"             -> opt[r].vector \/ files[r][a] = Absent
    [] OTHER                         -> TRUE

(* Documents and queries from a file or a plugin are not copied.           *)
MaySkip(r, a) == ~MayWrite(r, a) \/ a \in {"docs_sample.jsonl", "queries_extracted.jsonl"}

Put(r, a) == files' = [files EXCEPT ![r][a] = Content(r, a)]

Write(r) ==
  /\ Active(r) /\ Program[pc[r]] \in Artifacts
  /\ LET a == Program[pc[r]] IN
     \/ MayWrite(r, a) /\ Put(r, a)
     \/ MaySkip(r, a) /\ UNCHANGED files
  /\ Advance(r)
  /\ UNCHANGED <<opt, got, plugin, shadow, masking, overlapped>>

(* run learns of its clients when initialize_security returns.             *)
Connect(r) ==
  /\ At(r, "clients")
  /\ Assign(r, "clients")
  /\ Advance(r)
  /\ UNCHANGED <<opt, plugin, files, shadow, masking, overlapped>>

SetMasking(r) ==
  /\ At(r, "masking")
  /\ masking' = Rules(r)
  /\ Assign(r, "privacy")
  /\ Advance(r)
  /\ UNCHANGED <<opt, plugin, files, shadow, overlapped>>

(* Mutant: only a run that succeeded resets the rules.                     *)
ResetMaskingOnSuccess(r) ==
  /\ At(r, "reset")
  /\ masking' = IF outcome[r] = "ok" THEN Plain ELSE masking
  /\ Advance(r)
  /\ UNCHANGED <<opt, got, plugin, files, shadow, overlapped>>

(* Mutant: the rules are set to None instead of {}.                        *)
ResetMaskingToNone(r) ==
  /\ At(r, "reset")
  /\ masking' = Absent
  /\ Advance(r)
  /\ UNCHANGED <<opt, got, plugin, files, shadow, overlapped>>

(* The reset near the end of the finally block.                            *)
ResetMasking(r) ==
  /\ At(r, "reset")
  /\ masking' = Plain
  /\ Advance(r)
  /\ UNCHANGED <<opt, got, plugin, files, shadow, overlapped>>

Close(r) ==
  /\ At(r, "close")
  /\ got' = [got EXCEPT ![r] = @ \ {"clients"}]
  /\ Advance(r)
  /\ UNCHANGED <<opt, plugin, files, shadow, masking, overlapped>>

(* enforce_retention.  A run that did not get as far as privacy_init has   *)
(* the default: everything may be kept.                                    *)
Expired(r) ==
  IF "privacy" \notin got[r] \/ opt[r].persist THEN {}
  ELSE IF opt[r].summary THEN Sensitive \cup SummaryOnlyExtra ELSE Sensitive

Retention(r) ==
  /\ At(r, "retention")
  /\ files' = [files EXCEPT ![r] =
                  [a \in Artifacts |-> IF a \in Expired(r) THEN Absent ELSE @[a]]]
  /\ Advance(r)
  /\ UNCHANGED <<opt, got, plugin, shadow, masking, overlapped>>

(* manifest.settings["privacy"] is a KeyError before privacy_init.         *)
ReportPrivacy(r) ==
  /\ At(r, "privacy_report")
  /\ IF "privacy" \in got[r] THEN Advance(r) ELSE Raise(r)
  /\ UNCHANGED <<opt, got, plugin, files, shadow, masking, overlapped>>

-----------------------------------------------------------------------------
(* The shadow.  What create_shadow and cleanup_shadow do is in             *)
(* ShadowLifecycle; an exception of the latter is caught.                  *)
CreateShadow(r) ==
  /\ At(r, "create_shadow")
  /\ \/ /\ shadow' = [shadow EXCEPT ![r] = "created"]
        /\ Assign(r, "shadow")
        /\ Advance(r)
     \/ /\ r \in Faulty
        /\ shadow' = [shadow EXCEPT ![r] = "partial"]
        /\ Raise(r)
        /\ UNCHANGED got
  /\ UNCHANGED <<opt, plugin, files, masking, overlapped>>

(* Mutant: the shadow of a failed run is kept.                             *)
CleanupShadowOnSuccess(r) ==
  /\ At(r, "cleanup_shadow")
  /\ IF opt[r].cleanup /\ "shadow" \in got[r] /\ outcome[r] = "ok"
     THEN shadow' = [shadow EXCEPT ![r] = "deleted"]
     ELSE UNCHANGED shadow
  /\ Advance(r)
  /\ UNCHANGED <<opt, got, plugin, files, masking, overlapped>>

CleanupShadow(r) ==
  /\ At(r, "cleanup_shadow")
  /\ IF opt[r].cleanup /\ "shadow" \in got[r]
     THEN \E s \in {"deleted", "undeletable"} :
            /\ s = "undeletable" => r \in Faulty
            /\ shadow' = [shadow EXCEPT ![r] = s]
     ELSE UNCHANGED shadow
  /\ Advance(r)
  /\ UNCHANGED <<opt, got, plugin, files, masking, overlapped>>

-----------------------------------------------------------------------------
(* Plugins.  _handle_plugin_exception records an error and, in the strict  *)
(* mode, raises.                                                           *)
PluginRaised(r) ==
  /\ r \in Faulty
  /\ IF opt[r].strict
     THEN Raise(r)
     ELSE next' = [next EXCEPT ![r] = @ + 1] /\ UNCHANGED <<pc, outcome>>

SetPlugin(r, i, s) == plugin' = [plugin EXCEPT ![r][i] = s]

(* A plugin counts as initialized once it has been appended, and then its  *)
(* artifact is written.  The runtime is assigned when all are through.     *)
InitPlugin(r) ==
  /\ At(r, "plugins") /\ next[r] \in Indices
  /\ \/ /\ SetPlugin(r, next[r], "ready")
        /\ next' = [next EXCEPT ![r] = @ + 1]
        /\ UNCHANGED <<pc, outcome>>
     \/ \E s \in {"broken", "ready"} : SetPlugin(r, next[r], s) /\ PluginRaised(r)
  /\ UNCHANGED <<opt, got, files, shadow, masking, overlapped>>

PluginsInitialized(r) ==
  /\ At(r, "plugins") /\ next[r] \notin Indices
  /\ Assign(r, "plugins")
  /\ Advance(r)
  /\ UNCHANGED <<opt, plugin, files, shadow, masking, overlapped>>

(* Mutant: a plugin counts as initialized before it is.                    *)
InitializedOrTried(r) ==
  IF "plugins" \in got[r] THEN {i \in Indices : plugin[r][i] # "new"} ELSE {}

Initialized(r) ==
  IF "plugins" \in got[r] THEN {i \in Indices : plugin[r][i] \notin {"new", "broken"}} ELSE {}

Hooks == [on_run_started |-> {"observability"}, gate |-> {"gate"}, report |-> {"report"},
          execute |-> {"gate", "report", "observability", "other"},
          on_gate_failed |-> {"observability"}, on_run_completed |-> {"observability"},
          cleanup_plugins |-> {"gate", "report", "observability", "other"}]

(* The plugins that this loop has still to call.                           *)
Callees(r) ==
  {i \in Initialized(r) : i >= next[r] /\ Plugins[i] \in Hooks[Program[pc[r]]]}

AfterCall(step, s) ==
  IF step = "cleanup_plugins"
  THEN IF s = "ready" THEN "cleaned" ELSE "misused"
  ELSE CASE s = "ready"                    -> "ready"
         [] s \in {"cleaned", "reopened"} -> "reopened"
         [] OTHER                          -> "misused"

CallPlugin(r) ==
  /\ Active(r) /\ Program[pc[r]] \in DOMAIN Hooks
  /\ \E i \in Callees(r) :
       /\ \A k \in Callees(r) : i <= k
       /\ SetPlugin(r, i, AfterCall(Program[pc[r]], plugin[r][i]))
       /\ \/ next' = [next EXCEPT ![r] = i + 1] /\ UNCHANGED <<pc, outcome>>
          \/ r \in Faulty /\ opt[r].strict /\ Raise(r)
  /\ UNCHANGED <<opt, got, files, shadow, masking, overlapped>>

(* on_gate_failed is called if a gate plugin reported a failure.           *)
PluginsCalled(r) ==
  /\ Active(r) /\ Program[pc[r]] \in DOMAIN Hooks
  /\ Callees(r) = {} \/ (Program[pc[r]] = "on_gate_failed" /\ next[r] = 1)
  /\ Advance(r)
  /\ UNCHANGED <<opt, got, plugin, files, shadow, masking, overlapped>>

-----------------------------------------------------------------------------
Next ==
  \/ \E r \in Runs :
       \/ Begin(r) \/ Fail(r) \/ Write(r)
       \/ Connect(r) \/ Close(r)
       \/ SetMasking(r) \/ ResetMasking(r) \/ Retention(r) \/ ReportPrivacy(r)
       \/ CreateShadow(r) \/ CleanupShadow(r)
       \/ InitPlugin(r) \/ PluginsInitialized(r) \/ CallPlugin(r) \/ PluginsCalled(r)
  \/ Crash

Spec == Init /\ [][Next]_vars

-----------------------------------------------------------------------------
Masked == {"privacy.json", "replay.json", "compare.json", "plugins.json",
           "report.json", "run_manifest.json"}

(* The artifacts of a run that has the process to itself are masked as it  *)
(* was configured, whatever rules earlier runs may have left behind.       *)
MaskedAsConfigured ==
  \A r \in Runs :
    "privacy" \in got[r] /\ r \notin overlapped =>
      \A a \in Masked : files[r][a] \in {Absent, Rules(r)}

(* When all runs are over, and none was cut off in its finally block, no   *)
(* rules are left to mask what somebody else writes: overlapping or not,   *)
(* the last thing done to the global is a reset.                           *)
NoRulesLeft ==
  (\A r \in Runs : ~Active(r) /\ outcome[r] # "aborted") => masking = Plain

(* docs/changeset-spec.md:352: no_persist_sensitive prunes sensitive raw   *)
(* artifacts.  Samples are never written, and what the stages wrote is     *)
(* gone when the finally block is through (compare.json comes back, see    *)
(* SummariesOnly).                                                         *)
RetentionRespected ==
  \A r \in Runs :
    "privacy" \in got[r] /\ ~opt[r].persist =>
      /\ files[r]["docs_sample.jsonl"] = Absent
      /\ files[r]["queries_extracted.jsonl"] = Absent
      /\ Completed(r) => files[r]["replay.json"] = Absent
      /\ Completed(r) /\ opt[r].summary =>
           files[r]["details"] = Absent /\ files[r]["plugins.json"] = Absent

(* A plugin is called only between its initialization and its cleanup,     *)
(* and cleaned up once, by every run whose finally block is not cut off.   *)
(* The one exception is on_run_completed, which the observability plugins  *)
(* are sent when they have been cleaned up already.                        *)
PluginProtocol ==
  \A r \in Runs, i \in Indices :
    /\ plugin[r][i] # "misused"
    /\ plugin[r][i] = "reopened" => Plugins[i] = "observability"
    /\ Completed(r) => plugin[r][i] # "ready"

(* A run that returns, or raises what a stage raised, has deleted its      *)
(* shadow or could not, written its manifest and closed its clients.       *)
CompletedRunLeavesNothing ==
  \A r \in Runs :
    Completed(r) =>
      /\ files[r]["run_manifest.json"] # Absent
      /\ "clients" \notin got[r]
      /\ opt[r].cleanup => shadow[r] # "created"

(* docs/changeset-spec.md:351: a privacy profile masks the artifacts of    *)
(* its run.                                                                *)
ProfileMasks ==
  \A r \in Runs :
    "privacy" \in got[r] /\ opt[r].mask =>
      \A a \in Masked : files[r][a] # Plain

(* docs/security.md:56: the summary-only profile keeps nothing but         *)
(* summary, report and audit artifacts.                                    *)
SummariesOnly ==
  \A r \in Runs :
    Completed(r) /\ opt[r].summary =>
      \A a \in Sensitive \cup SummaryOnlyExtra : files[r][a] = Absent
=============================================================================
