# Verification of schema_lens (SolrGuard)

schema_lens checks a Solr schema or configset change before it is rolled out: it
creates a *shadow* collection next to the live *baseline*, applies the changeset to
the shadow, copies documents, replays queries against both and writes a report, a
gate verdict and a signed manifest. It runs as a command line program, or behind a
REST API that keeps a store of jobs.

This directory holds TLA+ modules translated from the source, TLC configurations
that check them on small instances, and theorems that TLAPS proves for every value
of the constants. Paths below are relative to `src/schema_lens/` unless they start
with `docs/`.

    tlc -workers 2 -config JobManagerInprocess.cfg JobManagerMC.tla
    tlapm JobManagerProofs.tla

## 1. The system

| component | state it keeps | operations | hard because |
|---|---|---|---|
| **Job manager** `api/jobs.py`, `api/lifecycle.py` | in-memory queue, `_running`, `_thread` | `submit`, `start`, `stop`, `_worker`, `run_pending`, `_run_job` | threads, a join with a timeout, left-over sentinels, several pull workers, crashes |
| **Job store** `api/storage.py`, `util/io.py` | one record per job, artifact manifests | save, load, list, in files or SQLite | a file is rewritten in place, without a temporary file; no claim operation |
| **Shadow lifecycle** `shadow/` | collection and configset names, the shadow manifest | `create_shadow`, `cleanup_shadow` | a dozen requests that may each fail, lose their answer or be cut by a crash; fallbacks; names with a one-second stamp |
| **HTTP client and admin API** `http/`, `solr/`, `changesets/apply_schema.py` | attempts of the current request | bounded retries around collection, configset and schema requests | a request that timed out may have been, or may still be, carried out |
| **Run pipeline** `cli.py`, `runtime/` | stage results, manifest, a module global with the masking rules | some twenty ordered stages and a `finally` block | what happens when a stage fails, order of writing, hashing, masking and retention |
| **Plugin runtime** `runtime/plugin_service.py`, `plugins/` | initialised plugins, failures | initialize, execute, hooks, cleanup | strict and lenient mode, cleanup after failures |
| API artifacts and services `api/services/`, `api/routes/` | artifact directory of each job | enqueue a run, list, download | a directory that is only known once the run has succeeded |
| Governance `governance/` | promotion state, exceptions, approvals | evaluate, promote | expiry, role checks |
| **Snapshots** `snapshot/`, **compatibility** `compat/`, `runtime/snapshot_compat_service.py` | five files of the output directory; capabilities of Solr | capture, load, write, probe, record what is missing | files rewritten one after the other over those of an earlier run; a snapshot that is older than the Solr it is used with |
| **Changesets and schema** `changesets/`, `schema/` | none between calls | validate, preflight, make and apply the payloads of changes | several changes to one field, each computed from the same baseline schema |
| **Configset patching** `shadow/configset_patcher.py` | files of a configset | append, merge, replace | changes that patch one file in turn; a patch that fails half-way |
| **Plugin discovery** `plugins/loader.py`, `plugins/registry.py` | the registry | register, load, select | modules that raise after having registered something |
| **Queries** `queries/` | reservoir of the sampler | load, sanitize, sample | limits, rows that sanitizing makes equal |
| **Replay, comparison, gate** `replay/`, `compare/`, `segments/` | answers of both sides, diff rows | replay, compare, rewrite diff, explain, gate | any call may fail; ranks, ties, thresholds; limits that must not lose a risky query |
| **Vector search** `vector/` | results per scenario | validate, replay scenarios, blend, summarize, re-weigh | hybrids of two calls; several ways of normalizing and blending |
| Monitor `monitor/` | state kept between iterations | poll, alert | hysteresis of alerts |
| Rollout `rollout/` | none (writes plans) | plan canary, alias swap, rollback | - |
| Everything else (performance, root cause, security, masking rules, observability, reports) | none | functions of their input | - |

**How they interact.** A request handler of the API builds a job and calls
`JobManager.submit`. Depending on `worker_mode` the handler runs it itself, puts its
id in an in-memory queue that one daemon thread reads, or leaves it in the store to
pull workers in other processes. Running a job calls an executor (a service that
ends in `cli.run`). `cli.run` calls its stages in order; the shadow stage calls
`create_shadow`, and the `finally` block calls `cleanup_shadow`. What one stage finds
decides what later ones do: the snapshot is the only schema that the preflight and the
payloads of the changes are computed from, while the shadow is made of what Solr has when
it is created; the capabilities switch vector scenarios and structured explains off; the
diff rows decide which queries are looked at again; the gate reads the finished rows. All
of these send requests to Solr through one HTTP client. Jobs, handlers and workers share nothing
but the store and the queue; runs share nothing but Solr, and, inside one process,
the masking configuration, which is a module global.

**What makes each component correct.**

* Job manager: a job that was accepted is executed, once, and its stored status
  follows queued → running → succeeded or failed; a job gets lost only through a
  crash or a storage error; a stopped worker stops.
* Job store: a record is unreadable at most while it is being written.
* Shadow lifecycle: the live collection is never changed, unless the run says that
  it shares the live configset; the shadow manifest is true; a cleanup that reports
  success has left nothing; a run has its collection to itself.
* HTTP client: a request is sent at most a bounded number of times, and no repeated
  or late request does harm.
* Run pipeline: what may not be kept is deleted, artifacts are masked as
  configured, masking rules do not outlive the run that set them; a run that ends in an
  orderly way has written its manifest, closed its clients and deleted its shadow.
* Plugin runtime: a plugin is called between its initialization and its cleanup, and
  is cleaned up once; one that was asked for is usable or is reported.
* Snapshots and compatibility: whatever can be loaded is one capture; what a run does
  without, for want of a capability, is on record.
* Changesets, schema, patching: what the validation accepts can be applied; the preflight
  names what comes to be analyzed otherwise; a patch arrives whole or not at all.
* Queries: as many as the limit and the source allow, none more often than it was logged.
* Replay, comparison, gate: a diff row tells the whole difference between two answers; no
  risky query or document is passed over for a less risky one; a pass is earned by what Solr
  answered and never by a call that failed.
* Vector search: no scenario runs on vectors that the validation would have refused, half
  a hybrid is never taken for the whole.

The hazards, each at its line and with the properties that cover it, are listed in
`PROJECT.json`.

## 2. Modules

| module | models | kind |
|---|---|---|
| `JobLifecycle` | what the API promises of a job's status | abstract specification |
| `JobStore` | the file and SQLite stores, used by the next | component |
| `JobManager` | `api/jobs.py` | component, EXTENDS `JobStore`, implements `JobLifecycle` |
| `JobManagerMC` | instances for TLC | |
| `JobManagerProofs` | theorems of `JobManager`: ownership, refinement, records, threads, starts | proofs |
| `SolrAdmin` | Solr's configsets and collections, as the callers rely on them | external |
| `ShadowLifecycle` | `shadow/manager.py`, `http/client.py` and the cleanup stage | component, EXTENDS `SolrAdmin` |
| `ShadowLifecycleMC` | instances for TLC | |
| `ShadowLifecycleProofs` | theorems of `ShadowLifecycle`: baseline, manifest, cleanup, ownership | proofs |
| `RunPipeline` | `run` of `cli.py`, `runtime/`, `privacy/retention.py` | component |
| `RunPipelineMC` | instances for TLC | |
| `RunPipelineProofs` | theorems of `RunPipeline`: masking, retention, plugins, outcome | proofs |
| `EvaluationStages` | the stage, settings, queries and capabilities that the next modules share | shared variables |
| `Compatibility` | `compat/` | operators |
| `BaselineSnapshot` | `snapshot/` and the snapshot stage | component, EXTENDS `Compatibility` |
| `SchemaChanges` | `changesets/apply_schema.py`, `schema/` | operators |
| `ConfigsetPatch` | `shadow/configset_patcher.py` | operators |
| `ChangesetValidation` | `changesets/validator.py` | operators, EXTENDS the two before |
| `PluginDiscovery` | `plugins/loader.py`, `plugins/registry.py` | operators |
| `Intake` | the stages up to the loading of queries, `queries/` | component, EXTENDS the five before |
| `Sublists` | a list comprehension with an `if` (`Within`, `Omitting`), `sorted` (`SortedList`), and a choice out of each of several sets (`Selections`) | operators |
| `SublistProofs` | lemmas about lists and folds, used by the proofs of `Evaluation` | proofs |
| `Ranking` | `compare/metrics.py`, `diff.py`, `facets.py`, `segments/`, metrics of the gate | operators, EXTENDS `Sublists` |
| `Comparison` | `replay/`, `compare/` | component, EXTENDS `Ranking` |
| `Blend` | `vector/blend.py`, `vector/query_builder.py` | operators, EXTENDS `Ranking` |
| `VectorScenarios` | `vector/` | component, EXTENDS `Blend` |
| `Evaluation` | `Intake`, `Comparison` and `VectorScenarios` as one run, and its properties | composition |
| `EvaluationMC` | families of settings for TLC | |
| `EvaluationProofs` | facts about all stages; the snapshot stage, replay, comparison and gate | proofs, EXTENDS `Evaluation`, `SublistProofs` |
| `IntakeProofs` | plugins, accepted changesets, preflight, patches | proofs, EXTENDS the one before |
| `DecisionProofs` | capabilities, vector scenarios, hybrids, samples | proofs, EXTENDS the one before |
| `ComparisonProofs` | diff rows, rewrites, flags, explains; the type invariant of the whole run | proofs, EXTENDS the one before |

Definitions whose comment starts with "Mutant:" are plausible bugs. Nothing in the
models uses them; each replaces the definition after it to show that a property
notices the difference.

### JobStore and JobManager

A job is a member of `Jobs`; of its record only `status` is kept, with what a reader
finds in its file: a `whole` document, a `torn` one (`open(path, "w")` has emptied
it), or a `mixed` one (two processes wrote it at the same time). The file store takes
two steps to save (`BeginWrite`, `Commit`), SQLite takes one, under its lock.

| code | action |
|---|---|
| `submit` | `Submit`, `SubmitSave`, `SubmitDispatch`, `SubmitPut` |
| `start`, `stop` | `Start`; `Stop`, then `StopJoined` when `join(timeout=1.5)` returns |
| `_worker` | `WorkerLoop` (test of `_running`), `WorkerGet` |
| `run_pending` | `PullList` (one listing), `PullNext` |
| `_run_job` | `RunRead`, `RunMark`, `RunExecutor`, `RunSave`, `ReadRaises` |
| exceptions of the store | `StorageError`: nobody catches them, so the process that met one gives up its job |
| process death | `Crash`, `Restart`, `PullerCrash` |

A process (`Clients`, `Threads`, `Pullers`) has a program counter `pc`, and in `job`
the job it works on. The module keeps what is easy to miss in the code: `start()`
tests `_thread` and not the thread that an earlier `stop()` failed to join, so two
worker threads can be alive; a sentinel that nobody read stays in the queue for a
later thread; `Restart` does not read the queued records back; `run_pending` works
through a listing taken once.

Abstracted: what an executor does (one step that succeeds or fails; it always
returns), timestamps, the request snapshot, the order of a listing (newest first by
second: any choice of `PullLimit` queued jobs), the job types (a job is in
`Registered` or not).

`JobLifecycle` is the abstract specification: a job is absent, queued, running and then
succeeded or failed, and no status is ever left backwards. `JobManager` instantiates it
under the refinement mapping `status <- InProcessStatus`, which is the stored status in the
in-process mode; `Lifecycle` is its `Spec` under that mapping. The other modes promise
less (disagreement 1): they map to a manager that is never given a job, and
`OncePerWorker` says what holds of them.

### SolrAdmin and ShadowLifecycle

Solr is not part of this repository. `SolrAdmin` is what the callers rely on: an
upload overwrites a configset; creating something that exists, or from something that does not, is
refused; a configset in use cannot be deleted; a schema request edits the configset
to which the collection is bound. A configset's content is the set of *edits* made
to it: `<<r, 0>>` is the file patch of run `r`, `<<r, i>>` its `i`-th schema request.

| code | action |
|---|---|
| `SolrHttpClient._request` | `Succeeds`, `SolrError`, `Escapes`, `Retry` of whatever request `Ask(r)` the run is at |
| `create_shadow` | `Begin`, `ConfigName`, `Download`, `Upload`, `Promote`, `DropUpload`, `Clone`, `CreateCollection`, `SchemaOp`, `CreateShadowReturns` |
| its `except` around the patch workflow | `PatchingRaised` |
| cleanup stage of `run` | `Finish` |
| `cleanup_shadow` | `DropCollection`, `DropConfigset` |
| a killed process | `Kill`, with its request sent or not |
| Solr gets to a request that timed out | `Overdue` |

A request that gets no answer has not reached Solr, has been carried out, or will be
carried out later (`late`). A run that met any fault is in `faulty`, one that left a
late request is in `overdue`; both are history variables of the properties. The
number of attempts is the constant `Attempts`.

Abstracted: bodies of schema requests and configset files, delays between attempts,
the response bodies; `baseline_configset_dir` given on disk is treated like a
download. Of the stages between `create_shadow` and cleanup only that they may take
time and that cleanup happens or a strict plugin's cleanup raises before it.

### RunPipeline

The stages of `run` are a list of steps (`Program`: `Setup`, `Prepare`, `Compare`,
`Extend`, `Finally`) in the order of the source, and a run is at one of them (`pc`).
The name of an artifact is the step that writes it. `files[r][a]` says with whose
masking rules artifact `a` of run `r` was written, `Plain` if with none. `masking` is
the module global `_PRIVACY_RUNTIME_CFG`. `got[r]` holds the local variables
that have been assigned: what the `finally` block does depends on them.

| code | action |
|---|---|
| call of `run` | `Begin` |
| a write through `_write_json_maybe_redacted`, `write_json`, `write_jsonl` | `Write` |
| an exception in a stage, or in the `finally` block | `Fail` (with `Raise`) |
| `security_init`, `privacy_init` | `Connect`, `SetMasking` |
| `initialize_plugins` | `InitPlugin`, `PluginsInitialized` |
| gate, report and execute loops, hooks, `cleanup_plugins` | `CallPlugin`, `PluginsCalled` |
| `create_shadow`, the guarded `cleanup_shadow` | `CreateShadow`, `CleanupShadow` (what they do is in `ShadowLifecycle`) |
| `build_and_enforce_privacy_report`, `manifest.settings["privacy"]` | `Retention`, `ReportPrivacy` |
| end of the `finally` block | `ResetMasking`, `Close` |
| process death | `Crash`: all runs end, the global is new |

An exception in a stage leads to the `finally` block (`outcome` becomes `failed`); one in
that block, or the `KeyError` of `ReportPrivacy`, leaves it (`aborted`). The runs of one
process overlap when the API works inline, in its thread pool, or when two worker threads
serve one queue (see `JobManager`). `overlapped` is a history variable of the properties.

Abstracted: contents of artifacts; artifacts that are neither masked nor deleted; the
governance and audit records; consecutive writes of one artifact; stages that write
nothing (a failure in them is one of the step before or after); the output directory is fresh.

### Evaluation and its parts

One run from the changeset to the gate. What a run is given is one record, `settings`,
chosen in `Init`: the changeset, the configset's and the source files, the plugins on offer,
what Solr has (`solr`, `baseline`) and the answers it may give. `stage` is the stage of
`cli.py`, `Enter(next)` its change; a stage that raises enters `failed`. The
variables of each component are written by its own actions only, so that `Next` is one
component's step while the others stand still. `RunPipeline` models what a failing stage
leaves behind and for this has no data; `Evaluation` models the data and ends at the failure.

| code | action |
|---|---|
| `validate_changeset` with `check_paths` | `ValidateChangeset` (with `ValidChangeset`) |
| `load_plugins`, `initialize_plugins` | `InitializePlugins` (with `LoadedPlugins`) |
| `capture_snapshot`, `load_snapshot` | `CaptureSnapshot`, `LoadSnapshot` |
| each `write_json` of a snapshot file | `WriteFile`, twice: the file is emptied, then written |
| the rest of `run_snapshot_and_compat` | `DetectCompatibility`, `EndSnapshot` |
| preflight stage of `run` | `RunPreflight` |
| `apply_configset_updates` in `create_shadow` | `PatchTarget` for each target file, `UploadConfigset` |
| creation of the collection | `CreateCollection` |
| `apply_schema_operations` | `PrepareChange` for each change, `CallSchemaApi` for each request, `FinishShadow` |
| `load_or_extract_queries`, sampler | `LoadFromFile`, `LoadFromPlugin`, `ExtractFromLog`, `TakeRow`, `EndSampling` |
| `validate_vector_setup` | `VectorValidate` |
| `run_replay` | `Replay` for each side of each query |
| `compare_replay` | `Compare` |
| `run_vector_scenarios` | `SkipTarget`, `RunSingle`, `RunLexicalPart`, `RunVectorPart` |
| `compare_vector_hybrid`, `run_hybrid_sensitivity` | `CompareScenarios` |
| `run_rewrite_diff` | `SelectRewrites`, `FetchRewrite` for each request, `EndRewrites` |
| `fetch_explains` | `SelectExplains`, `FetchExplain` |
| `evaluate_gate` | `EvaluateGate` |

Every call to Solr succeeds or fails on its own. A response of the replay may also break off
after some documents were taken (`malformed`). The order of documents that moved equally far
is a set's iteration order in the code and any such order in `Compare`; of facet counts that
changed equally much any `TopN` are kept; the random place of a row in the reservoir is any place.

A key of a changeset is there, is not there (`NoKey`), or is `null` or empty (`Null`, `Blank`).
The validator takes `null` for a missing key; the patcher reads keys with
`entry.get(key, default)`, so that one that is `null` hides the default. A target path that
leads out of the configset is `Outside`.

Two schemas are kept apart as in the code: `BaselineSchema` is the one of the snapshot,
`settings.baseline` is what Solr has now, of which the shadow is made.

Data are abstracted to what decisions depend on. Documents and lines of files are
numbers; a ratio is a pair of integers and thresholds are compared by cross-multiplication,
so that no threshold is rounded, and `NoTau` is the pair `<<0, 0>>`; scores are integers, weights
tenths, and shares of scores are taken over common denominators. The code blends in floats, and two
scores that are equal here may differ by a last digit there: `BlendRankings` is therefore the set of
all rankings that exact scores allow, with ties in the order of the ids only among documents that have
the very same values. The replay and the analysis each choose from it on their own, since the
analysis computes the lexical weight as `1.0 - weight_vector` (`vector/sensitivity.py:77`).
Further, a Solr version is its major number; the hash
of a snapshot is the tuple of what was hashed, hence without collisions; a parsed query is
its set of clauses, and a response may show it as `parsedquery`, as `parsedquery_toString`, as both or
not at all: any of them keeps the request from being repeated, but only the second is compared
(`compare/rewrite_diff.py:164`). Left out are `zscore` normalization (a square root), score deltas, Jaccard
and numFound, performance metrics of the gate, warnings and support tiers, the parameters
that are sent, and the sections of a changeset that no module reads.

## 3. What the runs check

| run | instance | checks |
|---|---|---|
| `job_inprocess` | 2 jobs (one of an unregistered type), 2 clients, 2 threads, 2 stops, 1 crash or storage error, both stores, fair; 235,001 states | `TypeOK`, `AtMostOnce`, `Ownership`, `NoJobForgotten`, `UnreadableOnlyWhileWritten`, `ThreadsBounded`, refinement `Lifecycle`, liveness `EveryQueuedJobFinishes`, `StoppedWorkerExits` |
| `job_pull` | 2 jobs, 1 client, 2 pull workers, limit 2, inline and external mode, 1 fault, fair; 204,644 states | `OncePerWorker`, `PullDrainsQueue` |
| `job_pull_claim` | 2 pull workers, SQLite, no fault | finds `PullRunsQueuedJobs` violated |
| `shadow_pair` | 2 runs, named alike or not, 2 attempts, the requests of one meet any faults; 294,303 states | `ManifestTruthful`, `CleanupComplete`, `Owned` |
| `shadow_alone` | 1 run, every setting, 3 attempts, 2 schema requests, 1 late request; 75,020 states | `TypeOK`, `BaselineKept`, `EveryRunEnds` |
| `shadow_fallback` | 1 run that patches files and may share | finds `FallbackOnlyWithoutPatching` violated |
| `shadow_collision` | 2 runs of one name, no fault | finds `PatchedForItself` violated |
| `pipeline` | 2 runs in any overlap, one with strict or lenient plugins and summary-only or not that may fail at any step, one without masking; 2 plugins, crashes; 1,569,027 states | `TypeOK`, `MaskedAsConfigured`, `NoRulesLeft`, `RetentionRespected`, `PluginProtocol`, `CompletedRunLeavesNothing` |
| `pipeline_masking` | 2 runs with masking, no failure | finds `ProfileMasks` violated |
| `pipeline_summary` | 1 run with summary-only, no failure | finds `SummariesOnly` violated |
| `evaluation` | the 13 families below; 790,906 states | `TypeOK` and the 15 properties below |
| `evaluation_updates` | every two schema changes | finds `AllChangesApplied` violated |

The properties of `evaluation`, with the family of settings that is made for each:

| property | says | family |
|---|---|---|
| `SnapshotsReload` | whoever loads the output directory, also while it is written or after a crash, is refused or gets one capture, never files of two | snapshots given or left behind: whole, with any file torn, mixed of two, without hash; drifted from the live schema |
| `DegradationsRecorded` | vectors are left out and explains raw just where the compatibility record says so, a configset uploaded although that is disabled is reported, and the manifest of the snapshot has the record but for that report | 6 version histories, each probe failing alone or all of them |
| `ValidatedChangesApply` | `create_shadow` finds no fault with an accepted changeset, unless it names what the baseline lacks, or a target file has a key that only the validator takes | malformed changes, targets with every mode and source, absent, null and empty keys, paths that lead outside |
| `PreflightForetells` | the preflight names each field that the shadow analyzes otherwise, and each copyField rule between such fields | every two changes of 14, every three that bear on one field; 4 drifts |
| `PatchesSettle` | a patched file has the lines of its sources since the last replace and nothing else; the shadow has all of the patch or none | up to three patches of one file |
| `ActivePluginsUsable` | active plugins are usable and compatible, a missing one is an issue, a sound module loses none of its plugins to a broken one elsewhere | 2 paths with up to 2 plugins out of 4, names offered twice, one that no other offers |
| `SamplesAreFair` | a sample is as large as it can be and has no query more often than the log; `top` leaves none out for a rarer one | every log of 4 rows, limits around its length |
| `RowsRebuildAnswers` | from the diff row one gets back the shadow's ranking and facet values; a change of a count that is not listed is no greater than the `TopN` that are | every two rankings of up to 3 of 4 documents, failing or broken off; 3 facet answers, `TopN = 1` |
| `GatePassIsEarned` | a pass under zero tolerance means no failed call, and golden queries found their documents (of those that may not all be missing) | 4 sets of rules, 3 golden sets, 3 queries, two with equal parameters |
| `HighRiskIsRewritten`, `RewriteFlagsTruthful` | risky queries are looked at exactly once, flags say what the rewrites were | 2 queries, limit 1, parsed queries shown at the first, the second or no request, or not as text |
| `ExplainsFollowPriority` | no riskier query or farther document is passed over | 2 queries, limits 1 to 3 |
| `ValidatedVectorsOnly` | no skip under `fail`, no vector of a length known to be wrong | 2 queries, all ways of giving a dimension, 2 policies, 2 versions |
| `BlendsAreWhole`, `SensitivityAgreesWithReplay` | a hybrid has both its halves and never puts a document behind one that it is ahead of in both; the analysis shows it again at its own weights, up to exact ties | all modes; 3 methods, ties, missing documents, an empty half |

**Results that hold.** In the in-process mode no interleaving of stop, start, a join
that times out, left-over sentinels and a failure makes a job run twice, although two
worker threads can serve one queue: the queue hands each id to one of them. There
is at most one thread more than there were timed out joins. A pull worker may
repeat what another one does, but never more than once each. The shadow lifecycle
leaves the live collection as it was under any fault; with the fallback, schema
requests reach the live configset only from runs under whose name some manifest says
`configset_isolated: false` (of two namesakes, one may write to the collection of the
other). A repeated `CREATE` whose first answer was lost fails the
run: the caller takes its own success for a foreign collection, so its collection is
left behind, but no run ever takes over another's. A run that has its process to itself
masks as it was configured, even after a run that broke off in its `finally` block and
left its rules behind; and when all runs are over, overlapping or not, no rules are left
unless one of them broke off. Samples that may not be kept are never written, and what
retention deletes stays deleted, `compare.json` excepted. Every run that is not cut off
in its `finally` block has cleaned up each plugin once. In an evaluation every stage keeps
what the earlier ones promise it: the validation covers what `create_shadow` checks, with
four exceptions (`PassedOver`: a `null` mode, a `null` source next to one of the change, an empty
source, a path that leads outside), after which the patch raises or falls back; the preflight with respect to what the payloads change, and the
order of writing a snapshot (hash and manifest last when capturing) keeps a torn or mixed directory
from being loaded. A query one of whose sides failed is never a clean one for the gate, and
half a hybrid is always a failure of its scenario.

**Disagreements with the documentation.**

1. `job_pull_claim`: `run_pending` is documented as running queued jobs
   (`api/jobs.py:178`). Two workers that list the same job both run it; the
   second overwrites a terminal status with `running`.
2. `shadow_fallback`: `docs/changeset-spec.md:360` allows the shared configset only
   without file patching. `create_shadow` answers any exception of the patch workflow
   by a clone and a refused clone by sharing (`shadow/manager.py:162-190`), so a
   changeset that patches files can send its schema changes to the live configset.
3. `shadow_collision`: two runs of one collection within a second render one name
   (`shadow/naming.py:9`); the second upload overwrites the first, so a run may get a
   shadow with the files of the other while its manifest says that its own patch is
   applied (`docs/changeset-spec.md:315`).
4. `pipeline_masking`: masking is promised per run (`docs/changeset-spec.md:351`), but
   the rules are one global of the process (`cli.py:1941`, `cli.py:2727`). Of two runs
   that overlap, the one that ends first empties it, and the other goes on unmasked.
5. `pipeline_summary`: `docs/security.md:56` keeps only summaries. `compare.json` is
   deleted by retention and then written again (`cli.py:2713`).
6. `evaluation_updates`: a run "applies your planned" change
   (`docs/usage-guide.md:35`). Each payload is a whole field or type computed from the
   baseline (`changesets/apply_schema.py:170`): of two updates of one field, the second writes
   the baseline's other attributes back, and both are reported as applied.

**Bounds.** Two jobs and two of each kind of process are enough for every
interference between them: two owners of one job, two jobs in one queue, a
sentinel between two jobs, two writers of one record. `MaxStops = 2` gives a stop
whose join times out, a start and a further stop; `MaxFaults = 1` a failure at any
point and a healthy system after it. Two shadows are enough since a run meets others
only at its name and at the live configset. `Attempts` is five in the code: what
differs is only whether an attempt is the last, so that 2 has a last and one that is
not, and 3 two of the latter. `MaxLate` bounds requests in flight; `shadow_pair` also
passes with `MaxLate = 1` (2.4 million states), which is too slow for every day.
Faults of the runs in `FaultyRuns` are not bounded.
`RunPipeline` has no counters. Two runs are enough for a run and another one that sets or resets the
global under it. Two plugins of different type give a loop in which the first
fails before the second was called. That only one run fails loses the case
of two that fail while they overlap.
In `evaluation` a family varies one part of the settings and holds the others still, so that the
families' states add up and do not multiply. What one part passes on to the next is small
(the queries, the capabilities, the schema and the rows), and each family starts from the
changeset, so that a part sees what the earlier stages can really hand it. Three documents
out of four give each case of a ranking: kept, moved, dropped, new, and ties in distance.
`TopN` is 20 in the code (`compare/facets.py:38`) and 1 in the runs, where two changed counts exceed
it; the theorem holds for any. Three changes are enough for one that undoes another in between; three patches of a file for
a replace between two merges. Answers are those of the settings: a call that is asked
again may be answered otherwise.

**Deadlock** is checked in `evaluation`, where a run that is over stutters (`Over`): no stage
gets stuck. In the other modules it is not, as each system may come to rest, jobs done or runs
ended.

**Fairness.** Weak fairness of each handler, thread and pull worker: the scheduler
runs started threads, executors return, and `run_pending` is called again as long as
there are queued jobs (it is meant to be polled). Nothing is assumed of crashes,
starts, stops and restarts, and `StopJoined` is fair because the join has a timeout. In
`ShadowLifecycle`, weak fairness of each run's next step: every request has a
timeout, and no run waits for another. Retries may fail for ever as far as fairness goes; what
ends a run is that they are counted. A run that was killed has ended.

**Premises in the properties.** `ManifestTruthful` and `CleanupComplete` speak of runs
whose name is their own and that left no late request behind; an upload carried out
late would wipe the schema edits. So they say nothing of what requests that come late leave behind
under the run's own name, and no property bounds that; of `shadow_alone`'s late requests it is
`BaselineKept` that holds. `NoJobForgotten` speaks of histories without a
fault, since with one jobs do get lost: a queued record is not read back after a
restart, and a storage exception ends the worker thread. `PullDrainsQueue` is for
SQLite: with files, a crash inside a write leaves a torn record, after which every
listing of the store raises. `Owned` leaves out namesakes that met a fault: a namesake
whose answers get lost may delete late what it believes to be its own.
`MaskedAsConfigured` speaks of runs that were alone in the process from their begin to
their end; without that it is `ProfileMasks`. `PluginProtocol` and
`CompletedRunLeavesNothing` speak of runs that came through their `finally` block: any
exception in it, a strict plugin's cleanup first of all, skips what comes after it. And
`PluginProtocol` lets `on_run_completed` reach observability plugins that were
cleaned up, which is what the code does (`cli.py:2674`).
`PreflightForetells` speaks of fields only where the snapshot is what Solr still has, since
the preflight reads the snapshot; where it has drifted, what holds is that no field is changed
that no change concerns. `SnapshotsReload` leaves out one case: a manifest without a hash, as
older versions wrote it, cannot tell the files of two captures apart, so with one the output
directory has to be empty before. `RewriteFlagsTruthful` speaks of queries both of whose sides
answered and can show the parsed query as text: without it, the empty text is compared.
`SensitivityAgreesWithReplay` needs the scenario's weights to add up to one and to be among
those of the analysis, and leaves the order of exact ties open, which the code may decide
differently in the two: with weights 0.2 and 0.8, scores 4 and 0 tie with 0 and 1 in the
replay, and in the analysis they do not.
`DegradationsRecorded` lets a configset be uploaded that the record disables, as the code does, and
asks for the report of it; that this report is missing from the snapshot is what
section 5 says last. `BlendsAreWhole` orders documents only where no weight is negative and not
both are zero, which the validation does not ask for. `ActivePluginsUsable` speaks of changesets
that were accepted, and says of a module that it loses nothing only if all of it loads and no
module before it has taken one of its names: otherwise the module itself raises, and what it had not yet
registered is missing.

## 4. What is proved

Thirty-five theorems, each for every value of the constants: any number of jobs, processes, runs, names,
settings and changes and any bounds. Each states a property that a run of section 3 checks on a small
instance.

**Assumptions.** `JobStoreAssumption`, `JobManagerAssumption`, `SolrAdminAssumption`,
`ShadowAssumption`, `RunPipelineAssumption`, `TopNAssumption` and `EvaluationAssumption`; TLC evaluates each
on its runs. They say that kinds of processes are apart, that special values are no
members of the sets they are told from, and what the bounds are; pull workers are finitely many (they
are counted). Of an evaluation every family of settings is `WellFormed`. Lists are lists, numbers are numbers, and a scenario
says all there is to say of its blend. Solr keeps its promises: the fields of a schema have different
names, no document is twice in one answer (the unique key), scored answers come best first and no score
is negative. A file is a list of lines, names of plugins can be sorted, and queries of a log
that sanitizing leaves different are different. Beyond that nothing is assumed
of answers of Solr, changes, versions or plugins.

**`JobManagerProofs`**

* `TypeCorrect`: `Spec => []TypeOK`. The type invariant includes that a process has a
  job exactly when it is at a step that works on one; it is inductive.
* `OneOwnerEach`: `Spec => []Ownership`. Ownership is the inductive invariant. A job
  is in at most one queue slot or with one process, and that process's program
  counter agrees with the stored status (`Stage`). Without the second half the
  first is not inductive: one has to know that an id in the queue is `queued` and
  never started. Lemma `UnwindOwnership` covers the four ways of giving a job up.
* `RunsAtMostOnce`: `Spec => []AtMostOnce`, a consequence.
* `ImplementsLifecycle`: `Spec => Lifecycle`, the refinement of `JobLifecycle`. `TypeOK` and
  `Ownership` give that every step moves the status of at most one job and along its
  lifecycle. The mode never changes (`ModeFixed`), so that in the modes that promise less the
  mapped status stands still.
* `NoJobIsForgotten` and `UnreadableIsWritten`: `Spec => []NoJobForgotten` and
  `Spec => []UnreadableOnlyWhileWritten`, by `RecordInv`. It adds who may have a file open (`Writing`), that a job whose
  first save is not done is known to nobody but the client that saves it (`AbsentUntouched`, `FirstSave`),
  and that the record of a job no worker has marked is unreadable only while it is open: a
  worker that reads must find a whole record, or it would drop the job.
* `ThreadsAreBounded`: `Spec => []ThreadsBounded`. `ThreadInv` counts the busy threads other than the one
  the manager knows; only a join that times out adds one.
* `StartsAreBounded`: `Spec => []OncePerWorker`. `OncePerWorker` alone says nothing of who may start a job
  next, so `StartInv` is a budget: the starts so far, the pull workers that
  can still start it and the inline run that is still owed never add up to more than the pull workers and one.

**`ShadowLifecycleProofs`**

* `ShadowTypeCorrect`: `Spec => []TypeOK`, with the bound on attempts.
* `BaselineIsKept`: `Spec => []BaselineKept`, whatever faults, kills, late requests and
  name collisions there are. The inductive invariant `IInv` adds: a collection other than the live
  one is bound to the live configset only if a run of its name shares it; a run
  that is `isolated` has another configset than the live one; and every request still
  on its way is harmless, that is one that could do nothing to the live collection
  if it were carried out now. That last part is what makes late requests of ended
  runs provable: harmlessness of a request does not change while others act.
* `ManifestIsTruthful` and `CleanupIsComplete`: `Spec => []ManifestTruthful` and `Spec => []CleanupComplete`. The
  properties speak of two moments; `StageInv` says at every step of a run that has its name to itself which of its
  configsets exist, what is in each, to what its collection is bound, and what the run has noted of
  it (`Stage`), and that requests still on their way are of a run of that name (`Apart`). A run that met
  no fault has exactly the configsets that its step needs (`Tidy`), which a cleanup needs to leave nothing.
* `CollectionsAreOwned`: `Spec => []Owned`. `OwnInv`: no second run of the name has a collection, and a
  late `DELETE` belongs to a run that met a fault and has come to its cleanup.

**`RunPipelineProofs`**

* `PipelineTypeCorrect`: `Spec => []TypeOK`.
* `RulesAreReset`: `Spec => []NoRulesLeft`. The inductive invariant `RulesOwned`: whoever's
  rules are active is a run that has not come past its reset, or one that broke off
  in its `finally` block.
* `UndisturbedRunsMask`: `Spec => []MaskedAsConfigured`. The inductive invariant `MaskInv`
  adds that two runs active together are both recorded as overlapping, that between
  `privacy_init` and its reset a run that overlaps with none finds its own rules in the
  global, and that no run has written anything before `privacy_init`.
* Both rest on one lemma, `StepKinds`: nearly every action is *quiet*, that is, it moves
  one run along its steps and touches neither rules nor artifacts. Of the order of the steps only
  `ProgramBounds` and `ProgramOrder` are used: where `masking` and `reset` are, and that nothing is written
  before the one or after the other.
* `RetentionIsRespected`, `PluginsAreKept`, `CompletedRunsLeaveNothing`: `Spec => []RetentionRespected`, `Spec =>
  []PluginProtocol`, `Spec => []CompletedRunLeavesNothing`, all by `OutcomeInv`. It follows
  which local variables a run has at each step (`Progress`), since the steps of the `finally` block
  depend on them: that a run past retention has `privacy`, that one that made a shadow has
  `shadow`, and that a plugin's phase fits the loop that the run is in.

**`SublistProofs`** holds the lemmas about lists: `FlattenSeq`, a recursive function inside, is
shown to exist and to be what it should by an induction over a set of pairs (`SetInduction`, from the
well-foundedness of the numbers; the library's induction theorems take an operator and cannot be used).
From it: the items of a list that are of a kind are a list of them (`WithinType`), in the order
of the list (`WithinKeeps`), without repetition if the list has none (`WithinDistinct`), as many as
there are of the kind (`WithinLength`). What sorting a set gives (`SortedList`) is shown by counting how
many of its items come before each: in a strict total order no two have as many, so each place has
one item. A fold is a chain of values, one for each item of its list (`FoldChain`); the chain of the list is
what the proofs about changes, patches, plugins and counts go along. `FlattenSeq` is such a chain too
(`FlattenChain`), so lists may be put together in any order, and leaving items out goes through it
(`WithinConcat`).

**`EvaluationProofs`, `IntakeProofs`, `DecisionProofs`, `ComparisonProofs`**, about `Evaluation`:

* `SnapshotsAreReloaded`: `Spec => []SnapshotsReload`. `SnapshotInv` says how far the copying has come: the
  first *k* files in the order of writing are the new ones, the next may be torn, the others are as they were
  found; then the manifest is written again with the record. With the hash last and then the manifest,
  each of these directories is refused or whole. The settings stay among those given (`Given`).
* `GateIsEarned`: `Spec => []GatePassIsEarned`. `ReplayInv`: `failures` counts an error exactly if
  there is one, past the replay every query has both its answers, and each row is what `DiffRows` makes of
  them but for its flags. That a failed call makes a risky row, hence a segment that is not clean, is a lemma.
* `DegradationsAreRecorded`: `Spec => []DegradationsRecorded`. `CapableInv` ties what was done and given
  up at each stage to the capabilities that were detected before. That the manifest has the record but for the
  late report needs to know when the report comes (`Timely`): before, the two are the same (`Noted`).
* `AcceptedChangesApply`: `Spec => []ValidatedChangesApply`. `AcceptedInv`, with the lemma that the
  targets of each valid change can be patched unless they have one of the keys that only the validator
  takes (`ValidTargetsApply`).
* `ScenariosAreValidated` and `SensitivityIsReplay`: `Spec => []ValidatedVectorsOnly` and
  `Spec => []SensitivityAgreesWithReplay`, by `ScenarioInv`: each result says of its query's vector what is
  so, and has a blend of the very answers it kept. Two rankings of the same scores differ only in the order
  of exact ties (`OrdersAgree`, `BlendsAgree`), and at the scenario's own weights the scores are the same.
* `HybridsAreWhole`: `Spec => []BlendsAreWhole`, by `ScenarioInv` too. For each of the three methods
  a side gives the better of two of its documents the greater value, and the weighted sum of ratios with
  positive denominators keeps it so.
* `PluginsAreUsable`: `Spec => []ActivePluginsUsable`. `PluginInv`: what is active is what the loading of the settings'
  plugins makes. That loading is a fold over paths of folds over plugins; at each step every registered
  plugin has been offered so far, and a sound module adds all of its own.
* `PreflightHasForetold`: `Spec => []PreflightForetells`. `SchemaInv` compares the schema of the shadow with
  the live one after each change: each field of it is the live one, or has been touched by a change so far, and
  each type that became another was replaced by a change that names it (`Became`); the findings of the
  preflight name what those changes touch. Which field is changed cannot be said by what the last change does,
  since a later one may change it back: hence the whole list of the changes that came before.
* `PatchesAreSettled`: `Spec => []PatchesSettle`. `PatchInv`: up to the last target file the workspace is what
  the steps so far have made of the baseline's files (`PatchesTo`, a chain that each step makes longer) and neither
  the upload nor the collection has come; from then on the changeset is valid and the shadow gets all of the
  patch or, with the fallback, nothing; files are worked on only with steps that can be (`CanWork`). The rest is about lines (`Once`: each of them, where it
  first came). To work a list in and then another is to work in both (`OnceOfOnce`), so a merge
  or an append leaves, up to repetition, the lines of all sources since the last replace (`LinesSince`); without an
  append the second round ends where the first did, from the last replace on, or, if there is none,
  since merges only gather what is there already (`MergesGather`, `Resettles`).
* `SamplesAreDrawnFairly`: `Spec => []SamplesAreFair`. `SampleInv`: the reservoir holds rows of what has been gone
  through, each at most once, as many as fit. Counting queries in the sample is not inductive, since a
  row that is replaced has to be known by its place in the log.
* `RowsTellTheDifference`: `Spec => []RowsRebuildAnswers`, by `ReplayInv`: rebuilding undoes the row of any two
  rankings without repetition; `FacetsAreTold` does the facets, where cutting the deltas at `TopN` leaves out
  none that is greater than one kept; flags and explains, which come later, touch nothing that it reads.
* `RiskiestAreRewritten`: `Spec => []HighRiskIsRewritten`. `Selection`: what is selected is selected by an order of the
  rows as they are now, although their flags change after it was made.
* `FlagsTellTheTruth`: `Spec => []RewriteFlagsTruthful`. `FlagsInv`: the answers that have come are those of the
  queries in their order, retried or not (`Fetching`), and a retry is of a request that showed nothing
  (`RetriesBlank`); before the report no row has the flag, after it each flag
  has its entry.
* `HeaviestAreExplained`: `Spec => []ExplainsFollowPriority`. `Explaining`: the pairs are picked by one order of the
  rows, and the bundles are of the first of them. That the picks of a row leave out no heavier document is a
  lemma on lists in a row.
* `EvaluationTypeCorrect`: `Spec => []TypeOK`. The lengths that tie the stages together need all of the above:
  that no more than the selected queries are fetched, for instance, needs that a retry is of the last one.

**Only model-checked**, as the prover does not reach it, is liveness: `EveryQueuedJobFinishes`,
`StoppedWorkerExits`, `PullDrainsQueue`, `EveryRunEnds`. Every invariant and every action property of the
runs of section 3 has a theorem.

## 5. Not modelled

Next, in this order:

1. Of `RunPipeline`: the governance record, hashed and signed before the hash, the
   signature and the privacy report are put into the manifest (`cli.py:2642`).
2. `RunArtifacts` with `JobManager`: which directory a job's listing reads
   (`api/routes/runs.py:31`).
3. `Promotion` (governance states, approvals, expiry of exceptions) and `Monitor` (state between
   iterations, a history that is rewritten in place): small state machines.

Left out for good: request parsing and role checks (no state), regular expressions,
percentiles and other floating point arithmetic, formatting of reports, lookup tables; and
rollout, which writes plans that others execute.

Known and not covered by a property: a `create_shadow` that fails half-way leaves a
collection and configsets behind, as the caller cleans up nothing
(`shadow/manager.py:204`); the model has these states (`failed`) and no property
forbids them, because the code does not claim otherwise.

Hazards that are listed without a property, apart from 1 and 2 above: a query in JSON form is
replayed with the default parameters only (`replay/runner.py:44`; parameters are abstracted
away); two scenarios whose names differ in punctuation only are written to one file
(`runtime/post_compare_service.py:81`; scenarios are numbers); a plugin that is asked for twice is
active twice (`plugins/registry.py:119`; `RunPipeline` has each plugin once).

Met while modelling and in no run: removing a filter from a type whose only analyzer serves both
sides removes it from both (`changesets/apply_schema.py:134`); the warning that
`/admin/mbeans` is used instead of the metrics API is also given when neither is there
(`runtime/snapshot_compat_service.py:121`); the degraded modes of a version are fixed and are
not revised by what the probes find (`compat/matrix.py:49`). And where the configset upload is disabled,
`run` reports a fallback for it only at the beginning of `shadow_create` (`cli.py:2021`) and then tries
the upload all the same: `compat.json` and `snapshot.json` are written by then and never get that report,
although `docs/solr_compatibility.md:9` has all compatibility decisions recorded in both.
`DegradationsRecorded` states just this, the record in the manifest of the snapshot being the run's own less
the late report.
