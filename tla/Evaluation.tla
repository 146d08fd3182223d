------------------------------ MODULE Evaluation ------------------------------
(***************************************************************************)
(* One evaluation: the stages of `run` from the changeset to the explains, *)
(* and the gate on what they have written.  Intake, VectorScenarios and    *)
(* Comparison take turns; the stage says whose it is.                      *)
(***************************************************************************)
EXTENDS Intake, Comparison, VectorScenarios

CONSTANT Families   \* sets of settings: changesets, queries and what Solr has and answers

IsList(seq) == seq \in Seq(ToSet(seq))

(* Fields are named, each by a name of its own.                            *)
IsSchema(schema) ==
  /\ schema = [fields |-> schema.fields, types |-> schema.types, dynamic |-> schema.dynamic, copies |-> schema.copies]
  /\ IsList(schema.fields) /\ \A f \in ToSet(schema.fields) : {"name", "type"} \subseteq DOMAIN f
  /\ \A m, n \in DOMAIN schema.fields : schema.fields[m].name = schema.fields[n].name => m = n
  /\ schema.types = [type \in DOMAIN schema.types |-> schema.types[type]]

(* A directory has an entry for each of the files, a schema that can be    *)
(* read is one, and a manifest that can is an object with these members.   *)
IsDirectory(dir) ==
  /\ dir = [file \in Files |-> dir[file]]
  /\ dir["schema"].state = "written" => IsSchema(Read(dir, "schema"))
  /\ dir["manifest"].state = "written" =>
       LET manifest == Read(dir, "manifest")
       IN  manifest = [origin |-> manifest.origin, hash |-> manifest.hash,
                       compatibility |-> manifest.compatibility]

(* Plugins go by their names, which can be put in order.                   *)
IsOffer(offered) == IsList(offered) /\ \A p \in ToSet(offered) : p.name \in Int

(* The unique key: no document is in an answer twice.  Of scored answers   *)
(* the best come first.                                                    *)
IsAnswer(answer) ==
  /\ answer.rows \in Seq(Nat) /\ IsInjective(ExtractDocs(answer.rows))
  /\ answer.facets \in [DOMAIN answer.facets -> Int]

IsScored(docs) ==
  /\ docs \in Seq([id : Nat, score : Nat])
  /\ \A m, n \in DOMAIN docs : m < n => docs[m].id # docs[n].id /\ docs[m].score >= docs[n].score

IsBlend(blend) ==
  /\ blend = [execution |-> blend.execution, method |-> blend.method, normalize |-> blend.normalize,
              weight_lexical |-> blend.weight_lexical, weight_vector |-> blend.weight_vector,
              missing_lexical |-> blend.missing_lexical, missing_vector |-> blend.missing_vector,
              rrf_k |-> blend.rrf_k]
  /\ {blend.weight_lexical, blend.weight_vector, blend.missing_lexical, blend.missing_vector} \subseteq Int
  /\ blend.rrf_k \in Nat

(* What the stages are given: Solr's schema and the files, the changeset,  *)
(* the plugins, the rows of the source (of a log, those that make the same *)
(* query are the same row), what Solr answers, the policy, the scenarios.  *)
WellFormed(s) ==
  /\ IsDirectory(s.solr.out)
  /\ s.solr.snapshot # <<>> => s.solr.snapshot = <<s.solr.snapshot[1]>> /\ IsDirectory(s.solr.snapshot[1])
  /\ IsSchema(s.baseline)
  /\ s.files \in [DOMAIN s.files -> Seq(Nat)] /\ \A source \in DOMAIN s.sources : s.sources[source] \in Seq(Nat)
  /\ IsList(s.changes) /\ \A change \in ToSet(s.changes) : change.op \in ConfigsetOps => IsList(change.files)
  /\ IsOffer(s.plugins.builtin) /\ IsOffer(s.plugins.entry_points)
  /\ IsList(s.plugins.paths) /\ \A path \in ToSet(s.plugins.paths) : IsOffer(path.plugins)
  /\ IsList(s.plugins.enabled_plugins)
  /\ IsList(s.queries) /\ s.source.rows \in Seq({0} \cup DOMAIN s.queries) /\ s.source.max_queries \in Int
  /\ \A i \in DOMAIN s.queries : s.source.sanitized[i] \in DOMAIN s.queries
  /\ s.source.type = "log" => IsInjective(s.queries)
  /\ s.k \in Nat \ {0} /\ \A answer \in s.answers : IsAnswer(answer)
  /\ s.rewrite.max \in Int /\ s.explain.max \in Nat /\ s.explain.docs \in Int
  /\ s.gate.missing \in Nat /\ \A golden \in s.gate.golden : IsFiniteSet(golden.expected) /\ golden.topk \in Int
  /\ {s.vector.topK, s.vector.pool} \subseteq Int
  /\ \A docs \in s.vector.lexical \cup s.vector.vector : IsScored(docs)
  /\ IsList(s.vector.scenarios) /\ \A scenario \in ToSet(s.vector.scenarios) : IsBlend(scenario.blend)

ASSUME EvaluationAssumption == \A family \in Families : \A s \in family : WellFormed(s)

vars == <<settings, stage, cases, compat, intakeVars, comparisonVars, vectorVars>>

Init ==
  /\ \E family \in Families : settings \in family
  /\ stage = "validate"
  /\ IntakeInit /\ ComparisonInit /\ VectorInit

(* A run that is over stays as it is.                                      *)
Over == stage \in {"done", "failed"} /\ UNCHANGED vars

Next ==
  \/ IntakeNext /\ UNCHANGED <<comparisonVars, vectorVars>>
  \/ ComparisonNext /\ UNCHANGED <<intakeVars, vectorVars>>
  \/ VectorNext /\ UNCHANGED <<intakeVars, comparisonVars>>
  \/ Over

Spec == Init /\ [][Next]_vars

-----------------------------------------------------------------------------
(* Types, and the lengths that tie the stages together.                    *)
TypeOK ==
  /\ stage \in Stages
  /\ patched \in 0..(Len(Steps) + 1) /\ Len(shadow) <= 1 /\ taken \in 0..Len(Source.rows)
  /\ Len(applied) <= worked /\ worked <= Len(settings.changes)
  /\ Len(cases) <= Len(Source.rows)
  /\ Len(replayed) <= 2 * Len(cases) /\ failures \in 0..Len(replayed)
  /\ rows # <<>> => Len(rows) = Len(cases)
  /\ ToSet(selected) \subseteq Queries /\ Len(fetched) <= 2 * Len(selected)
  /\ rewrites # <<>> => Len(rewrites) = Len(selected)
  /\ Len(bundles) <= Len(picked)
  /\ retrying \in BOOLEAN /\ vectorOn \in BOOLEAN
  /\ verdict \in {"none", "pass", "fail"}
  /\ \A s \in Scenarios : Len(targets[s]) <= 2 * Len(cases)
  /\ Len(lexicalPart) <= 1

(* snapshot/: whoever loads the output directory, while it is written,     *)
(* after a crash or once the run is over, is refused or gets one capture,  *)
(* never files of two; past the snapshot stage it is what this run itself  *)
(* has gone by.  A manifest without a hash cannot tell files of two        *)
(* captures apart: it is harmless in an empty directory only.              *)
Contents(dir) == <<Read(dir, "schema"), Read(dir, "system"), Read(dir, "collection")>>

(* What the capture that a directory is from consisted of.                 *)
CaptureOf(dir) ==
  IF dir["manifest"].state # "written" THEN {}
  ELSE IF Read(dir, "manifest").hash = NoHash THEN {Contents(dir)}
       ELSE {Tail(Read(dir, "manifest").hash)}

Hashed(dir) == dir["manifest"].state = "written" => Read(dir, "manifest").hash # NoHash
Found == {settings.solr.out} \cup ToSet(settings.solr.snapshot)

OfOneCapture ==
  \/ \E dir \in Found : Contents(out) \in CaptureOf(dir)
  \/ /\ settings.solr.snapshot = <<>>
     /\ \E collection \in {"state", "warning"} :
          Contents(out) = <<settings.baseline, settings.solr.system, collection>>

SnapshotsReload ==
  /\ ~LoadRaises(out) /\ (settings.solr.out = Empty \/ \A dir \in Found : Hashed(dir)) => OfOneCapture
  /\ compat # NoCompat /\ writes = <<>> =>
       /\ ~LoadRaises(out)
       /\ Read(out, "schema") = baseline[1].schema /\ Read(out, "system") = baseline[1].system
       /\ Read(out, "hash") = ComputedHash(out)

(* cli.py against compat/: what a run does in another way for want of a    *)
(* capability is what its compatibility record says.  Two lists of what is *)
(* degraded agree; vectors are left out and explains are raw just where    *)
(* the record has it, over all the stages in between; a configset that is  *)
(* uploaded although its upload is disabled, which the run tries all the   *)
(* same, is reported.  The manifest of the snapshot has the record but for *)
(* that report, which comes later.                                         *)
LateReport == <<"configset_upload", "unavailable">>

DegradationsRecorded ==
  LET contract == compat.contract
      shared == {"vector_hybrid", "structured_explain", "metrics_capture", "configset_upload"}
  IN  compat # NoCompat =>
        /\ contract.degraded \cap shared = contract.disabled \cap shared
        /\ writes = <<>> =>
             Read(out, "manifest").compatibility = [contract EXCEPT !.fallbacks = @ \ {LateReport}]
        /\ Vector.enabled /\ Vector.scenarios # <<>> /\ ~vectorOn =>
             <<"vector_hybrid", "disable_vector_scenarios">> \in contract.fallbacks
        /\ \A s \in Scenarios : targets[s] # <<>> => "vector_hybrid" \notin contract.disabled
        /\ bundles # <<>> /\ settings.explain.structured =>
             \A n \in DOMAIN bundles :
               bundles[n].structured <=> "structured_explain" \notin contract.disabled
        /\ stage = "done" /\ ExplainFallback =>
             <<"structured_explain", "raw_explain_output">> \in contract.fallbacks
        /\ configset # settings.files /\ "configset_upload" \in contract.disabled =>
             LateReport \in contract.fallbacks

(* changesets/validator.py against shadow/manager.py: once a changeset is  *)
(* accepted, create_shadow cannot find fault with it any more, unless a    *)
(* change names what the baseline does not have, or it has come to one of  *)
(* the target files that only the validator takes: with a key that is      *)
(* null, an empty source, or a path that leads out of the configset.       *)
PassedOver(step) == step.mode = Null \/ step.source \in {Null, Blank} \/ step.path = Outside

ValidatedChangesApply ==
  raised \in {"ValidationError", "ValueError"} =>
    \/ patched < Len(Steps) /\ PassedOver(Steps[patched + 1])
    \/ \E n \in DOMAIN settings.changes :
         /\ settings.changes[n].op \in SchemaOps /\ NamesUnknown(BaselineSchema, settings.changes[n])
         /\ worked = n - 1

(* schema/preflight.py against changesets/apply_schema.py: where the       *)
(* snapshot is still what Solr has, the preflight names every field that   *)
(* comes to be analyzed otherwise on the shadow, and every copyField rule  *)
(* between such fields.  Where risks block, the target of a rule changes   *)
(* its type only by an update of its own.  And whatever the snapshot says, *)
(* a field that no change names, and whose type none replaces, is on the   *)
(* shadow as Solr has it now.                                              *)
Analysis(schema, name) ==
  LET type == FieldNamed(schema, name)[1].type
  IN  <<type, IF type \in DOMAIN schema.types THEN schema.types[type] ELSE <<>>>>

PreflightForetells ==
  LET live == settings.baseline
      changed == {f.name : f \in {g \in ToSet(live.fields) :
                    Analysis(live, g.name) # Analysis(shadow[1], g.name)}}
      updated == UNION {TouchedFields(settings.changes[n]) : n \in DOMAIN settings.changes}
      replaced == {change.name : change \in {c \in ToSet(settings.changes) : c.op = "schema.fieldType.replace"}}
  IN  shadow # <<>> =>
        /\ BaselineSchema = live =>
             /\ \A name \in changed : \E f \in risks : name \in f.fields
             /\ \A rule \in ToSet(live.copies) : {rule.source, rule.dest} \cap changed # {} =>
                  /\ \E f \in risks : rule \in f.copies
                  /\ settings.fail_on_risk /\ rule.dest \in changed /\ rule.dest \notin updated =>
                       FieldNamed(live, rule.dest)[1].type = FieldNamed(shadow[1], rule.dest)[1].type
        /\ \A i \in DOMAIN live.fields :
             \/ live.fields[i].name \in updated
             \/ \E known \in ToSet(FieldNamed(BaselineSchema, live.fields[i].name)) : known.type \in replaced
             \/ shadow[1].fields[i] = live.fields[i]

(* Of two changes to one field type or field the later one is made from    *)
(* the baseline too.  usage-guide.md has the shadow carry the planned      *)
(* change: what is reported as applied should be there, unless a later     *)
(* change sets the same attribute of the same field again.                 *)
SetsTo(change, name, key, value) ==
  \/ /\ change.op = "schema.field.update" /\ change.field = name
     /\ key \in DOMAIN change.set /\ change.set[key] = value
  \/ /\ change.op = "schema.fieldType.replace" /\ key = "type" /\ value = change.with
     /\ FieldNamed(BaselineSchema, name)[1].type = change.name

AllChangesApplied ==
  stage = "queries_extract_or_load" =>
    \A n \in DOMAIN settings.changes : settings.changes[n].op = "schema.field.update" =>
      \A key \in DOMAIN settings.changes[n].set :
        LET name == settings.changes[n].field
        IN  \/ FieldNamed(shadow[1], name)[1][key] = settings.changes[n].set[key]
            \/ \E m \in (n + 1)..Len(settings.changes) :
                 SetsTo(settings.changes[m], name, key, FieldNamed(shadow[1], name)[1][key])

(* shadow/configset_patcher.py: a patched file has the lines of every      *)
(* source since the last that replaced it, nothing else and in the order   *)
(* they first came; after a merge no line is there twice.  Without an      *)
(* append, patching what has been patched changes nothing.  The shadow has *)
(* all of the patch or, where the fallback allows it, nothing of it.       *)
Repatched(files) == FoldLeft(LAMBDA f, step : PatchFile(f, settings.sources, step), files, Steps)

PatchesSettle ==
  /\ shadow # <<>> =>
       \/ configset = settings.files /\ settings.allow_shared_configset_fallback
       \/ configset = Repatched(settings.files)
  /\ shadow # <<>> /\ configset # settings.files => \A path \in DOMAIN configset :
      LET on == {n \in DOMAIN Steps : Steps[n].path = path}
          since == Max({n \in on : Steps[n].mode = "replace"} \cup {0})
          before == IF since = 0 THEN ReadLines(settings.files, path) ELSE <<>>
          texts == [n \in DOMAIN Steps |->
                      IF n \in on /\ n >= since THEN settings.sources[Steps[n].source] ELSE <<>>]
      IN  /\ on = {} => configset[path] = settings.files[path]
          /\ on # {} =>
               /\ DedupeMerge(<<>>, configset[path]) = DedupeMerge(<<>>, Kept(before \o FlattenSeq(texts)))
               /\ Steps[Max(on)].mode = "patch_merge" => IsInjective(configset[path])
          /\ (\A n \in on : Steps[n].mode # "patch_append") =>
               Repatched(configset)[path] = configset[path]

(* plugins/: every active plugin is on offer, usable and compatible; one   *)
(* that was asked for and is not active is an issue; a module of which     *)
(* nothing raises, neither for what it is nor for a name that is taken,    *)
(* loses none of its plugins to a broken module elsewhere.  A strict run   *)
(* goes on only where there is nothing to report.                          *)
Existing(config, paths) == {i \in paths : config.paths[i].exists}

OffersBefore(config, i) ==
  ToSet(config.builtin) \cup UNION {ToSet(config.paths[j].plugins) : j \in Existing(config, 1..(i - 1))}

Offers(config) == OffersBefore(config, Len(config.paths) + 1) \cup ToSet(config.entry_points)

IsSound(config, i) ==
  LET module == config.paths[i].plugins
  IN  /\ config.paths[i].exists
      /\ \A n \in DOMAIN module :
           /\ module[n].usable
           /\ \A p \in OffersBefore(config, i) \cup {module[m] : m \in 1..(n - 1)} : p.name # module[n].name

ActivePluginsUsable ==
  LET config == settings.plugins
      active == ToSet(plugins.active)
      asked == ToSet(config.enabled_plugins)
  IN  stage \notin {"validate", "plugins_init"} /\ ValidChangeset(settings) /\ config.enabled =>
        /\ \A name \in active : \E p \in Offers(config) : p.name = name /\ p.usable /\ p.compatible
        /\ \A name \in asked \ active : <<"selection", name>> \in plugins.issues
        /\ \A i \in DOMAIN config.paths : IsSound(config, i) =>
             \A p \in ToSet(config.paths[i].plugins) :
               p.compatible /\ (asked = {} \/ p.name \in asked) => p.name \in active
        /\ config.strict_mode => plugins.issues = {} \/ stage = "failed"

(* queries/sampler.py: as many queries are replayed as the limit and the   *)
(* source allow, each as often as the log has it at most and never as it   *)
(* was before sanitizing; `top` leaves no query out for a rarer one.       *)
SamplesAreFair ==
  LET log == Cases(Cleaned)
      times(q) == Cardinality({i \in DOMAIN log : log[i] = q})
  IN  Source.type = "log" /\ stage \notin {"validate", "plugins_init", "snapshot", "preflight", "shadow_create",
                                           "queries_extract_or_load", "failed"} =>
        /\ \A q \in ToSet(cases) : Cardinality({i \in DOMAIN cases : cases[i] = q}) <= times(q)
        /\ Limited /\ Source.mode = "reservoir" => Len(cases) = Min({Source.max_queries, Len(log)})
        /\ Limited /\ Source.mode = "top" =>
             /\ Len(cases) = Min({Source.max_queries, Cardinality(ToSet(log))})
             /\ \A q \in ToSet(log) \ ToSet(cases), r \in ToSet(cases) : times(q) <= times(r)

(* compare/diff.py: the row of a query tells the whole difference of the   *)
(* rankings: the baseline ranking with its dropped documents left out, its *)
(* moved ones at their new ranks and the new ones in the places that are   *)
(* free is the shadow ranking.  Of the facet counts it tells which values  *)
(* came and went, and what each listed value changed by; a value that is   *)
(* not listed did not change, or the list is full and no value in it       *)
(* changed by less.                                                        *)
Rebuilt(row) ==
  LET kept == ToSet(row.base) \ ToSet(row.dropped)
      by(d) == LET m == {i \in DOMAIN row.moved : row.moved[i][1] = d}
               IN  IF m = {} THEN 0 ELSE row.moved[Min(m)][2]
      at(d) == Rank(row.base, d) + by(d)
      free == Ascending((1..(Cardinality(kept) + Len(row.new))) \ {at(d) : d \in kept})
  IN  {<<at(d), d>> : d \in kept} \cup {<<free[i], row.new[i]>> : i \in DOMAIN row.new}

FacetsTold(before, after, facets) ==
  /\ DOMAIN after = (DOMAIN before \ facets.missing) \cup facets.new
  /\ \A v \in DOMAIN facets.deltas : facets.deltas[v] = CountDelta(before, after, v)
  /\ \A v \in (DOMAIN before \cup DOMAIN after) \ DOMAIN facets.deltas :
       \/ Count(before, v) = Count(after, v)
       \/ /\ Cardinality(DOMAIN facets.deltas) = TopN
          /\ \A w \in DOMAIN facets.deltas :
               Abs(facets.deltas[w]) >= Abs(CountDelta(before, after, v))

RowsRebuildAnswers ==
  \A i \in DOMAIN rows :
    LET b == Baseline(replayed, i)
        s == Shadow(replayed, i)
        answer == FirstOf(s.docs, settings.k)
    IN  /\ Rebuilt(rows[i]) = {<<p, answer[p]>> : p \in DOMAIN answer}
        /\ FacetsTold(b.facets, s.facets, rows[i].facets)

(* compare/gate.py: under a policy that fails on any risky query, a run    *)
(* passes only if no call of the replay failed and every segment is clean; *)
(* whatever the policy, every golden query that asks for documents found   *)
(* enough of them in what the shadow answered to a query with its          *)
(* parameters, unless all of them may be missing.                          *)
ZeroTolerance == [metric |-> "pct_high_risk_queries", op |-> ">", value |-> 0]

GatePassIsEarned ==
  verdict = "pass" =>
    /\ ZeroTolerance \in settings.gate.fail =>
         /\ failures = 0
         /\ \A b \in {Buckets(rows, SegmentsOf)} : \A label \in DOMAIN b : b[label][1] = 0
    /\ \A golden \in settings.gate.golden :
         \/ golden.expected = {} \/ settings.gate.missing >= 100
         \/ \E i \in Queries :
              /\ cases[i].params = golden.params
              /\ 100 * Cardinality(golden.expected \ ToSet(Shadow(replayed, i).docs))
                   <= settings.gate.missing * Cardinality(golden.expected)

(* compare/rewrite_diff.py: with always_for_high_risk every risky query is *)
(* looked at exactly once however small max_queries is, and those looked   *)
(* at within max_queries are the riskiest.                                 *)
HighRiskIsRewritten ==
  selected # <<>> =>
    /\ settings.rewrite.always =>
         \A i \in DOMAIN rows : rows[i].severity = "HIGH" =>
           Cardinality({n \in DOMAIN selected : selected[n] = i}) = 1
    /\ \A i \in Queries \ ToSet(selected), n \in DOMAIN selected :
         n <= settings.rewrite.max => ~Riskier(rows[i], rows[selected[n]])

(* The flags of a query reach its row, and where both sides answered and   *)
(* the first report of each that shows a parsed query shows it as text,    *)
(* they tell of the queries as rewritten, also when the first answer held  *)
(* none.                                                                   *)
Readable(side) ==
  LET reports == settings.rewrite.reports[side]
      first == reports[settings.rewrite.mode]
  IN  "parsedquery_toString" \in IF first = {} THEN reports["debugQuery"] ELSE first

RewriteFlagsTruthful ==
  \A n \in DOMAIN rewrites :
    LET i == rewrites[n].query
        text == cases[i].text
        shape == "PARSED_QUERY_SHAPE_CHANGED"
    IN  /\ rewrites[n].flags \subseteq rows[i].flags
        /\ (rewrites[n].errors = {} /\ Readable("baseline") /\ Readable("shadow")) =>
             (shape \in rows[i].flags <=> text["baseline"] # text["shadow"])

(* compare/explain_fetcher.py: no document of a riskier query, and of one  *)
(* query none that was dropped or moved farther, is passed over for        *)
(* another; queries of LOW risk are not explained.                         *)
Weight(i, d) ==
  CASE d \in ToSet(rows[i].dropped) -> settings.k
    [] \E m \in DOMAIN rows[i].moved : rows[i].moved[m][1] = d ->
         Distance(rows[i].base, rows[i].shadow, d)
    [] OTHER -> 0

Changed(i) ==
  Moved(rows[i].base, rows[i].shadow) \cup ToSet(rows[i].dropped) \cup ToSet(rows[i].new)

ExplainsFollowPriority ==
  stage \in {"gate", "done"} =>
    \A n \in DOMAIN bundles :
      LET i == bundles[n].of[1]
          d == bundles[n].of[2]
          explained == {bundles[m].of : m \in DOMAIN bundles}
      IN  /\ rows[i].severity # "LOW"
          /\ \A e \in Changed(i) : Weight(i, e) > Weight(i, d) => <<i, e>> \in explained
          /\ \A j \in Queries : Riskier(rows[j], rows[i]) /\ Changed(j) # {} =>
               \E e \in Changed(j) : <<j, e>> \in explained

-----------------------------------------------------------------------------
(* vector/validation.py: once a run is past the validation, no scenario    *)
(* skips a query under the policy `fail`, and no vector whose length is    *)
(* known to be wrong is sent.                                              *)
ValidatedVectorsOnly ==
  \A s \in Scenarios : \A n \in DOMAIN targets[s] :
    LET case == cases[(n + 1) \div 2]
    IN  /\ Vector.policy = "fail" => ~targets[s][n].skipped
        /\ ~targets[s][n].skipped /\ NeedsVector(Vector.scenarios[s], case) /\ Expected # 0 =>
             case.dimension = Expected

(* vector/replay.py: a hybrid never passes off one half as the blend: a    *)
(* result without an error is made of two answers, and where one half      *)
(* failed the scenario reports a failure.  The blend is as long as it can  *)
(* be, and with weights that are not negative a document that is ahead of  *)
(* another on both sides is ahead in it.                                   *)
Ahead(docs, d, e) ==
  d \in ToSet(Ids(docs)) /\ e \in ToSet(Ids(docs)) /\ Score(docs, d) > Score(docs, e)

Answered(answers) == {FirstOf(docs, Pool) : docs \in answers}

BlendsAreWhole ==
  \A s \in Scenarios : \A n \in DOMAIN targets[s] :
    LET r == targets[s][n]
        blend == Vector.scenarios[s].blend
        weighing == /\ blend.weight_lexical >= 0 /\ blend.weight_vector >= 0
                    /\ blend.weight_lexical + blend.weight_vector > 0
    IN  /\ ClientHybrid(Vector.scenarios[s], cases[(n + 1) \div 2])
             /\ ~r.error /\ ~r.skipped =>
             /\ r.inputs \in Answered(Vector.lexical) \X Answered(Vector.vector)
             /\ Cardinality(ToSet(Ids(r.inputs[1])) \cup ToSet(Ids(r.inputs[2]))) >= TopK => Len(r.docs) = TopK
             /\ weighing => \A d, e \in ToSet(Ids(r.inputs[1])) :
                  Ahead(r.inputs[1], d, e) /\ Ahead(r.inputs[2], d, e) /\ e \in ToSet(r.docs) =>
                    d \in ToSet(r.docs) /\ Rank(r.docs, d) < Rank(r.docs, e)
        /\ summaries # <<>> => (r.error => summaries[s].failures > 0)

(* vector/sensitivity.py against vector/replay.py: at the weights that the *)
(* scenario itself has, the analysis shows the ranking that was replayed,  *)
(* up to documents whose scores are equal: a ranking as long and, at every *)
(* place, the document that was replayed there or one with just its score. *)
SensitivityAgreesWithReplay ==
  \A s \in DOMAIN sensitivity : \A i \in DOMAIN sensitivity[s] :
    LET blend == Vector.scenarios[s].blend
        replay == ShadowOf(s, i)
        score == BlendScores(BlendValues(replay.inputs[1], replay.inputs[2], blend, Pool), blend)
        analysis == sensitivity[s][i][blend.weight_vector]
    IN  blend.weight_vector \in Vector.weights /\ blend.weight_lexical = 10 - blend.weight_vector =>
          /\ Len(analysis) = Len(replay.docs)
          /\ \A p \in DOMAIN analysis :
               /\ ~Exceeds(score[analysis[p]], score[replay.docs[p]])
               /\ ~Exceeds(score[replay.docs[p]], score[analysis[p]])
=============================================================================
