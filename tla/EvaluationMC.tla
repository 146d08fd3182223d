----------------------------- MODULE EvaluationMC -----------------------------
(***************************************************************************)
(* Bounds for Evaluation.  Each family of settings lets one part of an     *)
(* evaluation range widely and holds the others still, so that the state   *)
(* spaces add up and do not multiply.                                      *)
(***************************************************************************)
EXTENDS Evaluation

Answer(docs) == [rows |-> docs, facets |-> <<>>]
Same == [baseline |-> {"red"}, shadow |-> {"red"}]
Wider == [baseline |-> {"red"}, shadow |-> {"red", "crimson"}]

Query(params, segment, text, dimension, knn) ==
  [params |-> params, segment |-> segment, text |-> text, dimension |-> dimension, knn |-> knn]
Plain1 == Query("a", "eu", Same, 0, FALSE)

Shows(results, debugQuery) == [results |-> results, debugQuery |-> debugQuery]
AsText == {"parsedquery", "parsedquery_toString"}
Both == [baseline |-> Shows(AsText, AsText), shadow |-> Shows(AsText, AsText)]
NoRewrite == [enabled |-> FALSE, max |-> 1, always |-> FALSE, mode |-> "debugQuery",
              reports |-> Both, spike |-> 1, synonyms |-> FALSE]
NoExplain == [enabled |-> FALSE, max |-> 0, docs |-> 0, structured |-> FALSE]
NoGate == [fail |-> {}, golden |-> {}, missing |-> 0]
NoVector == [enabled |-> FALSE, field_found |-> TRUE, override |-> 0, dimension |-> 0,
             schema_dimension |-> 0, policy |-> "skip", scenarios |-> <<>>, topK |-> 2, pool |-> 3,
             weights |-> {}, lexical |-> {}, vector |-> {}]

(* The baseline's schema: title and body are copied into all.              *)
Field(name, type) == [name |-> name, type |-> type, stored |-> TRUE]
Copy(source, dest) == [source |-> source, dest |-> dest]
Schema == [fields  |-> <<Field("title", "text"), Field("body", "text"), Field("all", "wide"), Field("id", "plain")>>,
           types   |-> [text  |-> [indexAnalyzer |-> {"stop", "lower"}, queryAnalyzer |-> {"lower"}],
                        wide  |-> [analyzer |-> {"lower"}], plain |-> <<>>],
           dynamic |-> [x_t |-> "text", x_w |-> "wide"],
           copies  |-> <<Copy("title", "all"), Copy("x_t", "all"), Copy("body", "x_w")>>]

NoPlugins == [enabled |-> FALSE, builtin |-> <<>>, paths |-> <<>>, entry_points |-> <<>>,
              enabled_plugins |-> <<>>, strict_mode |-> FALSE]
FromFile(lines) == [type |-> "file", exists |-> TRUE, provider |-> 0, rows |-> lines, max_queries |-> 0,
                   mode |-> "reservoir", sanitized |-> <<1, 2, 3>>]

(* Solr as it is now, and an output directory without a snapshot.          *)
Solr(major) == [versions |-> <<major, major, 0, 0>>]
Ready == [origin |-> "here", system |-> Solr(9), probes |-> {Probes}, snapshot |-> <<>>, out |-> Empty]

Quiet == [solr |-> Ready, queries |-> <<Plain1>>, k |-> 3, answers |-> {Answer(<<1, 2, 3>>)}, malformed |-> FALSE,
          rewrite |-> NoRewrite, explain |-> NoExplain, gate |-> NoGate, vector |-> NoVector,
          baseline |-> Schema, changes |-> <<>>, fail_on_risk |-> FALSE,
          files |-> [synonyms |-> <<1, 2, 0, 1>>], sources |-> [old |-> <<2, 3, 3>>, new |-> <<4, 0, 1>>],
          allow_shared_configset_fallback |-> FALSE, plugins |-> NoPlugins, source |-> FromFile(<<1>>)]

Asking(queries) == [Quiet EXCEPT !.queries = queries, !.source = FromFile([i \in DOMAIN queries |-> i])]
Silent == [Quiet EXCEPT !.source = FromFile(<<>>)]

-----------------------------------------------------------------------------
(* One query, every ranking of up to 3 of 4 documents on either side.      *)
Rankings == UNION {{r \in [1..n -> 1..4] : IsInjective(r)} : n \in 0..3} \cup {<<1, 0, 2>>}
Facets == {<<>>, [red |-> 1], [red |-> 0, blue |-> 2], [red |-> 2, blue |-> 1]}
RankingFamily ==
  {[Quiet EXCEPT !.answers = {Answer(r) : r \in Rankings}],
   [Quiet EXCEPT !.answers = {[rows |-> r, facets |-> f] : r \in {<<1, 2, 3>>, <<3, 1, 4>>}, f \in Facets},
                 !.malformed = TRUE]}

(* Two queries whose rewrites differ or not, shown by both sides or only   *)
(* on a second request, by one side only, or not as text; only the         *)
(* riskiest within the limit or every risky one.                           *)
RewriteFamily ==
  {[Asking(<<Plain1, Query("b", "eu", Wider, 0, FALSE)>>) EXCEPT !.answers = {Answer(<<1, 2, 3>>), Answer(<<3, 4>>)},
                 !.rewrite = [enabled |-> TRUE, max |-> 1, always |-> always, mode |-> "results",
                              reports |-> reports, spike |-> 1, synonyms |-> always]] :
     always \in BOOLEAN, reports \in {[Both EXCEPT !["baseline"] = Shows({}, AsText)], [Both EXCEPT !["shadow"] = Shows({}, {})],
                                         [Both EXCEPT !["shadow"] = Shows({"parsedquery"}, AsText)]}}

(* Two queries with fewer explains than documents that changed.            *)
ExplainFamily ==
  {[Asking(<<Plain1, Plain1>>) EXCEPT !.answers = {Answer(<<1, 2, 3>>), Answer(<<2, 3, 1>>), Answer(<<4, 1>>)},
                 !.explain = [NoExplain EXCEPT !.enabled = TRUE, !.max = max, !.docs = 3 - max]] : max \in {1, 2, 3}}

(* Three queries, two of them with the same parameters; a segment, a       *)
(* missing one, and a golden query that was not replayed.                  *)
Rule(metric, op, value, args) == [metric |-> metric, op |-> op, value |-> value, args |-> args]
GateRules ==
  {{ZeroTolerance}, {Rule("pct_high_risk_queries_segment", ">", 0, "eu")},
   {Rule("pct_med_risk_queries", ">=", 30, 0), Rule("pct_queries_overlap_lt", ">", 50, 60)},
   {Rule("avg_overlap", "<=", 0, 0), Rule("pct_high_risk_queries_segment", "==", 100, "us")}}
Golden(params, expected, topk) == [params |-> params, expected |-> expected, topk |-> topk]
GoldenSets ==
  {{}, {Golden("a", {1, 2}, 2), Golden("b", {}, 3)}, {Golden("a", {1, 2}, 3), Golden("c", {1}, 3)}}
GateFamily ==
  {[Asking(<<Plain1, Query("b", Absent, Same, 0, FALSE), Plain1>>) EXCEPT !.answers = {Answer(<<1, 2, 3>>), Answer(<<1, 2>>)},
                 !.gate = [fail |-> rules, golden |-> golden, missing |-> IF golden = {} THEN 0 ELSE 50]] :
     rules \in GateRules, golden \in GoldenSets}

-----------------------------------------------------------------------------
(* The vector set-up: policies, dimensions, an old Solr.                   *)
Scored(ids, scores) == [i \in DOMAIN ids |-> [id |-> ids[i], score |-> scores[i]]]
NoBlend == [execution |-> "auto", method |-> "linear", weight_lexical |-> 7, weight_vector |-> 3,
            normalize |-> "none", missing_lexical |-> 0, missing_vector |-> 0, rrf_k |-> 1]
OneOfEach == <<[mode |-> "lexical_only", blend |-> NoBlend], [mode |-> "vector_only", blend |-> NoBlend],
               [mode |-> "hybrid", blend |-> NoBlend]>>
Hybrid(blend) == <<[mode |-> "hybrid", blend |-> blend]>>

Vectors == [NoVector EXCEPT !.enabled = TRUE, !.weights = {3, 5, 8}, !.scenarios = OneOfEach,
              !.lexical = {Scored(<<1, 2>>, <<5, 3>>), Scored(<<2, 3>>, <<4, 1>>)},
              !.vector = {Scored(<<3, 1, 2>>, <<9, 6, 2>>)}]

SetUpFamily ==
  {[Asking(<<Query("a", "eu", Same, d, knn), Query("b", "eu", Same, e, FALSE)>>) EXCEPT !.answers = {},
                 !.solr.system = Solr(major),
                 !.vector = [Vectors EXCEPT !.policy = policy, !.dimension = given,
                               !.schema_dimension = 2, !.field_found = found, !.override = override,
                               !.scenarios = Tail(OneOfEach), !.lexical = {}, !.vector = {}]] :
     policy \in {"skip", "fail"}, major \in {8, 9}, found \in BOOLEAN, knn \in BOOLEAN,
     d \in {0, 2}, e \in {0, 2, 3}, given \in {0, 3}, override \in {0, 3}}

(* One query through all the scenarios, and one hybrid in every way of     *)
(* blending.                                                               *)
Embedded == <<Query("a", "eu", Same, 2, FALSE)>>
ScenarioFamily == {[Asking(Embedded) EXCEPT !.vector = Vectors]}

BlendFamily ==
  {[Asking(Embedded) EXCEPT !.answers = {},
                 !.vector = [Vectors EXCEPT !.topK = topK, !.pool = 2 - topK,
                   !.lexical = {Scored(<<1, 2, 3>>, <<5, 3, 3>>), Scored(<<2, 4>>, <<4, 1>>), Scored(<<1>>, <<2>>), <<>>},
                   !.vector = {Scored(<<3, 1, 2>>, <<9, 6, 2>>), Scored(<<4, 2, 1>>, <<3, 3, 3>>)},
                   !.scenarios = Hybrid([NoBlend EXCEPT !.execution = "client", !.method = method,
                      !.normalize = "minmax", !.weight_vector = weight, !.weight_lexical = 10 - weight,
                      !.missing_vector = missing])]] :
     method \in {"linear", "normalize_linear", "rrf"}, weight \in {3, 5}, missing \in {0, 1}, topK \in {0, 2}}

-----------------------------------------------------------------------------
(* Two schema changes after one another, or three that bear on one field.  *)
Update(field, set) == [op |-> "schema.field.update", missing |-> {}, field |-> field, set |-> set]
Replace(name, with) == [op |-> "schema.fieldType.replace", missing |-> {}, name |-> name, with |-> with]
Unfilter(type, analyzer, filter) ==
  [op |-> "schema.analyzer.remove_filter", missing |-> {}, fieldType |-> type, analyzer |-> analyzer,
   filter_class |-> filter]
Params == [op |-> "queryparams.set", missing |-> {}]

OnOneField == {Update("title", [type |-> "wide"]), Update("title", [stored |-> FALSE]), Replace("text", "wide"),
               Unfilter("text", "index", "stop"), Unfilter("wide", "query", "lower")}
SchemaChangesOf ==
  OnOneField \cup {Update("all", [type |-> "new", stored |-> FALSE]), Update("ghost", [type |-> "text"]),
                   Update("title", [type |-> "text"]), Update("id", [type |-> "new"]),
                   Replace("wide", "new"), Replace("new", "text"), Unfilter("text", "query", "stop"),
                   Unfilter("ghost", "index", "stop"), Unfilter("plain", "query", "lower"), Params}
Tuples(S, n) == UNION {[1..m -> S] : m \in 0..n}
SchemaFamily ==
  {[Silent EXCEPT !.changes = changes, !.fail_on_risk = fail] :
     changes \in Tuples(SchemaChangesOf, 2) \cup [1..3 -> OnOneField], fail \in BOOLEAN}

LostUpdateFamilies ==
  {{[Silent EXCEPT !.changes = changes] : changes \in [1..2 -> SchemaChangesOf]}}

(* Changes that the validation refuses or not, and targets patched up to   *)
(* three times.                                                            *)
Patch(mode, source, files) ==
  [op |-> "schema.synonym.update", missing |-> {}, mode |-> mode, source_file |-> source, files |-> files]
Target(path, mode, source) == [path |-> path, mode |-> mode, source_file |-> source]
Malformed ==
  {[op |-> "schema.rename", missing |-> {}], [Params EXCEPT !.missing = {"set"}],
   [Update("title", <<>>) EXCEPT !.missing = {"set"}], Unfilter("text", "both", "stop")}
OneTarget ==
  {Patch(mode, source, files) : mode \in {NoKey, Blank, "patch_merge", "all"}, source \in {NoKey, "old", "gone"},
     files \in {<<>>} \cup {<<Target(path, m, own)>> : path \in {Blank, "stopwords"},
                            m \in {NoKey, "replace", "all"}, own \in {NoKey, "new", "gone"}}}
OddTarget ==
  {Patch("patch_merge", source, <<Target(path, mode, own)>>) : source \in {NoKey, Blank, "old"},
     path \in {Null, Outside, "synonyms"}, mode \in {NoKey, Null}, own \in {NoKey, Null, Blank}}
TwoTargets ==
  {Patch("patch_append", source, <<Target("synonyms", NoKey, NoKey), Target("synonyms", "patch_merge", own)>>) :
     source \in {NoKey, "old"}, own \in {NoKey, "new"}}
GoodPatches ==
  {Patch(mode, source, <<Target("synonyms", NoKey, NoKey)>>) : mode \in UpdateModes, source \in {"old", "new"}}
PatchFamily ==
  {[Silent EXCEPT !.changes = changes, !.allow_shared_configset_fallback = fallback] :
     changes \in {<<change>> : change \in Malformed \cup OneTarget \cup OddTarget \cup TwoTargets} \cup Tuples(GoodPatches, 3)
                 \cup {<<p, u>> : p \in GoodPatches, u \in {Update("ghost", <<>>), Update("all", [stored |-> FALSE])}},
     fallback \in BOOLEAN}

(* Modules that break halfway, names offered twice, plugins for another    *)
(* version, and what is asked for.                                         *)
Plugin(name, usable, compatible) == [name |-> name, usable |-> usable, compatible |-> compatible]
Plugins == {Plugin(1, TRUE, TRUE), Plugin(2, TRUE, TRUE), Plugin(1, TRUE, FALSE), Plugin(2, FALSE, TRUE), Plugin(3, TRUE, TRUE)}
Module(exists, list) == [exists |-> exists, plugins |-> list]
PluginFamily ==
  {[Silent EXCEPT !.source = [FromFile(<<0>>) EXCEPT !.type = "plugin", !.provider = 1],
                  !.plugins = [enabled |-> TRUE, builtin |-> <<Plugin(3, TRUE, TRUE), Plugin(4, FALSE, TRUE)>>,
                     paths |-> <<Module(TRUE, first), second>>,
                     entry_points |-> <<Plugin(1, TRUE, TRUE), Plugin(5, TRUE, FALSE)>>,
                     enabled_plugins |-> asked, strict_mode |-> strict]] :
     first \in Tuples(Plugins, 2), second \in {Module(FALSE, <<>>)} \cup {Module(TRUE, <<p>>) : p \in Plugins},
     asked \in {<<>>, <<2, 1>>, <<2, 2>>}, strict \in BOOLEAN}

(* Logs with rows that are the same, or are so once sanitized, or cannot   *)
(* be read; no call of these replays is answered.                          *)
Logged(log, mode, max, sanitized) ==
  [Asking(<<Plain1, Query("b", "eu", Same, 0, FALSE), Query("c", "eu", Same, 0, FALSE)>>)
     EXCEPT !.answers = {}, !.source = [FromFile(log) EXCEPT !.type = "log", !.mode = mode, !.max_queries = max,
                                          !.sanitized = sanitized]]
QueryFamily ==
  {Logged(log, "top", max, sanitized) :
     log \in [1..4 -> 1..3] \cup {<<0, 3, 0>>}, max \in {1, 2}, sanitized \in {<<1, 2, 3>>, <<1, 1, 3>>}}
  \cup {Logged(log, "reservoir", max, <<1, 1, 3>>) : log \in {<<1, 2, 3, 1>>, <<3, 0, 3>>, <<0>>}, max \in 0..2}
  \cup {[Logged(log, "top", max, <<1, 2, 3>>) EXCEPT !.source.type = "file", !.source.exists = exists] :
          log \in {<<1, 0, 2>>, <<2, 1>>}, max \in -1..2, exists \in BOOLEAN}

-----------------------------------------------------------------------------
(* Snapshots of an earlier schema or system, whole or not, in the output   *)
(* directory or given to start from, with manifests without a hash too.    *)
Earlier == [Schema EXCEPT !.fields = <<[Field("title", "text") EXCEPT !.stored = FALSE], Field("body", "wide"),
                                       Field("old", "text"), Field("id", "plain")>>]
Directory(captured) == [file \in Files |-> Written(captured[file])]
Whole == {Directory(Captured(origin, schema, Solr(8), "state")) : origin \in {"here", "there"}, schema \in {Schema, Earlier}}
Interrupted == {[dir EXCEPT ![file] = [state |-> Torn]] : dir \in Whole, file \in Files}
Mixed == {[dir EXCEPT !["system"] = Written(Solr(9))] : dir \in Whole}
Unhashed == {[dir EXCEPT !["manifest"].value.hash = NoHash] : dir \in Whole}
Drifts == {<<>>, <<Update("all", [stored |-> FALSE])>>, <<Update("old", [stored |-> TRUE])>>, <<Replace("text", "wide")>>}
SnapshotFamily ==
  {[Silent EXCEPT !.changes = changes, !.solr = [Ready EXCEPT !.snapshot = given, !.out = dir, !.probes = {Probes, {}}]] :
     changes \in Drifts, given \in {<<>>} \cup {<<d>> : d \in Whole}, dir \in {Empty} \cup Whole \cup Interrupted \cup Unhashed}
  \cup {[Silent EXCEPT !.changes = changes, !.solr = [Ready EXCEPT !.snapshot = <<given>>]] :
           changes \in Drifts, given \in Interrupted \cup Mixed \cup Unhashed}
  \cup {[Silent EXCEPT !.solr = [Ready EXCEPT !.snapshot = <<given>>, !.out = dir]] : given \in Unhashed, dir \in Whole}

(* Versions read from several places, every probe failing alone, and a run *)
(* that wants all that may be missing.                                     *)
CompatFamily ==
  {[Asking(<<Plain1>>) EXCEPT
      !.solr = [Ready EXCEPT !.system = system, !.probes = {Probes, {}} \cup {Probes \ {p} : p \in Probes}],
      !.changes = changes, !.answers = {Answer(<<1, 2>>), Answer(<<3>>)},
      !.explain = [NoExplain EXCEPT !.enabled = TRUE, !.max = 1, !.docs = 1, !.structured = structured],
      !.vector = [Vectors EXCEPT !.scenarios = FirstOf(OneOfEach, 1), !.lexical = {Scored(<<1>>, <<5>>)}]] :
     system \in {Solr(major) : major \in {0, 7, 8, 9, 10}} \cup {[versions |-> <<0, 8, 9, 0>>]},
     structured \in BOOLEAN,
     changes \in {<<>>, <<Patch("replace", "old", <<Target("synonyms", NoKey, NoKey)>>)>>}}

EvaluationFamilies ==
  {SchemaFamily, PatchFamily, PluginFamily, QueryFamily, SnapshotFamily, CompatFamily,
   RankingFamily, RewriteFamily, ExplainFamily, GateFamily, SetUpFamily, ScenarioFamily, BlendFamily}
=============================================================================
