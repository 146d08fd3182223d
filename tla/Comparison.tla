------------------------------ MODULE Comparison ------------------------------
(***************************************************************************)
(* The replay of the queries on both collections and what is made of it:   *)
(* the diff rows, the rewritten queries of the riskiest, the explains of   *)
(* their documents, and the quality gate.  Every call to Solr may fail.    *)
(***************************************************************************)
EXTENDS EvaluationStages, Ranking

VARIABLES
  replayed,   \* sides answered so far: baseline and shadow of query 1, of query 2, ...
  failures,   \* stats.failures of replay.json
  rows,       \* diffs of compare.json, one per query
  selected,   \* queries whose rewrite is looked at, in order
  fetched,    \* rewrites answered so far: both sides of selected[1], of selected[2], ...
  retrying,   \* the first answer had no parsed query in it
  rewrites,   \* per_query of the rewrite report
  picked,     \* pairs <<query, document>> to explain, in order
  bundles,    \* explain bundles so far
  verdict     \* the result of the gate

comparisonVars == <<replayed, failures, rows, selected, fetched, retrying, rewrites,
                    picked, bundles, verdict>>

Side(n) == IF n % 2 = 1 THEN "baseline" ELSE "shadow"
Baseline(seq, n) == seq[2 * n - 1]
Shadow(seq, n) == seq[2 * n]

ComparisonInit ==
  /\ replayed = <<>> /\ failures = 0 /\ rows = <<>>
  /\ selected = <<>> /\ fetched = <<>> /\ retrying = FALSE /\ rewrites = <<>>
  /\ picked = <<>> /\ bundles = <<>>
  /\ verdict = "none"

-----------------------------------------------------------------------------
(* Solr answers with one of the settings' answers or not at all.  What     *)
(* cannot be parsed raises as well, but documents taken before it stay.    *)
Reply ==
  LET answered == {[error |-> FALSE, docs |-> ExtractDocs(a.rows), facets |-> a.facets] :
                     a \in settings.answers}
  IN  answered \cup {[error |-> TRUE, docs |-> <<>>, facets |-> <<>>]}
        \cup {[a EXCEPT !.error = TRUE, !.facets = <<>>] : a \in IF settings.malformed THEN answered ELSE {}}

(* Mutant: a failed side is counted for itself and for its pair.           *)
ReplayCountingPairs ==
  /\ stage = "replay"
  /\ \E reply \in Reply :
       /\ replayed' = Append(replayed, reply)
       /\ failures' = IF reply.error THEN failures + 2 ELSE failures
  /\ IF Len(replayed') = 2 * Len(cases) THEN Enter("compare") ELSE UNCHANGED stage
  /\ UNCHANGED <<request, rows, selected, fetched, retrying, rewrites, picked, bundles, verdict>>

Replay ==
  /\ stage = "replay"
  /\ \E reply \in Reply :
       /\ replayed' = Append(replayed, reply)
       /\ failures' = IF reply.error THEN failures + 1 ELSE failures
  /\ IF Len(replayed') = 2 * Len(cases) THEN Enter("compare") ELSE UNCHANGED stage
  /\ UNCHANGED <<request, rows, selected, fetched, retrying, rewrites, picked, bundles, verdict>>

Compare ==
  /\ stage = "compare"
  /\ rows' \in Selections([i \in Queries |->
                  DiffRows(Baseline(replayed, i), Shadow(replayed, i), settings.k)])
  /\ Enter("scenario_replay")
  /\ UNCHANGED <<request, replayed, failures, selected, fetched, retrying, rewrites,
                 picked, bundles, verdict>>

-----------------------------------------------------------------------------
(* compare/rewrite_diff.py                                                 *)
(* Mutant: the risky queries are added whether they are there or not.      *)
SelectDiffsTwice(ranked) ==
  FirstOf(ranked, settings.rewrite.max)
    \o (IF settings.rewrite.always
        THEN SelectSeq(ranked, LAMBDA i : rows[i].severity = "HIGH") ELSE <<>>)

SelectDiffs(ranked) ==
  LET first == FirstOf(ranked, settings.rewrite.max)
      rest == Within(ranked, {i \in DOMAIN rows : rows[i].severity = "HIGH"} \ ToSet(first))
  IN  IF settings.rewrite.always THEN first \o rest ELSE first

SelectRewrites ==
  /\ stage = "rewrite_diff" /\ selected = <<>>
  /\ \E ranked \in Orders(rows) :
       selected' = IF settings.rewrite.enabled THEN SelectDiffs(ranked) ELSE <<>>
  /\ IF selected' = <<>> THEN Enter("explain") ELSE UNCHANGED stage
  /\ UNCHANGED <<request, replayed, failures, rows, fetched, retrying, rewrites,
                 picked, bundles, verdict>>

(* An answer that shows no parsed query, neither parsedquery nor           *)
(* parsedquery_toString, is asked for again, with debugQuery.  What is     *)
(* compared is parsedquery_toString.                                       *)
(* Mutant: the second request is the first one again.                      *)
DebugModeAlways == settings.rewrite.mode

DebugMode == IF retrying THEN "debugQuery" ELSE settings.rewrite.mode

FetchRewrite ==
  /\ stage = "rewrite_diff" /\ selected # <<>> /\ Len(fetched) < 2 * Len(selected)
  /\ LET n == Len(fetched) + 1
         side == Side(n)
         shown == settings.rewrite.reports[side][DebugMode]
         text == IF "parsedquery_toString" \in shown THEN cases[selected[(n + 1) \div 2]].text[side] ELSE {}
     IN  \/ fetched' = Append(fetched, [error |-> TRUE, text |-> {}]) /\ retrying' = FALSE
         \/ /\ shown # {} \/ retrying
            /\ fetched' = Append(fetched, [error |-> FALSE, text |-> text]) /\ retrying' = FALSE
         \/ /\ shown = {} /\ ~retrying
            /\ retrying' = TRUE /\ UNCHANGED fetched
  /\ UNCHANGED <<request, stage, replayed, failures, rows, selected, rewrites, picked, bundles, verdict>>

RewriteFlags(base, shadow) ==
  (IF base # shadow THEN {"PARSED_QUERY_SHAPE_CHANGED"} ELSE {})
    \cup (IF Cardinality(shadow) - Cardinality(base) >= settings.rewrite.spike
          THEN {"REWRITE_CLAUSE_SPIKE"} ELSE {})
    \cup (IF settings.rewrite.synonyms /\ base # shadow THEN {"SYNONYM_EXPANSION_CHANGED"} ELSE {})

PerQuery(n) ==
  [query  |-> selected[n],
   flags  |-> RewriteFlags(Baseline(fetched, n).text, Shadow(fetched, n).text),
   errors |-> {side \in {"baseline", "shadow"} :
                 IF side = "baseline" THEN Baseline(fetched, n).error ELSE Shadow(fetched, n).error}]

(* runtime/post_compare_service.py: the flags are merged into the rows.    *)
MergedFlags(i, report) ==
  rows[i].flags \cup UNION {report[n].flags : n \in {m \in DOMAIN report : report[m].query = i}}

EndRewrites ==
  /\ stage = "rewrite_diff" /\ selected # <<>> /\ Len(fetched) = 2 * Len(selected)
  /\ rewrites' = [n \in DOMAIN selected |-> PerQuery(n)]
  /\ rows' = [i \in Queries |-> [rows[i] EXCEPT !.flags = MergedFlags(i, rewrites')]]
  /\ Enter("explain")
  /\ UNCHANGED <<request, replayed, failures, selected, fetched, retrying, picked, bundles, verdict>>

-----------------------------------------------------------------------------
(* compare/explain_fetcher.py: the limit is looked at once a document has  *)
(* been taken, so that 0 takes one.                                        *)
(* Mutant: new documents before those that moved.                          *)
PickDocsNewFirst(row) ==
  FirstOf(row.dropped \o row.new \o [i \in DOMAIN row.moved |-> row.moved[i][1]],
          Max({1, settings.explain.docs}))

PickDocs(row) ==
  FirstOf(row.dropped \o [i \in DOMAIN row.moved |-> row.moved[i][1]] \o row.new,
          Max({1, settings.explain.docs}))

PickExplains(ranked) ==
  LET risky == Omitting(FirstOf(ranked, settings.explain.max), {i \in DOMAIN rows : rows[i].severity = "LOW"})
      of(i) == LET docs == PickDocs(rows[i]) IN [n \in DOMAIN docs |-> <<i, docs[n]>>]
  IN  FlattenSeq([n \in DOMAIN risky |-> of(risky[n])])

SelectExplains ==
  /\ stage = "explain" /\ picked = <<>>
  /\ \E ranked \in Orders(rows) :
       picked' = IF settings.explain.enabled THEN PickExplains(ranked) ELSE <<>>
  /\ IF picked' = <<>> THEN Enter("gate") ELSE UNCHANGED stage
  /\ UNCHANGED <<request, replayed, failures, rows, selected, fetched, retrying, rewrites,
                 bundles, verdict>>

(* Structured where it was asked for and is supported.                     *)
Structured == settings.explain.structured /\ "structured_explain" \in compat.caps
ExplainFallback == settings.explain.enabled /\ settings.explain.structured /\ ~Structured

(* The explain of a document on both sides; a side that fails has none.    *)
FetchExplain ==
  /\ stage = "explain" /\ Len(bundles) < Len(picked)
  /\ \E explained \in SUBSET {"baseline", "shadow"} :
       bundles' = Append(bundles, [of |-> picked[Len(bundles) + 1], explained |-> explained,
                                   structured |-> Structured])
  /\ IF Len(bundles') = Len(picked) THEN Enter("gate") ELSE UNCHANGED stage
  /\ UNCHANGED <<request, replayed, failures, rows, selected, fetched, retrying, rewrites,
                 picked, verdict>>

-----------------------------------------------------------------------------
(* compare/gate.py: evaluate_gate of compare.json.                         *)
SegmentsOf == [i \in Queries |-> cases[i].segment]

FailedRules ==
  {rule \in settings.gate.fail :
     Holds(rule.op, MetricValue(rows, Buckets(rows, SegmentsOf), settings.k, rule), rule.value)}

FailedGolden ==
  {golden \in settings.gate.golden : GoldenFails(golden, cases, rows, settings.gate.missing)}

EvaluateGate ==
  /\ stage = "gate"
  /\ verdict' = IF FailedRules = {} /\ FailedGolden = {} THEN "pass" ELSE "fail"
  /\ Enter("done")
  /\ UNCHANGED <<request, replayed, failures, rows, selected, fetched, retrying, rewrites,
                 picked, bundles>>

ComparisonNext ==
  \/ Replay \/ Compare
  \/ SelectRewrites \/ FetchRewrite \/ EndRewrites
  \/ SelectExplains \/ FetchExplain
  \/ EvaluateGate
=============================================================================
