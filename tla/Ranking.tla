------------------------------- MODULE Ranking -------------------------------
(***************************************************************************)
(* compare/ and segments/: what is computed from the two replayed answers  *)
(* of a query.  Documents are positive numbers, an answer is a sequence of *)
(* them (0 is a row without an id), and a ratio is a pair <<numerator,     *)
(* denominator>>, so that thresholds are compared without rounding.        *)
(***************************************************************************)
EXTENDS Sublists

CONSTANT TopN   \* top_n of compute_facet_diff, 20 in the code

ASSUME TopNAssumption == TopN \in Nat

Absent == "absent"   \* a query without the segment key
NoTau == <<0, 0>>    \* no two common documents to compare

FirstOf(seq, n) == SubSeq(seq, 1, IF Len(seq) < n THEN Len(seq) ELSE n)
Abs(n) == IF n < 0 THEN -n ELSE n

-----------------------------------------------------------------------------
(* replay/runner.py: rows without an id are dropped.                       *)
ExtractDocs(rows) == Omitting(rows, {0})

-----------------------------------------------------------------------------
(* compare/metrics.py                                                      *)
Rank(ids, d) == CHOOSE i \in DOMAIN ids : ids[i] = d
Common(base, shadow) == ToSet(base) \cap ToSet(shadow)
Overlap(base, shadow) == Cardinality(Common(base, shadow))

(* Of the pairs of documents on both sides, those ordered alike less those *)
(* ordered otherwise.                                                      *)
KendallTau(base, shadow) ==
  LET pairs == {p \in Common(base, shadow) \X Common(base, shadow) :
                  Rank(base, p[1]) < Rank(base, p[2])}
      concordant == {p \in pairs : Rank(shadow, p[1]) < Rank(shadow, p[2])}
  IN  <<2 * Cardinality(concordant) - Cardinality(pairs), Cardinality(pairs)>>

-----------------------------------------------------------------------------
(* compare/diff.py: _risk_for, where no tau counts as a tau of 0.          *)
LowOverlap(overlap, k) == 10 * overlap < 6 * k
LowTau(tau) == 5 * tau[1] < tau[2]

Risk(overlap, tau, k) ==
  CASE LowOverlap(overlap, k) \/ LowTau(IF tau = NoTau THEN <<0, 1>> ELSE tau) -> "HIGH"
    [] 10 * overlap < 8 * k -> "MEDIUM"
    [] OTHER -> "LOW"

RiskFlags(overlap, tau, k) ==
  (IF LowOverlap(overlap, k) THEN {"LOW_OVERLAP"} ELSE {})
    \cup (IF tau # NoTau /\ LowTau(tau) THEN {"LOW_TAU"} ELSE {})

(* compare/facets.py: what the counts of one facet field changed by.  A    *)
(* value that is missing differs from one with a count of 0.  Only the     *)
(* greatest changes are listed; which of equal ones are is the iteration   *)
(* order of a set.                                                         *)
Count(counts, v) == IF v \in DOMAIN counts THEN counts[v] ELSE 0
CountDelta(base, shadow, v) == Count(shadow, v) - Count(base, v)

TopDeltas(base, shadow) ==
  LET changed == {v \in DOMAIN base \cup DOMAIN shadow : CountDelta(base, shadow, v) # 0}
  IN  IF Cardinality(changed) <= TopN THEN {changed}
      ELSE {top \in kSubset(TopN, changed) : \A v \in top, w \in changed \ top :
              Abs(CountDelta(base, shadow, v)) >= Abs(CountDelta(base, shadow, w))}

FacetDiffs(base, shadow) ==
  {[new     |-> DOMAIN shadow \ DOMAIN base,
    missing |-> DOMAIN base \ DOMAIN shadow,
    deltas  |-> [v \in top |-> CountDelta(base, shadow, v)]] : top \in TopDeltas(base, shadow)}

(* The documents that moved, farthest first; the order of those that moved *)
(* equally far is the iteration order of a set.                            *)
Moved(base, shadow) == {d \in Common(base, shadow) : Rank(base, d) # Rank(shadow, d)}
(* Mutant: the rank on the shadow is taken from the baseline.              *)
DeltaOfBaseline(base, shadow, d) == Rank(base, d) - Rank(shadow, d)
Delta(base, shadow, d) == Rank(shadow, d) - Rank(base, d)
Distance(base, shadow, d) == Abs(Delta(base, shadow, d))

MovedOrders(base, shadow) ==
  {order \in SetToSeqs(Moved(base, shadow)) :
     \A i, j \in DOMAIN order :
       i < j => Distance(base, shadow, order[i]) >= Distance(base, shadow, order[j])}

(* A failed side has no documents and no facets, and forces HIGH.          *)
ErrorFlags(base, shadow) ==
  (IF base.error THEN {"BASELINE_QUERY_ERROR"} ELSE {})
    \cup (IF shadow.error THEN {"SHADOW_QUERY_ERROR"} ELSE {})

(* The rows compare_replay may write for one query.                        *)
DiffRows(base, shadow, k) ==
  LET b == FirstOf(base.docs, k)
      s == FirstOf(shadow.docs, k)
      overlap == Overlap(b, s)
      tau == KendallTau(b, s)
      errors == ErrorFlags(base, shadow)
  IN  {[base     |-> b,
        shadow   |-> s,
        overlap  |-> overlap,
        tau      |-> tau,
        moved    |-> [i \in DOMAIN order |-> <<order[i], Delta(b, s, order[i])>>],
        dropped  |-> Omitting(b, ToSet(s)),
        new      |-> Omitting(s, ToSet(b)),
        facets   |-> facets,
        severity |-> IF errors = {} THEN Risk(overlap, tau, k) ELSE "HIGH",
        flags    |-> RiskFlags(overlap, tau, k) \cup errors] :
         order \in MovedOrders(b, s), facets \in FacetDiffs(base.facets, shadow.facets)}

(* The order of the regressions, the explains and the rewrites: severity,  *)
(* overlap, tau (none counts as 1), then the order of the replay.          *)
SeverityOrder == [HIGH |-> 0, MEDIUM |-> 1, LOW |-> 2]

Riskier(a, b) ==
  LET sa == SeverityOrder[a.severity]
      sb == SeverityOrder[b.severity]
      ta == IF a.tau = NoTau THEN <<1, 1>> ELSE a.tau
      tb == IF b.tau = NoTau THEN <<1, 1>> ELSE b.tau
  IN  \/ sa < sb
      \/ sa = sb /\ a.overlap < b.overlap
      \/ sa = sb /\ a.overlap = b.overlap /\ ta[1] * tb[2] < tb[1] * ta[2]

Precedes(rows, i, j) == Riskier(rows[i], rows[j]) \/ (~Riskier(rows[j], rows[i]) /\ i < j)

Orders(rows) ==
  {order \in [DOMAIN rows -> DOMAIN rows] :
     /\ ToSet(order) = DOMAIN rows
     /\ \A m, n \in DOMAIN rows : m < n => Precedes(rows, order[m], order[n])}

-----------------------------------------------------------------------------
(* segments/: one bucket per value of a key; a query without the key is in *)
(* no bucket of it.                                                        *)
Buckets(rows, segments) ==
  [label \in {segments[i] : i \in DOMAIN rows} \ {Absent} |->
     LET labelled == {i \in DOMAIN rows : segments[i] = label}
     IN  <<100 * Cardinality({i \in labelled : rows[i].severity = "HIGH"}),
           Cardinality(labelled)>>]

(* compare/gate.py: a metric is a percentage as a ratio.  A bucket that is *)
(* not there has 0 percent.                                                *)
Share(part, whole) == <<100 * Cardinality(part), IF whole = {} THEN 1 ELSE Cardinality(whole)>>

MetricValue(rows, buckets, k, rule) ==
  CASE rule.metric = "pct_high_risk_queries" ->
         Share({i \in DOMAIN rows : rows[i].severity = "HIGH"}, DOMAIN rows)
    [] rule.metric = "pct_med_risk_queries" ->
         Share({i \in DOMAIN rows : rows[i].severity = "MEDIUM"}, DOMAIN rows)
    [] rule.metric = "pct_queries_overlap_lt" ->
         Share({i \in DOMAIN rows : 100 * rows[i].overlap < rule.args * k}, DOMAIN rows)
    [] rule.metric = "avg_overlap" ->
         <<MapThenSumSet(LAMBDA i : rows[i].overlap, DOMAIN rows), k * Max({1, Len(rows)})>>
    [] rule.metric = "pct_high_risk_queries_segment" ->
         IF rule.args \in DOMAIN buckets THEN buckets[rule.args] ELSE <<0, 1>>

Holds(op, ratio, value) ==
  \/ op \in {"<", "<="} /\ ratio[1] < value * ratio[2]
  \/ op \in {">", ">="} /\ ratio[1] > value * ratio[2]
  \/ op \in {"<=", ">=", "=="} /\ ratio[1] = value * ratio[2]

(* Golden queries are looked up by their parameters, and the last replayed *)
(* query with them is taken.  One that is not there misses everything.     *)
(* Mutant: a golden query that was not replayed is passed over.            *)
MissingGoldenIfReplayed(golden, queries, rows) ==
  LET same == {i \in DOMAIN rows : queries[i].params = golden.params}
  IN  IF same = {} THEN {} ELSE golden.expected \ ToSet(FirstOf(rows[Max(same)].shadow, golden.topk))

MissingGolden(golden, queries, rows) ==
  LET same == {i \in DOMAIN rows : queries[i].params = golden.params}
      found == ToSet(FirstOf(rows[Max(same)].shadow, golden.topk))
  IN  IF same = {} THEN golden.expected ELSE golden.expected \ found

GoldenFails(golden, queries, rows, maxMissing) ==
  /\ golden.expected # {}
  /\ 100 * Cardinality(MissingGolden(golden, queries, rows))
       > maxMissing * Cardinality(golden.expected)
=============================================================================
