-------------------------- MODULE ComparisonProofs --------------------------
(***************************************************************************)
(* What is looked at more closely after the comparison, for every family   *)
(* of settings: the queries that are rewritten (Selection), the flags that *)
(* come of it (FlagsInv) and the documents that are explained              *)
(* (Explaining), each with its inductive invariant on top of that of the   *)
(* replay.  With these and the invariants of the earlier stages, the type  *)
(* invariant of the whole run (SizesInv).                                  *)
(***************************************************************************)
EXTENDS DecisionProofs

(* A row has what the order of the rows looks at.                          *)
Scored(row) ==
  /\ row.severity \in {"HIGH", "MEDIUM", "LOW"} /\ row.overlap \in Nat
  /\ row.tau = <<row.tau[1], row.tau[2]>> /\ row.tau[1] \in Int /\ row.tau[2] \in Int

(* Overlap and tau are such.                                               *)
LEMMA ScoresType ==
  ASSUME NEW b \in Seq(Nat), NEW s \in Seq(Nat)
  PROVE  /\ Overlap(b, s) \in Nat
         /\ \E x, y \in Int : KendallTau(b, s) = <<x, y>>
<1>1. IsFiniteSet(Common(b, s))
  BY RangeFinite, FS_Subset DEF Common
<1>2. Overlap(b, s) \in Nat
  BY <1>1, FS_CardinalityType DEF Overlap
<1>3. IsFiniteSet(Common(b, s) \X Common(b, s))
  BY <1>1, FS_Product
<1>. DEFINE pairs == {p \in Common(b, s) \X Common(b, s) : Rank(b, p[1]) < Rank(b, p[2])}
            concordant == {p \in pairs : Rank(s, p[1]) < Rank(s, p[2])}
<1>4. pairs \subseteq Common(b, s) \X Common(b, s) /\ concordant \subseteq pairs
  OBVIOUS
<1>5. KendallTau(b, s) = <<2 * Cardinality(concordant) - Cardinality(pairs), Cardinality(pairs)>>
  BY DEF KendallTau
<1>. HIDE DEF pairs, concordant
<1>6. Cardinality(pairs) \in Nat /\ Cardinality(concordant) \in Nat
  BY <1>3, <1>4, FS_Subset, FS_CardinalityType
<1>. QED
  BY <1>2, <1>5, <1>6

(* Of two rows at most one is the riskier, none is riskier than itself.    *)
LEMMA RiskierAsymmetric ==
  ASSUME NEW a, NEW b, Scored(a), Scored(b), Riskier(a, b)
  PROVE  ~Riskier(b, a)
<1>1. PICK sa, sb \in Int : sa = SeverityOrder[a.severity] /\ sb = SeverityOrder[b.severity]
  BY DEF Scored, SeverityOrder
<1>2. PICK ta, tb : /\ ta = (IF a.tau = NoTau THEN <<1, 1>> ELSE a.tau)
                    /\ tb = (IF b.tau = NoTau THEN <<1, 1>> ELSE b.tau)
  OBVIOUS
<1>3. ta[1] \in Int /\ ta[2] \in Int /\ tb[1] \in Int /\ tb[2] \in Int
  BY <1>2 DEF Scored
<1>4. PICK x, y \in Int : x = ta[1] * tb[2] /\ y = tb[1] * ta[2]
  BY <1>3
<1>5. a.overlap \in Int /\ b.overlap \in Int
  BY DEF Scored
<1>6. \/ sa < sb
      \/ sa = sb /\ a.overlap < b.overlap
      \/ sa = sb /\ a.overlap = b.overlap /\ x < y
  BY <1>1, <1>2, <1>4 DEF Riskier
<1>7. Riskier(b, a) =>
        \/ sb < sa
        \/ sb = sa /\ b.overlap < a.overlap
        \/ sb = sa /\ b.overlap = a.overlap /\ y < x
  BY <1>1, <1>2, <1>4 DEF Riskier
<1>. QED
  BY <1>1, <1>4, <1>5, <1>6, <1>7

(* The rows of a list, ranked.                                             *)
Ranks(n, scored, ranked) ==
  /\ ranked \in [1..n -> 1..n]
  /\ \A i \in 1..n : \E m \in 1..n : ranked[m] = i
  /\ \A i, j \in 1..n : i < j => ~Riskier(scored[ranked[j]], scored[ranked[i]]) /\ ranked[i] # ranked[j]

(* The orders of the rows rank them: as Precedes decides between any two,  *)
(* none is riskier than one before it.                                     *)
LEMMA OrdersRank ==
  ASSUME NEW n \in Nat, NEW table, DOMAIN table = 1..n, \A i \in 1..n : Scored(table[i]),
         NEW ranked \in Orders(table)
  PROVE  Ranks(n, table, ranked)
<1>1. ranked \in [1..n -> 1..n] /\ ToSet(ranked) = 1..n
  BY DEF Orders
<1>2. \A i \in 1..n : \E m \in 1..n : ranked[m] = i
  BY <1>1 DEF ToSet
<1>3. ASSUME NEW i \in 1..n, NEW j \in 1..n, i < j
      PROVE  ~Riskier(table[ranked[j]], table[ranked[i]]) /\ ranked[i] # ranked[j]
  <2>1. PICK x, y \in 1..n : x = ranked[i] /\ y = ranked[j]
    BY <1>1
  <2>2. Riskier(table[x], table[y]) \/ (~Riskier(table[y], table[x]) /\ x < y)
    BY <1>3, <2>1 DEF Orders, Precedes
  <2>3. ~Riskier(table[y], table[x])
    BY <2>2, RiskierAsymmetric
  <2>4. x # y
    BY <2>2, <2>3
  <2>. QED
    BY <2>1, <2>3, <2>4
<1>. QED
  BY <1>1, <1>2, <1>3 DEF Ranks

(* The queries of HIGH risk.                                               *)
High == {i \in DOMAIN rows : rows[i].severity = "HIGH"}

(* compare/rewrite_diff.py: what select_diffs returns has no duplicates,   *)
(* begins with the riskiest, and has all of HIGH risk where they are       *)
(* always wanted.                                                          *)
LEMMA SelectionFacts ==
  ASSUME NEW n \in Nat, DOMAIN rows = 1..n, NEW ranked, Ranks(n, rows, ranked),
         settings.rewrite.max \in Int, NEW sel, sel = SelectDiffs(ranked)
  PROVE  /\ sel \in Seq(1..n) /\ Distinct(sel)
         /\ \A p \in 1..Len(sel) : p <= settings.rewrite.max => p \in 1..n /\ sel[p] = ranked[p]
         /\ \A i \in 1..n : i \notin ToSet(sel) => \E m \in 1..n : ranked[m] = i /\ m > settings.rewrite.max
         /\ settings.rewrite.always => High \subseteq ToSet(sel)
<1>0. PICK S : S = 1..n
  OBVIOUS
<1>1. ranked \in Seq(S) /\ Len(ranked) = n /\ Distinct(ranked) /\ \A i \in S : \E m \in 1..n : ranked[m] = i
  <2>1. ranked \in [1..n -> S]
    BY <1>0 DEF Ranks
  <2>2. ranked \in Seq(S) /\ Len(ranked) = n
    BY <2>1
  <2>3. \A i, j \in 1..n : i < j \/ j < i \/ i = j
    OBVIOUS
  <2>4. Distinct(ranked)
    BY <2>2, <2>3 DEF Ranks, Distinct
  <2>. QED
    BY <1>0, <2>2, <2>4 DEF Ranks
<1>2. PICK max \in Int : max = settings.rewrite.max
  OBVIOUS
<1>3. PICK first : first = FirstOf(ranked, max)
  OBVIOUS
<1>4. /\ first \in Seq(S) /\ \A i \in 1..n : i <= max => i \in 1..Len(first)
      /\ \A i \in 1..Len(first) : i \in 1..n /\ first[i] = ranked[i]
  <2>1. /\ FirstOf(ranked, max) \in Seq(S)
        /\ \A i \in 1..Len(FirstOf(ranked, max)) : i \in 1..Len(ranked) /\ FirstOf(ranked, max)[i] = ranked[i]
        /\ \A i \in 1..Len(ranked) : i <= max => i \in 1..Len(FirstOf(ranked, max))
    <3>1. ranked \in Seq(S) /\ max \in Int
      BY <1>1, <1>2
    <3>. QED
      BY <3>1, FirstOfType, Zenon
  <2>. QED
    BY <1>1, <1>3, <2>1
<1>5. PICK kind : kind = High \ ToSet(first)
  OBVIOUS
<1>6. PICK rest : rest = Within(ranked, kind)
  OBVIOUS
<1>7. rest \in Seq(S) /\ ToSet(rest) = ToSet(ranked) \cap kind
  <2>1. rest \in Seq(S) 
    BY <1>1, <1>6, WithinKeeps
  <2>. QED
    BY <1>1, <1>6, <2>1, WithinType
<1>8. Distinct(rest)
  BY <1>1, <1>6, WithinDistinct
<1>9. Distinct(first)
  BY <1>1, <1>4 DEF Distinct
<1>10. ToSet(first) \cap ToSet(rest) = {}
  BY <1>5, <1>7
<1>11. sel = IF settings.rewrite.always THEN first \o rest ELSE first
  BY <1>2, <1>3, <1>5, <1>6 DEF SelectDiffs, High
<1>12. /\ sel \in Seq(S) /\ ToSet(first) \subseteq ToSet(sel) /\ Distinct(sel)
       /\ \A p \in 1..Len(first) : p \in 1..Len(sel) /\ sel[p] = first[p]
       /\ settings.rewrite.always => ToSet(sel) = ToSet(first) \cup ToSet(rest)
  <2>1. CASE settings.rewrite.always
    <3>1. sel = first \o rest
      BY <1>11, <2>1
    <3>. QED
      BY <1>4, <1>7, <1>8, <1>9, <1>10, <3>1, ConcatFacts
  <2>2. CASE ~settings.rewrite.always
    BY <1>4, <1>9, <1>11, <2>2
  <2>. QED
    BY <2>1, <2>2
<1>13. Len(sel) <= n /\ Len(sel) \in Nat
  <2>1. sel \in [1..Len(sel) -> S] /\ Len(sel) \in Nat
    BY <1>12
  <2>2. sel \in Injection(1..Len(sel), S)
    BY <1>12, <2>1 DEF Injection, IsInjective, Distinct
  <2>3. IsFiniteSet(S) /\ Cardinality(S) = n /\ Cardinality(1..Len(sel)) = Len(sel)
    <3>1. ASSUME NEW m \in Nat PROVE IsFiniteSet(1..m) /\ Cardinality(1..m) = m
      BY FS_Interval
    <3>. QED
      BY <1>0, <2>1, <3>1
  <2>. QED
    BY <2>1, <2>2, <2>3, FS_Injection
<1>14. \A p \in 1..Len(sel) : p <= max => p \in 1..Len(first)
  BY <1>4, <1>13
<1>15. ASSUME NEW i \in S, i \notin ToSet(sel) PROVE \E m \in 1..n : ranked[m] = i /\ m > max
  <2>1. PICK m \in 1..n : ranked[m] = i
    BY <1>1
  <2>2. m \in 1..Len(first) => i \in ToSet(first)
    BY <1>4, <2>1, ToSetIs
  <2>3. m > max
    BY <1>4, <1>12, <1>15, <2>2
  <2>. QED
    BY <2>1, <2>3
<1>16. settings.rewrite.always => High \subseteq ToSet(sel)
  <2>1. High \subseteq ToSet(ranked)
    <3>1. \A i \in High : i \in S
      BY <1>0 DEF High
    <3>. QED
      BY <1>1, <3>1, ToSetIs
  <2>. QED
    BY <1>5, <1>7, <1>12, <2>1
<1>. QED
  BY <1>0, <1>2, <1>4, <1>12, <1>14, <1>15, <1>16

-----------------------------------------------------------------------------
(* Every row has its scores.                                               *)
LEMMA RowsScored ==
  ASSUME Given, ReplayInv, stage \in Compared, NEW i \in Queries
  PROVE  Scored(rows[i])
<1>1. PICK row \in DiffRows(Baseline(replayed, i), Shadow(replayed, i), settings.k) :
        rows[i] = Flagged(row, rows[i].flags)
  BY RowsOfReplay
<1>2. Baseline(replayed, i).docs \in Seq(Nat) /\ Shadow(replayed, i).docs \in Seq(Nat) /\ settings.k \in Int
  BY SidesReplayed, RepliesHaveDocs, WellFormedSettings DEF WellFormed
<1>3. PICK r, base, shadow1, k : r = rows[i] /\ base = Baseline(replayed, i) /\ shadow1 = Shadow(replayed, i)
                              /\ k = settings.k
  OBVIOUS
<1>4. PICK b, s, flags : b = FirstOf(base.docs, k) /\ s = FirstOf(shadow1.docs, k) /\ flags = r.flags
  OBVIOUS
<1>5. b \in Seq(Nat) /\ s \in Seq(Nat)
  BY <1>2, <1>3, <1>4, FirstOfType
<1>6. row \in DiffRows(base, shadow1, k) /\ r = Flagged(row, flags)
  BY <1>1, <1>3, <1>4
<1>7. /\ r.overlap = Overlap(b, s) /\ r.tau = KendallTau(b, s)
      /\ ErrorFlags(base, shadow1) = {} => r.severity = Risk(Overlap(b, s), KendallTau(b, s), k)
      /\ ErrorFlags(base, shadow1) # {} => r.severity = "HIGH"
  BY <1>4, <1>6, RowFacts
<1>8. r.severity \in {"HIGH", "MEDIUM", "LOW"}
  BY <1>7 DEF Risk
<1>9. r.overlap \in Nat /\ \E x, y \in Int : r.tau = <<x, y>>
  BY <1>5, <1>7, ScoresType
<1>. QED
  BY <1>3, <1>8, <1>9 DEF Scored

(* The orders of the run's rows rank them.                                 *)
LEMMA RowsRanked ==
  ASSUME Given, ReplayInv, stage \in Compared, NEW ranked \in Orders(rows)
  PROVE  /\ DOMAIN rows = 1..Len(cases) /\ Queries = 1..Len(cases) /\ Len(cases) \in Nat
         /\ Ranks(Len(cases), rows, ranked)
<1>1. DOMAIN rows = 1..Len(cases) /\ Queries = 1..Len(cases) /\ Len(cases) \in Nat
  BY DEF ReplayInv, Queries
<1>2. \A i \in 1..Len(cases) : Scored(rows[i])
  BY <1>1, RowsScored
<1>3. PICK n, table : n = Len(cases) /\ table = rows
  BY <1>1
<1>4. Ranks(n, table, ranked)
  BY <1>1, <1>2, <1>3, OrdersRank
<1>. QED
  BY <1>1, <1>3, <1>4

(* New flags change nothing of the order.                                  *)
LEMMA FlagsKeepScores ==
  ASSUME NEW base, NEW shadow1, NEW k, NEW row \in DiffRows(base, shadow1, k), NEW flags
  PROVE  LET r == Flagged(row, flags)
         IN  /\ r.severity = row.severity /\ r.overlap = row.overlap /\ r.tau = row.tau
             /\ r.base = row.base /\ r.shadow = row.shadow
             /\ r.moved = row.moved /\ r.dropped = row.dropped /\ r.new = row.new
<1>1. PICK b, s, overlap, tau, moved, dropped, new, facets, severity, own :
        row = [base |-> b, shadow |-> s, overlap |-> overlap, tau |-> tau, moved |-> moved, dropped |-> dropped,
               new |-> new, facets |-> facets, severity |-> severity, flags |-> own]
  BY DEF DiffRows
<1>. QED
  BY <1>1 DEF Flagged

(* Of the rows, what is looked at after the flags have been merged.        *)
RowsKept ==
  /\ DOMAIN rows' = DOMAIN rows
  /\ \A i \in DOMAIN rows :
       /\ rows'[i].severity = rows[i].severity /\ rows'[i].overlap = rows[i].overlap /\ rows'[i].tau = rows[i].tau
       /\ rows'[i].base = rows[i].base /\ rows'[i].shadow = rows[i].shadow
       /\ rows'[i].moved = rows[i].moved /\ rows'[i].dropped = rows[i].dropped /\ rows'[i].new = rows[i].new

(* Merging the flags keeps everything else of the rows.                    *)
LEMMA EndRewritesKeepsRows ==
  ASSUME ReplayInv, EndRewrites
  PROVE  RowsKept
<1>1. stage = "rewrite_diff" /\ rows' = [i \in Queries |-> Flagged(rows[i], MergedFlags(i, rewrites'))]
  BY Zenon DEF EndRewrites, Flagged
<1>2. DOMAIN rows = Queries /\ stage \in Compared
  BY <1>1 DEF ReplayInv, Compared
<1>3. ASSUME NEW i \in Queries
      PROVE  /\ rows'[i].severity = rows[i].severity /\ rows'[i].overlap = rows[i].overlap
             /\ rows'[i].tau = rows[i].tau /\ rows'[i].base = rows[i].base /\ rows'[i].shadow = rows[i].shadow
             /\ rows'[i].moved = rows[i].moved /\ rows'[i].dropped = rows[i].dropped /\ rows'[i].new = rows[i].new
  <2>1. PICK row \in DiffRows(Baseline(replayed, i), Shadow(replayed, i), settings.k) :
          rows[i] = Flagged(row, rows[i].flags)
    BY <1>2, RowsOfReplay
  <2>2. PICK flags, more : rows[i] = Flagged(row, flags) /\ rows'[i] = Flagged(rows[i], more)
    BY <1>1, <2>1
  <2>3. rows'[i] = Flagged(row, more)
    BY <2>2, RowIsRecord
  <2>. QED
    BY <2>2, <2>3, FlagsKeepScores
<1>. QED
  BY <1>1, <1>2, <1>3 DEF RowsKept

(* So it keeps their order.                                                *)
LEMMA OrdersKept ==
  ASSUME RowsKept
  PROVE  Orders(rows)' = Orders(rows) /\ High' = High
<1>1. \A i, j \in DOMAIN rows : Riskier(rows'[i], rows'[j]) = Riskier(rows[i], rows[j])
  BY DEF RowsKept, Riskier
<1>2. \A i, j \in DOMAIN rows : Precedes(rows', i, j) = Precedes(rows, i, j)
  BY <1>1 DEF Precedes
<1>3. Orders(rows') = Orders(rows)
  BY <1>2 DEF Orders, RowsKept
<1>. QED
  BY <1>3 DEF High, RowsKept

-----------------------------------------------------------------------------
(* Once there are rows, only the comparison goes on with them.             *)
LEMMA ComparedCourse ==
  ASSUME ReplayInv, [Next]_vars, stage \in Compared
  PROVE  /\ stage' \in Compared /\ UNCHANGED <<settings, cases, replayed>> /\ ~Compare /\ ~Replay
         /\ \/ ComparisonNext
            \/ UNCHANGED comparisonVars /\ (UNCHANGED stage \/ (stage = "scenario_replay" /\ stage' = "rewrite_diff"))
<1>. USE DEF Compared
<1>0. ~Compare /\ ~Replay
  BY DEF Compare, Replay
<1>1. CASE UNCHANGED vars
  BY <1>0, <1>1 DEF vars, comparisonVars
<1>2. CASE Over
  BY <1>0, <1>2 DEF Over, vars, comparisonVars
<1>3. CASE IntakeNext
  BY <1>3, IntakeCourse DEF Intaking, Outset
<1>4. CASE VectorNext /\ UNCHANGED <<intakeVars, comparisonVars>>
  <2>1. UNCHANGED <<settings, cases, replayed>>
    BY <1>4, VectorCourse DEF request, comparisonVars
  <2>. QED
    BY <1>0, <1>4, <2>1, VectorCourse
<1>5. CASE ComparisonNext
  <2>1. /\ stage' \in Compared /\ UNCHANGED <<settings, cases, replayed>>
    BY <1>5 DEF ComparisonNext, Replay, Compare, SelectRewrites, FetchRewrite, EndRewrites, SelectExplains,
                FetchExplain, EvaluateGate, request, Enter
  <2>. QED
    BY <1>0, <1>5, <2>1
<1>. QED
  BY <1>1, <1>2, <1>3, <1>4, <1>5 DEF Next

(* The queries selected are those of one order of the rows as they are     *)
(* now.                                                                    *)
Selection == selected # <<>> => stage \in Compared /\ \E ranked \in Orders(rows) : selected = SelectDiffs(ranked)

(* The selection depends on the settings and on the queries of HIGH risk   *)
(* only.                                                                   *)
LEMMA SelectDiffsKept ==
  ASSUME UNCHANGED settings, High' = High, NEW ranked
  PROVE  SelectDiffs(ranked)' = SelectDiffs(ranked)
BY DEF SelectDiffs, High

(* The invariant is inductive: flags that are merged later change nothing  *)
(* of the selection.                                                       *)
LEMMA SelectionStep ==
  ASSUME ReplayInv, Selection, [Next]_vars
  PROVE  Selection'
<1>1. CASE stage \notin Compared
  <2>1. selected = <<>>
    BY <1>1 DEF ReplayInv, NothingCompared, Untouched, Compared, Intaking, Outset, Stages
  <2>2. ~SelectRewrites /\ ~FetchRewrite /\ ~EndRewrites /\ ~SelectExplains /\ ~FetchExplain /\ ~EvaluateGate
    BY <1>1 DEF SelectRewrites, FetchRewrite, EndRewrites, SelectExplains, FetchExplain, EvaluateGate, Compared
  <2>3. UNCHANGED selected
    BY <2>2 DEF Next, Over, vars, comparisonVars, ComparisonNext, Replay, Compare
  <2>. QED
    BY <2>1, <2>3 DEF Selection
<1>2. CASE stage \in Compared
  <2>0. stage' \in Compared /\ UNCHANGED settings
    BY <1>2, ComparedCourse
  <2>1. CASE EndRewrites
    <3>1. Orders(rows)' = Orders(rows) /\ High' = High /\ UNCHANGED selected
      BY <2>1, EndRewritesKeepsRows, OrdersKept DEF EndRewrites
    <3>2. \A ranked : SelectDiffs(ranked)' = SelectDiffs(ranked)
      BY <2>0, <3>1, SelectDiffsKept
    <3>. QED
      BY <2>0, <3>1, <3>2 DEF Selection
  <2>2. CASE SelectRewrites
    <3>1. UNCHANGED rows
      BY <2>2 DEF SelectRewrites
    <3>2. Orders(rows)' = Orders(rows) /\ High' = High
      BY <3>1 DEF High
    <3>3. \A ranked : SelectDiffs(ranked)' = SelectDiffs(ranked)
      BY <2>0, <3>2, SelectDiffsKept
    <3>4. selected' # <<>> => \E ranked \in Orders(rows) : selected' = SelectDiffs(ranked)
      BY <2>2 DEF SelectRewrites
    <3>. QED
      BY <2>0, <3>2, <3>3, <3>4 DEF Selection
  <2>3. CASE ~EndRewrites /\ ~SelectRewrites
    <3>1. UNCHANGED <<selected, rows>>
      BY <1>2, <2>3, ComparedCourse
         DEF ComparisonNext, FetchRewrite, SelectExplains, FetchExplain, EvaluateGate, comparisonVars
    <3>2. Orders(rows)' = Orders(rows) /\ High' = High
      BY <3>1 DEF High
    <3>3. \A ranked : SelectDiffs(ranked)' = SelectDiffs(ranked)
      BY <2>0, <3>2, SelectDiffsKept
    <3>. QED
      BY <2>0, <3>1, <3>2, <3>3 DEF Selection
  <2>. QED
    BY <2>1, <2>2, <2>3
<1>. QED
  BY <1>1, <1>2

(* compare/rewrite_diff.py: with always_for_high_risk each query of HIGH   *)
(* risk is selected exactly once, whatever max_queries is, and no query    *)
(* left out is riskier than one selected within max_queries: for every     *)
(* list of rows, ties in the order included.                               *)
THEOREM RiskiestAreRewritten == Spec => []HighRiskIsRewritten
<1>1. Init => Given /\ ReplayInv /\ Selection
  BY InitReplay DEF Init, Given, ComparisonInit, Selection
<1>2. Given /\ ReplayInv /\ Selection /\ [Next]_vars => (Given /\ ReplayInv /\ Selection)'
  BY ReplayStep, SelectionStep, NextKeepsGiven
<1>3. Given /\ ReplayInv /\ Selection => HighRiskIsRewritten
  <2>1. SUFFICES ASSUME Given, ReplayInv, Selection, selected # <<>>
                 PROVE  HighRiskIsRewritten
    BY DEF HighRiskIsRewritten
  <2>2. PICK ranked \in Orders(rows) : selected = SelectDiffs(ranked)
    BY <2>1 DEF Selection
  <2>3. PICK n \in Nat : n = Len(cases) /\ DOMAIN rows = 1..n /\ Queries = 1..n /\ Ranks(n, rows, ranked)
    BY <2>1, RowsRanked DEF Selection
  <2>4. PICK max \in Int : max = settings.rewrite.max
    BY <2>1, WellFormedSettings DEF WellFormed
  <2>5. PICK sel : sel = selected
    OBVIOUS
  <2>6. /\ sel \in Seq(1..n) /\ Distinct(sel)
        /\ \A p \in 1..Len(sel) : p <= max => p \in 1..n /\ sel[p] = ranked[p]
        /\ \A i \in 1..n : i \notin ToSet(sel) => \E m \in 1..n : ranked[m] = i /\ m > max
        /\ settings.rewrite.always => High \subseteq ToSet(sel)
    BY <2>2, <2>3, <2>4, <2>5, SelectionFacts
  <2>7. ASSUME settings.rewrite.always, NEW i \in DOMAIN rows, rows[i].severity = "HIGH"
        PROVE  Cardinality({p \in DOMAIN sel : sel[p] = i}) = 1
    <3>1. PICK p \in 1..Len(sel) : sel[p] = i
      BY <2>6, <2>7, ToSetIs DEF High
    <3>2. {q \in DOMAIN sel : sel[q] = i} = {p}
      BY <2>6, <3>1 DEF Distinct
    <3>. QED
      BY <3>2, FS_Singleton
  <2>8. ASSUME NEW i \in Queries \ ToSet(sel), NEW p \in DOMAIN sel, p <= max
        PROVE  ~Riskier(rows[i], rows[sel[p]])
    <3>1. p \in 1..n /\ sel[p] = ranked[p]
      BY <2>6, <2>8
    <3>2. PICK m \in 1..n : ranked[m] = i /\ m > max
      BY <2>3, <2>6, <2>8
    <3>3. p < m
      BY <2>4, <2>8, <3>1, <3>2
    <3>. QED
      BY <2>3, <3>1, <3>2, <3>3 DEF Ranks
  <2>. QED
    BY <2>4, <2>5, <2>7, <2>8 DEF HighRiskIsRewritten
<1>. QED
  BY <1>1, <1>2, <1>3, PTL DEF Spec

-----------------------------------------------------------------------------
(* The flag that tells of another parsed query.                            *)
Shape == "PARSED_QUERY_SHAPE_CHANGED"

(* An answer to a rewrite request tells the query as it is rewritten, or   *)
(* where the side does not show it as text, nothing.                       *)
Honest(n) ==
  ~fetched[n].error /\ Readable(Side(n)) => fetched[n].text = cases[selected[(n + 1) \div 2]].text[Side(n)]

(* A side is asked again just where its first report shows nothing.        *)
RetriesBlank == retrying => settings.rewrite.reports[Side(Len(fetched) + 1)][settings.rewrite.mode] = {}

(* The rewrite answers come in order, and none is there before queries are *)
(* selected.                                                               *)
Fetching ==
  /\ RetriesBlank
  /\ \E S : fetched \in Seq(S)
  /\ \A n \in 1..Len(fetched) : Honest(n)
  /\ selected = <<>> => fetched = <<>> /\ ~retrying

(* The report has one entry for each of the selected queries, made of its  *)
(* two answers, and the rows have its flags.                               *)
Merged ==
  /\ stage \in {"explain", "gate", "done"} /\ Len(fetched) = 2 * Len(selected)
  /\ rewrites = [n \in DOMAIN selected |-> PerQuery(n)]
  /\ \A n \in DOMAIN selected : rewrites[n].flags \subseteq rows[selected[n]].flags
  /\ \A i \in Queries : Shape \in rows[i].flags => \E n \in DOMAIN selected : selected[n] = i /\ Shape \in rewrites[n].flags

(* No row has the flag before the report is there.                         *)
Unmerged == stage \in Compared => \A i \in Queries : Shape \notin rows[i].flags

(* The inductive invariant.                                                *)
FlagsInv == Fetching /\ (IF rewrites = <<>> THEN Unmerged ELSE Merged)

(* DiffRows sets other flags.                                              *)
LEMMA RowFlags ==
  ASSUME NEW base, NEW shadow1, NEW k, NEW row \in DiffRows(base, shadow1, k)
  PROVE  Shape \notin row.flags
<1>1. PICK b, s, overlap, tau, moved, dropped, new, facets, severity :
        row = [base |-> b, shadow |-> s, overlap |-> overlap, tau |-> tau, moved |-> moved, dropped |-> dropped,
               new |-> new, facets |-> facets, severity |-> severity,
               flags |-> RiskFlags(overlap, tau, k) \cup ErrorFlags(base, shadow1)]
  BY DEF DiffRows
<1>. QED
  BY <1>1 DEF Shape, RiskFlags, ErrorFlags

(* One more answer, or a retry.                                            *)
LEMMA FetchKeepsFlags ==
  ASSUME ReplayInv, FlagsInv, FetchRewrite
  PROVE  FlagsInv'
<1>1. /\ UNCHANGED <<settings, stage, cases, rows, selected, rewrites>>
      /\ stage = "rewrite_diff" /\ selected # <<>>
  BY DEF FetchRewrite, request
<1>2. rewrites = <<>> /\ Unmerged
  BY <1>1 DEF FlagsInv, Merged
<1>3. Unmerged'
  BY <1>1, <1>2 DEF Unmerged, Queries
<1>4. PICK side, shown : side = Side(Len(fetched) + 1) /\ shown = settings.rewrite.reports[side][DebugMode]
  OBVIOUS
<1>6. CASE shown = {} /\ ~retrying /\ retrying' = TRUE /\ UNCHANGED fetched
  <2>1. RetriesBlank'
    BY <1>1, <1>4, <1>6 DEF RetriesBlank, DebugMode
  <2>2. Fetching'
    BY <1>1, <1>6, <2>1 DEF FlagsInv, Fetching, Honest, Readable
  <2>. QED
    BY <1>1, <1>2, <1>3, <2>2 DEF FlagsInv
<1>5. CASE \/ fetched' = Append(fetched, [error |-> TRUE, text |-> {}]) /\ retrying' = FALSE
           \/ /\ shown # {} \/ retrying
              /\ fetched' = Append(fetched,
                              [error |-> FALSE,
                               text  |-> IF "parsedquery_toString" \in shown
                                         THEN cases[selected[((Len(fetched) + 1) + 1) \div 2]].text[side] ELSE {}])
              /\ retrying' = FALSE
  <2>1. PICK entry :
          /\ fetched' = Append(fetched, entry)
          /\ ~entry.error /\ Readable(Side(Len(fetched) + 1)) =>
               entry.text = cases[selected[((Len(fetched) + 1) + 1) \div 2]].text[Side(Len(fetched) + 1)]
    <3>1. CASE fetched' = Append(fetched, [error |-> TRUE, text |-> {}])
      BY <3>1
    <3>2. CASE shown # {} \/ retrying
      <4>1. Readable(side) => "parsedquery_toString" \in shown
        <5>1. CASE retrying
          BY <1>4, <5>1 DEF Readable, DebugMode, FlagsInv, Fetching, RetriesBlank
        <5>2. CASE ~retrying
          BY <1>4, <3>2, <5>2 DEF Readable, DebugMode
        <5>. QED
          BY <5>1, <5>2
      <4>. QED
        BY <1>4, <1>5, <3>1, <4>1
    <3>. QED
      BY <1>5, <3>1, <3>2
  <2>2. PICK S : fetched \in Seq(S)
    BY DEF FlagsInv, Fetching
  <2>3. fetched' \in Seq(S \cup {entry})
    BY <2>1, <2>2
  <2>4. /\ Len(fetched') = Len(fetched) + 1 /\ Len(fetched) \in Nat /\ fetched'[Len(fetched) + 1] = entry
        /\ \A n \in 1..Len(fetched) : fetched'[n] = fetched[n]
    BY <2>1, <2>2
  <2>5. ASSUME NEW n \in 1..Len(fetched') PROVE Honest(n)'
    <3>1. CASE n \in 1..Len(fetched)
      BY <1>1, <2>4, <3>1 DEF FlagsInv, Fetching, Honest, Readable
    <3>2. CASE n = Len(fetched) + 1
      <4>1. fetched'[n] = entry
        BY <2>4, <3>2
      <4>2. ~entry.error /\ Readable(Side(n)) => entry.text = cases[selected[(n + 1) \div 2]].text[Side(n)]
        BY <2>1, <3>2
      <4>. QED
        BY <1>1, <4>1, <4>2 DEF Honest, Readable
    <3>. QED
      BY <2>4, <3>1, <3>2
  <2>6. Fetching'
    BY <1>1, <1>5, <2>3, <2>5 DEF Fetching, RetriesBlank
  <2>. QED
    BY <1>1, <1>2, <1>3, <2>6 DEF FlagsInv
<1>. QED
  BY <1>4, <1>5, <1>6 DEF FetchRewrite

(* The selected queries are queries, none twice.                           *)
LEMMA SelectedType ==
  ASSUME Given, ReplayInv, Selection
  PROVE  selected \in Seq(Queries) /\ Distinct(selected)
<1>1. CASE selected = <<>>
  BY <1>1 DEF Distinct
<1>2. CASE selected # <<>>
  <2>2. PICK ranked \in Orders(rows) : selected = SelectDiffs(ranked)
    BY <1>2 DEF Selection
  <2>3. PICK n \in Nat : n = Len(cases) /\ DOMAIN rows = 1..n /\ Queries = 1..n /\ Ranks(n, rows, ranked)
    BY <1>2, RowsRanked DEF Selection
  <2>4. settings.rewrite.max \in Int
    BY WellFormedSettings DEF WellFormed
  <2>5. PICK sel : sel = selected
    OBVIOUS
  <2>6. sel \in Seq(1..n) /\ Distinct(sel)
    BY <2>2, <2>3, <2>4, <2>5, SelectionFacts
  <2>. QED
    BY <2>3, <2>5, <2>6
<1>. QED
  BY <1>1, <1>2

(* The report is made and its flags are merged.                            *)
LEMMA EndKeepsFlags ==
  ASSUME Given, ReplayInv, Selection, FlagsInv, EndRewrites
  PROVE  FlagsInv'
<1>1. /\ stage = "rewrite_diff" /\ stage' = "explain" /\ selected # <<>> /\ Len(fetched) = 2 * Len(selected)
      /\ rewrites' = [n \in DOMAIN selected |-> PerQuery(n)]
      /\ rows' = [i \in Queries |-> Flagged(rows[i], MergedFlags(i, rewrites'))]
      /\ UNCHANGED <<settings, cases, selected, fetched, retrying>>
  BY Zenon DEF EndRewrites, Enter, request, Flagged
<1>2. rewrites = <<>> /\ Unmerged /\ Fetching
  BY <1>1 DEF FlagsInv, Merged
<1>3. Fetching'
  BY <1>1, <1>2 DEF Fetching, RetriesBlank, Honest, Readable
<1>4. \A i \in Queries : rows'[i].flags = MergedFlags(i, rewrites')
  <2>1. SUFFICES ASSUME NEW i \in Queries PROVE rows'[i].flags = MergedFlags(i, rewrites')
    OBVIOUS
  <2>2. PICK row \in DiffRows(Baseline(replayed, i), Shadow(replayed, i), settings.k) :
          rows[i] = Flagged(row, rows[i].flags)
    BY <1>1, RowsOfReplay DEF Compared
  <2>3. PICK flags, more : rows[i] = Flagged(row, flags) /\ rows'[i] = Flagged(rows[i], more)
                           /\ more = MergedFlags(i, rewrites')
    BY <1>1, <2>2
  <2>4. rows'[i] = Flagged(row, more)
    BY <2>3, RowIsRecord
  <2>. QED
    BY <2>3, <2>4, RowIsRecord
<1>5. PICK sel : sel = selected /\ sel \in Seq(Queries) /\ sel # <<>>
  BY <1>1, SelectedType
<1>6. PICK report : report = rewrites' /\ report = [n \in DOMAIN sel |-> PerQuery(n)]
  BY <1>1, <1>5
<1>7. \A n \in DOMAIN sel : sel[n] \in Queries /\ report[n].query = sel[n]
  BY <1>5, <1>6 DEF PerQuery
<1>8. ASSUME NEW n \in DOMAIN sel PROVE report[n].flags \subseteq rows'[sel[n]].flags
  <2>1. n \in {m \in DOMAIN report : report[m].query = sel[n]}
    BY <1>6, <1>7
  <2>2. report[n].flags \subseteq MergedFlags(sel[n], report)
    BY <2>1 DEF MergedFlags
  <2>. QED
    BY <1>4, <1>6, <1>7, <2>2
<1>9. ASSUME NEW i \in Queries, Shape \in rows'[i].flags
      PROVE  \E n \in DOMAIN sel : sel[n] = i /\ Shape \in report[n].flags
  <2>1. Shape \in MergedFlags(i, report) /\ Shape \notin rows[i].flags
    BY <1>1, <1>2, <1>4, <1>6, <1>9 DEF Unmerged, Compared
  <2>2. PICK n \in {m \in DOMAIN report : report[m].query = i} : Shape \in report[n].flags
    BY <2>1 DEF MergedFlags
  <2>. QED
    BY <1>6, <1>7, <2>2
<1>10. report # <<>>
  <2>1. 1 \in DOMAIN report
    BY <1>5, <1>6
  <2>. QED
    BY <2>1
<1>11. \A n : PerQuery(n)' = PerQuery(n)
  BY <1>1 DEF PerQuery, RewriteFlags
<1>12. Merged'
  <2>1. /\ stage' \in {"explain", "gate", "done"} /\ Len(fetched') = 2 * Len(selected')
    BY <1>1
  <2>2. rewrites' = [n \in DOMAIN selected' |-> PerQuery(n)']
    BY <1>1, <1>11
  <2>3. Queries' = Queries
    BY <1>1 DEF Queries
  <2>. QED
    BY <1>1, <1>5, <1>6, <1>8, <1>9, <2>1, <2>2, <2>3 DEF Merged
<1>. QED
  BY <1>3, <1>6, <1>10, <1>12 DEF FlagsInv

(* Rows as they are made do not have the flag.                             *)
LEMMA CompareKeepsFlags ==
  ASSUME ReplayInv, FlagsInv, Compare
  PROVE  FlagsInv'
<1>1. /\ stage = "compare" /\ UNCHANGED <<cases, settings, selected, fetched, retrying, rewrites>>
      /\ \A i \in Queries : rows'[i] \in DiffRows(Baseline(replayed, i), Shadow(replayed, i), settings.k)
  BY SelectionsAre DEF Compare, request
<1>2. rewrites = <<>>
  BY <1>1 DEF ReplayInv, Untouched
<1>3. Fetching'
  BY <1>1 DEF FlagsInv, Fetching, RetriesBlank, Honest, Readable
<1>4. \A i \in Queries' : Shape \notin rows'[i].flags
  BY <1>1, RowFlags DEF Queries
<1>. QED
  BY <1>1, <1>2, <1>3, <1>4 DEF FlagsInv, Unmerged

(* The invariant is inductive.                                             *)
LEMMA FlagsStep ==
  ASSUME Given, ReplayInv, Selection, FlagsInv, [Next]_vars
  PROVE  FlagsInv'
<1>1. CASE Compare
  BY <1>1, CompareKeepsFlags
<1>2. CASE stage \notin Compared /\ ~Compare
  <2>1. fetched = <<>> /\ selected = <<>> /\ rewrites = <<>> /\ ~retrying
    BY <1>2 DEF FlagsInv, Fetching, ReplayInv, NothingCompared, Untouched, Compared, Intaking, Outset, Stages
  <2>2. ~SelectRewrites /\ ~FetchRewrite /\ ~EndRewrites /\ ~SelectExplains /\ ~FetchExplain /\ ~EvaluateGate
    BY <1>2 DEF SelectRewrites, FetchRewrite, EndRewrites, SelectExplains, FetchExplain, EvaluateGate, Compared
  <2>3. UNCHANGED <<selected, fetched, rewrites>> /\ ~retrying'
    BY <1>2, <2>1, <2>2 DEF Next, Over, vars, comparisonVars, ComparisonNext, Replay
  <2>4. stage' \notin Compared
    <3>1. CASE Replay
      BY <3>1 DEF Replay, Enter, Compared
    <3>2. CASE IntakeNext
      BY <3>2, IntakeCourse DEF Intaking, Outset, Compared
    <3>3. CASE VectorNext
      BY <1>2, <3>3, VectorCourse DEF Compared
    <3>. QED
      BY <1>2, <2>2, <3>1, <3>2, <3>3 DEF Next, Over, vars, ComparisonNext
  <2>5. Fetching'
    BY <2>1, <2>3 DEF Fetching, RetriesBlank
  <2>. QED
    BY <2>1, <2>3, <2>4, <2>5 DEF FlagsInv, Unmerged
<1>3. CASE stage \in Compared
  <2>0. stage' \in Compared /\ UNCHANGED <<settings, cases>>
    BY <1>3, ComparedCourse
  <2>1. CASE FetchRewrite
    BY <2>1, FetchKeepsFlags
  <2>2. CASE EndRewrites
    BY <2>2, EndKeepsFlags
  <2>3. CASE SelectRewrites
    <3>1. selected = <<>> /\ UNCHANGED <<rows, fetched, retrying, rewrites>> /\ stage = "rewrite_diff"
      BY <2>3 DEF SelectRewrites
    <3>2. fetched = <<>> /\ rewrites = <<>> /\ Unmerged
      BY <3>1 DEF FlagsInv, Fetching, Merged
    <3>3. Fetching'
      BY <2>0, <3>1, <3>2 DEF FlagsInv, Fetching, RetriesBlank
    <3>4. Unmerged'
      BY <1>3, <2>0, <3>1, <3>2 DEF Unmerged, Queries
    <3>. QED
      BY <3>1, <3>2, <3>3, <3>4 DEF FlagsInv
  <2>4. CASE ~FetchRewrite /\ ~EndRewrites /\ ~SelectRewrites
    <3>1. UNCHANGED <<selected, rows, fetched, retrying, rewrites>>
          /\ (stage \in {"explain", "gate", "done"} => stage' \in {"explain", "gate", "done"})
      BY <1>3, <2>4, ComparedCourse
         DEF ComparisonNext, SelectExplains, FetchExplain, EvaluateGate, comparisonVars, Enter
    <3>2. Fetching'
      BY <2>0, <3>1 DEF FlagsInv, Fetching, RetriesBlank, Honest, Readable
    <3>3. Unmerged => Unmerged'
      BY <1>3, <2>0, <3>1 DEF Unmerged, Queries
    <3>4. \A n : PerQuery(n)' = PerQuery(n)
      BY <2>0, <3>1 DEF PerQuery, RewriteFlags
    <3>5. Merged => Merged'
      BY <2>0, <3>1, <3>4 DEF Merged, Queries
    <3>. QED
      BY <3>1, <3>2, <3>3, <3>5 DEF FlagsInv
  <2>. QED
    BY <2>1, <2>2, <2>3, <2>4
<1>. QED
  BY <1>1, <1>2, <1>3

(* compare/rewrite_diff.py: both answers of a query looked at.             *)
LEMMA BothAnswers ==
  ASSUME FlagsInv, rewrites # <<>>, selected \in Seq(Queries), NEW n \in DOMAIN selected
  PROVE  /\ Readable("baseline") /\ ~Baseline(fetched, n).error =>
              Baseline(fetched, n).text = cases[selected[n]].text["baseline"]
         /\ Readable("shadow") /\ ~Shadow(fetched, n).error =>
              Shadow(fetched, n).text = cases[selected[n]].text["shadow"]
<1>1. n \in 1..Len(selected) /\ Len(selected) \in Nat /\ Len(fetched) = 2 * Len(selected)
  BY DEF FlagsInv, Merged
<1>2. /\ 2 * n - 1 \in 1..Len(fetched) /\ ((2 * n - 1) + 1) \div 2 = n /\ (2 * n - 1) % 2 = 1
      /\ 2 * n \in 1..Len(fetched) /\ (2 * n + 1) \div 2 = n /\ (2 * n) % 2 = 0
  <2>1. PICK k \in Nat : k = n /\ k # 0 /\ 2 * k <= Len(fetched) /\ Len(fetched) \in Nat
    BY <1>1
  <2>2. /\ 2 * k - 1 \in 1..Len(fetched) /\ ((2 * k - 1) + 1) \div 2 = k /\ (2 * k - 1) % 2 = 1
        /\ 2 * k \in 1..Len(fetched) /\ (2 * k + 1) \div 2 = k /\ (2 * k) % 2 = 0
    <3>1. 2 * k - 1 \in 1..Len(fetched) /\ 2 * k \in 1..Len(fetched)
      BY <2>1
    <3>2. ((2 * k - 1) + 1) \div 2 = k
      BY <2>1
    <3>5. (2 * k + 1) \div 2 = k
      BY <2>1
    <3>3. (2 * k) % 2 = 0
      BY <2>1
    <3>4. (2 * k - 1) % 2 = 1
      BY <2>1
    <3>. QED
      BY <3>1, <3>2, <3>3, <3>4, <3>5
  <2>. QED
    BY <2>1, <2>2
<1>3. Honest(2 * n - 1) /\ Honest(2 * n)
  BY <1>2 DEF FlagsInv, Fetching
<1>4. Side(2 * n - 1) = "baseline" /\ Side(2 * n) = "shadow"
  BY <1>2 DEF Side
<1>. QED
  BY <1>2, <1>3, <1>4 DEF Honest, Baseline, Shadow

(* They hold at the start.                                                 *)
LEMMA InitFlags ==
  ASSUME Init
  PROVE  Given /\ ReplayInv /\ Selection /\ FlagsInv
<1>1. fetched = <<>> /\ selected = <<>> /\ rewrites = <<>> /\ stage = "validate" /\ ~retrying
  BY DEF Init, ComparisonInit
<1>2. Fetching
  <2>1. <<>> \in Seq({}) /\ Len(<<>>) = 0
    OBVIOUS
  <2>. QED
    BY <1>1, <2>1 DEF Fetching, RetriesBlank
<1>3. FlagsInv
  BY <1>1, <1>2 DEF FlagsInv, Unmerged, Compared
<1>. QED
  BY <1>1, <1>3, InitReplay DEF Init, Given, Selection

(* runtime/post_compare_service.py: the flags of a rewrite report are in   *)
(* the row of its query, and where both sides answered and can show the    *)
(* parsed query as text, the row has PARSED_QUERY_SHAPE_CHANGED if and     *)
(* only if the queries as rewritten differ, whichever answers had to be    *)
(* asked for again.                                                        *)
THEOREM FlagsTellTheTruth == Spec => []RewriteFlagsTruthful
<1>1. Init => Given /\ ReplayInv /\ Selection /\ FlagsInv
  BY InitFlags
<1>2. Given /\ ReplayInv /\ Selection /\ FlagsInv /\ [Next]_vars => (Given /\ ReplayInv /\ Selection /\ FlagsInv)'
  BY ReplayStep, SelectionStep, FlagsStep, NextKeepsGiven
<1>3. Given /\ ReplayInv /\ Selection /\ FlagsInv => RewriteFlagsTruthful
  <2>1. SUFFICES ASSUME Given, ReplayInv, Selection, FlagsInv, NEW n \in DOMAIN rewrites
                 PROVE  LET i == rewrites[n].query
                            text == cases[i].text
                        IN  /\ rewrites[n].flags \subseteq rows[i].flags
                            /\ (rewrites[n].errors = {} /\ Readable("baseline") /\ Readable("shadow")) =>
                                 (Shape \in rows[i].flags <=> text["baseline"] # text["shadow"])
    BY DEF RewriteFlagsTruthful, Shape
  <2>2. rewrites # <<>> /\ Merged
    <3>1. rewrites # <<>>
      BY <2>1
    <3>. QED
      BY <2>1, <3>1 DEF FlagsInv
  <2>3. selected \in Seq(Queries) /\ Distinct(selected)
    BY <2>1, SelectedType
  <2>4. n \in DOMAIN selected /\ rewrites[n] = PerQuery(n) /\ selected[n] \in Queries
    BY <2>1, <2>2, <2>3 DEF Merged
  <2>5. PICK i, report, b, s : /\ i = selected[n] /\ report = rewrites[n]
                               /\ b = Baseline(fetched, n) /\ s = Shadow(fetched, n)
    OBVIOUS
  <2>6. /\ report.query = i /\ report.flags = RewriteFlags(b.text, s.text)
        /\ report.errors = {side \in {"baseline", "shadow"} : IF side = "baseline" THEN b.error ELSE s.error}
    BY <2>4, <2>5 DEF PerQuery
  <2>7. report.flags \subseteq rows[i].flags
    BY <2>2, <2>4, <2>5 DEF Merged
  <2>8. ASSUME report.errors = {}, Readable("baseline"), Readable("shadow")
        PROVE  Shape \in rows[i].flags <=> cases[i].text["baseline"] # cases[i].text["shadow"]
    <3>1. ~b.error /\ ~s.error
      BY <2>6, <2>8
    <3>2. b.text = cases[i].text["baseline"] /\ s.text = cases[i].text["shadow"]
      BY <2>1, <2>2, <2>3, <2>4, <2>5, <2>8, <3>1, BothAnswers
    <3>3. Shape \in report.flags <=> b.text # s.text
      BY <2>6 DEF RewriteFlags, Shape
    <3>4. Shape \in rows[i].flags => Shape \in report.flags
      <4>1. SUFFICES ASSUME Shape \in rows[i].flags PROVE Shape \in report.flags
        OBVIOUS
      <4>2. PICK m \in DOMAIN selected : selected[m] = i /\ Shape \in rewrites[m].flags
        BY <2>2, <2>4, <2>5, <4>1 DEF Merged
      <4>3. m = n
        BY <2>3, <2>4, <2>5, <4>2 DEF Distinct
      <4>. QED
        BY <2>5, <4>2, <4>3
    <3>. QED
      BY <2>7, <3>2, <3>3, <3>4
  <2>. QED
    BY <2>5, <2>6, <2>7, <2>8
<1>. QED
  BY <1>1, <1>2, <1>3, PTL DEF Spec

-----------------------------------------------------------------------------
-----------------------------------------------------------------------------
(* The documents of an order, farthest first.                              *)
Descends(b, s, order) ==
  \A i, j \in 1..Len(order) : i < j => Distance(b, s, order[i]) >= Distance(b, s, order[j])

(* An order of the moved documents has each of them once.                  *)
LEMMA MovedOrder ==
  ASSUME NEW b \in Seq(Nat), NEW s \in Seq(Nat), NEW order, order \in MovedOrders(b, s)
  PROVE  order \in Seq(Nat) /\ ToSet(order) = Moved(b, s) /\ Distinct(order) /\ Descends(b, s, order)
<1>1. PICK set : set = Moved(b, s)
  OBVIOUS
<1>2. set \subseteq Nat /\ IsFiniteSet(set)
  <2>1. ToSet(b) \subseteq Nat /\ IsFiniteSet(ToSet(b))
    BY RangeFinite
  <2>2. set \subseteq ToSet(b)
    BY <1>1 DEF Moved, Common
  <2>. QED
    BY <2>1, <2>2, FS_Subset
<1>3. PICK n \in Nat : n = Cardinality(set)
  BY <1>2, FS_CardinalityType
<1>4. order \in [1..n -> set] /\ \A i, j \in 1..n : i # j => order[i] # order[j]
  <2>1. order \in SetToSeqs(set)
    BY <1>1, Zenon DEF MovedOrders
  <2>. QED
    BY <1>3, <2>1, Zenon DEF SetToSeqs
<1>5. order \in Seq(Nat) /\ Len(order) = n /\ DOMAIN order = 1..n
  <2>1. order \in [1..n -> set]
    BY <1>4
  <2>2. order \in [1..n -> Nat]
    BY <1>2, <2>1
  <2>. QED
    BY <2>2
<1>6. order \in Injection(1..n, set)
  BY <1>4 DEF Injection, IsInjective
<1>7. Cardinality(1..n) = n
  BY FS_Interval
<1>8. order \in Surjection(1..n, set)
  BY <1>2, <1>3, <1>6, <1>7, FS_Injection
<1>9. ToSet(order) = set
  <2>1. \A d \in set : \E p \in 1..n : order[p] = d
    BY <1>8 DEF Surjection
  <2>2. \A p \in 1..n : order[p] \in set
    BY <1>4
  <2>3. \A d : d \in ToSet(order) <=> \E p \in 1..n : order[p] = d
    BY <1>5, ToSetIs
  <2>. QED
    BY <2>1, <2>2, <2>3
<1>10. Distinct(order)
  BY <1>4, <1>5 DEF Distinct
<1>11. order \in Seq(Nat) /\ ToSet(order) = Moved(b, s)
  BY <1>1, <1>5, <1>9
<1>12. Descends(b, s, order)
  <2>1. \A i, j \in DOMAIN order : i < j => Distance(b, s, order[i]) >= Distance(b, s, order[j])
    BY Zenon DEF MovedOrders
  <2>. QED
    BY <1>5, <2>1, Zenon DEF Descends
<1>. QED
  BY <1>10, <1>11, <1>12

(* Of a list in three parts, the first few: who is in, and who is not      *)
(* passed over.                                                            *)
PicksFirst(picks, x, y, z) ==
  /\ picks \in Seq(Nat) /\ ToSet(picks) \subseteq ToSet(x) \cup ToSet(y) \cup ToSet(z)
  /\ ToSet(x) \cup ToSet(y) \cup ToSet(z) # {} => ToSet(picks) # {}
  /\ \A d \in ToSet(picks) \ ToSet(x) : ToSet(x) \subseteq ToSet(picks)
  /\ \A d \in ToSet(picks) \ (ToSet(x) \cup ToSet(y)) : ToSet(y) \subseteq ToSet(picks)
  /\ \A d \in ToSet(picks) \ (ToSet(x) \cup ToSet(z)) :
       \E j \in 1..Len(y) : y[j] = d /\ \A i \in 1..j : y[i] \in ToSet(picks)

(* The first few of three lists in a row.                                  *)
LEMMA PickedFirst ==
  ASSUME NEW x \in Seq(Nat), NEW y \in Seq(Nat), NEW z \in Seq(Nat), NEW m \in Nat \ {0},
         NEW picks, picks = FirstOf(x \o y \o z, m)
  PROVE  PicksFirst(picks, x, y, z)
<1>1. PICK xy : xy = x \o y
  OBVIOUS
<1>2. PICK all : all = xy \o z
  OBVIOUS
<1>3. /\ xy \in Seq(Nat) /\ Len(xy) = Len(x) + Len(y) /\ Len(x) \in Nat /\ Len(y) \in Nat
      /\ \A p \in 1..Len(x) : p \in 1..Len(xy) /\ xy[p] = x[p]
      /\ \A p \in 1..Len(y) : p + Len(x) \in 1..Len(xy) /\ xy[p + Len(x)] = y[p]
      /\ \A p \in 1..Len(xy) : p \in 1..Len(x) \/ (p - Len(x) \in 1..Len(y) /\ xy[p] = y[p - Len(x)])
  BY <1>1, ConcatIs
<1>4. /\ all \in Seq(Nat) /\ Len(all) \in Nat
      /\ \A p \in 1..Len(xy) : p \in 1..Len(all) /\ all[p] = xy[p]
      /\ \A p \in 1..Len(all) : p \in 1..Len(xy) \/ (p - Len(xy) \in 1..Len(z) /\ all[p] = z[p - Len(xy)])
  BY <1>2, <1>3, ConcatIs
<1>5. ToSet(all) = ToSet(x) \cup ToSet(y) \cup ToSet(z)
  <2>1. ToSet(xy) = ToSet(x) \cup ToSet(y)
    BY <1>1, ConcatRange
  <2>2. ToSet(all) = ToSet(xy) \cup ToSet(z)
    BY <1>2, <1>3, ConcatRange
  <2>. QED
    BY <2>1, <2>2
<1>6. /\ picks \in Seq(Nat) /\ ToSet(picks) \subseteq ToSet(all)
      /\ \A i \in 1..Len(picks) : i \in 1..Len(all) /\ picks[i] = all[i]
      /\ \A i \in 1..Len(all) : i <= m => i \in 1..Len(picks)
  <2>1. picks = FirstOf(all, m) /\ m \in Int
    BY <1>1, <1>2
  <2>. QED
    BY <1>4, <2>1, FirstOfType
<1>7. ASSUME ToSet(all) # {} PROVE ToSet(picks) # {}
  <2>1. 1 \in 1..Len(all)
    BY <1>4, <1>7, ToSetIs
  <2>2. 1 \in 1..Len(picks)
    BY <1>6, <2>1
  <2>. QED
    BY <1>6, <2>2, ToSetIs
<1>8. ASSUME NEW d \in ToSet(picks) PROVE \E p \in 1..Len(picks) : p \in 1..Len(all) /\ all[p] = d
  <2>1. picks \in Seq(Nat)
    BY <1>6
  <2>2. PICK p \in 1..Len(picks) : picks[p] = d
    BY <1>8, <2>1, ToSetIs, Zenon
  <2>. QED
    BY <1>6, <2>2
<1>9. ASSUME NEW p \in 1..Len(picks), NEW q \in 1..p PROVE all[q] \in ToSet(picks)
  <2>1. q \in 1..Len(picks)
    OBVIOUS
  <2>. QED
    BY <1>6, <2>1, ToSetIs
<1>10. ASSUME NEW d \in ToSet(picks) \ ToSet(x) PROVE ToSet(x) \subseteq ToSet(picks)
  <2>1. PICK p \in 1..Len(picks) : p \in 1..Len(all) /\ all[p] = d
    BY <1>8
  <2>2. p \notin 1..Len(x)
    <3>1. p \in 1..Len(x) => x[p] = d
      BY <1>3, <1>4, <2>1
    <3>2. d \notin ToSet(x)
      BY <1>10
    <3>. QED
      BY <3>1, <3>2, ToSetIs
  <2>3. ASSUME NEW q \in 1..Len(x) PROVE q \in 1..p /\ all[q] = x[q]
    <3>1. q \in 1..Len(xy) /\ xy[q] = x[q]
      BY <1>3
    <3>2. all[q] = xy[q]
      BY <1>4, <3>1
    <3>3. q \in 1..p
      BY <1>3, <1>4, <2>1, <2>2
    <3>. QED
      BY <3>1, <3>2, <3>3
  <2>4. \A q \in 1..Len(x) : x[q] \in ToSet(picks)
    BY <1>9, <2>3
  <2>. QED
    BY <2>4, ToSetIs
<1>11. ASSUME NEW d \in ToSet(picks) \ (ToSet(x) \cup ToSet(y)) PROVE ToSet(y) \subseteq ToSet(picks)
  <2>1. PICK p \in 1..Len(picks) : p \in 1..Len(all) /\ all[p] = d
    BY <1>8
  <2>2. p \notin 1..Len(xy)
    <3>1. p \in 1..Len(xy) => d \in ToSet(xy)
      <4>1. p \in 1..Len(xy) => xy[p] = d
        BY <1>4, <2>1
      <4>. QED
        BY <1>3, <4>1, ToSetIs
    <3>2. ToSet(xy) = ToSet(x) \cup ToSet(y)
      BY <1>1, ConcatRange
    <3>. QED
      BY <1>11, <3>1, <3>2
  <2>3. ASSUME NEW q \in 1..Len(y) PROVE q + Len(x) \in 1..p /\ all[q + Len(x)] = y[q]
    <3>1. q + Len(x) \in 1..Len(xy) /\ xy[q + Len(x)] = y[q]
      BY <1>3
    <3>2. all[q + Len(x)] = xy[q + Len(x)]
      BY <1>4, <3>1
    <3>3. q + Len(x) \in 1..p
      BY <1>3, <1>4, <2>1, <2>2, <3>1
    <3>. QED
      BY <3>1, <3>2, <3>3
  <2>4. \A q \in 1..Len(y) : y[q] \in ToSet(picks)
    BY <1>9, <2>3
  <2>5. \A e \in ToSet(y) : \E q \in 1..Len(y) : y[q] = e
    BY ToSetIs
  <2>. QED
    BY <2>4, <2>5
<1>12. ASSUME NEW d \in ToSet(picks) \ (ToSet(x) \cup ToSet(z))
       PROVE  \E j \in 1..Len(y) : y[j] = d /\ \A i \in 1..j : y[i] \in ToSet(picks)
  <2>1. PICK p \in 1..Len(picks) : p \in 1..Len(all) /\ all[p] = d
    BY <1>8
  <2>2. p \notin 1..Len(x)
    <3>1. p \in 1..Len(x) => x[p] = d
      BY <1>3, <1>4, <2>1
    <3>2. d \notin ToSet(x)
      BY <1>12
    <3>. QED
      BY <3>1, <3>2, ToSetIs
  <2>3. p \in 1..Len(xy)
    <3>1. p \notin 1..Len(xy) => p - Len(xy) \in 1..Len(z) /\ z[p - Len(xy)] = d
      BY <1>4, <2>1
    <3>2. d \notin ToSet(z)
      BY <1>12
    <3>. QED
      BY <3>1, <3>2, ToSetIs
  <2>4. p - Len(x) \in 1..Len(y) /\ y[p - Len(x)] = d
    BY <1>3, <1>4, <2>1, <2>2, <2>3
  <2>5. ASSUME NEW i \in 1..(p - Len(x)) PROVE y[i] \in ToSet(picks)
    <3>a. PICK a \in Nat, q \in Int : a = Len(x) /\ q = p - a /\ p = q + a
      BY <1>3, <2>1
    <3>b. q \in 1..Len(y)
      BY <2>4, <3>a, Zenon
    <3>c. i \in 1..q
      BY <2>5, <3>a, Zenon
    <3>d. i \in 1..Len(y)
      BY <3>b, <3>c
    <3>e. i + a \in 1..p
      BY <3>a, <3>c
    <3>1. i \in 1..Len(y) /\ i + Len(x) \in 1..p
      BY <3>a, <3>d, <3>e, Zenon
    <3>2. all[i + Len(x)] = y[i]
      BY <1>3, <1>4, <3>1
    <3>. QED
      BY <1>9, <3>1, <3>2
  <2>. QED
    BY <2>4, <2>5
<1>. QED
  BY <1>5, <1>6, <1>7, <1>10, <1>11, <1>12 DEF PicksFirst

-----------------------------------------------------------------------------
(* The limit on the documents of a query is at least one.                  *)
LEMMA GreaterThanOne ==
  ASSUME NEW n \in Int
  PROVE  Max({1, n}) \in Nat \ {0}
<1>1. \E x \in {1, n} : \A y \in {1, n} : x >= y
  BY 1 >= n \/ n >= 1
<1>2. Max({1, n}) \in {1, n} /\ \A y \in {1, n} : Max({1, n}) >= y
  BY <1>1, Zenon DEF Max
<1>. QED
  BY <1>2

(* A document that both sides have moved by less than their length.        *)
LEMMA DistanceType ==
  ASSUME NEW k \in Nat \ {0}, NEW b \in Seq(Nat), NEW s \in Seq(Nat), Len(b) <= k, Len(s) <= k,
         NEW d \in Common(b, s)
  PROVE  Distance(b, s, d) \in 0..(k - 1)
<1>1. d \in ToSet(b) /\ d \in ToSet(s)
  BY DEF Common
<1>2. (\E i \in DOMAIN b : b[i] = d) /\ (\E i \in DOMAIN s : s[i] = d)
  BY <1>1 DEF ToSet
<1>3. Rank(b, d) \in DOMAIN b /\ Rank(s, d) \in DOMAIN s
  BY <1>2, Zenon DEF Rank
<1>4. PICK x \in 1..Len(b), y \in 1..Len(s) : x = Rank(b, d) /\ y = Rank(s, d)
  <2>1. DOMAIN b = 1..Len(b) /\ DOMAIN s = 1..Len(s)
    OBVIOUS
  <2>. QED
    BY <1>3, <2>1, Zenon
<1>5. Delta(b, s, d) = y - x
  BY <1>4 DEF Delta
<1>6. Distance(b, s, d) = IF y - x < 0 THEN -(y - x) ELSE y - x
  BY <1>5 DEF Distance, Abs
<1>7. x \in 1..k /\ y \in 1..k
  OBVIOUS
<1>. QED
  BY <1>6, <1>7

(* The parts of a row the explains are picked from: of both answers, and   *)
(* the documents that were dropped, moved and are new.                     *)
Parts(i, b, s, x, y, z, k) ==
  /\ k = settings.k /\ Len(b) <= k /\ Len(s) <= k
  /\ rows[i].base = b /\ rows[i].shadow = s
  /\ rows[i].dropped = x /\ ToSet(x) = ToSet(b) \ ToSet(s)
  /\ ToSet(y) = Moved(b, s) /\ Descends(b, s, y)
  /\ \A d : (\E m \in DOMAIN rows[i].moved : rows[i].moved[m][1] = d) <=> d \in ToSet(y)
  /\ rows[i].new = z /\ ToSet(z) = ToSet(s) \ ToSet(b)
  /\ PickDocs(rows[i]) = FirstOf(x \o y \o z, Max({1, settings.explain.docs}))

(* Every row has them.                                                     *)
LEMMA RowParts ==
  ASSUME Given, ReplayInv, stage \in Compared, NEW i \in Queries
  PROVE  \E b, s, x, y, z \in Seq(Nat), k \in Nat \ {0} : Parts(i, b, s, x, y, z, k)
<1>1. PICK row \in DiffRows(Baseline(replayed, i), Shadow(replayed, i), settings.k) :
        rows[i] = Flagged(row, rows[i].flags)
  BY RowsOfReplay
<1>2. Baseline(replayed, i).docs \in Seq(Nat) /\ Shadow(replayed, i).docs \in Seq(Nat) /\ settings.k \in Nat \ {0}
  BY SidesReplayed, RepliesHaveDocs, WellFormedSettings DEF WellFormed
<1>3. PICK r, base, shadow1, k : r = rows[i] /\ base = Baseline(replayed, i) /\ shadow1 = Shadow(replayed, i)
                              /\ k = settings.k
  OBVIOUS
<1>4. PICK b, s, flags : b = FirstOf(base.docs, k) /\ s = FirstOf(shadow1.docs, k) /\ flags = r.flags
  OBVIOUS
<1>5. b \in Seq(Nat) /\ s \in Seq(Nat)
  BY <1>2, <1>3, <1>4, FirstOfType
<1>6. Len(b) <= k /\ Len(s) <= k
  BY <1>2, <1>3, <1>4, FirstOfLength
<1>7. row \in DiffRows(base, shadow1, k) /\ r = Flagged(row, flags)
  BY <1>1, <1>3, <1>4
<1>8. r.base = b /\ r.shadow = s /\ r.dropped = Omitting(b, ToSet(s)) /\ r.new = Omitting(s, ToSet(b))
  BY <1>4, <1>7, RowFacts
<1>9. PICK y \in MovedOrders(b, s) : r.moved = MovedBy(b, s, y)
  BY <1>4, <1>7, RowFacts
<1>10. y \in Seq(Nat) /\ ToSet(y) = Moved(b, s) /\ Descends(b, s, y)
  BY <1>5, MovedOrder
<1>11. PICK x, z : x = r.dropped /\ z = r.new
  OBVIOUS
<1>12. x \in Seq(Nat) /\ ToSet(x) = ToSet(b) \ ToSet(s)
  BY <1>5, <1>8, <1>11, OmittingType
<1>13. z \in Seq(Nat) /\ ToSet(z) = ToSet(s) \ ToSet(b)
  BY <1>5, <1>8, <1>11, OmittingType
<1>14. DOMAIN r.moved = DOMAIN y /\ \A m \in DOMAIN y : r.moved[m][1] = y[m]
  BY <1>9 DEF MovedBy
<1>15. [m \in DOMAIN r.moved |-> r.moved[m][1]] = y
  BY <1>10, <1>14
<1>16. \A d : (\E m \in DOMAIN r.moved : r.moved[m][1] = d) <=> d \in ToSet(y)
  BY <1>14 DEF ToSet
<1>17. PickDocs(r) = FirstOf(x \o y \o z, Max({1, settings.explain.docs}))
  BY <1>11, <1>15, Zenon DEF PickDocs
<1>18. k \in Nat \ {0} /\ k = settings.k /\ r = rows[i]
  BY <1>2, <1>3
<1>19. Parts(i, b, s, x, y, z, k)
  BY <1>6, <1>8, <1>10, <1>11, <1>12, <1>13, <1>16, <1>17, <1>18, Zenon DEF Parts
<1>. QED
  BY <1>5, <1>10, <1>12, <1>13, <1>18, <1>19, Zenon

(* The weight w of a document of which far is the distance.                *)
Weighs(d, w, far, k, x, y) ==
  /\ d \in ToSet(x) => w = k
  /\ d \notin ToSet(x) /\ d \in ToSet(y) => w = far /\ far \in 0..(k - 1)
  /\ d \notin ToSet(x) /\ d \notin ToSet(y) => w = 0

(* The weight of a document by the list it is in.                          *)
LEMMA WeightIs ==
  ASSUME NEW i, NEW b \in Seq(Nat), NEW s \in Seq(Nat), NEW x \in Seq(Nat), NEW y \in Seq(Nat), NEW z \in Seq(Nat),
         NEW k \in Nat \ {0}, Parts(i, b, s, x, y, z, k), NEW d
  PROVE  Weighs(d, Weight(i, d), Distance(b, s, d), k, x, y)
<1>1. /\ k = settings.k /\ rows[i].base = b /\ rows[i].shadow = s /\ rows[i].dropped = x
      /\ (\E m \in DOMAIN rows[i].moved : rows[i].moved[m][1] = d) <=> d \in ToSet(y)
  BY DEF Parts
<1>2. Weight(i, d) = CASE d \in ToSet(x) -> k
                       [] d \in ToSet(y) -> Distance(b, s, d)
                       [] OTHER -> 0
  BY <1>1, Zenon DEF Weight
<1>3. ToSet(x) \cap ToSet(y) = {}
  BY DEF Parts, Moved, Common
<1>4. d \in ToSet(y) => Distance(b, s, d) \in 0..(k - 1)
  <2>1. d \in ToSet(y) => d \in Common(b, s)
    BY DEF Parts, Moved
  <2>2. Len(b) <= k /\ Len(s) <= k
    BY DEF Parts
  <2>. QED
    BY <2>1, <2>2, DistanceType
<1>5. PICK far, w : far = Distance(b, s, d) /\ w = Weight(i, d)
  OBVIOUS
<1>6. w = CASE d \in ToSet(x) -> k [] d \in ToSet(y) -> far [] OTHER -> 0
  BY <1>2, <1>5, Zenon
<1>7. d \in ToSet(y) => far \in 0..(k - 1)
  BY <1>4, <1>5
<1>8. Weighs(d, w, far, k, x, y)
  BY <1>3, <1>6, <1>7 DEF Weighs
<1>. QED
  BY <1>5, <1>8, Zenon

(* Of one query the documents are picked by their weight.                  *)
LEMMA DocsPicked ==
  ASSUME Given, ReplayInv, stage \in Compared, NEW i \in Queries
  PROVE  /\ PickDocs(rows[i]) \in Seq(Nat)
         /\ ToSet(PickDocs(rows[i])) \subseteq Changed(i)
         /\ Changed(i) # {} => ToSet(PickDocs(rows[i])) # {}
         /\ \A d \in ToSet(PickDocs(rows[i])), e \in Changed(i) :
              Weight(i, e) > Weight(i, d) => e \in ToSet(PickDocs(rows[i]))
<1>1. PICK b, s, x, y, z \in Seq(Nat), k \in Nat \ {0} : Parts(i, b, s, x, y, z, k)
  BY RowParts
<1>2. PICK m \in Nat \ {0} : m = Max({1, settings.explain.docs})
  BY WellFormedSettings, GreaterThanOne DEF WellFormed
<1>3. PICK picks : picks = PickDocs(rows[i])
  OBVIOUS
<1>4. picks = FirstOf(x \o y \o z, m)
  BY <1>1, <1>2, <1>3, Zenon DEF Parts
<1>5. PicksFirst(picks, x, y, z)
  BY <1>1, <1>4, PickedFirst
<1>6. Changed(i) = ToSet(x) \cup ToSet(y) \cup ToSet(z)
  BY <1>1, Zenon DEF Changed, Parts
<1>7. ASSUME NEW d \in ToSet(picks), NEW e \in Changed(i), Weight(i, e) > Weight(i, d)
      PROVE  e \in ToSet(picks)
  <2>0. PICK wd, we, fd, fe : /\ wd = Weight(i, d) /\ we = Weight(i, e)
                              /\ fd = Distance(b, s, d) /\ fe = Distance(b, s, e)
    OBVIOUS
  <2>1. Weighs(d, wd, fd, k, x, y) /\ Weighs(e, we, fe, k, x, y)
    BY <1>1, <2>0, WeightIs
  <2>2. we > wd /\ wd \in 0..k /\ we \in 0..k
    BY <1>7, <2>0, <2>1 DEF Weighs
  <2>3. d \notin ToSet(x)
    <3>1. d \in ToSet(x) => wd = k
      BY <2>1 DEF Weighs
    <3>. QED
      BY <2>2, <3>1
  <2>4. CASE e \in ToSet(x)
    BY <1>5, <2>3, <2>4 DEF PicksFirst
  <2>5. CASE e \notin ToSet(x) /\ e \notin ToSet(y)
    <3>1. we = 0
      BY <2>1, <2>5 DEF Weighs
    <3>. QED
      BY <2>2, <3>1
  <2>6. CASE e \notin ToSet(x) /\ e \in ToSet(y)
    <3>1. CASE d \notin ToSet(y)
      BY <1>5, <2>3, <2>6, <3>1 DEF PicksFirst
    <3>2. CASE d \in ToSet(y)
      <4>1. d \notin ToSet(z)
        BY <1>1, <3>2 DEF Parts, Moved, Common
      <4>2. PICK j \in 1..Len(y) : y[j] = d /\ \A p \in 1..j : y[p] \in ToSet(picks)
        BY <1>5, <2>3, <4>1 DEF PicksFirst
      <4>3. PICK q \in 1..Len(y) : y[q] = e
        BY <1>1, <2>6, ToSetIs
      <4>4. wd = Distance(b, s, d) /\ we = Distance(b, s, e)
        BY <2>0, <2>1, <2>3, <2>6, <3>2 DEF Weighs
      <4>5. j < q => Distance(b, s, y[j]) >= Distance(b, s, y[q])
        BY <1>1, Zenon DEF Parts, Descends
      <4>6. j < q => wd >= we
        BY <4>2, <4>3, <4>4, <4>5
      <4>7. q \in 1..j
        BY <2>2, <4>6
      <4>. QED
        BY <4>2, <4>3, <4>7
    <3>. QED
      BY <3>1, <3>2
  <2>. QED
    BY <2>4, <2>5, <2>6
<1>. QED
  BY <1>3, <1>5, <1>6, <1>7 DEF PicksFirst

-----------------------------------------------------------------------------
(* A query whose documents are explained.                                  *)
Explained(ranked, i) == rows[i].severity # "LOW" /\ i \in ToSet(FirstOf(ranked, settings.explain.max))

(* The pairs of one query.                                                 *)
PicksOf(i) == [m \in DOMAIN PickDocs(rows[i]) |-> <<i, PickDocs(rows[i])[m]>>]

(* They are pairs of the query and what is picked of it.                   *)
LEMMA PicksOfType ==
  ASSUME Given, ReplayInv, stage \in Compared, NEW i \in Queries
  PROVE  /\ PicksOf(i) \in Seq(Queries \X Nat)
         /\ \A j, d : <<j, d>> \in ToSet(PicksOf(i)) <=> j = i /\ d \in ToSet(PickDocs(rows[i]))
<1>1. PICK docs \in Seq(Nat) : docs = PickDocs(rows[i])
  BY DocsPicked
<1>2. PICK pairs : pairs = [m \in DOMAIN docs |-> <<i, docs[m]>>]
  OBVIOUS
<1>3. pairs = PicksOf(i)
  BY <1>1, <1>2, Zenon DEF PicksOf
<1>4. PICK S : S = Queries \X Nat
  OBVIOUS
<1>5. pairs \in Seq(S) /\ DOMAIN pairs = 1..Len(docs) /\ \A m \in 1..Len(docs) : pairs[m] = <<i, docs[m]>>
  <2>1. DOMAIN docs = 1..Len(docs) /\ \A m \in 1..Len(docs) : docs[m] \in Nat
    OBVIOUS
  <2>2. \A m \in 1..Len(docs) : <<i, docs[m]>> \in S
    BY <1>4, <2>1
  <2>3. pairs \in [1..Len(docs) -> S]
    BY <1>2, <2>1, <2>2
  <2>. QED
    BY <1>2, <2>1, <2>3
<1>6. ASSUME NEW j, NEW d PROVE <<j, d>> \in ToSet(pairs) <=> j = i /\ d \in ToSet(docs)
  <2>1. <<j, d>> \in ToSet(pairs) <=> \E m \in 1..Len(docs) : pairs[m] = <<j, d>>
    BY <1>5, Zenon DEF ToSet
  <2>2. d \in ToSet(docs) <=> \E m \in 1..Len(docs) : docs[m] = d
    <3>1. docs \in Seq(Nat)
      OBVIOUS
    <3>. QED
      BY <3>1, ToSetIs, Zenon
  <2>3. (\E m \in 1..Len(docs) : pairs[m] = <<j, d>>) <=> j = i /\ \E m \in 1..Len(docs) : docs[m] = d
    <3>1. \A m \in 1..Len(docs) : pairs[m] = <<j, d>> <=> j = i /\ docs[m] = d
      BY <1>5
    <3>. QED
      BY <3>1, Zenon
  <2>. QED
    BY <2>1, <2>2, <2>3
<1>. QED
  BY <1>1, <1>3, <1>4, <1>5, <1>6, Zenon

(* The pairs to explain are those of the queries that are explained.       *)
LEMMA ExplainsPicked ==
  ASSUME Given, ReplayInv, stage \in Compared, NEW ranked \in Orders(rows)
  PROVE  /\ PickExplains(ranked) \in Seq(Queries \X Nat)
         /\ \A j, d : <<j, d>> \in ToSet(PickExplains(ranked)) <=>
                        Explained(ranked, j) /\ d \in ToSet(PickDocs(rows[j]))
<1>1. Queries = 1..Len(cases) /\ Len(cases) \in Nat /\ Ranks(Len(cases), rows, ranked) /\ DOMAIN rows = Queries
  BY RowsRanked
<1>2. PICK Q : Q = Queries
  OBVIOUS
<1>3. ranked \in Seq(Q)
  <2>1. PICK n \in Nat : n = Len(cases)
    BY <1>1
  <2>2. ranked \in [1..n -> Q]
    BY <1>1, <1>2, <2>1 DEF Ranks
  <2>. QED
    BY <2>2
<1>4. PICK max \in Int : max = settings.explain.max
  BY WellFormedSettings DEF WellFormed
<1>5. PICK first, low, risky : /\ first = FirstOf(ranked, max)
                               /\ low = {i \in DOMAIN rows : rows[i].severity = "LOW"}
                               /\ risky = Omitting(first, low)
  OBVIOUS
<1>6. first \in Seq(Q) /\ ToSet(first) \subseteq Q
  <2>1. first \in Seq(Q)
    BY <1>3, <1>5, FirstOfType
  <2>. QED
    BY <2>1, RangeFinite
<1>7. risky \in Seq(Q) /\ ToSet(risky) = ToSet(first) \ low
  BY <1>5, <1>6, OmittingType
<1>8. PICK S, seqs : S = Queries \X Nat /\ seqs = [n \in DOMAIN risky |-> PicksOf(risky[n])]
  OBVIOUS
<1>9. PickExplains(ranked) = FlattenSeq(seqs)
  BY <1>4, <1>5, <1>8, Zenon DEF PickExplains, PicksOf
<1>10. seqs \in Seq(Seq(S)) /\ Len(seqs) = Len(risky) /\ \A n \in 1..Len(risky) : seqs[n] = PicksOf(risky[n])
  <2>1. DOMAIN risky = 1..Len(risky) /\ Len(risky) \in Nat /\ \A n \in 1..Len(risky) : risky[n] \in Q
    BY <1>7
  <2>2. \A n \in 1..Len(risky) : PicksOf(risky[n]) \in Seq(S)
    BY <1>2, <1>8, <2>1, PicksOfType
  <2>3. seqs \in [1..Len(risky) -> Seq(S)]
    BY <1>8, <2>1, <2>2
  <2>. QED
    BY <1>8, <2>1, <2>3
<1>11. PICK all : all = FlattenSeq(seqs)
  OBVIOUS
<1>12. all \in Seq(S) /\ \A p : p \in ToSet(all) <=> \E n \in 1..Len(seqs) : p \in ToSet(seqs[n])
  BY <1>10, <1>11, FlattenSeqRange
<1>13. ASSUME NEW j, NEW d
       PROVE  <<j, d>> \in ToSet(all) <=> Explained(ranked, j) /\ d \in ToSet(PickDocs(rows[j]))
  <2>1. \A n \in 1..Len(risky) :
          <<j, d>> \in ToSet(seqs[n]) <=> j = risky[n] /\ d \in ToSet(PickDocs(rows[risky[n]]))
    <3>1. \A n \in 1..Len(risky) : risky[n] \in Queries
      BY <1>2, <1>7
    <3>. QED
      BY <1>10, <3>1, PicksOfType
  <2>2. <<j, d>> \in ToSet(all) <=> (\E n \in 1..Len(risky) : risky[n] = j) /\ d \in ToSet(PickDocs(rows[j]))
    BY <1>10, <1>12, <2>1
  <2>3. (\E n \in 1..Len(risky) : risky[n] = j) <=> j \in ToSet(risky)
    BY <1>7, ToSetIs
  <2>4. j \in ToSet(risky) <=> Explained(ranked, j)
    BY <1>1, <1>2, <1>4, <1>5, <1>6, <1>7 DEF Explained
  <2>. QED
    BY <2>2, <2>3, <2>4
<1>. QED
  BY <1>8, <1>9, <1>11, <1>12, <1>13, Zenon

(* The documents to explain, and the bundles there are of them.            *)
Bundled == [of : Queries \X Nat, explained : SUBSET {"baseline", "shadow"}, structured : BOOLEAN]

(* The inductive invariant about the explains: what is picked is picked by *)
(* one order of the rows, the bundles are of the first of the pairs, and   *)
(* when the gate is reached of all of them.                                *)
Explaining ==
  /\ picked # <<>> => /\ stage \in {"explain", "gate", "done"}
                      /\ \E ranked \in Orders(rows) : picked = PickExplains(ranked)
  /\ bundles # <<>> => picked # <<>>
  /\ picked # <<>> =>
       /\ picked \in Seq(Queries \X Nat) /\ bundles \in Seq(Bundled)
       /\ Len(bundles) <= Len(picked) /\ \A n \in 1..Len(bundles) : bundles[n].of = picked[n]
       /\ stage = "explain" => Len(bundles) < Len(picked)
       /\ stage # "explain" => Len(bundles) = Len(picked)

(* What is picked depends on the settings and the rows only.               *)
LEMMA PickExplainsKept ==
  ASSUME UNCHANGED <<settings, rows>>, NEW ranked
  PROVE  PickExplains(ranked)' = PickExplains(ranked)
<1>1. \A i : PicksOf(i)' = PicksOf(i)
  BY DEF PicksOf, PickDocs
<1>. DEFINE low == {i \in DOMAIN rows : rows[i].severity = "LOW"}
            risky == Omitting(FirstOf(ranked, settings.explain.max), low)
<1>2. low' = low /\ risky' = risky
  OBVIOUS
<1>3. PickExplains(ranked) = FlattenSeq([n \in DOMAIN risky |-> PicksOf(risky[n])])
  BY Zenon DEF PickExplains, PicksOf
<1>4. PickExplains(ranked)' = FlattenSeq([n \in DOMAIN risky |-> PicksOf(risky[n])])'
  BY Zenon DEF PickExplains, PicksOf
<1>. HIDE DEF risky
<1>5. [n \in DOMAIN risky |-> PicksOf(risky[n])]' = [n \in DOMAIN risky |-> PicksOf(risky[n])]
  BY <1>1, <1>2
<1>. QED
  BY <1>3, <1>4, <1>5

(* The pairs are picked.                                                   *)
LEMMA SelectKeepsExplaining ==
  ASSUME Given, ReplayInv, Explaining, SelectExplains
  PROVE  Explaining'
<1>1. /\ stage = "explain" /\ picked = <<>> /\ UNCHANGED <<cases, rows, bundles>>
      /\ picked' # <<>> => stage' = "explain" /\ \E ranked \in Orders(rows) : picked' = PickExplains(ranked)
  BY DEF SelectExplains, Enter, request
<1>2. bundles' = <<>>
  BY <1>1 DEF Explaining
<1>3. picked' # <<>> => picked' \in Seq(Queries \X Nat)
  BY <1>1, ExplainsPicked DEF Compared
<1>4. Orders(rows)' = Orders(rows) /\ Queries' = Queries /\ Bundled' = Bundled
  BY <1>1 DEF Queries, Bundled
<1>5. \A ranked : PickExplains(ranked)' = PickExplains(ranked)
  <2>1. UNCHANGED <<settings, rows>>
    BY DEF SelectExplains, request
  <2>. QED
    BY <2>1, PickExplainsKept
<1>6. PICK none : none = bundles' /\ none = <<>>
  BY <1>2
<1>7. none \in Seq(Bundled) /\ Len(none) = 0
  BY <1>6
<1>8. picked' # <<>> => Len(picked') > 0 /\ Len(picked') \in Nat
  BY <1>3
<1>9. CASE picked' = <<>>
  BY <1>2, <1>9 DEF Explaining
<1>10. CASE picked' # <<>>
  <2>1. \E ranked \in Orders(rows)' : picked' = PickExplains(ranked)'
    BY <1>1, <1>4, <1>5, <1>10, Zenon
  <2>2. picked' \in Seq(Queries' \X Nat)
    BY <1>3, <1>4, <1>10
  <2>3. bundles' \in Seq(Bundled') /\ Len(bundles') = 0
    BY <1>4, <1>6, <1>7
  <2>4. Len(bundles') < Len(picked') /\ Len(bundles') <= Len(picked') /\ 1..Len(bundles') = {}
    BY <1>8, <1>10, <2>3
  <2>. QED
    BY <1>1, <1>2, <1>10, <2>1, <2>2, <2>3, <2>4 DEF Explaining
<1>. QED
  BY <1>9, <1>10

(* One more bundle.                                                        *)
LEMMA FetchKeepsExplaining ==
  ASSUME Explaining, FetchExplain
  PROVE  Explaining'
<1>1. /\ stage = "explain" /\ Len(bundles) < Len(picked) /\ UNCHANGED <<settings, cases, rows, picked>>
      /\ stage' = IF Len(bundles') = Len(picked) THEN "gate" ELSE "explain"
  BY DEF FetchExplain, Enter, request
<1>2. PICK answered \in SUBSET {"baseline", "shadow"} :
        bundles' = Append(bundles, [of |-> picked[Len(bundles) + 1], explained |-> answered,
                                    structured |-> Structured])
  BY DEF FetchExplain
<1>3. picked # <<>>
  <2>1. SUFFICES ASSUME picked = <<>> PROVE FALSE
    OBVIOUS
  <2>2. bundles = picked
    BY <2>1 DEF Explaining
  <2>3. Len(picked) = 0
    BY <2>1
  <2>. QED
    BY <1>1, <2>2, <2>3
<1>4. PICK S : S = Queries \X Nat
  OBVIOUS
<1>5. /\ picked \in Seq(S) /\ bundles \in Seq(Bundled)
      /\ \A n \in 1..Len(bundles) : bundles[n].of = picked[n]
  BY <1>3, <1>4 DEF Explaining
<1>6. PICK m \in 1..Len(picked) : m = Len(bundles) + 1
  BY <1>1, <1>5
<1>7. picked[m] \in S
  BY <1>5
<1>8. PICK last : last = [of |-> picked[m], explained |-> answered, structured |-> Structured]
  OBVIOUS
<1>9. last \in Bundled /\ last.of = picked[m]
  BY <1>4, <1>7, <1>8 DEF Bundled, Structured
<1>10. bundles' = Append(bundles, last)
  BY <1>2, <1>6, <1>8, Zenon
<1>11. /\ bundles' \in Seq(Bundled) /\ Len(bundles') = m
       /\ \A n \in 1..Len(bundles') : bundles'[n].of = picked[n]
  BY <1>5, <1>6, <1>9, <1>10
<1>12. Orders(rows)' = Orders(rows) /\ Queries' = Queries /\ Bundled' = Bundled
  BY <1>1 DEF Queries, Bundled
<1>13. \A ranked : PickExplains(ranked)' = PickExplains(ranked)
  BY <1>1, PickExplainsKept
<1>14. \E ranked \in Orders(rows)' : picked' = PickExplains(ranked)'
  BY <1>1, <1>3, <1>12, <1>13, Zenon DEF Explaining
<1>15. picked' # <<>> /\ picked' \in Seq(Queries' \X Nat) /\ bundles' \in Seq(Bundled')
  BY <1>1, <1>3, <1>4, <1>5, <1>11, <1>12
<1>16. /\ Len(bundles') <= Len(picked') /\ \A n \in 1..Len(bundles') : bundles'[n].of = picked'[n]
       /\ stage' \in {"explain", "gate"} /\ (stage' = "explain" => Len(bundles') < Len(picked'))
       /\ stage' # "explain" => Len(bundles') = Len(picked')
  BY <1>1, <1>6, <1>11
<1>. QED
  BY <1>14, <1>15, <1>16 DEF Explaining

(* Nobody else explains or picks.                                          *)
LEMMA ExplainingStep ==
  ASSUME Given, ReplayInv, Explaining, [Next]_vars
  PROVE  Explaining'
<1>1. CASE SelectExplains
  BY <1>1, SelectKeepsExplaining
<1>2. CASE FetchExplain
  BY <1>2, FetchKeepsExplaining
<1>3. CASE ~SelectExplains /\ ~FetchExplain
  <2>1. UNCHANGED <<picked, bundles>>
    BY <1>3 DEF Next, Over, vars, comparisonVars, ComparisonNext, Replay, Compare, SelectRewrites, FetchRewrite,
                EndRewrites, EvaluateGate
  <2>2. CASE picked = <<>>
    BY <2>1, <2>2 DEF Explaining
  <2>3. CASE picked # <<>>
    <3>1. stage \in {"explain", "gate", "done"} /\ stage \in Compared
      BY <2>3 DEF Explaining, Compared
    <3>2. /\ UNCHANGED <<settings, cases, rows>>
          /\ stage = "explain" => stage' = "explain"
          /\ stage # "explain" => stage' \in {"gate", "done"}
      <4>1. ~SelectRewrites /\ ~FetchRewrite /\ ~EndRewrites
        BY <3>1 DEF SelectRewrites, FetchRewrite, EndRewrites
      <4>2. UNCHANGED <<settings, cases>>
        BY <3>1, ComparedCourse
      <4>3. EvaluateGate \/ UNCHANGED <<comparisonVars, stage>>
        BY <1>3, <3>1, <4>1, ComparedCourse DEF ComparisonNext
      <4>. QED
        BY <3>1, <4>2, <4>3 DEF EvaluateGate, Enter, comparisonVars
    <3>3. Orders(rows)' = Orders(rows) /\ Queries' = Queries /\ Bundled' = Bundled
      BY <3>2 DEF Queries, Bundled
    <3>4. \A ranked : PickExplains(ranked)' = PickExplains(ranked)
      BY <3>2, PickExplainsKept
    <3>5. \E ranked \in Orders(rows)' : picked' = PickExplains(ranked)'
      BY <2>1, <2>3, <3>3, <3>4, Zenon DEF Explaining
    <3>. QED
      BY <2>1, <2>3, <3>1, <3>2, <3>3, <3>5 DEF Explaining
  <2>. QED
    BY <2>2, <2>3
<1>. QED
  BY <1>1, <1>2, <1>3

(* A riskier query comes before one whose documents are explained.         *)
LEMMA RiskierIsExplained ==
  ASSUME Given, ReplayInv, stage \in Compared, NEW ranked \in Orders(rows), NEW i \in Queries, NEW j \in Queries,
         Explained(ranked, i), Riskier(rows[j], rows[i])
  PROVE  Explained(ranked, j)
<1>1. PICK n \in Nat : n = Len(cases) /\ DOMAIN rows = 1..n /\ Queries = 1..n /\ Ranks(n, rows, ranked)
  BY RowsRanked
<1>2. PICK max \in Int : max = settings.explain.max
  BY WellFormedSettings DEF WellFormed
<1>3. PICK S : S = 1..n
  OBVIOUS
<1>4. ranked \in Seq(S) /\ Len(ranked) = n
  <2>1. ranked \in [1..n -> S]
    BY <1>1, <1>3 DEF Ranks
  <2>. QED
    BY <2>1
<1>5. PICK first : first = FirstOf(ranked, max)
  OBVIOUS
<1>6. /\ first \in Seq(S) /\ \A p \in 1..n : p <= max => p \in 1..Len(first)
      /\ \A p \in 1..Len(first) : p \in 1..n /\ first[p] = ranked[p]
  BY <1>2, <1>4, <1>5, FirstOfType
<1>7. Len(first) <= n /\ Len(first) \in Nat
  BY <1>6
<1>8. PICK p \in 1..Len(first) : first[p] = i
  BY <1>2, <1>5, <1>6, ToSetIs DEF Explained
<1>9. p \in 1..n /\ ranked[p] = i
  BY <1>6, <1>8
<1>10. PICK q \in 1..n : ranked[q] = j
  BY <1>1 DEF Ranks
<1>11. Scored(rows[i]) /\ Scored(rows[j])
  BY RowsScored
<1>12. ~(p < q)
  BY <1>1, <1>9, <1>10 DEF Ranks
<1>13. p # q
  BY <1>9, <1>10, <1>11, RiskierAsymmetric
<1>14. q \in 1..Len(first)
  BY <1>7, <1>8, <1>12, <1>13
<1>15. j \in ToSet(first)
  BY <1>6, <1>10, <1>14, ToSetIs
<1>16. rows[j].severity # "LOW"
  <2>1. rows[i].severity \in {"HIGH", "MEDIUM"}
    BY <1>11 DEF Scored, Explained
  <2>2. SeverityOrder[rows[j].severity] <= SeverityOrder[rows[i].severity]
    BY <1>11 DEF Riskier, Scored, SeverityOrder
  <2>3. SeverityOrder["LOW"] = 2 /\ SeverityOrder["HIGH"] = 0 /\ SeverityOrder["MEDIUM"] = 1
    BY DEF SeverityOrder
  <2>. QED
    BY <2>1, <2>2, <2>3
<1>. QED
  BY <1>2, <1>5, <1>15, <1>16 DEF Explained

(* What is due where document d of query i is explained.                   *)
ByPriority(i, d, explained) ==
  /\ rows[i].severity # "LOW"
  /\ \A e \in Changed(i) : Weight(i, e) > Weight(i, d) => <<i, e>> \in explained
  /\ \A j \in Queries : Riskier(rows[j], rows[i]) /\ Changed(j) # {} =>
       \E e \in Changed(j) : <<j, e>> \in explained

(* compare/explain_fetcher.py: once every document is explained, those of  *)
(* a risky query have been passed over for none of a safer query, and of   *)
(* one query none that was dropped or moved farther for one that was not;  *)
(* no document of a query of LOW risk is explained.                        *)
THEOREM HeaviestAreExplained == Spec => []ExplainsFollowPriority
<1>1. Init => Given /\ ReplayInv /\ Explaining
  BY InitReplay DEF Init, Given, ComparisonInit, Explaining
<1>2. Given /\ ReplayInv /\ Explaining /\ [Next]_vars => (Given /\ ReplayInv /\ Explaining)'
  BY ReplayStep, ExplainingStep, NextKeepsGiven
<1>3. Given /\ ReplayInv /\ Explaining => ExplainsFollowPriority
  <2>0. SUFFICES ASSUME Given, ReplayInv, Explaining, stage \in {"gate", "done"}, NEW n \in DOMAIN bundles
                 PROVE  ByPriority(bundles[n].of[1], bundles[n].of[2], {bundles[m].of : m \in DOMAIN bundles})
    BY Zenon DEF ExplainsFollowPriority, ByPriority
  <2>1. PICK i, d, explained : /\ i = bundles[n].of[1] /\ d = bundles[n].of[2]
                               /\ explained = {bundles[m].of : m \in DOMAIN bundles}
    OBVIOUS
  <2>2. stage \in Compared /\ picked # <<>>
    <3>1. bundles # <<>>
      BY <2>0, <2>1
    <3>. QED
      BY <2>0, <2>1, <3>1 DEF Explaining, Compared
  <2>3. PICK ranked \in Orders(rows) : picked = PickExplains(ranked)
    BY <2>0, <2>1, <2>2 DEF Explaining
  <2>4. PICK S : S = Queries \X Nat
    OBVIOUS
  <2>5. /\ picked \in Seq(S) /\ bundles \in Seq(Bundled) /\ Len(bundles) = Len(picked)
        /\ \A m \in 1..Len(bundles) : bundles[m].of = picked[m]
    BY <2>0, <2>1, <2>2, <2>4 DEF Explaining
  <2>6. explained = ToSet(picked)
    BY <2>0, <2>1, <2>5 DEF ToSet
  <2>7. bundles[n].of \in S /\ bundles[n].of \in ToSet(picked)
    BY <2>0, <2>1, <2>5 DEF ToSet
  <2>8. i \in Queries /\ <<i, d>> = bundles[n].of
    BY <2>0, <2>1, <2>4, <2>7
  <2>9. \A j, e : <<j, e>> \in explained <=> Explained(ranked, j) /\ e \in ToSet(PickDocs(rows[j]))
    BY <2>0, <2>1, <2>2, <2>3, <2>6, ExplainsPicked
  <2>10. Explained(ranked, i) /\ d \in ToSet(PickDocs(rows[i]))
    BY <2>6, <2>7, <2>8, <2>9
  <2>11. ASSUME NEW e \in Changed(i), Weight(i, e) > Weight(i, d) PROVE <<i, e>> \in explained
    <3>1. e \in ToSet(PickDocs(rows[i]))
      BY <2>0, <2>1, <2>2, <2>8, <2>10, <2>11, DocsPicked
    <3>. QED
      BY <2>9, <2>10, <3>1
  <2>12. ASSUME NEW j \in Queries, Riskier(rows[j], rows[i]), Changed(j) # {}
         PROVE  \E e \in Changed(j) : <<j, e>> \in explained
    <3>1. Explained(ranked, j)
      BY <2>0, <2>1, <2>2, <2>8, <2>10, <2>12, RiskierIsExplained
    <3>2. ToSet(PickDocs(rows[j])) \subseteq Changed(j) /\ ToSet(PickDocs(rows[j])) # {}
      BY <2>0, <2>1, <2>2, <2>12, DocsPicked
    <3>. QED
      BY <2>9, <3>1, <3>2
  <2>13. rows[i].severity # "LOW"
    BY <2>10 DEF Explained
  <2>14. ByPriority(i, d, explained)
    BY <2>11, <2>12, <2>13 DEF ByPriority
  <2>. QED
    BY <2>1, <2>14
<1>. QED
  BY <1>1, <1>2, <1>3, PTL DEF Spec

-----------------------------------------------------------------------------
(* The least of one number.                                                *)
LEMMA LeastOfOne ==
  ASSUME NEW i \in Int
  PROVE  Min({i}) = i
BY DEF Min

(* Where a document is among those that moved, and the places of the       *)
(* documents kept.                                                         *)
MovesOf(moved, d) == {i \in DOMAIN moved : moved[i][1] = d}
PlacesOf(s, kept) == {Rank(s, d) : d \in kept}

(* The new documents, and the places they fill.                            *)
Fills(s, kept, new, free) ==
  /\ new \in Seq(Nat) /\ Cardinality(kept) + Len(new) = Len(s) /\ free \in [1..Len(new) -> 1..Len(s)]
  /\ \A i \in 1..Len(new) : new[i] = s[free[i]]
  /\ \A p \in 1..Len(s) : s[p] \notin kept => \E i \in 1..Len(new) : free[i] = p

(* Who is on both sides is put where the shadow has it.                    *)
LEMMA KeptAreMoved ==
  ASSUME NEW b \in Seq(Nat), NEW s \in Seq(Nat), NEW order, order \in MovedOrders(b, s),
         NEW moved, moved = MovedBy(b, s, order), NEW d \in Common(b, s),
         NEW m, m = MovesOf(moved, d)
  PROVE  Rank(b, d) + (IF m = {} THEN 0 ELSE moved[Min(m)][2]) = Rank(s, d)
<1>1. order \in Seq(Nat) /\ ToSet(order) = Moved(b, s) /\ Distinct(order)
  BY MovedOrder
<1>2. DOMAIN moved = 1..Len(order) /\ \A i \in 1..Len(order) : moved[i] = <<order[i], Delta(b, s, order[i])>>
  BY <1>1 DEF MovedBy
<1>3. Rank(b, d) \in Int /\ Rank(s, d) \in Int
  BY RankIs DEF Common
<1>4. m = {i \in 1..Len(order) : order[i] = d}
  BY <1>2 DEF MovesOf
<1>5. CASE d \in Moved(b, s)
  <2>1. PICK i \in 1..Len(order) : order[i] = d
    BY <1>1, <1>5, ToSetIs
  <2>2. m = {i}
    BY <1>1, <1>4, <2>1 DEF Distinct
  <2>3. Min(m) = i
    BY <2>2, LeastOfOne
  <2>4. moved[i] = <<d, Rank(s, d) - Rank(b, d)>>
    BY <1>2, <2>1 DEF Delta
  <2>. QED
    BY <1>3, <2>2, <2>3, <2>4
<1>6. CASE d \notin Moved(b, s)
  <2>1. m = {}
    BY <1>1, <1>4, <1>6, ToSetIs
  <2>2. Rank(b, d) = Rank(s, d)
    BY <1>6 DEF Moved
  <2>. QED
    BY <1>3, <2>1, <2>2
<1>. QED
  BY <1>5, <1>6

(* The numbers of a set one after the other are the sorted list of it.     *)
LEMMA AscendingIs ==
  ASSUME NEW F, F \subseteq Int, NEW n \in Nat, NEW at \in [1..n -> F],
         \A x \in F : \E i \in 1..n : at[i] = x, \A i, j \in 1..n : i < j => at[i] < at[j]
  PROVE  Ascending(F) = at
<1>1. PICK before : before = {p \in F \X F : p[1] < p[2]}
  OBVIOUS
<1>2. Sorts(before, F) /\ Ascending(F) = SortedList(F, before)
  BY <1>1, NumbersSort
<1>3. \A i, j \in 1..n : i < j => <<at[i], at[j]>> \in before
  BY <1>1
<1>4. SortedList(F, before) = at
  BY <1>2, <1>3, SortedListIs
<1>. QED
  BY <1>2, <1>4

(* The places of the new documents are what the others leave free.         *)
LEMMA NewFillTheRest ==
  ASSUME NEW s \in Seq(Nat), Distinct(s), NEW kind, NEW new, new = Omitting(s, kind),
         NEW kept, kept = ToSet(s) \cap kind,
         NEW free, free = Ascending((1..Len(s)) \ PlacesOf(s, kept))
  PROVE  Fills(s, kept, new, free)
<1>1. PICK rest : rest = ToSet(s) \ kind
  OBVIOUS
<1>2. new \in Seq(Nat) /\ Keeps(s, rest, Len(s), new)
  BY <1>1, WithinKeeps DEF Omitting
<1>3. PICK at \in [1..Len(new) -> {i \in 1..Len(s) : s[i] \in rest}] :
        /\ \A j \in 1..Len(new) : new[j] = s[at[j]]
        /\ \A j, m \in 1..Len(new) : j < m => at[j] < at[m]
        /\ \A i \in 1..Len(s) : s[i] \in rest => \E j \in 1..Len(new) : at[j] = i
  BY <1>2, Zenon DEF Keeps
<1>4. PICK F : F = (1..Len(s)) \ PlacesOf(s, kept)
  OBVIOUS
<1>5. F = {i \in 1..Len(s) : s[i] \in rest}
  <2>1. \A d \in kept : Rank(s, d) \in 1..Len(s) /\ s[Rank(s, d)] = d
    BY RankIs
  <2>2. \A i \in 1..Len(s) : s[i] \in ToSet(s)
    BY ToSetIs
  <2>3. ASSUME NEW i \in 1..Len(s), s[i] \in kept PROVE Rank(s, s[i]) = i
    BY <2>1, <2>3 DEF Distinct
  <2>. QED
    BY <1>1, <1>4, <2>1, <2>2, <2>3 DEF PlacesOf
<1>6. Ascending(F) = at
  <2>1. PICK n \in Nat : n = Len(new)
    BY <1>2
  <2>2. F \subseteq Int /\ at \in [1..n -> F]
    <3>1. \A j \in 1..n : at[j] \in 1..Len(s) /\ s[at[j]] \in rest
      BY <1>3, <2>1
    <3>2. \A j \in 1..n : at[j] \in F
      BY <1>5, <3>1
    <3>3. DOMAIN at = 1..n /\ at = [j \in 1..n |-> at[j]]
      BY <2>1
    <3>4. F \subseteq Int
      BY <1>4
    <3>5. at \in [1..n -> F]
      BY <3>2, <3>3
    <3>. QED
      BY <3>4, <3>5
  <2>4. \A x \in F : \E i \in 1..n : at[i] = x
    BY <1>3, <1>5, <2>1
  <2>3. \A i, j \in 1..n : i < j => at[i] < at[j]
    BY <1>3, <2>1
  <2>. QED
    BY <2>2, <2>3, <2>4, AscendingIs
<1>7. Cardinality(kept) + Len(new) = Len(s)
  <2>1. IsFiniteSet(ToSet(s)) /\ Cardinality(ToSet(s)) = Len(s)
    BY DistinctLength
  <2>2. Distinct(new)
    BY <1>1, WithinDistinct DEF Omitting
  <2>3. Cardinality(ToSet(new)) = Len(new)
    BY <1>2, <2>2, DistinctLength
  <2>4. ToSet(new) = rest
    BY <1>1, OmittingType
  <2>5. ToSet(s) \cap kind = kept /\ ToSet(s) \ kind = rest
    BY <1>1
  <2>6. Cardinality(ToSet(s)) = Cardinality(kept) + Cardinality(rest)
    <3>1. PICK whole, both : whole = kept \cup rest /\ both = kept \cap rest
      OBVIOUS
    <3>2. IsFiniteSet(kept) /\ IsFiniteSet(rest) /\ whole = ToSet(s) /\ both = {}
      BY <2>1, <2>5, <3>1, FS_Subset
    <3>3. Cardinality(whole) = Cardinality(kept) + Cardinality(rest) - Cardinality(both)
      BY <3>1, <3>2, FS_Union
    <3>4. Cardinality(both) = 0 /\ Cardinality(kept) \in Nat /\ Cardinality(rest) \in Nat
      BY <3>2, FS_EmptySet, FS_CardinalityType
    <3>. QED
      BY <3>2, <3>3, <3>4
  <2>7. Cardinality(kept) + Cardinality(rest) = Cardinality(kept) + Len(new)
    BY <2>3, <2>4
  <2>. QED
    BY <2>1, <2>6, <2>7
<1>8. at \in [1..Len(new) -> 1..Len(s)] /\ \A i \in 1..Len(new) : new[i] = s[at[i]]
  BY <1>3
<1>9. ASSUME NEW p \in 1..Len(s), s[p] \notin kept PROVE \E i \in 1..Len(new) : at[i] = p
  <2>1. s[p] \in rest
    BY <1>1, <1>9, ToSetIs
  <2>. QED
    BY <1>3, <2>1
<1>. QED
  BY <1>2, <1>4, <1>6, <1>7, <1>8, <1>9 DEF Fills

(* compare/diff.py: the row of two answers without duplicates tells the    *)
(* second from the first.                                                  *)
LEMMA RankingRebuilt ==
  ASSUME NEW b \in Seq(Nat), NEW s \in Seq(Nat), Distinct(b), Distinct(s),
         NEW order, order \in MovedOrders(b, s), NEW row, row.base = b, row.moved = MovedBy(b, s, order),
         row.dropped = Omitting(b, ToSet(s)), row.new = Omitting(s, ToSet(b))
  PROVE  Rebuilt(row) = {<<p, s[p]>> : p \in DOMAIN s}
<1>. DEFINE kept == ToSet(row.base) \ ToSet(row.dropped)
            by(d) == LET m == {i \in DOMAIN row.moved : row.moved[i][1] = d}
                     IN  IF m = {} THEN 0 ELSE row.moved[Min(m)][2]
            at(d) == Rank(row.base, d) + by(d)
            free == Ascending((1..(Cardinality(kept) + Len(row.new))) \ {at(d) : d \in kept})
<1>1. kept = Common(b, s) /\ kept = ToSet(s) \cap ToSet(b)
  BY OmittingType DEF Common
<1>2. \A d \in kept : at(d) = Rank(s, d)
  <2>1. PICK moved : moved = row.moved /\ moved = MovedBy(b, s, order)
    OBVIOUS
  <2>2. ASSUME NEW d \in Common(b, s), NEW m, m = MovesOf(moved, d)
        PROVE  Rank(b, d) + (IF m = {} THEN 0 ELSE moved[Min(m)][2]) = Rank(s, d)
    <3>. HIDE DEF by, at, free, kept
    <3>1. PICK r : r = Rank(b, d) + (IF m = {} THEN 0 ELSE moved[Min(m)][2])
      OBVIOUS
    <3>2. r = Rank(s, d)
      BY <2>1, <2>2, <3>1, KeptAreMoved
    <3>. QED
      BY <3>1, <3>2
  <2>. QED
    BY <1>1, <2>1, <2>2 DEF MovesOf
<1>3. {at(d) : d \in kept} = PlacesOf(s, kept)
  <2>. HIDE DEF at, kept
  <2>. QED
    BY <1>2 DEF PlacesOf
<1>4. PICK new : new = row.new
  OBVIOUS
<1>5. new = Omitting(s, ToSet(b))
  BY <1>4
<1>6. PICK places : places = Ascending((1..Len(s)) \ PlacesOf(s, kept))
  OBVIOUS
<1>8. /\ new \in Seq(Nat) /\ Cardinality(kept) + Len(new) = Len(s) /\ places \in [1..Len(new) -> 1..Len(s)]
      /\ \A i \in 1..Len(new) : new[i] = s[places[i]]
      /\ \A p \in 1..Len(s) : s[p] \notin kept => \E i \in 1..Len(new) : places[i] = p
  <2>. HIDE DEF kept, by, at, free
  <2>1. PICK kind : kind = ToSet(b)
    OBVIOUS
  <2>2. PICK both : both = kept
    OBVIOUS
  <2>3. new = Omitting(s, kind) /\ both = ToSet(s) \cap kind
        /\ places = Ascending((1..Len(s)) \ PlacesOf(s, both))
    BY <1>1, <1>5, <1>6, <2>1, <2>2
  <2>4. Fills(s, both, new, places)
    BY <2>3, NewFillTheRest
  <2>. QED
    BY <2>2, <2>4 DEF Fills
<1>7. free = places
  <2>. HIDE DEF at, kept
  <2>. QED
    BY <1>3, <1>4, <1>6, <1>8
<1>9. \A d \in kept : Rank(s, d) \in 1..Len(s) /\ s[Rank(s, d)] = d
  <2>. HIDE DEF kept
  <2>. QED
    BY <1>1, RankIs
<1>10. {<<at(d), d>> : d \in kept} \cup {<<free[i], new[i]>> : i \in DOMAIN new} = {<<p, s[p]>> : p \in DOMAIN s}
  <2>. HIDE DEF kept, at, free
  <2>0. DOMAIN s = 1..Len(s) /\ DOMAIN new = 1..Len(new)
    BY <1>8
  <2>1. ASSUME NEW d \in kept PROVE \E p \in DOMAIN s : at(d) = p /\ d = s[p]
    BY <1>2, <1>9, <2>0
  <2>2. ASSUME NEW i \in DOMAIN new PROVE free[i] \in DOMAIN s /\ new[i] = s[free[i]]
    BY <1>7, <1>8, <2>0
  <2>3. ASSUME NEW p \in DOMAIN s, s[p] \in kept PROVE at(s[p]) = p
    BY <1>2, <1>9, <2>0, <2>3 DEF Distinct
  <2>4. ASSUME NEW p \in DOMAIN s, s[p] \notin kept PROVE \E i \in DOMAIN new : p = free[i] /\ s[p] = new[i]
    <3>1. PICK i \in 1..Len(new) : places[i] = p
      BY <1>8, <2>0, <2>4
    <3>. QED
      BY <1>7, <1>8, <2>0, <3>1
  <2>. DEFINE T == {<<p, s[p]>> : p \in DOMAIN s}
              K == {<<at(d), d>> : d \in kept}
              N == {<<free[i], new[i]>> : i \in DOMAIN new}
  <2>5. K \subseteq T
    BY <2>1
  <2>6. N \subseteq T
    BY <2>2
  <2>7. ASSUME NEW p \in DOMAIN s PROVE <<p, s[p]>> \in K \cup N
    <3>1. CASE s[p] \in kept
      BY <2>3, <3>1
    <3>2. CASE s[p] \notin kept
      BY <2>4, <3>2
    <3>. QED
      BY <3>1, <3>2
  <2>8. T \subseteq K \cup N
    BY <2>7
  <2>9. K \cup N = T
    BY <2>5, <2>6, <2>8, Zenon
  <2>. QED
    BY <2>9
<1>. QED
  BY <1>4, <1>10, Zenon DEF Rebuilt

(* compare/facets.py: and the counts, as far as they are listed.           *)
LEMMA FacetsAreTold ==
  ASSUME NEW base, NEW after, base \in [DOMAIN base -> Int], after \in [DOMAIN after -> Int],
         NEW facets \in FacetDiffs(base, after)
  PROVE  FacetsTold(base, after, facets)
<1>1. PICK top \in TopDeltas(base, after) :
        facets = [new     |-> DOMAIN after \ DOMAIN base,
                  missing |-> DOMAIN base \ DOMAIN after,
                  deltas  |-> [v \in top |-> CountDelta(base, after, v)]]
  BY DEF FacetDiffs
<1>2. /\ facets.new = DOMAIN after \ DOMAIN base /\ facets.missing = DOMAIN base \ DOMAIN after
      /\ DOMAIN facets.deltas = top /\ \A v \in top : facets.deltas[v] = CountDelta(base, after, v)
  BY <1>1
<1>3. DOMAIN after = (DOMAIN base \ facets.missing) \cup facets.new
  BY <1>2
<1>4. PICK changed : changed = {v \in DOMAIN base \cup DOMAIN after : CountDelta(base, after, v) # 0}
  OBVIOUS
<1>5. \/ top = changed
      \/ /\ Cardinality(top) = TopN
         /\ \A v \in top, w \in changed \ top : Abs(CountDelta(base, after, v)) >= Abs(CountDelta(base, after, w))
  <2>1. CASE Cardinality(changed) <= TopN
    <3>1. TopDeltas(base, after) = {changed}
      BY <1>4, <2>1 DEF TopDeltas
    <3>. QED
      BY <3>1
  <2>2. CASE ~(Cardinality(changed) <= TopN)
    <3>1. TopDeltas(base, after) = {some \in kSubset(TopN, changed) : \A v \in some, w \in changed \ some :
                                     Abs(CountDelta(base, after, v)) >= Abs(CountDelta(base, after, w))}
      BY <1>4, <2>2, Zenon DEF TopDeltas
    <3>2. top \in kSubset(TopN, changed)
      BY <3>1
    <3>. QED
      BY <3>1, <3>2 DEF kSubset
  <2>. QED
    BY <2>1, <2>2
<1>6. ASSUME NEW v \in (DOMAIN base \cup DOMAIN after) \ top, ~(Count(base, v) = Count(after, v))
      PROVE  v \in changed \ top
  <2>1. Count(base, v) \in Int /\ Count(after, v) \in Int
    BY DEF Count
  <2>2. CountDelta(base, after, v) # 0
    BY <1>6, <2>1 DEF CountDelta
  <2>. QED
    BY <1>4, <2>2
<1>7. \A v \in (DOMAIN base \cup DOMAIN after) \ top :
        \/ Count(base, v) = Count(after, v)
        \/ Cardinality(top) = TopN /\ \A w \in top : Abs(facets.deltas[w]) >= Abs(CountDelta(base, after, v))
  BY <1>2, <1>5, <1>6
<1>. QED
  BY <1>2, <1>3, <1>7, Zenon DEF FacetsTold

(* A document is in an answer once, and a facet value has a count.         *)
LEMMA RepliesAreAnswers ==
  ASSUME Given, NEW reply \in Reply
  PROVE  Distinct(reply.docs) /\ reply.facets \in [DOMAIN reply.facets -> Int]
<1>. DEFINE Whole == {[error |-> FALSE, docs |-> ExtractDocs(a.rows), facets |-> a.facets] : a \in settings.answers}
            IsReply(r) == r = [error |-> r.error, docs |-> r.docs, facets |-> r.facets]
            IsFair(r) == Distinct(r.docs) /\ r.facets \in [DOMAIN r.facets -> Int]
<1>1. ASSUME NEW a \in settings.answers
      PROVE  Distinct(ExtractDocs(a.rows)) /\ a.facets \in [DOMAIN a.facets -> Int]
  <2>1. IsAnswer(a)
    BY WellFormedSettings DEF WellFormed
  <2>2. PICK docs : docs = ExtractDocs(a.rows)
    OBVIOUS
  <2>3. docs \in Seq(Nat)
    <3>1. PICK seq \in Seq(Nat) : seq = a.rows
      BY <2>1 DEF IsAnswer
    <3>2. PICK kind : kind = ToSet(seq) \ {0}
      OBVIOUS
    <3>3. Within(seq, kind) \in Seq(Nat)
      BY WithinKeeps
    <3>. QED
      BY <2>2, <3>1, <3>2, <3>3 DEF ExtractDocs, Omitting
  <2>4. IsInjective(docs)
    BY <2>1, <2>2 DEF IsAnswer
  <2>5. Distinct(docs)
    BY <2>3, <2>4 DEF Distinct, IsInjective
  <2>. QED
    BY <2>1, <2>2, <2>5 DEF IsAnswer
<1>2. \A a \in Whole : IsFair(a) /\ IsReply(a)
  BY <1>1
<1>3. reply \in Whole \/ reply = [error |-> TRUE, docs |-> <<>>, facets |-> <<>>]
      \/ \E a \in Whole : reply = [a EXCEPT !.error = TRUE, !.facets = <<>>]
  BY DEF Reply
<1>4. PICK none : none = <<>>
  OBVIOUS
<1>5. Distinct(none) /\ none \in [DOMAIN none -> Int]
  BY <1>4 DEF Distinct
<1>. HIDE DEF Whole
<1>6. CASE reply = [error |-> TRUE, docs |-> <<>>, facets |-> <<>>]
  <2>1. reply.docs = none /\ reply.facets = none
    BY <1>4, <1>6
  <2>. QED
    BY <1>5, <2>1
<1>7. ASSUME NEW a \in Whole, reply = [a EXCEPT !.error = TRUE, !.facets = <<>>] PROVE IsFair(reply)
  <2>1. reply.docs = a.docs /\ reply.facets = none
    BY <1>2, <1>4, <1>7
  <2>. QED
    BY <1>2, <1>5, <2>1
<1>. QED
  BY <1>2, <1>3, <1>6, <1>7

(* What the row of a query says of the facets.                             *)
LEMMA RowFacets ==
  ASSUME NEW base, NEW shadow1, NEW k, NEW row \in DiffRows(base, shadow1, k), NEW flags, NEW r,
         r = Flagged(row, flags)
  PROVE  r.facets \in FacetDiffs(base.facets, shadow1.facets)
<1>1. PICK facets \in FacetDiffs(base.facets, shadow1.facets) : row.facets = facets
  BY DEF DiffRows
<1>2. r.facets = row.facets
  BY DEF Flagged
<1>. QED
  BY <1>1, <1>2

(* compare/diff.py: the row of a query tells the difference: the baseline  *)
(* ranking with its dropped documents left out, its moved ones at their    *)
(* new ranks and the new ones in the places that are free is the shadow    *)
(* ranking; the shadow's facet values are the baseline's less those that   *)
(* are missing and with those that are new, every change of a count that   *)
(* is listed is so, and one that is not listed is no greater than any of   *)
(* the TopN that are; for every TopN.                                      *)
THEOREM RowsTellTheDifference == Spec => []RowsRebuildAnswers
<1>1. Init => Given /\ ReplayInv
  BY InitReplay DEF Init, Given
<1>2. Given /\ ReplayInv /\ [Next]_vars => (Given /\ ReplayInv)'
  BY ReplayStep, NextKeepsGiven
<1>3. Given /\ ReplayInv => RowsRebuildAnswers
  <2>1. SUFFICES ASSUME Given, ReplayInv, NEW i \in DOMAIN rows, NEW answer,
                        answer = FirstOf(Shadow(replayed, i).docs, settings.k)
                 PROVE  /\ Rebuilt(rows[i]) = {<<p, answer[p]>> : p \in DOMAIN answer}
                        /\ FacetsTold(Baseline(replayed, i).facets, Shadow(replayed, i).facets, rows[i].facets)
    BY Zenon DEF RowsRebuildAnswers
  <2>2. stage \in Compared /\ i \in Queries
    <3>1. rows # <<>>
      BY <2>1
    <3>2. stage \in Compared
      BY <2>1, <3>1 DEF ReplayInv, NothingCompared, Untouched, Stages, Intaking, Outset, Compared
    <3>. QED
      BY <2>1, <3>2 DEF ReplayInv
  <2>3. PICK row \in DiffRows(Baseline(replayed, i), Shadow(replayed, i), settings.k) :
          rows[i] = Flagged(row, rows[i].flags)
    BY <2>1, <2>2, RowsOfReplay
  <2>4. PICK r, base, shadow1, k : r = rows[i] /\ base = Baseline(replayed, i) /\ shadow1 = Shadow(replayed, i)
                                /\ k = settings.k
    OBVIOUS
  <2>5. PICK b, s, flags : b = FirstOf(base.docs, k) /\ s = FirstOf(shadow1.docs, k) /\ flags = r.flags
    OBVIOUS
  <2>6. row \in DiffRows(base, shadow1, k) /\ r = Flagged(row, flags)
    BY <2>3, <2>4, <2>5
  <2>14. base \in Reply /\ shadow1 \in Reply /\ k \in Nat \ {0}
    BY <2>1, <2>2, <2>4, SidesReplayed, WellFormedSettings DEF WellFormed
  <2>7. base.docs \in Seq(Nat) /\ shadow1.docs \in Seq(Nat) /\ Distinct(base.docs) /\ Distinct(shadow1.docs)
    BY <2>1, <2>14, RepliesHaveDocs, RepliesAreAnswers
  <2>8. b \in Seq(Nat) /\ s \in Seq(Nat) /\ Distinct(b) /\ Distinct(s)
    BY <2>5, <2>7, <2>14, FirstOfDistinct
  <2>9. r.base = b /\ r.dropped = Omitting(b, ToSet(s)) /\ r.new = Omitting(s, ToSet(b))
    BY <2>5, <2>6, RowFacts
  <2>15. PICK order \in MovedOrders(b, s) : r.moved = MovedBy(b, s, order)
    BY <2>5, <2>6, RowFacts
  <2>10. Rebuilt(r) = {<<p, s[p]>> : p \in DOMAIN s}
    BY <2>8, <2>9, <2>15, RankingRebuilt
  <2>11. r.facets \in FacetDiffs(base.facets, shadow1.facets)
    BY <2>6, RowFacets
  <2>12. FacetsTold(base.facets, shadow1.facets, r.facets)
    BY <2>1, <2>11, <2>14, RepliesAreAnswers, FacetsAreTold
  <2>13. answer = s
    BY <2>1, <2>4, <2>5
  <2>. QED
    BY <2>4, <2>10, <2>12, <2>13
<1>. QED
  BY <1>1, <1>2, <1>3, PTL DEF Spec

-----------------------------------------------------------------------------
(* How far create_shadow has come: not farther than there are patches and  *)
(* changes, each change reported at most once; while calls are left the    *)
(* change they belong to is not worked off.                                *)
CreationSizes ==
  /\ patched \in 0..(Len(Steps) + 1)
  /\ shadow = <<>> \/ shadow = <<shadow[1]>>
  /\ (\E S : applied \in Seq(S))
  /\ worked \in Nat /\ Len(applied) <= worked /\ worked <= Len(settings.changes)
  /\ calls # <<>> => worked < Len(settings.changes)

(* A change that is worked off is reported once.                           *)
LEMMA ReportKeepsSizes ==
  ASSUME CreationSizes, worked < Len(settings.changes), NEW skipped \in BOOLEAN, Report(skipped), Given
  PROVE  /\ (\E S : applied' \in Seq(S))
         /\ worked' \in Nat /\ Len(applied') <= worked' /\ worked' <= Len(settings.changes)
<1>1. PICK last : last = [change |-> worked + 1, skipped |-> skipped]
  OBVIOUS
<1>2. applied' = Append(applied, last) /\ worked' = worked + 1
  BY <1>1 DEF Report
<1>3. PICK n \in Nat : n = Len(settings.changes)
  <2>1. PICK S : settings.changes \in Seq(S)
    BY WellFormedSettings DEF WellFormed, IsList
  <2>. QED
    BY <2>1
<1>4. PICK S : applied \in Seq(S)
  BY DEF CreationSizes
<1>5. applied' \in Seq(S \cup {last}) /\ Len(applied') = Len(applied) + 1 /\ Len(applied) \in Nat
  BY <1>2, <1>4
<1>. QED
  BY <1>2, <1>3, <1>5 DEF CreationSizes

(* The steps of create_shadow.                                             *)
LEMMA CreatingKeepsSizes ==
  ASSUME Given, CreationSizes, PatchTarget \/ UploadConfigset \/ CreateCollection \/ PrepareChange \/ CallSchemaApi
  PROVE  CreationSizes'
<1>1. UNCHANGED settings /\ Steps' = Steps /\ Len(Steps) \in Nat
  BY StepsAreList
     DEF PatchTarget, UploadConfigset, CreateCollection, PrepareChange, CallSchemaApi, KeepRun, request, Steps
<1>2. CASE PatchTarget \/ UploadConfigset
  <2>1. patched' \in 0..(Len(Steps) + 1) /\ UNCHANGED <<shadow, calls, worked, applied>>
    BY <1>1, <1>2 DEF PatchTarget, UploadConfigset, PatchFails, CreationSizes
  <2>. QED
    BY <1>1, <2>1 DEF CreationSizes
<1>3. CASE CreateCollection
  <2>1. UNCHANGED <<patched, calls, worked, applied>> /\ shadow' \in {shadow, <<settings.baseline>>}
    BY <1>3 DEF CreateCollection
  <2>2. shadow' = <<>> \/ shadow' = <<shadow'[1]>>
    BY <2>1 DEF CreationSizes
  <2>. QED
    BY <1>1, <2>1, <2>2 DEF CreationSizes
<1>4. CASE PrepareChange
  <2>1. UNCHANGED <<patched, shadow>> /\ worked < Len(settings.changes) /\ calls = <<>>
    BY <1>4 DEF PrepareChange
  <2>2. PICK n \in Nat : n = Len(settings.changes)
    <3>1. PICK S : settings.changes \in Seq(S)
      BY WellFormedSettings DEF WellFormed, IsList
    <3>. QED
      BY <3>1
  <2>3. \/ worked' = worked + 1 /\ UNCHANGED <<calls, applied>>
        \/ UNCHANGED <<calls, worked, applied>>
        \/ Report(TRUE) /\ UNCHANGED calls
        \/ Report(FALSE) /\ calls' = <<>>
        \/ UNCHANGED <<worked, applied>>
    BY <1>4 DEF PrepareChange
  <2>4. CASE (Report(TRUE) /\ UNCHANGED calls) \/ (Report(FALSE) /\ calls' = <<>>)
    BY <1>1, <2>1, <2>4, ReportKeepsSizes DEF CreationSizes
  <2>5. CASE worked' = worked + 1 /\ UNCHANGED <<calls, applied>>
    BY <1>1, <2>1, <2>2, <2>5 DEF CreationSizes
  <2>6. CASE UNCHANGED <<worked, applied>>
    BY <1>1, <2>1, <2>6 DEF CreationSizes
  <2>. QED
    BY <2>3, <2>4, <2>5, <2>6
<1>5. CASE CallSchemaApi
  <2>1. UNCHANGED patched /\ worked < Len(settings.changes)
    BY <1>5 DEF CallSchemaApi, CreationSizes
  <2>2. shadow' = <<>> \/ shadow' = <<shadow'[1]>>
    <3>1. shadow' = shadow \/ \E x : shadow' = <<x>>
      BY <1>5, Zenon DEF CallSchemaApi
    <3>. QED
      BY <3>1 DEF CreationSizes
  <2>3. (Report(FALSE) /\ calls' = <<>>) \/ UNCHANGED <<worked, applied>>
    BY <1>5 DEF CallSchemaApi
  <2>4. CASE Report(FALSE) /\ calls' = <<>>
    BY <1>1, <2>1, <2>2, <2>4, ReportKeepsSizes DEF CreationSizes
  <2>5. CASE UNCHANGED <<worked, applied>>
    BY <1>1, <2>1, <2>2, <2>5 DEF CreationSizes
  <2>. QED
    BY <2>3, <2>4, <2>5
<1>. QED
  BY <1>2, <1>3, <1>4, <1>5

(* Every step of the run keeps it.                                         *)
LEMMA CreationStep ==
  ASSUME Given, CreationSizes, [Next]_vars
  PROVE  CreationSizes'
<1>1. CASE PatchTarget \/ UploadConfigset \/ CreateCollection \/ PrepareChange \/ CallSchemaApi
  BY <1>1, CreatingKeepsSizes
<1>2. CASE ~(PatchTarget \/ UploadConfigset \/ CreateCollection \/ PrepareChange \/ CallSchemaApi)
  <2>1. UNCHANGED <<patched, shadow, applied, worked, calls>>
    <3>1. CASE IntakeNext
      BY <1>2, <3>1 DEF IntakeNext, ValidateChangeset, InitializePlugins, RunPreflight, FinishShadow, LoadFromFile,
         LoadFromPlugin, ExtractFromLog, TakeRow, EndSampling, intakeVars, shadowVars
    <3>. QED
      BY <3>1 DEF Next, Over, vars, intakeVars
  <2>2. UNCHANGED settings /\ Steps' = Steps
    BY NextKeepsGiven DEF Steps
  <2>. QED
    BY <2>1, <2>2 DEF CreationSizes
<1>. QED
  BY <1>1, <1>2

-----------------------------------------------------------------------------
(* The rows that can be read are no more than the rows.                    *)
LEMMA RowsOfSource ==
  ASSUME Given
  PROVE  /\ Len(Source.rows) \in Nat /\ Len(Cleaned) \in Nat
         /\ Len(Readable0(Source.rows)) <= Len(Source.rows) /\ Len(Cleaned) <= Len(Source.rows)
<1>1. PICK S : Source.rows \in Seq(S)
  BY WellFormedSettings DEF WellFormed, Source
<1>2. PICK seq \in Seq(S) : seq = Source.rows
  BY <1>1
<1>3. PICK w \in Seq(DOMAIN settings.queries) : w = Readable0(seq)
  BY <1>2, ReadableRows
<1>4. Len(w) <= Len(seq)
  <2>1. PICK kind : kind = ToSet(seq) \ {0}
    OBVIOUS
  <2>2. w = Within(seq, kind)
    BY <1>3, <2>1, Zenon DEF Readable0, Omitting
  <2>. QED
    BY <2>2, WithinLength
<1>5. Len(Cleaned) = Len(w)
  <2>1. PICK n \in Nat : n = Len(w) /\ DOMAIN w = 1..n
    BY <1>3
  <2>2. Cleaned = [i \in 1..n |-> Source.sanitized[w[i]]]
    BY <1>2, <1>3, <2>1 DEF Cleaned
  <2>3. PICK clean : clean = Cleaned
    OBVIOUS
  <2>4. clean = [i \in 1..n |-> clean[i]]
    BY <2>2, <2>3
  <2>5. Len(clean) = n
    BY <2>1, <2>4, ItemsAreSequence
  <2>. QED
    BY <2>1, <2>3, <2>5
<1>. QED
  BY <1>2, <1>3, <1>4, <1>5

(* What is taken and sampled is no more than what there is.                *)
LoadedSizes == taken <= Len(Source.rows) /\ Len(cases) <= Len(Source.rows)

(* The first rows are no more than the rows.                               *)
LEMMA FirstRowsLength ==
  ASSUME NEW S, NEW seq \in Seq(S), Given
  PROVE  Len(FirstRows(seq)) <= Len(seq)
<1>1. CASE Limited /\ Source.max_queries < Len(seq)
  <2>1. Source.max_queries \in Nat
    BY <1>1, WellFormedSettings DEF WellFormed, Limited, Source
  <2>2. FirstRows(seq) = SubSeq(seq, 1, Source.max_queries)
    BY <1>1 DEF FirstRows
  <2>3. Len(SubSeq(seq, 1, Source.max_queries)) = Source.max_queries
    BY <1>1, <2>1
  <2>. QED
    BY <1>1, <2>1, <2>2, <2>3
<1>2. CASE ~(Limited /\ Source.max_queries < Len(seq))
  <2>1. FirstRows(seq) = SubSeq(seq, 1, Len(seq))
    BY <1>2 DEF FirstRows
  <2>. QED
    BY <2>1
<1>. QED
  BY <1>1, <1>2

(* Nor are those that the loader of a file takes.                          *)
LEMMA FileRowsLength ==
  ASSUME NEW S, NEW seq \in Seq(S), Given
  PROVE  Len(FileRows(seq)) <= Len(seq)
<1>1. CASE Source.max_queries < 0
  <2>1. PICK m : m = IF seq = <<>> THEN 0 ELSE 1
    OBVIOUS
  <2>2. FileRows(seq) = SubSeq(seq, 1, m)
    BY <1>1, <2>1 DEF FileRows
  <2>3. m \in Nat /\ m <= Len(seq)
    BY <2>1
  <2>. QED
    BY <2>2, <2>3
<1>2. CASE ~(Source.max_queries < 0)
  BY <1>2, FirstRowsLength DEF FileRows
<1>. QED
  BY <1>1, <1>2

(* As many cases as rows.                                                  *)
LEMMA CasesLength ==
  ASSUME NEW S, NEW seq \in Seq(S)
  PROVE  Len(Cases(seq)) = Len(seq)
<1>1. PICK n \in Nat : n = Len(seq) /\ DOMAIN seq = 1..n
  OBVIOUS
<1>2. PICK log : log = Cases(seq)
  OBVIOUS
<1>3. log = [i \in 1..n |-> settings.queries[seq[i]]]
  BY <1>1, <1>2, Zenon DEF Cases
<1>4. log = [i \in 1..n |-> log[i]]
  BY <1>3
<1>. QED
  BY <1>1, <1>2, <1>4, ItemsAreSequence

(* A sample of the most frequent is no longer than the log.                *)
LEMMA TopLength ==
  ASSUME Given, NEW D, NEW clean \in Seq(D), Limited, NEW sample \in SampleTop(clean)
  PROVE  Len(Cases(sample)) <= Len(clean)
<1>1. PICK c, l \in Nat : \E order \in [1..c -> ToSet(clean)] :
         /\ c = Cardinality(ToSet(clean)) /\ l = Smaller(Source.max_queries, c)
         /\ sample = [i \in 1..l |-> order[i]]
         /\ \A i, j \in 1..c : order[i] = order[j] => i = j
         /\ \A r \in ToSet(clean) : \E j \in 1..c : order[j] = r
         /\ \A i, j \in 1..c : i < j => CountOf(clean, order[i]) >= CountOf(clean, order[j])
  BY TopRows
<1>2. PICK order \in [1..c -> ToSet(clean)] :
         c = Cardinality(ToSet(clean)) /\ l = Smaller(Source.max_queries, c) /\ sample = [i \in 1..l |-> order[i]]
  BY <1>1
<1>3. l <= c /\ c <= Len(clean)
  BY <1>2, RangeFinite, WellFormedSettings DEF WellFormed, Source, Smaller
<1>4. sample \in Seq(ToSet(clean)) /\ Len(sample) = l
  <2>1. \A i \in 1..l : i \in 1..c
    BY <1>3
  <2>2. sample \in [1..l -> ToSet(clean)]
    BY <1>2, <2>1
  <2>. QED
    BY <2>2
<1>. QED
  BY <1>3, <1>4, CasesLength

(* The steps that load queries.                                            *)
LEMMA LoadingKeepsSizes ==
  ASSUME Given, ReplayInv, SampleInv, LoadedSizes, LoadFromFile \/ LoadFromPlugin \/ ExtractFromLog \/ TakeRow
  PROVE  LoadedSizes'
<1>1. /\ UNCHANGED settings /\ Source' = Source /\ Len(Source.rows) \in Nat /\ Len(Cleaned) \in Nat
      /\ Len(Readable0(Source.rows)) <= Len(Source.rows) /\ Len(Cleaned) <= Len(Source.rows)
  BY RowsOfSource DEF LoadFromFile, LoadFromPlugin, ExtractFromLog, TakeRow, Source
<1>2. CASE UNCHANGED <<cases, taken>>
  BY <1>1, <1>2 DEF LoadedSizes
<1>3. CASE LoadFromFile /\ ~UNCHANGED <<cases, taken>>
  <2>1. cases' = Cases(FileRows(Source.rows)) /\ UNCHANGED taken
    BY <1>3 DEF LoadFromFile, Loaded, intakeVars
  <2>2. PICK S : Source.rows \in Seq(S)
    BY WellFormedSettings DEF WellFormed, Source
  <2>3. Len(FileRows(Source.rows)) <= Len(Source.rows) /\ FileRows(Source.rows) \in Seq(S)
    BY <2>2, FileRowsType, FileRowsLength
  <2>4. Len(cases') <= Len(Source.rows)
    BY <2>1, <2>3, CasesLength
  <2>. QED
    BY <1>1, <2>1, <2>4 DEF LoadedSizes
<1>4. CASE LoadFromPlugin /\ ~UNCHANGED <<cases, taken>>
  <2>1. cases' = Cases(Readable0(Source.rows)) /\ UNCHANGED taken
    BY <1>4 DEF LoadFromPlugin, Loaded, intakeVars
  <2>2. Len(cases') <= Len(Source.rows)
    BY <1>1, <2>1, ReadableRows, CasesLength
  <2>. QED
    BY <1>1, <2>1, <2>2 DEF LoadedSizes
<1>5. CASE ExtractFromLog
  <2>1. UNCHANGED taken /\ \E sample \in IF Limited THEN SampleTop(Cleaned) ELSE {Cleaned} : cases' = Cases(sample)
    BY <1>5 DEF ExtractFromLog, Loaded, intakeVars
  <2>2. PICK clean \in Seq(DOMAIN settings.queries) : clean = Cleaned
    BY CleanedRows
  <2>3. Len(cases') <= Len(clean)
    <3>1. CASE Limited
      BY <2>1, <2>2, <3>1, TopLength
    <3>2. CASE ~Limited
      BY <2>1, <2>2, <3>2, CasesLength
    <3>. QED
      BY <3>1, <3>2
  <2>4. Len(cases') \in Nat
    BY IntakeCases, <1>5 DEF IntakeNext, ReplayInv
  <2>. QED
    BY <1>1, <2>1, <2>2, <2>3, <2>4 DEF LoadedSizes
<1>6. CASE TakeRow
  <2>1. SampleInv'
    BY <1>6, TakeRowKeepsSample
  <2>2. Loading' /\ Source'.type = "log" /\ Cleaned' = Cleaned
    BY <1>1, <1>6, LogStays DEF TakeRow, Loading
  <2>3. taken' \in 0..Len(Cleaned) /\ Len(cases') = IF Limited' THEN Smaller(Source'.max_queries, taken') ELSE taken'
    BY <2>1, <2>2 DEF SampleInv
  <2>4. Source.max_queries \in Int
    BY WellFormedSettings DEF WellFormed, Source
  <2>. QED
    BY <1>1, <2>3, <2>4 DEF LoadedSizes, Smaller
<1>. QED
  BY <1>2, <1>3, <1>4, <1>5, <1>6 DEF LoadFromFile, LoadFromPlugin

(* Every step of the run keeps it.                                         *)
LEMMA LoadedStep ==
  ASSUME Given, ReplayInv, SampleInv, LoadedSizes, [Next]_vars
  PROVE  LoadedSizes'
<1>1. CASE LoadFromFile \/ LoadFromPlugin \/ ExtractFromLog \/ TakeRow
  BY <1>1, LoadingKeepsSizes
<1>2. CASE ~(LoadFromFile \/ LoadFromPlugin \/ ExtractFromLog \/ TakeRow)
  <2>1. UNCHANGED <<cases, taken>>
    <3>1. CASE IntakeNext
      BY <1>2, <3>1 DEF IntakeNext, SnapshotNext, CaptureSnapshot, LoadSnapshot, WriteFile, DetectCompatibility,
         EndSnapshot, KeepFiles, ValidateChangeset, InitializePlugins, RunPreflight, PatchTarget, UploadConfigset,
         CreateCollection, PrepareChange, CallSchemaApi, FinishShadow, EndSampling, request, intakeVars, shadowVars,
         KeepRun
    <3>2. CASE ComparisonNext /\ UNCHANGED <<intakeVars, vectorVars>>
      BY <3>2 DEF ComparisonNext, Replay, Compare, SelectRewrites, FetchRewrite, EndRewrites, SelectExplains,
         FetchExplain, EvaluateGate, request, intakeVars
    <3>3. CASE VectorNext /\ UNCHANGED <<intakeVars, comparisonVars>>
      BY <3>3, VectorCourse DEF request, intakeVars
    <3>. QED
      BY <3>1, <3>2, <3>3 DEF Next, Over, vars, intakeVars
  <2>2. Source' = Source
    BY NextKeepsGiven DEF Source
  <2>. QED
    BY <2>1, <2>2 DEF LoadedSizes
<1>. QED
  BY <1>1, <1>2

-----------------------------------------------------------------------------
(* No more failures than answers, no more rewrites than were asked for.    *)
ComparisonSizes ==
  /\ failures <= Len(replayed)
  /\ Len(fetched) <= 2 * Len(selected)
  /\ retrying \in BOOLEAN /\ verdict \in {"none", "pass", "fail"}
  /\ lexicalPart = <<>> \/ lexicalPart = <<lexicalPart[1]>>

(* The steps of the comparison.                                            *)
LEMMA ComparisonKeepsSizes ==
  ASSUME Given, ReplayInv, Selection, FlagsInv, ComparisonSizes, ComparisonNext, UNCHANGED vectorVars
  PROVE  ComparisonSizes'
<1>1. UNCHANGED lexicalPart /\ selected \in Seq(Queries)
  BY SelectedType DEF vectorVars
<1>2. CASE Replay
  <2>1. PICK reply : replayed' = Append(replayed, reply) /\ failures' = IF reply.error THEN failures + 1 ELSE failures
    BY <1>2 DEF Replay
  <2>2. Len(replayed') = Len(replayed) + 1 /\ Len(replayed) \in Nat /\ failures \in Nat
    BY <2>1 DEF ReplayInv
  <2>3. UNCHANGED <<fetched, selected, retrying, verdict>>
    BY <1>2 DEF Replay
  <2>. QED
    BY <1>1, <2>1, <2>2, <2>3 DEF ComparisonSizes
<1>3. CASE SelectRewrites
  <2>1. selected = <<>> /\ UNCHANGED <<replayed, failures, fetched, retrying, verdict>>
    BY <1>3 DEF SelectRewrites
  <2>2. fetched = <<>>
    BY <2>1 DEF FlagsInv, Fetching
  <2>3. Len(selected') \in Nat
    <3>1. CASE selected' = <<>>
      BY <3>1
    <3>2. CASE selected' # <<>>
      <4>1. PICK ranked \in Orders(rows) : selected' = SelectDiffs(ranked)
        BY <1>3, <3>2 DEF SelectRewrites
      <4>2. stage \in Compared
        BY <1>3 DEF SelectRewrites, Compared
      <4>3. PICK n \in Nat : n = Len(cases) /\ DOMAIN rows = 1..n /\ Ranks(n, rows, ranked)
        BY <4>1, <4>2, RowsRanked
      <4>4. PICK sel : sel = SelectDiffs(ranked)
        OBVIOUS
      <4>5. sel \in Seq(1..n)
        BY <4>3, <4>4, SelectionFacts, WellFormedSettings DEF WellFormed
      <4>. QED
        BY <4>1, <4>4, <4>5
    <3>. QED
      BY <3>1, <3>2
  <2>. QED
    BY <1>1, <2>1, <2>2, <2>3 DEF ComparisonSizes
<1>4. CASE FetchRewrite
  <2>1. Len(fetched) < 2 * Len(selected) /\ UNCHANGED <<replayed, failures, selected, verdict>>
    BY <1>4 DEF FetchRewrite
  <2>2. \E answer : fetched' = Append(fetched, answer) \/ UNCHANGED fetched
    BY <1>4, Zenon DEF FetchRewrite
  <2>3. retrying' \in BOOLEAN
    BY <1>4 DEF FetchRewrite
  <2>4. Len(fetched') \in {Len(fetched), Len(fetched) + 1} /\ Len(fetched) \in Nat
    BY <2>2 DEF FlagsInv, Fetching
  <2>. QED
    BY <1>1, <2>1, <2>3, <2>4 DEF ComparisonSizes
<1>5. CASE ~(Replay \/ SelectRewrites \/ FetchRewrite)
  <2>1. UNCHANGED <<replayed, failures, fetched, selected, retrying>>
    BY <1>5 DEF ComparisonNext, Compare, EndRewrites, SelectExplains, FetchExplain, EvaluateGate
  <2>2. verdict' \in {verdict, "pass", "fail"}
    BY <1>5 DEF ComparisonNext, Compare, EndRewrites, SelectExplains, FetchExplain, EvaluateGate
  <2>. QED
    BY <1>1, <2>1, <2>2 DEF ComparisonSizes
<1>. QED
  BY <1>2, <1>3, <1>4, <1>5

(* Every step of the run keeps it.                                         *)
LEMMA ComparisonSizesStep ==
  ASSUME Given, ReplayInv, Selection, FlagsInv, ComparisonSizes, [Next]_vars
  PROVE  ComparisonSizes'
<1>1. CASE ComparisonNext /\ UNCHANGED vectorVars
  BY <1>1, ComparisonKeepsSizes
<1>2. CASE UNCHANGED <<comparisonVars, vectorVars>>
  BY <1>2 DEF ComparisonSizes, comparisonVars, vectorVars
<1>3. CASE VectorNext /\ UNCHANGED comparisonVars
  <2>1. UNCHANGED <<replayed, failures, fetched, selected, retrying, verdict>>
    BY <1>3 DEF comparisonVars
  <2>2. lexicalPart' = lexicalPart \/ lexicalPart' = <<>> \/ \E reply : lexicalPart' = <<reply>>
    <3>1. CASE RunLexicalPart
      BY <3>1, Zenon DEF RunLexicalPart
    <3>2. CASE ~RunLexicalPart
      BY <1>3, <3>2
         DEF VectorNext, VectorValidate, SkipTarget, RunSingle, RunVectorPart, CompareScenarios
    <3>. QED
      BY <3>1, <3>2
  <2>3. lexicalPart' = <<>> \/ lexicalPart' = <<lexicalPart'[1]>>
    BY <2>2 DEF ComparisonSizes
  <2>. QED
    BY <2>1, <2>3 DEF ComparisonSizes
<1>. QED
  BY <1>1, <1>2, <1>3 DEF Next, Over, vars

-----------------------------------------------------------------------------
(* All that is known of the lists of a run.                                *)
SizesInv ==
  /\ Given /\ SnapshotInv /\ ReplayInv /\ CapableInv /\ ScenarioInv /\ SampleInv
  /\ Selection /\ FlagsInv /\ Explaining
  /\ CreationSizes /\ LoadedSizes /\ ComparisonSizes

(* It holds at the start.                                                  *)
LEMMA InitSizes ==
  ASSUME Init
  PROVE  SizesInv
<1>1. Given /\ SnapshotInv /\ ReplayInv /\ CapableInv /\ ScenarioInv /\ SampleInv /\ Selection /\ FlagsInv
  BY InitSnapshot, InitReplay, InitCapable, InitScenarios, InitSample, InitFlags
<1>2. /\ patched = 0 /\ shadow = <<>> /\ applied = <<>> /\ worked = 0 /\ calls = <<>> /\ taken = 0 /\ cases = <<>>
      /\ replayed = <<>> /\ failures = 0 /\ fetched = <<>> /\ selected = <<>> /\ retrying = FALSE /\ verdict = "none"
      /\ lexicalPart = <<>> /\ picked = <<>> /\ bundles = <<>>
  BY DEF Init, IntakeInit, ComparisonInit, VectorInit
<1>3. Explaining
  BY <1>2 DEF Explaining
<1>4. PICK S : settings.changes \in Seq(S)
  BY <1>1, WellFormedSettings DEF WellFormed, IsList
<1>5. CreationSizes
  <2>1. <<>> \in Seq({}) /\ Len(<<>>) = 0
    OBVIOUS
  <2>2. Len(applied) = 0 /\ \E T : applied \in Seq(T)
    BY <1>2, <2>1
  <2>3. Len(Steps) \in Nat /\ Len(settings.changes) \in Nat
    BY <1>1, <1>4, StepsAreList
  <2>. QED
    BY <1>2, <2>2, <2>3 DEF CreationSizes
<1>6. LoadedSizes
  BY <1>1, <1>2, RowsOfSource DEF LoadedSizes
<1>7. ComparisonSizes
  <2>1. failures = 0 /\ Len(replayed) = 0 /\ Len(fetched) = 0 /\ Len(selected) = 0
    BY <1>2
  <2>2. retrying \in BOOLEAN /\ verdict \in {"none", "pass", "fail"} /\ lexicalPart = <<>>
    BY <1>2
  <2>. QED
    BY <2>1, <2>2 DEF ComparisonSizes
<1>. QED
  BY <1>1, <1>3, <1>5, <1>6, <1>7 DEF SizesInv

(* The lists have the lengths and items that the type invariant says.      *)
LEMMA SizesAreTyped ==
  ASSUME SizesInv
  PROVE  TypeOK
<1>. USE DEF SizesInv
<1>1. PICK m \in Nat : m = Len(cases) /\ Queries = 1..m /\ cases \in Seq(Pool0)
  BY DEF ReplayInv, Queries
<1>2. stage \in Stages /\ taken \in 0..Len(Source.rows) /\ Len(cases) <= Len(Source.rows)
  BY RowsOfSource DEF ReplayInv, LoadedSizes
<1>3. Len(replayed) <= 2 * Len(cases) /\ failures \in 0..Len(replayed)
  <2>1. Len(replayed) \in Nat /\ failures \in Nat /\ failures <= Len(replayed)
    BY DEF ReplayInv, ComparisonSizes
  <2>2. Len(replayed) < 2 * Len(cases) \/ Len(replayed) = 2 * Len(cases) \/ replayed = <<>>
    BY DEF ReplayInv, NothingCompared, Intaking, Outset, Compared, Stages
  <2>. QED
    BY <1>1, <2>1, <2>2
<1>4. rows # <<>> => Len(rows) = Len(cases)
  <2>1. SUFFICES ASSUME rows # <<>> PROVE Len(rows) = Len(cases)
    OBVIOUS
  <2>2. stage \in Compared
    BY <2>1 DEF ReplayInv, NothingCompared, Untouched, Intaking, Outset, Compared, Stages
  <2>3. rows = [i \in 1..m |-> rows[i]]
    BY <1>1, <2>2 DEF ReplayInv
  <2>. QED
    BY <1>1, <2>3, ItemsAreSequence
<1>5. ToSet(selected) \subseteq Queries /\ Len(fetched) <= 2 * Len(selected)
  <2>1. selected \in Seq(Queries)
    BY SelectedType
  <2>2. ToSet(selected) \subseteq Queries
    BY <2>1, RangeFinite
  <2>. QED
    BY <2>2 DEF ComparisonSizes
<1>6. rewrites # <<>> => Len(rewrites) = Len(selected)
  <2>1. SUFFICES ASSUME rewrites # <<>> PROVE Len(rewrites) = Len(selected)
    OBVIOUS
  <2>2. PICK n \in Nat : n = Len(selected) /\ DOMAIN selected = 1..n
    BY SelectedType
  <2>3. rewrites = [k \in 1..n |-> PerQuery(k)]
    BY <2>1, <2>2 DEF FlagsInv, Merged
  <2>4. rewrites = [k \in 1..n |-> rewrites[k]]
    BY <2>3
  <2>. QED
    BY <2>2, <2>4, ItemsAreSequence
<1>7. Len(bundles) <= Len(picked)
  BY DEF Explaining
<1>8. \A s \in Scenarios : Len(targets[s]) <= 2 * Len(cases)
  <2>1. SUFFICES ASSUME NEW s \in Scenarios PROVE Len(targets[s]) <= 2 * Len(cases)
    OBVIOUS
  <2>2. PICK t : t = targets[s]
    OBVIOUS
  <2>3. PICK k \in 0..(2 * Len(cases)) : t = [n \in 1..k |-> t[n]]
    BY <2>1, <2>2 DEF ScenarioInv, ResultsInv
  <2>4. Len(t) = k /\ k \in Nat /\ k <= 2 * m
    BY <1>1, <2>3, ItemsAreSequence
  <2>. QED
    BY <1>1, <2>2, <2>4
<1>9. Len(shadow) <= 1 /\ Len(lexicalPart) <= 1
  <2>1. ASSUME NEW x, x = <<>> \/ x = <<x[1]>> PROVE Len(x) <= 1
    <3>1. PICK y : y = x[1]
      OBVIOUS
    <3>2. Len(<<>>) <= 1 /\ Len(<<y>>) <= 1
      OBVIOUS
    <3>3. x = <<>> \/ x = <<y>>
      BY <2>1, <3>1, Zenon
    <3>. QED
      BY <3>2, <3>3, Zenon
  <2>. QED
    BY <2>1, Zenon DEF CreationSizes, ComparisonSizes
<1>10. /\ patched \in 0..(Len(Steps) + 1) /\ Len(applied) <= worked /\ worked <= Len(settings.changes)
       /\ retrying \in BOOLEAN /\ vectorOn \in BOOLEAN /\ verdict \in {"none", "pass", "fail"}
  BY DEF CreationSizes, ComparisonSizes, CapableInv
<1>. QED
  BY <1>2, <1>3, <1>4, <1>5, <1>6, <1>7, <1>8, <1>9, <1>10, Zenon DEF TypeOK

(* The whole run: no list outgrows what it is made of; the rows, the       *)
(* answers, the rewrites and the explains have the lengths that the stages *)
(* after them rely on, for every family of settings.                       *)
THEOREM EvaluationTypeCorrect == Spec => []TypeOK
<1>1. Init => SizesInv
  BY InitSizes
<1>2. SizesInv /\ [Next]_vars => SizesInv'
  <2>1. SUFFICES ASSUME SizesInv, [Next]_vars PROVE SizesInv'
    OBVIOUS
  <2>2. (Given /\ SnapshotInv /\ ReplayInv /\ CapableInv /\ ScenarioInv /\ SampleInv)'
    BY <2>1, NextKeepsGiven, SnapshotStep, ReplayStep, CapableStep, ScenarioStep, SampleStep DEF SizesInv
  <2>3. (Selection /\ FlagsInv /\ Explaining)'
    BY <2>1, SelectionStep, FlagsStep, ExplainingStep DEF SizesInv
  <2>4. (CreationSizes /\ LoadedSizes /\ ComparisonSizes)'
    BY <2>1, CreationStep, LoadedStep, ComparisonSizesStep DEF SizesInv
  <2>. QED
    BY <2>2, <2>3, <2>4 DEF SizesInv
<1>3. SizesInv => TypeOK
  BY SizesAreTyped
<1>. QED
  BY <1>1, <1>2, <1>3, PTL DEF Spec
=============================================================================
