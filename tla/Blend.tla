-------------------------------- MODULE Blend --------------------------------
(***************************************************************************)
(* vector/blend.py and vector/query_builder.py.  An answer is a sequence   *)
(* of records [id, score] with integer scores, best first; weights are     *)
(* integers.  What a side gives a document, and the score of the blend,    *)
(* are ratios <<numerator, denominator>>, which decide between documents   *)
(* as the floats of the code do but where they are equal: there rounding   *)
(* may put either first.  zscore, which takes a root, is left out.         *)
(***************************************************************************)
EXTENDS Ranking

Ids(docs) == [i \in DOMAIN docs |-> docs[i].id]
Position(docs, d) == CHOOSE i \in DOMAIN docs : docs[i].id = d
Score(docs, d) == docs[Position(docs, d)].score

-----------------------------------------------------------------------------
(* One side of the blend: the value of every document on it, and the value *)
(* of a document that is not on it.                                        *)
Plain(docs, missing) ==
  [value |-> [d \in ToSet(Ids(docs)) |-> <<Score(docs, d), 1>>], absent |-> <<missing, 1>>]

MinMax(docs, missing) ==
  LET scores == {docs[i].score : i \in DOMAIN docs}
      range == Max(scores) - Min(scores)
  IN  [value |-> [d \in ToSet(Ids(docs)) |->
                    IF range = 0 THEN <<1, 1>> ELSE <<Score(docs, d) - Min(scores), range>>],
       absent |-> <<missing, 1>>]

Normalized(docs, normalize, missing) ==
  IF normalize = "minmax" /\ docs # <<>> THEN MinMax(docs, missing) ELSE Plain(docs, missing)

Reciprocal(docs, k) ==
  [value |-> [d \in ToSet(Ids(docs)) |-> <<1, k + Position(docs, d)>>], absent |-> <<0, 1>>]

Sides(lexical, vector, blend) ==
  CASE blend.method = "rrf" -> <<Reciprocal(lexical, blend.rrf_k), Reciprocal(vector, blend.rrf_k)>>
    [] blend.method = "normalize_linear" ->
         <<Normalized(lexical, blend.normalize, blend.missing_lexical),
           Normalized(vector, blend.normalize, blend.missing_vector)>>
    [] OTHER -> <<Plain(lexical, blend.missing_lexical), Plain(vector, blend.missing_vector)>>

Value(side, d) == IF d \in DOMAIN side.value THEN side.value[d] ELSE side.absent

(* The weighted sum of two ratios, and which of two ratios is greater.     *)
WeightedSum(blend, x, y) ==
  <<blend.weight_lexical * x[1] * y[2] + blend.weight_vector * y[1] * x[2], x[2] * y[2]>>
Exceeds(x, y) == x[1] * y[2] > y[1] * x[2]

(* What the sides give every document of the blend, and its score.         *)
BlendValues(lexicalDocs, vectorDocs, blend, pool) ==
  LET lexical == FirstOf(lexicalDocs, pool)
      vector  == FirstOf(vectorDocs, pool)
      sides   == Sides(lexical, vector, blend)
  IN  [d \in ToSet(Ids(lexical)) \cup ToSet(Ids(vector)) |-> <<Value(sides[1], d), Value(sides[2], d)>>]

BlendScores(values, blend) ==
  [d \in DOMAIN values |-> WeightedSum(blend, values[d][1], values[d][2])]

(* blend_rankings: the ids of the top_k.  Ties come in the order of the    *)
(* ids where the scores are the same float: always from one document to    *)
(* another with the very same values.                                      *)
BlendRankings(lexicalDocs, vectorDocs, blend, topK, pool) ==
  LET values == BlendValues(lexicalDocs, vectorDocs, blend, pool)
      score  == BlendScores(values, blend)
      orders == {o \in SetToSeqs(DOMAIN values) :
                   \A i, j \in DOMAIN o : i < j =>
                     /\ ~Exceeds(score[o[j]], score[o[i]])
                     /\ values[o[i]] = values[o[j]] => \A m \in i..(j - 1) : o[m] < o[m + 1]}
  IN  {FirstOf(o, topK) : o \in orders}

-----------------------------------------------------------------------------
(* A query case is [dimension, knn]: the length of its vector (0: it has   *)
(* none), and whether its JSON body is itself a knn query.  A body whose   *)
(* query string holds {!knn has no vector that can be taken out of it.     *)
HasVector(case) == case.dimension > 0
NativeHybrid(case) == case.knn
=============================================================================
