---------------------------- MODULE VectorScenarios ----------------------------
(***************************************************************************)
(* vector/: the validation of the vector set-up, the replay of every       *)
(* scenario on both collections, and what is compared of them.  A client   *)
(* side hybrid takes two calls, either of which may fail.                  *)
(***************************************************************************)
EXTENDS EvaluationStages, Blend

VARIABLES
  vectorOn,      \* vector_runtime_cfg.enabled, switched off for an old Solr
  targets,       \* per scenario the results so far: both sides of query 1, ...
  lexicalPart,   \* the lexical reply of the hybrid under way, if it is there
  summaries,     \* scenario_summaries, one per scenario
  sensitivity    \* per scenario and query the ids at every weight

vectorVars == <<vectorOn, targets, lexicalPart, summaries, sensitivity>>

Vector == settings.vector
Scenarios == DOMAIN Vector.scenarios

(* vector/scenario_parser.py: what was given is clamped, so that a blend   *)
(* always has a pool to fill its ranking from.                             *)
TopK == IF Vector.topK <= 0 THEN settings.k ELSE Vector.topK
Pool == Max({TopK, Vector.pool})

VectorInit ==
  /\ vectorOn = (Vector.enabled /\ Vector.scenarios # <<>>)
  /\ targets = [s \in Scenarios |-> <<>>]
  /\ lexicalPart = <<>>
  /\ summaries = <<>> /\ sensitivity = <<>>

-----------------------------------------------------------------------------
(* vector/validation.py: the first dimension that is given; 0 is none.     *)
Expected ==
  LET given == Omitting(<<Vector.override, Vector.dimension, Vector.schema_dimension>>, {0})
  IN  IF given = <<>> THEN 0 ELSE given[1]

MissingVectors == {i \in Queries : ~HasVector(cases[i])}
WrongDimension ==
  {i \in Queries \ MissingVectors : Expected # 0 /\ cases[i].dimension # Expected}

(* Mutant: only findings that are HIGH block, and missing vectors are not. *)
BlockRunOnHigh ==
  \/ ~Vector.field_found
  \/ Vector.dimension # 0 /\ Vector.schema_dimension # 0 /\ Vector.dimension # Vector.schema_dimension
  \/ WrongDimension # {}

BlockRun ==
  \/ ~Vector.field_found
  \/ Vector.dimension # 0 /\ Vector.schema_dimension # 0 /\ Vector.dimension # Vector.schema_dimension
  \/ WrongDimension # {}
  \/ Vector.policy = "fail" /\ MissingVectors # {}

VectorValidate ==
  /\ stage = "vector_validate"
  /\ vectorOn' = (vectorOn /\ "vector" \in compat.caps)
  /\ CASE vectorOn' /\ BlockRun -> Enter("failed")
       [] ~(vectorOn' /\ BlockRun) -> Enter(IF cases = <<>> THEN "compare" ELSE "replay")
  /\ UNCHANGED <<request, targets, lexicalPart, summaries, sensitivity>>

-----------------------------------------------------------------------------
(* vector/replay.py: the scenario and the query the loops have come to.    *)
Current == Min({s \in Scenarios : Len(targets[s]) < 2 * Len(cases)} \cup {Len(Vector.scenarios) + 1})
Scenario == Vector.scenarios[Current]
Case == cases[(Len(targets[Current]) \div 2) + 1]

Native(scenario, case) ==
  /\ scenario.mode = "hybrid"
  /\ scenario.blend.execution \in {"auto", "solr_native"}
  /\ NativeHybrid(case)
ClientHybrid(scenario, case) == scenario.mode = "hybrid" /\ ~Native(scenario, case)
NeedsVector(scenario, case) == scenario.mode = "vector_only" \/ ClientHybrid(scenario, case)

Result(docs) == [docs |-> docs, skipped |-> FALSE, error |-> FALSE, inputs |-> <<>>]
Failed == [Result(<<>>) EXCEPT !.error = TRUE]
Skipped == [Result(<<>>) EXCEPT !.skipped = TRUE]

(* _execute_request: an answer, no longer than the limit, or an error.     *)
Execute(answers, limit) ==
  {[error |-> FALSE, docs |-> FirstOf(docs, limit)] : docs \in answers}
    \cup {[error |-> TRUE, docs |-> <<>>]}

Running == stage = "scenario_replay" /\ vectorOn /\ Current \in Scenarios
Return(result) == targets' = [targets EXCEPT ![Current] = Append(@, result)]
WithinReplay == UNCHANGED <<request, stage, vectorOn, summaries, sensitivity>>

SkipTarget ==
  /\ Running /\ NeedsVector(Scenario, Case) /\ ~HasVector(Case)
  /\ Return(Skipped)
  /\ UNCHANGED lexicalPart /\ WithinReplay

(* lexical_only, vector_only, and hybrids that Solr blends itself.         *)
RunSingle ==
  /\ Running /\ ~ClientHybrid(Scenario, Case)
  /\ NeedsVector(Scenario, Case) => HasVector(Case)
  /\ \E reply \in Execute(IF Scenario.mode = "vector_only" THEN Vector.vector ELSE Vector.lexical, TopK) :
       Return(IF reply.error THEN Failed ELSE Result(Ids(reply.docs)))
  /\ UNCHANGED lexicalPart /\ WithinReplay

(* _run_hybrid_client: both requests are sent whatever becomes of the      *)
(* first one, and one that fails fails the result.                         *)
RunLexicalPart ==
  /\ Running /\ ClientHybrid(Scenario, Case) /\ HasVector(Case) /\ lexicalPart = <<>>
  /\ \E reply \in Execute(Vector.lexical, Pool) : lexicalPart' = <<reply>>
  /\ UNCHANGED targets /\ WithinReplay

Blends(lexical, vector) ==
  {[Result(docs) EXCEPT !.inputs = <<lexical.docs, vector.docs>>] :
     docs \in BlendRankings(lexical.docs, vector.docs, Scenario.blend, TopK, Pool)}

(* Mutant: one answer is enough for a blend.                               *)
BlendedFromEither(lexical, vector) ==
  IF lexical.error /\ vector.error THEN {Failed} ELSE Blends(lexical, vector)

Blended(lexical, vector) ==
  IF lexical.error \/ vector.error THEN {Failed} ELSE Blends(lexical, vector)

RunVectorPart ==
  /\ Running /\ lexicalPart # <<>>
  /\ \E reply \in Execute(Vector.vector, Pool) : \E result \in Blended(lexicalPart[1], reply) : Return(result)
  /\ lexicalPart' = <<>> /\ WithinReplay

-----------------------------------------------------------------------------
(* vector/compare.py: a scenario over the pairs in which no side was       *)
(* skipped.  A pair in which a side failed counts.                         *)
BaselineOf(s, i) == targets[s][2 * i - 1]
ShadowOf(s, i) == targets[s][2 * i]

Summary(s) ==
  LET valid == {i \in Queries : ~BaselineOf(s, i).skipped /\ ~ShadowOf(s, i).skipped}
      same(i) == Overlap(BaselineOf(s, i).docs, ShadowOf(s, i).docs)
      top1(docs) == FirstOf(docs, 1)
      churn == IF Vector.scenarios[s].mode = "vector_only" THEN valid ELSE {}
  IN  [valid    |-> Cardinality(valid),
       skips    |-> Len(cases) - Cardinality(valid),
       failures |-> Cardinality({n \in DOMAIN targets[s] : targets[s][n].error}),
       overlap  |-> MapThenSumSet(same, valid),
       top1     |-> Cardinality({i \in churn : top1(BaselineOf(s, i).docs) # top1(ShadowOf(s, i).docs)}),
       changed  |-> Cardinality({i \in churn : 2 * same(i) < TopK})]

(* vector/sensitivity.py: the shadow's inputs blended again at every       *)
(* weight, in tenths.  The other weight is what is left of 1.0, which in   *)
(* floats may differ from the one that the scenario has: where scores are  *)
(* equal the analysis need not rank as the replay has done.                *)
(* Mutant: the analysis does not take over how scores are normalized.      *)
ReblendLinear(s, i, weight) ==
  LET inputs == ShadowOf(s, i).inputs
      blend == [Vector.scenarios[s].blend EXCEPT !.method = "linear", !.weight_vector = weight,
                                                 !.weight_lexical = 10 - weight]
  IN  BlendRankings(inputs[1], inputs[2], blend, TopK, Pool)

Reblend(s, i, weight) ==
  LET inputs == ShadowOf(s, i).inputs
      blend == [Vector.scenarios[s].blend EXCEPT !.weight_vector = weight, !.weight_lexical = 10 - weight]
  IN  BlendRankings(inputs[1], inputs[2], blend, TopK, Pool)

Progressions(s, i) == Selections([w \in Vector.weights |-> Reblend(s, i, w)])

Sensitivities(s) ==
  Selections([i \in {j \in Queries : Vector.scenarios[s].mode = "hybrid" /\ ShadowOf(s, j).inputs # <<>>} |->
             Progressions(s, i)])

CompareScenarios ==
  /\ stage = "scenario_replay" /\ (vectorOn => Current \notin Scenarios)
  /\ IF vectorOn
     THEN /\ summaries' = [s \in Scenarios |-> Summary(s)]
          /\ sensitivity' \in IF Vector.weights = {} THEN {<<>>} ELSE Selections([s \in Scenarios |-> Sensitivities(s)])
     ELSE UNCHANGED <<summaries, sensitivity>>
  /\ Enter("rewrite_diff")
  /\ UNCHANGED <<request, vectorOn, targets, lexicalPart>>

VectorNext ==
  \/ VectorValidate
  \/ SkipTarget \/ RunSingle \/ RunLexicalPart \/ RunVectorPart
  \/ CompareScenarios
=============================================================================
