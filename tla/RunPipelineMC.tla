---------------------------- MODULE RunPipelineMC ----------------------------
(* Small instances of RunPipeline: r1 is a run in which anything may fail, *)
(* r2 one that goes well.                                                  *)
EXTENDS RunPipeline

CONSTANTS r1, r2

Lenient == [strict |-> FALSE, mask |-> TRUE, suppress |-> FALSE, persist |-> TRUE,
            summary |-> FALSE, vector |-> TRUE, cleanup |-> TRUE]
Strict == [Lenient EXCEPT !.strict = TRUE, !.persist = FALSE, !.suppress = TRUE]
SummaryOnly == [Lenient EXCEPT !.persist = FALSE, !.summary = TRUE, !.vector = FALSE]
Off == [Lenient EXCEPT !.mask = FALSE, !.cleanup = FALSE]

OneAndOther == {f \in [Runs -> {Strict, SummaryOnly, Off}] : f[r1] # Off /\ f[r2] = Off}
BothMask == [Runs -> {Lenient}]
BothSummaryOnly == [Runs -> {SummaryOnly}]

OnePlugin == <<"observability">>
TwoPlugins == <<"gate", "observability">>
NoPlugins == <<>>
=============================================================================
