--------------------------- MODULE EvaluationStages ---------------------------
(***************************************************************************)
(* What the stages of an evaluation share: `run` of cli.py goes through    *)
(* them in order, and the gate command reads what the run has written.     *)
(***************************************************************************)
EXTENDS Integers

VARIABLES
  settings,   \* changeset, command line and surroundings of this run; never written
  stage,      \* the stage of cli.py the run is in
  cases,      \* query_cases, the queries that are replayed
  compat      \* compat_caps of this run, and compat_payload that reports them

request == <<settings, cases, compat>>

NoCompat ==
  [caps |-> {}, contract |-> [capabilities |-> {}, disabled |-> {}, fallbacks |-> {}, degraded |-> {}]]

Stages == {"validate", "plugins_init", "snapshot", "preflight", "shadow_create", "queries_extract_or_load",
           "vector_validate", "replay", "compare", "scenario_replay",
           "rewrite_diff", "explain", "gate", "done", "failed"}

(* stage(...) of cli.py: the next one is entered when this one returns.    *)
Enter(next) == stage' = next

Queries == DOMAIN cases
=============================================================================
