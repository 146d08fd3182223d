\* Two runs of one process, one after the other or together.
SPECIFICATION Spec
CONSTANTS
  r1 = r1
  r2 = r2
  Runs = {r1, r2}
  Options <- OneAndOther
  Faulty = {r1}
  Plugins <- TwoPlugins
  Plain = Plain
  Absent = Absent
INVARIANTS TypeOK MaskedAsConfigured NoRulesLeft RetentionRespected PluginProtocol CompletedRunLeavesNothing
CHECK_DEADLOCK FALSE
