\* One run from the changeset to the gate, over every family of settings.
SPECIFICATION Spec
CONSTANT TopN = 1
CONSTANT Families <- EvaluationFamilies
INVARIANT TypeOK
INVARIANT RowsRebuildAnswers
INVARIANT GatePassIsEarned
INVARIANT HighRiskIsRewritten
INVARIANT RewriteFlagsTruthful
INVARIANT ExplainsFollowPriority
INVARIANT ValidatedVectorsOnly
INVARIANT BlendsAreWhole
INVARIANT SensitivityAgreesWithReplay
INVARIANT ValidatedChangesApply
INVARIANT PreflightForetells
INVARIANT PatchesSettle
INVARIANT ActivePluginsUsable
INVARIANT SamplesAreFair
INVARIANT SnapshotsReload
INVARIANT DegradationsRecorded
