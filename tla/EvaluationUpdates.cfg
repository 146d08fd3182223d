\* Two schema changes after one another: is every applied change on the shadow?
SPECIFICATION Spec
CONSTANT TopN = 1
CONSTANT Families <- LostUpdateFamilies
INVARIANT AllChangesApplied
