-------------------------- MODULE ShadowLifecycleMC -------------------------
(* Small instances of ShadowLifecycle: r1 is the run whose requests meet   *)
(* faults, r2 the one it may share a name with.                            *)
EXTENDS ShadowLifecycle

CONSTANTS r1, r2, n1, n2

AloneOrAlike == {f \in [Runs -> Names] : f[r1] = n1}
Alike == {f \in [Runs -> Names] : \A r \in Runs : f[r] = n1}

(* Without a file patch `promote' makes no difference.                     *)
Distinct == {s \in Settings : s.promote => s.updates}
Patch == [updates |-> TRUE, promote |-> TRUE, shared |-> FALSE, cleanup |-> TRUE]
PatchOrShare == [Patch EXCEPT !.shared = TRUE]
Share == [updates |-> FALSE, promote |-> FALSE, shared |-> TRUE, cleanup |-> TRUE]

Mixed == {f \in [Runs -> Settings] :
            /\ f[r1] \in Distinct /\ (~f[r1].cleanup => ~f[r1].shared)
            /\ f[r2] \in {Patch, Share}}
AnySettings == [Runs -> Distinct]
AllPatch == [Runs -> {Patch}]
AllPatchOrShare == [Runs -> {PatchOrShare}]
=============================================================================
