-------------------------- MODULE RunPipelineProofs --------------------------
(***************************************************************************)
(* What RunPipeline promises, for any number of runs, plugins and          *)
(* settings: of the masking rules; and how the runs end, what is left of   *)
(* their artifacts, their shadow, their clients and their plugins,         *)
(* whichever steps failed.                                                 *)
(***************************************************************************)
EXTENDS RunPipeline, TLAPS
ResetAt == End - 2
MaskingAt == 4

(* What the proofs need of the order of the steps.                         *)
LEMMA ProgramBounds == End = 32 /\ FinallyAt = 21 /\ ResetAt = 30
<1>1. Len(Program) = 31 /\ Len(Finally) = 11
  BY DEF Program, Setup, Prepare, Compare, Extend, Finally
<1>. QED
  BY <1>1 DEF End, FinallyAt, ResetAt

(* After a step that is not the last there is another.                     *)
LEMMA NextStep == \A i \in 1..(End - 1) : i + 1 \in 0..End
<1>1. \A i \in 1..31 : i + 1 \in 0..32
  OBVIOUS
<1>. QED
  BY <1>1, ProgramBounds

(* Where masking is set and reset, and that no artifact comes before.      *)
LEMMA ProgramOrder ==
  /\ Program[ResetAt] = "reset" /\ Program[ResetAt + 1] = "close"
  /\ \A i \in 1..(End - 1) : Program[i] = "masking" => i = MaskingAt
  /\ \A i \in 1..(End - 1) : Program[i] = "reset" => i = ResetAt
  /\ \A i \in 1..MaskingAt : Program[i] \notin Artifacts
<1>1. Program[30] = "reset" /\ Program[31] = "close"
  BY DEF Program, Setup, Prepare, Compare, Extend, Finally
<1>2. \A i \in 1..31 : Program[i] = "masking" => i = 4
  BY DEF Program, Setup, Prepare, Compare, Extend, Finally
<1>3. \A i \in 1..31 : Program[i] = "reset" => i = 30
  BY DEF Program, Setup, Prepare, Compare, Extend, Finally
<1>4. \A i \in 1..4 : Program[i] \notin Artifacts
  BY DEF Program, Setup, Prepare, Compare, Extend, Finally, Artifacts, Sensitive, SummaryOnlyExtra
<1>. QED
  BY <1>1, <1>2, <1>3, <1>4, ProgramBounds DEF MaskingAt

-----------------------------------------------------------------------------
(* Type correctness.                                                       *)
LEMMA IndexFacts == Len(Plugins) \in Nat /\ Indices = 1..Len(Plugins)
BY RunPipelineAssumption DEF Indices

ControlOK ==
  /\ pc \in [Runs -> 0..End]
  /\ outcome \in [Runs -> {"ok", "failed", "aborted", "killed"}]
  /\ next \in [Runs -> 1..(Len(Plugins) + 1)]

DataOK ==
  /\ got \in [Runs -> SUBSET Locals]
  /\ plugin \in [Runs -> [Indices -> PluginStates]]
  /\ files \in [Runs -> [Artifacts -> Runs \cup {Plain, Absent}]]
  /\ shadow \in [Runs -> {"none", "partial", "created", "deleted", "undeletable"}]
  /\ masking \in Runs \cup {Plain}
  /\ overlapped \subseteq Runs

(* The types are those of the control and those of the data.               *)
LEMMA TypeParts == TypeOK <=> opt \in Options /\ ControlOK /\ DataOK
BY DEF TypeOK, ControlOK, DataOK

(* Wherever a run goes, and whatever it takes for the next plugin.         *)
LEMMA GotoTypes ==
  ASSUME ControlOK, NEW r \in Runs, NEW i \in 0..End, Goto(r, i)
  PROVE  pc' \in [Runs -> 0..End] /\ next' \in [Runs -> 1..(Len(Plugins) + 1)]
BY IndexFacts DEF ControlOK, Goto

(* To go on to the next step keeps the types of the control.               *)
LEMMA AdvanceTypes ==
  ASSUME ControlOK, NEW r \in Runs, Active(r), Advance(r)
  PROVE  ControlOK'
<1>1. pc[r] + 1 \in 0..End
  BY NextStep DEF Active
<1>. QED
  BY <1>1, GotoTypes DEF Advance, ControlOK

(* So does an exception,                                                   *)
LEMMA RaiseTypes ==
  ASSUME ControlOK, NEW r \in Runs, Raise(r)
  PROVE  ControlOK'
<1>1. FinallyAt \in 0..End /\ End \in 0..End
  BY ProgramBounds
<1>2. pc' \in [Runs -> 0..End] /\ next' \in [Runs -> 1..(Len(Plugins) + 1)]
  BY <1>1, GotoTypes DEF Raise
<1>3. outcome' \in [Runs -> {"ok", "failed", "aborted", "killed"}]
  BY DEF Raise, ControlOK
<1>. QED
  BY <1>2, <1>3 DEF ControlOK

(* the next plugin of a loop,                                              *)
LEMMA NextPluginTypes ==
  ASSUME ControlOK, NEW r \in Runs, NEW i \in Indices,
         next' = [next EXCEPT ![r] = i + 1], UNCHANGED <<pc, outcome>>
  PROVE  ControlOK'
BY IndexFacts DEF ControlOK

(* and a plugin that raises.                                               *)
LEMMA PluginRaisedTypes ==
  ASSUME ControlOK, NEW r \in Runs, next[r] \in Indices, PluginRaised(r)
  PROVE  ControlOK'
<1>1. CASE opt[r].strict
  BY <1>1, RaiseTypes DEF PluginRaised
<1>2. CASE ~opt[r].strict
  BY <1>2, NextPluginTypes DEF PluginRaised
<1>. QED
  BY <1>1, <1>2

(* What writes a file keeps its type.                                      *)
LEMMA PutTypes ==
  ASSUME DataOK, NEW r \in Runs, NEW a \in Artifacts, Put(r, a)
  PROVE  files' \in [Runs -> [Artifacts -> Runs \cup {Plain, Absent}]]
<1>1. Content(r, a) \in Runs \cup {Plain, Absent}
  BY DEF Content, Rules, DataOK
<1>. QED
  BY <1>1 DEF Put, DataOK

(* What sets a local variable keeps its type.                              *)
LEMMA AssignTypes ==
  ASSUME DataOK, NEW r \in Runs, NEW l \in Locals, Assign(r, l)
  PROVE  got' \in [Runs -> SUBSET Locals]
BY DEF Assign, DataOK

(* What moves a plugin keeps its type.                                     *)
LEMMA SetPluginTypes ==
  ASSUME DataOK, NEW r \in Runs, NEW i \in Indices, NEW s \in PluginStates, SetPlugin(r, i, s)
  PROVE  plugin' \in [Runs -> [Indices -> PluginStates]]
BY DEF SetPlugin, DataOK

(* Every step keeps the types.                                             *)
LEMMA StepTypes == TypeOK /\ [Next]_vars => TypeOK'
<1> SUFFICES ASSUME TypeOK, [Next]_vars PROVE TypeOK'
  OBVIOUS
<1>0. opt \in Options /\ ControlOK /\ DataOK
  BY TypeParts
<1>1. SUFFICES opt' = opt /\ ControlOK' /\ DataOK'
  BY <1>0 DEF TypeOK, ControlOK, DataOK
<1>2. CASE UNCHANGED vars
  BY <1>0, <1>2 DEF vars, ControlOK, DataOK
<1>3. CASE Crash
  <2>1. ControlOK'
    BY <1>0, <1>3, ProgramBounds DEF Crash, ControlOK
  <2>2. DataOK'
    BY <1>0, <1>3 DEF Crash, DataOK
  <2>. QED
    BY <2>1, <2>2, <1>3 DEF Crash
<1>4. ASSUME NEW r \in Runs, Begin(r)
      PROVE  opt' = opt /\ ControlOK' /\ DataOK'
  <2>1. ControlOK'
    BY <1>0, <1>4, ProgramBounds, GotoTypes DEF Begin, ControlOK
  <2>2. DataOK'
    BY <1>0, <1>4 DEF Begin, DataOK
  <2>. QED
    BY <2>1, <2>2, <1>4 DEF Begin
<1>5. ASSUME NEW r \in Runs, Fail(r)
      PROVE  opt' = opt /\ ControlOK' /\ DataOK'
  BY <1>0, <1>5, RaiseTypes DEF Fail, DataOK
<1>6. ASSUME NEW r \in Runs, Write(r)
      PROVE  opt' = opt /\ ControlOK' /\ DataOK'
  <2>1. ControlOK'
    BY <1>0, <1>6, AdvanceTypes DEF Write
  <2>2. files' \in [Runs -> [Artifacts -> Runs \cup {Plain, Absent}]]
    BY <1>0, <1>6, PutTypes DEF Write, DataOK
  <2>. QED
    BY <1>0, <2>1, <2>2, <1>6 DEF Write, DataOK
<1>7. ASSUME NEW r \in Runs, Connect(r)
      PROVE  opt' = opt /\ ControlOK' /\ DataOK'
  <2>1. ControlOK'
    BY <1>0, <1>7, AdvanceTypes DEF Connect, At
  <2>. QED
    BY <1>0, <2>1, <1>7, AssignTypes DEF Connect, Locals, DataOK
<1>8. ASSUME NEW r \in Runs, SetMasking(r)
      PROVE  opt' = opt /\ ControlOK' /\ DataOK'
  <2>1. ControlOK'
    BY <1>0, <1>8, AdvanceTypes DEF SetMasking, At
  <2>. QED
    BY <1>0, <2>1, <1>8, AssignTypes DEF SetMasking, Rules, Locals, DataOK
<1>9. ASSUME NEW r \in Runs, ResetMasking(r)
      PROVE  opt' = opt /\ ControlOK' /\ DataOK'
  <2>1. ControlOK'
    BY <1>0, <1>9, AdvanceTypes DEF ResetMasking, At
  <2>. QED
    BY <1>0, <2>1, <1>9 DEF ResetMasking, DataOK
<1>10. ASSUME NEW r \in Runs, Close(r)
       PROVE  opt' = opt /\ ControlOK' /\ DataOK'
  <2>1. ControlOK'
    BY <1>0, <1>10, AdvanceTypes DEF Close, At
  <2>. QED
    BY <1>0, <2>1, <1>10 DEF Close, DataOK
<1>11. ASSUME NEW r \in Runs, Retention(r)
       PROVE  opt' = opt /\ ControlOK' /\ DataOK'
  <2>1. ControlOK'
    BY <1>0, <1>11, AdvanceTypes DEF Retention, At
  <2>2. files' \in [Runs -> [Artifacts -> Runs \cup {Plain, Absent}]]
    BY <1>0, <1>11 DEF Retention, DataOK
  <2>. QED
    BY <1>0, <2>1, <2>2, <1>11 DEF Retention, DataOK
<1>12. ASSUME NEW r \in Runs, ReportPrivacy(r)
       PROVE  opt' = opt /\ ControlOK' /\ DataOK'
  <2>1. ControlOK'
    BY <1>0, <1>12, AdvanceTypes, RaiseTypes DEF ReportPrivacy, At
  <2>. QED
    BY <1>0, <2>1, <1>12 DEF ReportPrivacy, DataOK
<1>13. ASSUME NEW r \in Runs, CreateShadow(r)
       PROVE  opt' = opt /\ ControlOK' /\ DataOK'
  <2>1. ControlOK'
    BY <1>0, <1>13, AdvanceTypes, RaiseTypes DEF CreateShadow, At
  <2>2. got' \in [Runs -> SUBSET Locals]
    BY <1>0, <1>13, AssignTypes DEF CreateShadow, Locals, DataOK
  <2>3. shadow' \in [Runs -> {"none", "partial", "created", "deleted", "undeletable"}]
    BY <1>0, <1>13 DEF CreateShadow, DataOK
  <2>. QED
    BY <1>0, <2>1, <2>2, <2>3, <1>13 DEF CreateShadow, DataOK
<1>14. ASSUME NEW r \in Runs, CleanupShadow(r)
       PROVE  opt' = opt /\ ControlOK' /\ DataOK'
  <2>1. ControlOK'
    BY <1>0, <1>14, AdvanceTypes DEF CleanupShadow, At
  <2>2. shadow' \in [Runs -> {"none", "partial", "created", "deleted", "undeletable"}]
    BY <1>0, <1>14 DEF CleanupShadow, DataOK
  <2>. QED
    BY <1>0, <2>1, <2>2, <1>14 DEF CleanupShadow, DataOK
<1>15. ASSUME NEW r \in Runs, InitPlugin(r)
       PROVE  opt' = opt /\ ControlOK' /\ DataOK'
  <2>1. next[r] \in Indices
    BY <1>15 DEF InitPlugin
  <2>2. ControlOK'
    BY <1>0, <1>15, <2>1, NextPluginTypes, PluginRaisedTypes DEF InitPlugin
  <2>3. plugin' \in [Runs -> [Indices -> PluginStates]]
    BY <1>0, <1>15, <2>1, SetPluginTypes DEF InitPlugin, PluginStates
  <2>. QED
    BY <1>0, <2>2, <2>3, <1>15 DEF InitPlugin, DataOK
<1>16. ASSUME NEW r \in Runs, PluginsInitialized(r)
       PROVE  opt' = opt /\ ControlOK' /\ DataOK'
  <2>1. ControlOK'
    BY <1>0, <1>16, AdvanceTypes DEF PluginsInitialized, At
  <2>. QED
    BY <1>0, <2>1, <1>16, AssignTypes DEF PluginsInitialized, Locals, DataOK
<1>17. ASSUME NEW r \in Runs, CallPlugin(r)
       PROVE  opt' = opt /\ ControlOK' /\ DataOK'
  <2>1. PICK i \in Callees(r) :
          /\ SetPlugin(r, i, AfterCall(Program[pc[r]], plugin[r][i]))
          /\ \/ next' = [next EXCEPT ![r] = i + 1] /\ UNCHANGED <<pc, outcome>>
             \/ r \in Faulty /\ opt[r].strict /\ Raise(r)
    BY <1>17 DEF CallPlugin
  <2>2. i \in Indices
    BY <2>1 DEF Callees, Initialized
  <2>3. ControlOK'
    BY <1>0, <2>1, <2>2, NextPluginTypes, RaiseTypes
  <2>4. AfterCall(Program[pc[r]], plugin[r][i]) \in PluginStates
    BY DEF AfterCall, PluginStates
  <2>5. plugin' \in [Runs -> [Indices -> PluginStates]]
    BY <1>0, <2>1, <2>2, <2>4, SetPluginTypes
  <2>. QED
    BY <1>0, <2>3, <2>5, <1>17 DEF CallPlugin, DataOK
<1>18. ASSUME NEW r \in Runs, PluginsCalled(r)
       PROVE  opt' = opt /\ ControlOK' /\ DataOK'
  <2>1. ControlOK'
    BY <1>0, <1>18, AdvanceTypes DEF PluginsCalled
  <2>. QED
    BY <1>0, <2>1, <1>18 DEF PluginsCalled, DataOK
<1>. QED
  BY <1>2, <1>3, <1>4, <1>5, <1>6, <1>7, <1>8, <1>9, <1>10, <1>11, <1>12, <1>13,
     <1>14, <1>15, <1>16, <1>17, <1>18 DEF Next

(* The types hold at the start.                                            *)
LEMMA InitTypes == Init => TypeOK
<1> SUFFICES ASSUME Init PROVE TypeOK
  OBVIOUS
<1>1. ControlOK
  BY IndexFacts, ProgramBounds DEF Init, ControlOK
<1>2. DataOK
  BY DEF Init, DataOK, PluginStates
<1>. QED
  BY <1>1, <1>2, TypeParts DEF Init

(* TypeOK: every run is at a step of run or done, and the module global    *)
(* holds the rules of a run or none (cli.py:1941, 2727).                   *)
THEOREM PipelineTypeCorrect == Spec => []TypeOK
BY InitTypes, StepTypes, PTL DEF Spec

-----------------------------------------------------------------------------
(* The steps as far as masking is concerned.  A quiet step of a run only   *)
(* moves the run.                                                          *)
Moves(r) ==
  \/ UNCHANGED <<pc, outcome>>
  \/ Raise(r)
  \/ (Advance(r) /\ Program[pc[r]] # "reset")

Quiet(r) ==
  /\ Active(r)
  /\ Moves(r)
  /\ UNCHANGED <<opt, files, masking, overlapped>>
  /\ \A s \in Runs : "privacy" \in got'[s] <=> "privacy" \in got[s]

(* To set another local variable leaves `privacy` as it is.                *)
LEMMA OtherLocals ==
  ASSUME DataOK, NEW r \in Runs, NEW l \in Locals \ {"privacy"},
         Assign(r, l) \/ got' = [got EXCEPT ![r] = @ \ {l}]
  PROVE  \A s \in Runs : "privacy" \in got'[s] <=> "privacy" \in got[s]
<1> SUFFICES ASSUME NEW s \in Runs
             PROVE  "privacy" \in got'[s] <=> "privacy" \in got[s]
  OBVIOUS
<1>1. l # "privacy"
  OBVIOUS
<1>2. CASE s # r
  BY <1>2 DEF DataOK, Assign
<1>3. CASE s = r
  <2>1. got'[r] = got[r] \cup {l} \/ got'[r] = got[r] \ {l}
    BY DEF DataOK, Assign
  <2>. QED
    BY <1>1, <1>3, <2>1
<1>. QED
  BY <1>2, <1>3

(* The steps, by what they do to masking and to artifacts.                 *)
LEMMA StepKinds ==
  ASSUME TypeOK, Next
  PROVE  \/ Crash
         \/ \E r \in Runs : \/ Begin(r) \/ Write(r) \/ SetMasking(r)
                           \/ ResetMasking(r) \/ Retention(r) \/ Quiet(r)
<1>0. DataOK
  BY TypeParts
<1>1. ASSUME NEW r \in Runs, Fail(r) PROVE Quiet(r)
  BY <1>1 DEF Fail, Quiet, Moves
<1>2. ASSUME NEW r \in Runs, Connect(r) PROVE Quiet(r)
  <2>1. \A s \in Runs : "privacy" \in got'[s] <=> "privacy" \in got[s]
    BY <1>0, <1>2, OtherLocals DEF Connect, Locals
  <2>. QED
    BY <1>2, <2>1 DEF Connect, At, Quiet, Moves
<1>3. ASSUME NEW r \in Runs, Close(r) PROVE Quiet(r)
  <2>1. \A s \in Runs : "privacy" \in got'[s] <=> "privacy" \in got[s]
    BY <1>0, <1>3, OtherLocals DEF Close, Locals
  <2>. QED
    BY <1>3, <2>1 DEF Close, At, Quiet, Moves
<1>4. ASSUME NEW r \in Runs, ReportPrivacy(r) PROVE Quiet(r)
  BY <1>4 DEF ReportPrivacy, At, Quiet, Moves
<1>5. ASSUME NEW r \in Runs, CreateShadow(r) PROVE Quiet(r)
  <2>1. \A s \in Runs : "privacy" \in got'[s] <=> "privacy" \in got[s]
    BY <1>0, <1>5, OtherLocals DEF CreateShadow, Locals
  <2>. QED
    BY <1>5, <2>1 DEF CreateShadow, At, Quiet, Moves
<1>6. ASSUME NEW r \in Runs, CleanupShadow(r) PROVE Quiet(r)
  BY <1>6 DEF CleanupShadow, At, Quiet, Moves
<1>7. ASSUME NEW r \in Runs, InitPlugin(r) PROVE Quiet(r)
  BY <1>7 DEF InitPlugin, PluginRaised, At, Quiet, Moves
<1>8. ASSUME NEW r \in Runs, PluginsInitialized(r) PROVE Quiet(r)
  <2>1. \A s \in Runs : "privacy" \in got'[s] <=> "privacy" \in got[s]
    BY <1>0, <1>8, OtherLocals DEF PluginsInitialized, Locals
  <2>. QED
    BY <1>8, <2>1 DEF PluginsInitialized, At, Quiet, Moves
<1>9. ASSUME NEW r \in Runs, CallPlugin(r) PROVE Quiet(r)
  BY <1>9 DEF CallPlugin, Quiet, Moves
<1>10. ASSUME NEW r \in Runs, PluginsCalled(r) PROVE Quiet(r)
  BY <1>10 DEF PluginsCalled, Hooks, Quiet, Moves
<1>. QED
  BY <1>1, <1>2, <1>3, <1>4, <1>5, <1>6, <1>7, <1>8, <1>9, <1>10 DEF Next

-----------------------------------------------------------------------------
(* Whoever's rules are active has yet to reset them, or broke off.         *)
RulesOwned ==
  masking \in Runs =>
    \/ outcome[masking] = "aborted" /\ pc[masking] = End
    \/ pc[masking] \in 1..ResetAt

(* A run that moves stays on this side of its reset.                       *)
LEMMA MovesBeforeReset ==
  ASSUME ControlOK, NEW r \in Runs, Moves(r), pc[r] \in 1..ResetAt
  PROVE  \/ outcome'[r] = "aborted" /\ pc'[r] = End
         \/ pc'[r] \in 1..ResetAt
<1>1. CASE UNCHANGED <<pc, outcome>>
  BY <1>1
<1>2. CASE Raise(r)
  <2>1. FinallyAt \in 1..ResetAt
    BY ProgramBounds
  <2>. QED
    BY <1>2, <2>1 DEF Raise, Goto, ControlOK
<1>3. CASE Advance(r) /\ Program[pc[r]] # "reset"
  <2>1. pc[r] # ResetAt
    BY <1>3, ProgramOrder
  <2>2. pc[r] + 1 \in 1..ResetAt
    <3>1. pc[r] \in 1..30 /\ pc[r] # 30
      BY <2>1, ProgramBounds
    <3>2. pc[r] + 1 \in 1..30
      BY <3>1
    <3>. QED
      BY <3>2, ProgramBounds
  <2>. QED
    BY <1>3, <2>2 DEF Advance, Goto, ControlOK
<1>. QED
  BY <1>1, <1>2, <1>3 DEF Moves

(* A run moves by itself.                                                  *)
LEMMA MovesOnlyOne ==
  ASSUME ControlOK, NEW r \in Runs, Moves(r), NEW s \in Runs \ {r}
  PROVE  pc'[s] = pc[s] /\ outcome'[s] = outcome[s]
BY DEF Moves, Raise, Advance, Goto, ControlOK

(* A run that moves leaves the rules with whom they were.                  *)
LEMMA MovesKeepRulesOwned ==
  ASSUME TypeOK, RulesOwned, NEW r \in Runs, Active(r), Moves(r), masking' = masking
  PROVE  RulesOwned'
<1>0. ControlOK
  BY TypeParts
<1>1. CASE masking = r
  <2>1. pc[r] # End
    <3>1. pc[r] \in 1..31
      BY ProgramBounds DEF Active
    <3>. QED
      BY <3>1, ProgramBounds
  <2>2. pc[r] \in 1..ResetAt
    BY <1>1, <2>1 DEF RulesOwned
  <2>. QED
    BY <1>0, <1>1, <2>2, MovesBeforeReset DEF RulesOwned
<1>2. CASE masking # r
  BY <1>0, <1>2, MovesOnlyOne DEF RulesOwned
<1>. QED
  BY <1>1, <1>2

(* A write and retention are moves as well.                                *)
LEMMA WriteMoves ==
  ASSUME NEW r \in Runs, Write(r) \/ Retention(r)
  PROVE  Active(r) /\ Moves(r) /\ UNCHANGED <<opt, got, masking, overlapped>>
BY DEF Write, Retention, At, Moves, Artifacts, Sensitive, SummaryOnlyExtra

(* Every step keeps the rules with a run that has set them.                *)
LEMMA RulesOwnedStep == TypeOK /\ RulesOwned /\ [Next]_vars => RulesOwned'
<1> SUFFICES ASSUME TypeOK, RulesOwned, [Next]_vars PROVE RulesOwned'
  OBVIOUS
<1>0. ControlOK
  BY TypeParts
<1>1. CASE UNCHANGED vars
  BY <1>1 DEF vars, RulesOwned
<1>2. CASE Crash
  BY <1>2, RunPipelineAssumption DEF Crash, RulesOwned
<1>3. ASSUME NEW r \in Runs, Begin(r) PROVE RulesOwned'
  <2>1. CASE masking = r
    <3>1. 1 \in 1..ResetAt
      BY ProgramBounds
    <3>. QED
      BY <1>0, <1>3, <2>1, <3>1 DEF Begin, Goto, ControlOK, RulesOwned
  <2>2. CASE masking # r
    BY <1>0, <1>3, <2>2 DEF Begin, Goto, ControlOK, RulesOwned
  <2>. QED
    BY <2>1, <2>2
<1>4. ASSUME NEW r \in Runs, Write(r) \/ Retention(r) PROVE RulesOwned'
  BY <1>4, WriteMoves, MovesKeepRulesOwned
<1>5. ASSUME NEW r \in Runs, SetMasking(r) PROVE RulesOwned'
  <2>1. pc[r] \in 1..(End - 1) /\ Program[pc[r]] = "masking"
    BY <1>5 DEF SetMasking, At, Active
  <2>2. pc[r] = 4
    BY <2>1, ProgramOrder DEF MaskingAt
  <2>3. pc'[r] = 5 /\ 5 \in 1..ResetAt
    BY <1>0, <1>5, <2>2, ProgramBounds DEF SetMasking, Advance, Goto, ControlOK
  <2>4. masking' \in {r, Plain}
    BY <1>5 DEF SetMasking, Rules
  <2>. QED
    BY <2>3, <2>4, RunPipelineAssumption DEF RulesOwned
<1>6. ASSUME NEW r \in Runs, ResetMasking(r) PROVE RulesOwned'
  BY <1>6, RunPipelineAssumption DEF ResetMasking, RulesOwned
<1>7. ASSUME NEW r \in Runs, Quiet(r) PROVE RulesOwned'
  BY <1>7, MovesKeepRulesOwned DEF Quiet
<1>. QED
  BY <1>1, <1>2, <1>3, <1>4, <1>5, <1>6, <1>7, StepKinds

(* NoRulesLeft (cli.py:2727): when all runs are over and none broke off in *)
(* its finally block, the global holds no rules.                           *)
THEOREM RulesAreReset == Spec => []NoRulesLeft
<1>1. Init => RulesOwned
  BY RunPipelineAssumption DEF Init, RulesOwned
<1>2. TypeOK /\ RulesOwned => NoRulesLeft
  <2> SUFFICES ASSUME TypeOK, RulesOwned,
                      \A r \in Runs : ~Active(r) /\ outcome[r] # "aborted",
                      masking # Plain
               PROVE  FALSE
    BY DEF NoRulesLeft
  <2>1. masking \in Runs
    BY DEF TypeOK
  <2>2. pc[masking] \in 1..ResetAt
    BY <2>1 DEF RulesOwned
  <2>3. pc[masking] \in 1..(End - 1)
    BY <2>2, ProgramBounds
  <2>. QED
    BY <2>1, <2>3 DEF Active
<1>. QED
  BY <1>1, <1>2, RulesOwnedStep, PipelineTypeCorrect, PTL DEF Spec

-----------------------------------------------------------------------------
(* Runs that had the process to themselves.  Two runs that are active at   *)
(* the same time both know it; while a run that is not one of them is      *)
(* between privacy_init and its reset, the rules are its own; and before   *)
(* privacy_init no run has written anything.                               *)
OverlapNoted ==
  \A r, s \in Runs : r # s /\ Active(r) /\ Active(s) => r \in overlapped

OwnRules ==
  \A r \in Runs :
    r \notin overlapped /\ "privacy" \in got[r] /\ pc[r] \in 1..ResetAt => masking = Rules(r)

NothingYet ==
  \A r \in Runs :
    "privacy" \notin got[r] /\ pc[r] \in 0..MaskingAt =>
      \A a \in Artifacts : files[r][a] = Absent

NotStarted == \A r \in Runs : pc[r] = 0 => "privacy" \notin got[r]

MaskInv == OverlapNoted /\ OwnRules /\ NothingYet /\ NotStarted /\ MaskedAsConfigured

(* No run begins anew or goes back past a place by a move.                 *)
LEMMA MovesStayActive ==
  ASSUME ControlOK, NEW r \in Runs, Active(r), Moves(r), NEW s \in Runs
  PROVE  /\ Active(s)' => Active(s)
         /\ pc'[s] # 0 \/ pc[s] = 0
         /\ pc'[s] \in 1..ResetAt => pc[s] \in 1..ResetAt
         /\ pc'[s] \in 0..MaskingAt => pc[s] \in 0..MaskingAt
<1>1. CASE s # r
  BY <1>1, MovesOnlyOne DEF Active
<1>2. CASE s = r
  <2>1. pc[r] \in 1..31 /\ pc[r] \in 1..(End - 1)
    BY ProgramBounds DEF Active
  <2>2. CASE UNCHANGED <<pc, outcome>>
    BY <1>2, <2>1, <2>2 DEF Active
  <2>3. CASE Raise(r)
    <3>1. (pc'[r] = 21 /\ pc[r] < 21) \/ pc'[r] = 32
      BY <2>3, ProgramBounds DEF Raise, Goto, ControlOK
    <3>. QED
      BY <1>2, <2>1, <3>1, ProgramBounds DEF MaskingAt, Active
  <2>4. CASE Advance(r)
    <3>1. pc'[r] = pc[r] + 1
      BY <2>4 DEF Advance, Goto, ControlOK
    <3>. QED
      BY <1>2, <2>1, <3>1, ProgramBounds DEF MaskingAt, Active
  <2>. QED
    BY <2>2, <2>3, <2>4 DEF Moves
<1>. QED
  BY <1>1, <1>2

(* What a move leaves alone, whatever it does to files.                    *)
LEMMA MovesKeep ==
  ASSUME TypeOK, MaskInv, NEW r \in Runs, Active(r), Moves(r),
         UNCHANGED <<opt, masking, overlapped>>,
         \A s \in Runs : "privacy" \in got'[s] <=> "privacy" \in got[s]
  PROVE  OverlapNoted' /\ OwnRules' /\ NotStarted'
<1>0. ControlOK
  BY TypeParts
<1>1. OverlapNoted'
  BY <1>0, MovesStayActive DEF MaskInv, OverlapNoted
<1>2. OwnRules'
  BY <1>0, MovesStayActive DEF MaskInv, OwnRules, Rules
<1>3. NotStarted'
  BY <1>0, MovesStayActive DEF MaskInv, NotStarted
<1>. QED
  BY <1>1, <1>2, <1>3

(* A step that neither masks nor writes keeps it,                          *)
LEMMA QuietKeepsMaskInv ==
  ASSUME TypeOK, MaskInv, NEW r \in Runs, Quiet(r)
  PROVE  MaskInv'
<1>0. ControlOK
  BY TypeParts
<1>1. OverlapNoted' /\ OwnRules' /\ NotStarted'
  BY MovesKeep DEF Quiet
<1>2. NothingYet'
  BY <1>0, MovesStayActive DEF Quiet, MaskInv, NothingYet
<1>3. MaskedAsConfigured'
  BY DEF Quiet, MaskInv, MaskedAsConfigured, Rules
<1>. QED
  BY <1>1, <1>2, <1>3 DEF MaskInv

(* a step that writes an artifact,                                         *)
LEMMA WriteKeepsMaskInv ==
  ASSUME TypeOK, MaskInv, NEW r \in Runs, Write(r)
  PROVE  MaskInv'
<1>0. ControlOK /\ DataOK
  BY TypeParts
<1>a. Active(r) /\ Moves(r) /\ UNCHANGED <<opt, got, masking, overlapped>>
  BY WriteMoves
<1>1. OverlapNoted' /\ OwnRules' /\ NotStarted'
  BY <1>a, MovesKeep
<1>b. /\ pc[r] \in 1..(End - 1) /\ Program[pc[r]] \in Artifacts
      /\ files' = files \/ Put(r, Program[pc[r]])
  BY DEF Write, Active
<1>c. pc[r] \notin 0..MaskingAt
  <2>1. pc[r] \notin 1..MaskingAt
    BY <1>b, ProgramOrder
  <2>. QED
    BY <1>b, <2>1, ProgramBounds DEF MaskingAt
<1>2. NothingYet'
  <2>1. \A s \in Runs : s # r => files'[s] = files[s]
    BY <1>0, <1>b DEF Put, DataOK
  <2>. QED
    BY <1>0, <1>a, <1>c, <2>1, MovesStayActive DEF MaskInv, NothingYet
<1>3. MaskedAsConfigured'
  <2> SUFFICES ASSUME NEW s \in Runs, "privacy" \in got[s], s \notin overlapped, NEW a \in Masked
               PROVE  files'[s][a] \in {Absent, Rules(s)}
    BY <1>a DEF MaskedAsConfigured, Rules
  <2>0. files[s][a] \in {Absent, Rules(s)}
    BY DEF MaskInv, MaskedAsConfigured
  <2>1. CASE files'[s][a] = files[s][a]
    BY <2>0, <2>1
  <2>2. CASE files'[s][a] # files[s][a]
    <3>1. s = r /\ a = Program[pc[r]] /\ Put(r, a)
      <4>1. a \in Artifacts
        BY DEF Masked, Artifacts, Sensitive, SummaryOnlyExtra
      <4>2. Put(r, Program[pc[r]])
        BY <1>b, <2>2
      <4>3. s = r
        BY <1>0, <4>2, <2>2 DEF Put, DataOK
      <4>4. a = Program[pc[r]]
        BY <1>0, <4>1, <4>2, <4>3, <2>2 DEF Put, DataOK
      <4>. QED
        BY <4>2, <4>3, <4>4
    <3>2. files'[s][a] = Content(r, a)
      BY <1>0, <1>b, <3>1 DEF Put, DataOK
    <3>3. pc[r] \in 1..ResetAt
      <4>1. Program[ResetAt + 1] \notin Artifacts
        BY ProgramOrder DEF Artifacts, Sensitive, SummaryOnlyExtra
      <4>2. pc[r] # ResetAt + 1
        BY <1>b, <4>1
      <4>. QED
        BY <1>b, <4>2, ProgramBounds
    <3>4. masking = Rules(r)
      BY <3>1, <3>3 DEF MaskInv, OwnRules
    <3>5. a \notin Unmasked
      BY DEF Masked, Unmasked
    <3>6. Content(r, a) = Rules(r)
      BY <3>1, <3>4, <3>5 DEF Content
    <3>. QED
      BY <3>1, <3>2, <3>6
  <2>. QED
    BY <2>1, <2>2
<1>. QED
  BY <1>1, <1>2, <1>3 DEF MaskInv

(* the retention, which writes and removes,                                *)
LEMMA RetentionKeepsMaskInv ==
  ASSUME TypeOK, MaskInv, NEW r \in Runs, Retention(r)
  PROVE  MaskInv'
<1>0. ControlOK /\ DataOK
  BY TypeParts
<1>a. Active(r) /\ Moves(r) /\ UNCHANGED <<opt, got, masking, overlapped>>
  BY WriteMoves
<1>1. OverlapNoted' /\ OwnRules' /\ NotStarted'
  BY <1>a, MovesKeep
<1>b. \A s \in Runs, a \in Artifacts : files'[s][a] = files[s][a] \/ files'[s][a] = Absent
  BY <1>0 DEF Retention, DataOK
<1>2. NothingYet'
  BY <1>0, <1>a, <1>b, MovesStayActive DEF MaskInv, NothingYet
<1>3. MaskedAsConfigured'
  <2>1. Masked \subseteq Artifacts
    BY DEF Masked, Artifacts, Sensitive, SummaryOnlyExtra
  <2>. QED
    BY <1>a, <1>b, <2>1 DEF MaskInv, MaskedAsConfigured, Rules
<1>. QED
  BY <1>1, <1>2, <1>3 DEF MaskInv

(* the step that sets the rules,                                           *)
LEMMA SetMaskingKeepsMaskInv ==
  ASSUME TypeOK, MaskInv, NEW r \in Runs, SetMasking(r)
  PROVE  MaskInv'
<1>0. ControlOK /\ DataOK
  BY TypeParts
<1>a. pc[r] = 4 /\ Active(r)
  <2>1. pc[r] \in 1..(End - 1) /\ Program[pc[r]] = "masking"
    BY DEF SetMasking, At, Active
  <2>. QED
    BY <2>1, ProgramOrder DEF MaskingAt, Active
<1>b. pc' = [pc EXCEPT ![r] = 5]
  BY <1>a DEF SetMasking, Advance, Goto
<1>c. /\ masking' = Rules(r)
      /\ got' = [got EXCEPT ![r] = @ \cup {"privacy"}]
      /\ UNCHANGED <<opt, files, overlapped>>
  BY DEF SetMasking, Assign
<1>d. 5 \in 1..(End - 1) /\ 5 \in 1..ResetAt /\ 5 \notin 0..MaskingAt
  BY ProgramBounds DEF MaskingAt
<1>e. \A s \in Runs : Active(s)' <=> Active(s)
  BY <1>0, <1>a, <1>b, <1>d DEF Active, ControlOK
<1>f. \A s \in Runs \ {r} : pc'[s] = pc[s] /\ got'[s] = got[s]
  BY <1>0, <1>b, <1>c DEF ControlOK, DataOK
<1>g. pc'[r] = 5 /\ got'[r] = got[r] \cup {"privacy"}
  BY <1>0, <1>b, <1>c DEF ControlOK, DataOK
<1>1. OverlapNoted'
  BY <1>c, <1>e DEF MaskInv, OverlapNoted
<1>2. OwnRules'
  <2> SUFFICES ASSUME NEW s \in Runs, s \notin overlapped, "privacy" \in got'[s], pc'[s] \in 1..ResetAt
               PROVE  masking' = Rules(s)
    BY <1>c DEF OwnRules, Rules
  <2>1. CASE s = r
    BY <1>c, <2>1
  <2>2. CASE s # r
    <3>1. pc[s] \in 1..ResetAt
      BY <1>f, <2>2
    <3>2. Active(s)
      BY <3>1, ProgramBounds DEF Active
    <3>. QED
      BY <1>a, <2>2, <3>2 DEF MaskInv, OverlapNoted
  <2>. QED
    BY <2>1, <2>2
<1>3. NothingYet'
  BY <1>c, <1>d, <1>f, <1>g DEF MaskInv, NothingYet
<1>4. NotStarted'
  BY <1>f, <1>g DEF MaskInv, NotStarted
<1>5. MaskedAsConfigured'
  <2> SUFFICES ASSUME NEW s \in Runs, s \notin overlapped, "privacy" \in got'[s], NEW a \in Masked
               PROVE  files[s][a] \in {Absent, Rules(s)}
    BY <1>c DEF MaskedAsConfigured, Rules
  <2>1. CASE "privacy" \in got[s]
    BY <2>1 DEF MaskInv, MaskedAsConfigured
  <2>2. CASE "privacy" \notin got[s]
    <3>1. s = r
      BY <1>f, <2>2
    <3>2. a \in Artifacts /\ pc[r] \in 0..MaskingAt
      BY <1>a DEF Masked, Artifacts, Sensitive, SummaryOnlyExtra, MaskingAt
    <3>. QED
      BY <2>2, <3>1, <3>2 DEF MaskInv, NothingYet
  <2>. QED
    BY <2>1, <2>2
<1>. QED
  BY <1>1, <1>2, <1>3, <1>4, <1>5 DEF MaskInv

(* the step that takes them back,                                          *)
LEMMA ResetMaskingKeepsMaskInv ==
  ASSUME TypeOK, MaskInv, NEW r \in Runs, ResetMasking(r)
  PROVE  MaskInv'
<1>0. ControlOK
  BY TypeParts
<1>a. pc[r] = 30 /\ Active(r)
  <2>1. pc[r] \in 1..(End - 1) /\ Program[pc[r]] = "reset"
    BY DEF ResetMasking, At, Active
  <2>. QED
    BY <2>1, ProgramOrder, ProgramBounds DEF Active
<1>b. pc' = [pc EXCEPT ![r] = 31] /\ UNCHANGED <<opt, got, files, overlapped>>
  BY <1>a DEF ResetMasking, Advance, Goto
<1>c. 31 \in 1..(End - 1) /\ 31 \notin 1..ResetAt /\ 31 \notin 0..MaskingAt
  BY ProgramBounds DEF MaskingAt
<1>d. pc'[r] = 31 /\ \A s \in Runs \ {r} : pc'[s] = pc[s]
  BY <1>0, <1>b DEF ControlOK
<1>1. OverlapNoted'
  BY <1>a, <1>b, <1>c, <1>d DEF MaskInv, OverlapNoted, Active
<1>2. OwnRules'
  <2> SUFFICES ASSUME NEW s \in Runs, s \notin overlapped, pc'[s] \in 1..ResetAt
               PROVE  FALSE
    BY <1>b DEF OwnRules
  <2>1. s # r /\ pc[s] \in 1..ResetAt
    BY <1>c, <1>d
  <2>2. Active(s)
    BY <2>1, ProgramBounds DEF Active
  <2>. QED
    BY <1>a, <2>1, <2>2 DEF MaskInv, OverlapNoted
<1>3. NothingYet'
  BY <1>b, <1>c, <1>d DEF MaskInv, NothingYet
<1>4. NotStarted'
  BY <1>b, <1>d DEF MaskInv, NotStarted
<1>5. MaskedAsConfigured'
  BY <1>b DEF MaskInv, MaskedAsConfigured, Rules
<1>. QED
  BY <1>1, <1>2, <1>3, <1>4, <1>5 DEF MaskInv

(* a run that begins,                                                      *)
LEMMA BeginKeepsMaskInv ==
  ASSUME TypeOK, MaskInv, NEW r \in Runs, Begin(r)
  PROVE  MaskInv'
<1>0. ControlOK
  BY TypeParts
<1>a. /\ pc[r] = 0 /\ pc' = [pc EXCEPT ![r] = 1]
      /\ UNCHANGED <<opt, got, files, masking>>
  BY DEF Begin, Goto
<1>b. pc'[r] = 1 /\ \A s \in Runs \ {r} : pc'[s] = pc[s]
  BY <1>0, <1>a DEF ControlOK
<1>c. /\ overlapped \subseteq overlapped'
      /\ \A s \in Runs \ {r} : Active(s) => r \in overlapped' /\ s \in overlapped'
  BY DEF Begin
<1>d. 1 \in 1..(End - 1) /\ 0 \in 0..MaskingAt
  BY ProgramBounds DEF MaskingAt
<1>1. OverlapNoted'
  BY <1>b, <1>c DEF MaskInv, OverlapNoted, Active
<1>2. OwnRules'
  BY <1>a, <1>b, <1>c DEF MaskInv, OwnRules, NotStarted, Rules
<1>3. NothingYet'
  BY <1>a, <1>b, <1>d DEF MaskInv, NothingYet
<1>4. NotStarted'
  BY <1>a, <1>b DEF MaskInv, NotStarted
<1>5. MaskedAsConfigured'
  BY <1>a, <1>c DEF MaskInv, MaskedAsConfigured, Rules
<1>. QED
  BY <1>1, <1>2, <1>3, <1>4, <1>5 DEF MaskInv

(* and a crash of the process.                                             *)
LEMMA CrashKeepsMaskInv ==
  ASSUME TypeOK, MaskInv, Crash
  PROVE  MaskInv'
<1>0. ControlOK
  BY TypeParts
<1>a. UNCHANGED <<opt, got, files, overlapped>>
  BY DEF Crash
<1>b. End \notin 1..(End - 1) /\ End \notin 1..ResetAt /\ End \notin 0..MaskingAt /\ End # 0
  BY ProgramBounds DEF MaskingAt
<1>c. \A s \in Runs : pc'[s] = End \/ (pc'[s] = pc[s] /\ ~Active(s))
  BY <1>0 DEF Crash, ControlOK
<1>d. \A s \in Runs : ~Active(s)' /\ pc'[s] \notin 1..ResetAt
  <2>1. \A i \in 1..ResetAt : i \in 1..(End - 1)
    BY ProgramBounds
  <2>. QED
    BY <1>b, <1>c, <2>1 DEF Active
<1>1. OverlapNoted' /\ OwnRules'
  BY <1>d DEF OverlapNoted, OwnRules
<1>2. NothingYet'
  BY <1>a, <1>b, <1>c DEF MaskInv, NothingYet
<1>3. NotStarted'
  BY <1>a, <1>b, <1>c DEF MaskInv, NotStarted
<1>4. MaskedAsConfigured'
  BY <1>a DEF MaskInv, MaskedAsConfigured, Rules
<1>. QED
  BY <1>1, <1>2, <1>3, <1>4 DEF MaskInv

(* So every step keeps it.                                                 *)
LEMMA MaskInvStep == TypeOK /\ MaskInv /\ [Next]_vars => MaskInv'
<1> SUFFICES ASSUME TypeOK, MaskInv, [Next]_vars PROVE MaskInv'
  OBVIOUS
<1>1. CASE UNCHANGED vars
  BY <1>1 DEF vars, MaskInv, OverlapNoted, OwnRules, NothingYet, NotStarted, MaskedAsConfigured, Active, Rules
<1>2. CASE Crash
  BY <1>2, CrashKeepsMaskInv
<1>3. ASSUME NEW r \in Runs,
             Begin(r) \/ Write(r) \/ SetMasking(r) \/ ResetMasking(r) \/ Retention(r) \/ Quiet(r)
      PROVE  MaskInv'
  BY <1>3, BeginKeepsMaskInv, WriteKeepsMaskInv, SetMaskingKeepsMaskInv, ResetMaskingKeepsMaskInv,
     RetentionKeepsMaskInv, QuietKeepsMaskInv
<1>. QED
  BY <1>1, <1>2, <1>3, StepKinds

(* MaskedAsConfigured (cli.py:212, 1941): what a run writes after          *)
(* privacy_init is masked with its own rules, if no other run was active   *)
(* in the process while it was.                                            *)
THEOREM UndisturbedRunsMask == Spec => []MaskedAsConfigured
<1>1. Init => MaskInv
  <2> SUFFICES ASSUME Init PROVE MaskInv
    OBVIOUS
  <2>1. OverlapNoted
    BY DEF Init, OverlapNoted, Active
  <2>. QED
    BY <2>1 DEF Init, MaskInv, OwnRules, NothingYet, NotStarted, MaskedAsConfigured
<1>2. MaskInv => MaskedAsConfigured
  BY DEF MaskInv
<1>. QED
  BY <1>1, <1>2, MaskInvStep, PipelineTypeCorrect, PTL DEF Spec

-----------------------------------------------------------------------------
(* A run that has neither left its finally block by an exception nor died, *)
(* and is past step i - 1 of the finally block.                            *)
Ordinary(r) == outcome[r] \in {"ok", "failed"}
Past(r, i) == pc[r] \in i..End /\ Ordinary(r)

(* Which local variables a run has.                                        *)
Progress(r) ==
  /\ pc[r] \in 0..(End - 1) => Ordinary(r)
  /\ pc[r] \in {0, 1} => got[r] = {}
  /\ pc[r] \in 2..(FinallyAt - 1) => "plugins" \in got[r]
  /\ "privacy" \in got[r] => "plugins" \in got[r]
  /\ Past(r, 28) => "privacy" \in got[r]

Leftovers(r) ==
  /\ Past(r, 30) => files[r]["run_manifest.json"] # Absent
  /\ Past(r, 32) => "clients" \notin got[r]
  /\ shadow[r] = "created" => "shadow" \in got[r]
  /\ Past(r, 23) /\ opt[r].cleanup => shadow[r] # "created"

Retained(r) ==
  ~opt[r].persist =>
    /\ files[r]["docs_sample.jsonl"] = Absent
    /\ files[r]["queries_extracted.jsonl"] = Absent
    /\ Past(r, 26) /\ "privacy" \in got[r] => \A a \in Expired(r) \ {"compare.json"} : files[r][a] = Absent

PluginsKept(r) ==
  /\ pc[r] \in 0..(FinallyAt - 1) \/ "plugins" \notin got[r] =>
       \A i \in Indices : plugin[r][i] \in {"new", "broken", "ready"}
  /\ pc[r] = FinallyAt /\ "plugins" \in got[r] =>
       \A i \in Indices :
         plugin[r][i] \in {"new", "broken", IF i < next[r] THEN "cleaned" ELSE "ready"}
  /\ Past(r, 22) /\ "plugins" \in got[r] =>
       \A i \in Indices : plugin[r][i] \in {"new", "broken", "cleaned", "reopened"}
  /\ \A i \in Indices :
       plugin[r][i] # "misused" /\ (plugin[r][i] = "reopened" => Plugins[i] = "observability")

RunInv(r) == Progress(r) /\ Leftovers(r) /\ Retained(r) /\ PluginsKept(r)
OutcomeInv == \A r \in Runs : RunInv(r)

-----------------------------------------------------------------------------
(* The steps of the program by their numbers.                              *)
LEMMA Steps ==
  /\ Program[1] = "plugins" /\ Program[2] = "on_run_started" /\ Program[3] = "clients"
  /\ Program[4] = "masking" /\ Program[5] = "privacy.json" /\ Program[6] = "create_shadow"
  /\ Program[7] = "docs_sample.jsonl" /\ Program[8] = "queries_extracted.jsonl"
  /\ Program[9] = "replay.json" /\ Program[10] = "compare.json" /\ Program[11] = "replay.json"
  /\ Program[12] = "details" /\ Program[13] = "compare.json" /\ Program[14] = "gate"
  /\ Program[15] = "report" /\ Program[16] = "execute" /\ Program[17] = "plugins.json"
  /\ Program[18] = "compare.json" /\ Program[19] = "on_gate_failed" /\ Program[20] = "report.json"
  /\ Program[21] = "cleanup_plugins" /\ Program[22] = "cleanup_shadow"
  /\ Program[23] = "on_run_completed" /\ Program[24] = "compare.json"
  /\ Program[25] = "retention" /\ Program[26] = "privacy.json" /\ Program[27] = "privacy_report"
  /\ Program[28] = "compare.json" /\ Program[29] = "run_manifest.json"
  /\ Program[30] = "reset" /\ Program[31] = "close"
BY DEF Program, Setup, Prepare, Compare, Extend, Finally

(* The other way round: where a step of a kind is.                         *)
LEMMA Positions ==
  \A i \in 1..31 :
    /\ Program[i] = "plugins" => i = 1
    /\ Program[i] = "clients" => i = 3
    /\ Program[i] = "masking" => i = 4
    /\ Program[i] = "create_shadow" => i = 6
    /\ Program[i] = "cleanup_plugins" => i = 21
    /\ Program[i] = "cleanup_shadow" => i = 22
    /\ Program[i] = "retention" => i = 25
    /\ Program[i] = "privacy_report" => i = 27
    /\ Program[i] = "reset" => i = 30
    /\ Program[i] = "close" => i = 31
    /\ Program[i] \in Artifacts =>
         i \notin {1, 2, 3, 4, 6, 14, 15, 16, 19, 21, 22, 23, 25, 27, 30, 31}
    /\ Program[i] \in DOMAIN Hooks => i \in {2, 14, 15, 16, 19, 21, 23}
<1> TAKE i \in 1..31
<1>1. /\ Program[i] = "plugins" => i = 1
      /\ Program[i] = "clients" => i = 3
      /\ Program[i] = "masking" => i = 4
      /\ Program[i] = "create_shadow" => i = 6
      /\ Program[i] = "cleanup_plugins" => i = 21
      /\ Program[i] = "cleanup_shadow" => i = 22
      /\ Program[i] = "retention" => i = 25
      /\ Program[i] = "privacy_report" => i = 27
      /\ Program[i] = "reset" => i = 30
      /\ Program[i] = "close" => i = 31
  BY Steps
<1>2. Program[i] \in Artifacts =>
        i \notin {1, 2, 3, 4, 6, 14, 15, 16, 19, 21, 22, 23, 25, 27, 30, 31}
  BY Steps DEF Artifacts, Sensitive, SummaryOnlyExtra
<1>3. Program[i] \in DOMAIN Hooks => i \in {2, 14, 15, 16, 19, 21, 23}
  BY Steps DEF Hooks
<1>. QED
  BY <1>1, <1>2, <1>3

(* The invariant of a run is about that run only.                          *)
LEMMA StillRuns ==
  ASSUME NEW s \in Runs, RunInv(s), opt' = opt, pc'[s] = pc[s], outcome'[s] = outcome[s],
         got'[s] = got[s], next'[s] = next[s], plugin'[s] = plugin[s], files'[s] = files[s],
         shadow'[s] = shadow[s]
  PROVE  RunInv(s)'
<1>1. Progress(s)'
  BY DEF RunInv, Progress, Past, Ordinary
<1>2. Leftovers(s)'
  BY DEF RunInv, Leftovers, Past, Ordinary
<1>3. Retained(s)'
  BY DEF RunInv, Retained, Past, Ordinary, Expired
<1>4. PluginsKept(s)'
  BY DEF RunInv, PluginsKept, Past, Ordinary
<1>. QED
  BY <1>1, <1>2, <1>3, <1>4 DEF RunInv

-----------------------------------------------------------------------------
(* An exception takes a run to its finally block, or out of it.            *)
LEMMA RaiseKeeps ==
  ASSUME ControlOK, NEW r \in Runs, Active(r), RunInv(r), Raise(r), opt' = opt,
         got'[r] = got[r], files'[r] = files[r],
         shadow'[r] = "created" => shadow[r] = "created",
         pc[r] < FinallyAt =>
           \A i \in Indices : plugin'[r][i] \in {"new", "broken", "ready"},
         "plugins" \notin got[r] => plugin'[r] = plugin[r] \/ pc[r] < FinallyAt,
         \A i \in Indices : plugin'[r][i] # "misused" /\
            (plugin'[r][i] = "reopened" => Plugins[i] = "observability")
  PROVE  RunInv(r)'
<1>. USE ProgramBounds
<1>0. pc[r] \in 1..31
  BY DEF Active
<1>1. CASE pc[r] < 21
  <2>0. /\ pc'[r] = 21 /\ next'[r] = 1 /\ outcome'[r] = "failed"
    BY <1>1 DEF Raise, Goto, ControlOK
  <2>1. Progress(r)'
    <3>1. "privacy" \in got'[r] => "plugins" \in got'[r]
      BY DEF RunInv, Progress
    <3>. QED
      BY <2>0, <3>1 DEF Progress, Past, Ordinary
  <2>2. Leftovers(r)'
    BY <2>0 DEF RunInv, Leftovers, Past, Ordinary
  <2>3. Retained(r)'
    BY <2>0 DEF RunInv, Retained, Past, Ordinary
  <2>4. PluginsKept(r)'
    <3>1. \A i \in Indices : plugin'[r][i] \in {"new", "broken", "ready"} /\ ~(i < 1)
      BY <1>1, IndexFacts
    <3>. QED
      BY <2>0, <3>1 DEF PluginsKept, Past, Ordinary
  <2>. QED
    BY <2>1, <2>2, <2>3, <2>4 DEF RunInv
<1>2. CASE ~(pc[r] < 21)
  <2>0. /\ pc'[r] = 32 /\ outcome'[r] = "aborted"
    BY <1>2 DEF Raise, Goto, ControlOK
  <2>1. Progress(r)'
    <3>1. "privacy" \in got'[r] => "plugins" \in got'[r]
      BY DEF RunInv, Progress
    <3>. QED
      BY <2>0, <3>1 DEF Progress, Past, Ordinary
  <2>2. Leftovers(r)'
    BY <2>0 DEF RunInv, Leftovers, Past, Ordinary
  <2>3. Retained(r)'
    BY <2>0 DEF RunInv, Retained, Past, Ordinary
  <2>4. PluginsKept(r)'
    <3>1. "plugins" \notin got'[r] => plugin'[r] = plugin[r]
      BY <1>2
    <3>2. "plugins" \notin got'[r] => \A i \in Indices : plugin[r][i] \in {"new", "broken", "ready"}
      BY DEF RunInv, PluginsKept
    <3>. QED
      BY <2>0, <3>1, <3>2 DEF PluginsKept, Past, Ordinary
  <2>. QED
    BY <2>1, <2>2, <2>3, <2>4 DEF RunInv
<1>. QED
  BY <1>1, <1>2

(* A step that is done takes a run to the next one, with what the step     *)
(* itself has to see to.                                                   *)
LEMMA AdvanceControl ==
  ASSUME ControlOK, NEW r \in Runs, Active(r), RunInv(r), Advance(r)
  PROVE  /\ pc[r] \in 1..31 /\ pc'[r] = pc[r] + 1 /\ next'[r] = 1
         /\ outcome'[r] = outcome[r] /\ Ordinary(r) /\ Ordinary(r)'
         /\ \A i \in 2..32 : Past(r, i)' => Past(r, i) \/ pc[r] = i - 1
<1>. USE ProgramBounds
<1>1. pc[r] \in 1..31
  BY DEF Active
<1>2. pc'[r] = pc[r] + 1 /\ next'[r] = 1 /\ outcome'[r] = outcome[r]
  BY DEF Advance, Goto, ControlOK
<1>3. Ordinary(r) /\ Ordinary(r)'
  BY <1>1, <1>2 DEF RunInv, Progress, Ordinary
<1>4. \A i \in 2..32 : Past(r, i)' => Past(r, i) \/ pc[r] = i - 1
  BY <1>1, <1>2, <1>3 DEF Past
<1>. QED
  BY <1>1, <1>2, <1>3, <1>4

(* To go on keeps the progress of a run, if locals are set in time.        *)
LEMMA AdvanceProgress ==
  ASSUME ControlOK, NEW r \in Runs, Active(r), RunInv(r), Advance(r),
         \A l \in {"plugins", "privacy"} : l \in got[r] => l \in got'[r],
         pc[r] = 1 => "plugins" \in got'[r],
         "privacy" \in got'[r] => "privacy" \in got[r] \/ pc[r] = 4,
         pc[r] = 27 => "privacy" \in got[r]
  PROVE  Progress(r)'
<1>. USE ProgramBounds
<1>0. /\ pc[r] \in 1..31 /\ pc'[r] = pc[r] + 1 /\ Ordinary(r) /\ Ordinary(r)'
      /\ Past(r, 28)' => Past(r, 28) \/ pc[r] = 27
  BY AdvanceControl
<1>1. pc'[r] \in 2..20 => "plugins" \in got'[r]
  BY <1>0 DEF RunInv, Progress
<1>2. "privacy" \in got'[r] => "plugins" \in got'[r]
  BY <1>0 DEF RunInv, Progress
<1>3. Past(r, 28)' => "privacy" \in got'[r]
  BY <1>0 DEF RunInv, Progress
<1>4. pc'[r] \notin {0, 1}
  BY <1>0
<1>. QED
  BY <1>0, <1>1, <1>2, <1>3, <1>4 DEF Progress

(* To go on leaves nothing behind, if shadow and clients are removed.      *)
LEMMA AdvanceLeftovers ==
  ASSUME ControlOK, NEW r \in Runs, Active(r), RunInv(r), Advance(r), opt' = opt,
         files'[r]["run_manifest.json"] = Absent =>
           files[r]["run_manifest.json"] = Absent /\ pc[r] # 29,
         pc[r] = 31 => "clients" \notin got'[r],
         shadow'[r] = "created" => "shadow" \in got'[r],
         shadow'[r] = "created" /\ opt[r].cleanup => pc[r] # 22,
         shadow'[r] = shadow[r] \/ pc[r] < 23
  PROVE  Leftovers(r)'
<1>. USE ProgramBounds
<1>0. /\ pc[r] \in 1..31 /\ pc'[r] = pc[r] + 1 /\ Ordinary(r) /\ Ordinary(r)'
      /\ Past(r, 30)' => Past(r, 30) \/ pc[r] = 29
      /\ Past(r, 32)' => Past(r, 32) \/ pc[r] = 31
      /\ Past(r, 23)' => Past(r, 23) \/ pc[r] = 22
  BY AdvanceControl
<1>1. Past(r, 30)' => files'[r]["run_manifest.json"] # Absent
  BY <1>0 DEF RunInv, Leftovers
<1>2. Past(r, 32)' => "clients" \notin got'[r]
  BY <1>0 DEF Past
<1>3. Past(r, 23)' /\ opt[r].cleanup => shadow'[r] # "created"
  BY <1>0 DEF RunInv, Leftovers, Past
<1>. QED
  BY <1>1, <1>2, <1>3 DEF Leftovers

(* To go on retains nothing, if what has expired is removed.               *)
LEMMA AdvanceRetained ==
  ASSUME ControlOK, NEW r \in Runs, Active(r), RunInv(r), Advance(r), opt' = opt,
         "privacy" \in got'[r] => "privacy" \in got[r] \/ pc[r] = 4,
         ~opt[r].persist =>
           /\ files'[r]["docs_sample.jsonl"] = Absent
           /\ files'[r]["queries_extracted.jsonl"] = Absent
           /\ pc[r] > 24 /\ "privacy" \in got[r] =>
                \A a \in Expired(r) \ {"compare.json"} :
                  files'[r][a] = Absent \/ (files'[r][a] = files[r][a] /\ pc[r] # 25)
  PROVE  Retained(r)'
<1>. USE ProgramBounds
<1>0. /\ pc[r] \in 1..31 /\ pc'[r] = pc[r] + 1 /\ Ordinary(r) /\ Ordinary(r)'
      /\ Past(r, 26)' => Past(r, 26) \/ pc[r] = 25
  BY AdvanceControl
<1> SUFFICES ASSUME ~opt[r].persist, Past(r, 26)', "privacy" \in got'[r],
                    NEW a, a \in Expired(r)' \ {"compare.json"}
             PROVE  files'[r][a] = Absent
  BY DEF Retained
<1>1. pc[r] > 24 /\ "privacy" \in got[r] /\ a \in Expired(r)
  BY <1>0 DEF Past, Expired
<1>2. pc[r] # 25 => files[r][a] = Absent
  BY <1>0, <1>1 DEF RunInv, Retained
<1>. QED
  BY <1>1, <1>2

(* To go on keeps plugins in step with the loop over them.                 *)
LEMMA AdvancePlugins ==
  ASSUME ControlOK, NEW r \in Runs, Active(r), RunInv(r), Advance(r),
         plugin'[r] = plugin[r], "plugins" \in got[r] => "plugins" \in got'[r],
         "plugins" \in got'[r] => "plugins" \in got[r] \/ pc[r] = 1,
         pc[r] = 21 /\ "plugins" \in got[r] => \A i \in Indices : plugin[r][i] # "ready"
  PROVE  PluginsKept(r)'
<1>. USE ProgramBounds
<1>0. /\ pc[r] \in 1..31 /\ pc'[r] = pc[r] + 1 /\ next'[r] = 1 /\ Ordinary(r) /\ Ordinary(r)'
      /\ Past(r, 22)' => Past(r, 22) \/ pc[r] = 21
  BY AdvanceControl
<1>1. pc'[r] \in 0..20 \/ "plugins" \notin got'[r] =>
        \A i \in Indices : plugin[r][i] \in {"new", "broken", "ready"}
  <2>1. CASE pc[r] \in 0..20
    BY <2>1 DEF RunInv, PluginsKept
  <2>2. CASE pc[r] \notin 0..20
    BY <1>0, <2>2 DEF RunInv, PluginsKept
  <2>. QED
    BY <2>1, <2>2
<1>2. pc'[r] = 21 => \A i \in Indices : plugin[r][i] \in {"new", "broken", "ready"} /\ ~(i < 1)
  <2> SUFFICES ASSUME pc'[r] = 21, NEW i \in Indices
               PROVE  plugin[r][i] \in {"new", "broken", "ready"} /\ ~(i < 1)
    OBVIOUS
  <2>1. pc[r] \in 0..20
    BY <1>0
  <2>2. plugin[r][i] \in {"new", "broken", "ready"}
    BY <2>1 DEF RunInv, PluginsKept
  <2>. QED
    BY <2>2, IndexFacts
<1>3. Past(r, 22)' /\ "plugins" \in got'[r] =>
        \A i \in Indices : plugin[r][i] \in {"new", "broken", "cleaned", "reopened"}
  BY <1>0 DEF RunInv, PluginsKept, Past
<1>4. \A i \in Indices :
        plugin[r][i] # "misused" /\ (plugin[r][i] = "reopened" => Plugins[i] = "observability")
  BY DEF RunInv, PluginsKept
<1>. QED
  BY <1>0, <1>1, <1>2, <1>3, <1>4 DEF PluginsKept

-----------------------------------------------------------------------------
(* What each step does to its own run.                                     *)
LEMMA WriteKeeps ==
  ASSUME ControlOK, DataOK, NEW r \in Runs, RunInv(r), Write(r)
  PROVE  RunInv(r)'
<1>. USE ProgramBounds
<1>0. /\ Active(r) /\ Advance(r) /\ opt' = opt /\ got' = got /\ plugin' = plugin /\ shadow' = shadow
      /\ pc[r] \in 1..31 /\ Program[pc[r]] \in Artifacts
  BY DEF Write, Active
<1> DEFINE w == Program[pc[r]]
<1>1. /\ pc[r] \notin {1, 2, 3, 4, 6, 14, 15, 16, 19, 21, 22, 23, 25, 27, 30, 31}
      /\ pc[r] = 29 => w = "run_manifest.json"
      /\ pc[r] > 24 => w \in {"compare.json", "privacy.json", "run_manifest.json"}
  <2>1. pc[r] \notin {1, 2, 3, 4, 6, 14, 15, 16, 19, 21, 22, 23, 25, 27, 30, 31}
    BY <1>0, Positions
  <2>2. pc[r] > 24 => pc[r] \in {26, 28, 29}
    BY <1>0, <2>1
  <2>. QED
    BY <2>1, <2>2, Steps
<1>2. \/ UNCHANGED files /\ MaySkip(r, w)
      \/ /\ MayWrite(r, w) /\ files'[r][w] = Content(r, w)
         /\ \A a \in Artifacts \ {w} : files'[r][a] = files[r][a]
  BY <1>0 DEF Write, Put, DataOK
<1>3. Content(r, w) # Absent
  BY RunPipelineAssumption DEF Content, Rules, DataOK
<1>4. Progress(r)'
  BY <1>0, <1>1, AdvanceProgress
<1>5. Leftovers(r)'
  <2>1. "run_manifest.json" \in Artifacts
    BY DEF Artifacts
  <2>2. files'[r]["run_manifest.json"] = Absent => files[r]["run_manifest.json"] = Absent
    BY <1>2, <1>3, <2>1
  <2>3. pc[r] = 29 => files'[r]["run_manifest.json"] # Absent
    BY <1>1, <1>2, <1>3 DEF MaySkip, MayWrite
  <2>4. shadow[r] = "created" => "shadow" \in got[r]
    BY DEF RunInv, Leftovers
  <2>. QED
    BY <1>0, <1>1, <2>2, <2>3, <2>4, AdvanceLeftovers
<1>6. Retained(r)'
  <2>1. \A a \in Artifacts : files'[r][a] = files[r][a] \/ (a = w /\ MayWrite(r, w))
    BY <1>2
  <2>2. ~opt[r].persist => /\ files'[r]["docs_sample.jsonl"] = Absent
                           /\ files'[r]["queries_extracted.jsonl"] = Absent
    BY <2>1 DEF RunInv, Retained, MayWrite, Artifacts, Sensitive
  <2>3. \A a \in Expired(r) \ {"compare.json"} : pc[r] > 24 => files'[r][a] = files[r][a]
    BY <1>1, <2>1 DEF Expired, Artifacts, Sensitive, SummaryOnlyExtra
  <2>. QED
    BY <1>0, <1>1, <2>2, <2>3, AdvanceRetained
<1>7. PluginsKept(r)'
  BY <1>0, <1>1, AdvancePlugins
<1>. QED
  BY <1>4, <1>5, <1>6, <1>7 DEF RunInv

(* The steps that assign a local variable, or touch nothing of their run.  *)
LEMMA LocalsKeep ==
  ASSUME ControlOK, DataOK, NEW r \in Runs, RunInv(r),
         Connect(r) \/ SetMasking(r) \/ ResetMasking(r) \/ Close(r) \/ ReportPrivacy(r)
           \/ PluginsInitialized(r)
  PROVE  RunInv(r)'
<1>. USE ProgramBounds
<1>0. /\ Active(r) /\ opt' = opt /\ plugin' = plugin /\ shadow' = shadow /\ files' = files
      /\ pc[r] \in 1..31
  BY DEF Connect, SetMasking, ResetMasking, Close, ReportPrivacy, PluginsInitialized, At, Active
<1>1. \/ pc[r] = 1 /\ Advance(r) /\ got'[r] = got[r] \cup {"plugins"}
      \/ pc[r] = 3 /\ Advance(r) /\ got'[r] = got[r] \cup {"clients"}
      \/ pc[r] = 4 /\ Advance(r) /\ got'[r] = got[r] \cup {"privacy"}
      \/ pc[r] = 27 /\ Advance(r) /\ got' = got /\ "privacy" \in got[r]
      \/ pc[r] = 27 /\ Raise(r) /\ got' = got
      \/ pc[r] = 30 /\ Advance(r) /\ got' = got
      \/ pc[r] = 31 /\ Advance(r) /\ got'[r] = got[r] \ {"clients"}
  BY <1>0, Positions DEF Connect, SetMasking, ResetMasking, Close, ReportPrivacy, PluginsInitialized,
                         At, Assign, DataOK
<1>2. CASE Raise(r) /\ pc[r] = 27 /\ got' = got
  <2>1. \A i \in Indices : plugin[r][i] # "misused" /\
            (plugin[r][i] = "reopened" => Plugins[i] = "observability")
    BY DEF RunInv, PluginsKept
  <2>. QED
    BY <1>0, <1>2, <2>1, RaiseKeeps
<1>3. CASE Advance(r) /\ (pc[r] = 27 => "privacy" \in got[r])
  <2>1. /\ \A l \in {"plugins", "privacy", "shadow"} : l \in got[r] => l \in got'[r]
        /\ "plugins" \in got'[r] => "plugins" \in got[r] \/ pc[r] = 1
        /\ "privacy" \in got'[r] => "privacy" \in got[r] \/ pc[r] = 4
        /\ pc[r] = 1 => "plugins" \in got'[r]
        /\ pc[r] = 31 => "clients" \notin got'[r]
        /\ pc[r] \notin {21, 22, 25, 29}
    BY <1>1
  <2>2. Progress(r)'
    BY <1>0, <1>3, <2>1, AdvanceProgress
  <2>3. Leftovers(r)'
    <3>1. shadow[r] = "created" => "shadow" \in got[r]
      BY DEF RunInv, Leftovers
    <3>. QED
      BY <1>0, <1>3, <2>1, <3>1, AdvanceLeftovers
  <2>4. Retained(r)'
    <3>1. ~opt[r].persist => files[r]["docs_sample.jsonl"] = Absent
                             /\ files[r]["queries_extracted.jsonl"] = Absent
      BY DEF RunInv, Retained
    <3>. QED
      BY <1>0, <1>3, <2>1, <3>1, AdvanceRetained
  <2>5. PluginsKept(r)'
    BY <1>0, <1>3, <2>1, AdvancePlugins
  <2>. QED
    BY <2>2, <2>3, <2>4, <2>5 DEF RunInv
<1>. QED
  BY <1>1, <1>2, <1>3

(* What a step has to say of its run when it is neither an exception nor   *)
(* the end of the step.                                                    *)
LEMMA StayKeeps ==
  ASSUME NEW r \in Runs, RunInv(r), PluginsKept(r)', opt' = opt, pc'[r] = pc[r],
         outcome'[r] = outcome[r], got'[r] = got[r], files'[r] = files[r], shadow'[r] = shadow[r]
  PROVE  RunInv(r)'
<1>1. Progress(r)'
  BY DEF RunInv, Progress, Past, Ordinary
<1>2. Leftovers(r)'
  BY DEF RunInv, Leftovers, Past, Ordinary
<1>3. Retained(r)'
  BY DEF RunInv, Retained, Past, Ordinary, Expired
<1>. QED
  BY <1>1, <1>2, <1>3 DEF RunInv

(* A run that begins keeps the invariant of a run,                         *)
LEMMA BeginKeeps ==
  ASSUME ControlOK, NEW r \in Runs, RunInv(r), Begin(r)
  PROVE  RunInv(r)'
<1>. USE ProgramBounds
<1>1. /\ pc[r] = 0 /\ pc'[r] = 1 /\ opt' = opt /\ outcome' = outcome /\ got' = got
      /\ plugin' = plugin /\ files' = files /\ shadow' = shadow
  BY DEF Begin, Goto, ControlOK
<1>2. Ordinary(r) /\ got[r] = {}
  BY <1>1 DEF RunInv, Progress
<1>3. Progress(r)'
  BY <1>1, <1>2 DEF Progress, Past, Ordinary
<1>4. Leftovers(r)'
  BY <1>1, <1>2 DEF RunInv, Leftovers, Past
<1>5. Retained(r)'
  BY <1>1, <1>2 DEF RunInv, Retained, Past
<1>6. PluginsKept(r)'
  BY <1>1, <1>2 DEF RunInv, PluginsKept, Past
<1>. QED
  BY <1>3, <1>4, <1>5, <1>6 DEF RunInv

(* as does one that fails,                                                 *)
LEMMA FailKeeps ==
  ASSUME ControlOK, NEW r \in Runs, RunInv(r), Fail(r)
  PROVE  RunInv(r)'
<1>1. /\ Active(r) /\ Raise(r) /\ opt' = opt /\ got' = got /\ plugin' = plugin
      /\ files' = files /\ shadow' = shadow
  BY DEF Fail
<1>2. \A i \in Indices : plugin[r][i] # "misused" /\
          (plugin[r][i] = "reopened" => Plugins[i] = "observability")
  BY DEF RunInv, PluginsKept
<1>3. pc[r] < FinallyAt => \A i \in Indices : plugin[r][i] \in {"new", "broken", "ready"}
  BY <1>1, ProgramBounds DEF RunInv, PluginsKept, Active
<1>. QED
  BY <1>1, <1>2, <1>3, RaiseKeeps

(* and a crash.                                                            *)
LEMMA CrashKeeps ==
  ASSUME ControlOK, NEW r \in Runs, RunInv(r), Crash
  PROVE  RunInv(r)'
<1>. USE ProgramBounds
<1>0. /\ pc'[r] = IF Active(r) THEN 32 ELSE pc[r]
      /\ outcome'[r] = IF Active(r) THEN "killed" ELSE outcome[r]
      /\ opt' = opt /\ got' = got /\ next' = next /\ plugin' = plugin
      /\ files' = files /\ shadow' = shadow
  BY DEF Crash
<1>1. CASE ~Active(r)
  BY <1>0, <1>1, StillRuns
<1>2. CASE Active(r)
  <2>0. pc'[r] = 32 /\ outcome'[r] = "killed"
    BY <1>0, <1>2
  <2>1. Progress(r)'
    BY <1>0, <2>0 DEF RunInv, Progress, Past, Ordinary
  <2>2. Leftovers(r)'
    BY <1>0, <2>0 DEF RunInv, Leftovers, Past, Ordinary
  <2>3. Retained(r)'
    BY <1>0, <2>0 DEF RunInv, Retained, Past, Ordinary
  <2>4. PluginsKept(r)'
    BY <1>0, <2>0 DEF RunInv, PluginsKept, Past, Ordinary
  <2>. QED
    BY <2>1, <2>2, <2>3, <2>4 DEF RunInv
<1>. QED
  BY <1>1, <1>2

(* The retention keeps it: what has expired goes.                          *)
LEMMA RetentionKeeps ==
  ASSUME ControlOK, DataOK, NEW r \in Runs, RunInv(r), Retention(r)
  PROVE  RunInv(r)'
<1>. USE ProgramBounds
<1>0. /\ Active(r) /\ Advance(r) /\ opt' = opt /\ got' = got /\ plugin' = plugin /\ shadow' = shadow
      /\ pc[r] = 25
      /\ \A a \in Artifacts : files'[r][a] = IF a \in Expired(r) THEN Absent ELSE files[r][a]
  BY Positions DEF Retention, At, Active, DataOK
<1>1. Expired(r) \subseteq Artifacts /\ "run_manifest.json" \in Artifacts \ Expired(r)
      /\ "docs_sample.jsonl" \in Artifacts /\ "queries_extracted.jsonl" \in Artifacts
  BY DEF Expired, Artifacts, Sensitive, SummaryOnlyExtra
<1>2. Progress(r)'
  BY <1>0, AdvanceProgress
<1>3. Leftovers(r)'
  <2>1. shadow[r] = "created" => "shadow" \in got[r]
    BY DEF RunInv, Leftovers
  <2>. QED
    BY <1>0, <1>1, <2>1, AdvanceLeftovers
<1>4. Retained(r)'
  <2>1. ~opt[r].persist => /\ files'[r]["docs_sample.jsonl"] = Absent
                           /\ files'[r]["queries_extracted.jsonl"] = Absent
    BY <1>0, <1>1 DEF RunInv, Retained
  <2>. QED
    BY <1>0, <1>1, <2>1, AdvanceRetained
<1>5. PluginsKept(r)'
  BY <1>0, AdvancePlugins
<1>. QED
  BY <1>2, <1>3, <1>4, <1>5 DEF RunInv

(* The creation of the shadow keeps it: the run knows of it.               *)
LEMMA CreateShadowKeeps ==
  ASSUME ControlOK, DataOK, NEW r \in Runs, RunInv(r), CreateShadow(r)
  PROVE  RunInv(r)'
<1>. USE ProgramBounds
<1>0. Active(r) /\ pc[r] = 6 /\ opt' = opt /\ plugin' = plugin /\ files' = files
  BY Positions DEF CreateShadow, At, Active
<1>p. \A i \in Indices : plugin[r][i] \in {"new", "broken", "ready"}
  BY <1>0 DEF RunInv, PluginsKept
<1>1. \/ Advance(r) /\ got'[r] = got[r] \cup {"shadow"}
      \/ Raise(r) /\ got' = got /\ shadow'[r] = "partial"
  BY DEF CreateShadow, Assign, DataOK
<1>2. CASE Raise(r) /\ got' = got /\ shadow'[r] = "partial"
  BY <1>0, <1>p, <1>2, RaiseKeeps
<1>3. CASE Advance(r) /\ got'[r] = got[r] \cup {"shadow"}
  <2>1. Progress(r)'
    BY <1>0, <1>3, AdvanceProgress
  <2>2. Leftovers(r)'
    BY <1>0, <1>3, AdvanceLeftovers
  <2>3. Retained(r)'
    <3>1. ~opt[r].persist => files[r]["docs_sample.jsonl"] = Absent
                             /\ files[r]["queries_extracted.jsonl"] = Absent
      BY DEF RunInv, Retained
    <3>. QED
      BY <1>0, <1>3, <3>1, AdvanceRetained
  <2>4. PluginsKept(r)'
    BY <1>0, <1>3, AdvancePlugins
  <2>. QED
    BY <2>1, <2>2, <2>3, <2>4 DEF RunInv
<1>. QED
  BY <1>1, <1>2, <1>3

(* The removal of the shadow keeps it.                                     *)
LEMMA CleanupShadowKeeps ==
  ASSUME ControlOK, DataOK, NEW r \in Runs, RunInv(r), CleanupShadow(r)
  PROVE  RunInv(r)'
<1>. USE ProgramBounds
<1>0. /\ Active(r) /\ Advance(r) /\ pc[r] = 22
      /\ opt' = opt /\ got' = got /\ plugin' = plugin /\ files' = files
  BY Positions DEF CleanupShadow, At, Active
<1>1. IF opt[r].cleanup /\ "shadow" \in got[r]
      THEN shadow'[r] \in {"deleted", "undeletable"} ELSE shadow' = shadow
  BY DEF CleanupShadow, DataOK
<1>2. shadow[r] = "created" => "shadow" \in got[r]
  BY DEF RunInv, Leftovers
<1>3. Progress(r)'
  BY <1>0, AdvanceProgress
<1>4. Leftovers(r)'
  BY <1>0, <1>1, <1>2, AdvanceLeftovers
<1>5. Retained(r)'
  <2>1. ~opt[r].persist => files[r]["docs_sample.jsonl"] = Absent
                           /\ files[r]["queries_extracted.jsonl"] = Absent
    BY DEF RunInv, Retained
  <2>. QED
    BY <1>0, <2>1, AdvanceRetained
<1>6. PluginsKept(r)'
  BY <1>0, AdvancePlugins
<1>. QED
  BY <1>3, <1>4, <1>5, <1>6 DEF RunInv

-----------------------------------------------------------------------------
(* Plugins.                                                                *)
LEMMA InitPluginKeeps ==
  ASSUME ControlOK, DataOK, NEW r \in Runs, RunInv(r), InitPlugin(r)
  PROVE  RunInv(r)'
<1>. USE ProgramBounds
<1>0. /\ Active(r) /\ pc[r] = 1 /\ next[r] \in Indices
      /\ opt' = opt /\ got' = got /\ files' = files /\ shadow' = shadow
  BY Positions DEF InitPlugin, At, Active
<1>1. got[r] = {} /\ Ordinary(r)
  BY <1>0 DEF RunInv, Progress
<1>2. \E s \in {"broken", "ready"} : SetPlugin(r, next[r], s)
  BY DEF InitPlugin
<1>3. \A i \in Indices : plugin'[r][i] \in {"new", "broken", "ready"}
  <2>1. \A i \in Indices : plugin'[r][i] = plugin[r][i] \/ plugin'[r][i] \in {"broken", "ready"}
    BY <1>0, <1>2 DEF SetPlugin, DataOK
  <2>2. \A i \in Indices : plugin[r][i] \in {"new", "broken", "ready"}
    BY <1>0 DEF RunInv, PluginsKept
  <2>. QED
    BY <2>1, <2>2
<1>4. Raise(r) \/ (pc' = pc /\ outcome' = outcome)
  BY DEF InitPlugin, PluginRaised
<1>5. CASE Raise(r)
  BY <1>0, <1>3, <1>5, RaiseKeeps
<1>6. CASE pc' = pc /\ outcome' = outcome
  <2>1. PluginsKept(r)'
    BY <1>0, <1>1, <1>3, <1>6 DEF PluginsKept, Past
  <2>. QED
    BY <1>0, <1>6, <2>1, StayKeeps
<1>. QED
  BY <1>4, <1>5, <1>6

(* A loop over the plugins calls those that were initialized: before the   *)
(* cleanup they stay ready, the cleanup takes each of them once, and what  *)
(* comes after it opens those of the observability type again.             *)
LEMMA CallSteps ==
  ASSUME ControlOK, DataOK, NEW r \in Runs, RunInv(r), Active(r),
         Program[pc[r]] \in DOMAIN Hooks, NEW i \in Callees(r)
  PROVE  /\ pc[r] \in {2, 14, 15, 16, 19, 21, 23} /\ "plugins" \in got[r]
         /\ i \in Indices /\ i >= next[r] /\ plugin[r][i] \notin {"new", "broken"}
         /\ pc[r] < 21 => plugin[r][i] = "ready" /\ AfterCall(Program[pc[r]], plugin[r][i]) = "ready"
         /\ pc[r] = 21 => AfterCall(Program[pc[r]], plugin[r][i]) = "cleaned"
         /\ pc[r] = 23 => AfterCall(Program[pc[r]], plugin[r][i]) = "reopened"
                          /\ Plugins[i] = "observability"
<1>. USE ProgramBounds
<1>0. pc[r] \in 1..31 /\ Ordinary(r)
  BY DEF Active, RunInv, Progress
<1>1. pc[r] \in {2, 14, 15, 16, 19, 21, 23}
  BY <1>0, Positions
<1>2. "plugins" \in got[r] /\ i \in Indices /\ i >= next[r] /\ plugin[r][i] \notin {"new", "broken"}
  BY DEF Callees, Initialized
<1>3. ASSUME pc[r] < 21
      PROVE  plugin[r][i] = "ready" /\ AfterCall(Program[pc[r]], plugin[r][i]) = "ready"
  <2>1. plugin[r][i] = "ready"
    BY <1>0, <1>2, <1>3 DEF RunInv, PluginsKept
  <2>2. Program[pc[r]] # "cleanup_plugins"
    BY <1>0, <1>3, Positions
  <2>. QED
    BY <2>1, <2>2 DEF AfterCall
<1>4. ASSUME pc[r] = 21
      PROVE  AfterCall(Program[pc[r]], plugin[r][i]) = "cleaned"
  <2>1. ~(i < next[r])
    BY <1>2, IndexFacts DEF ControlOK
  <2>2. plugin[r][i] \in {"new", "broken", "ready"}
    BY <1>2, <1>4, <2>1 DEF RunInv, PluginsKept
  <2>. QED
    BY <1>2, <1>4, <2>2, Steps DEF AfterCall
<1>5. ASSUME pc[r] = 23
      PROVE  AfterCall(Program[pc[r]], plugin[r][i]) = "reopened" /\ Plugins[i] = "observability"
  <2>1. plugin[r][i] \in {"cleaned", "reopened"}
    BY <1>0, <1>2, <1>5 DEF RunInv, PluginsKept, Past
  <2>2. Program[pc[r]] = "on_run_completed"
    BY <1>5, Steps
  <2>. QED
    BY <2>1, <2>2 DEF AfterCall, Callees, Hooks
<1>. QED
  BY <1>1, <1>2, <1>3, <1>4, <1>5

(* A call of a plugin keeps it,                                            *)
LEMMA CallPluginKeeps ==
  ASSUME ControlOK, DataOK, NEW r \in Runs, RunInv(r), CallPlugin(r)
  PROVE  RunInv(r)'
<1>. USE ProgramBounds
<1>0. /\ Active(r) /\ Program[pc[r]] \in DOMAIN Hooks
      /\ opt' = opt /\ got' = got /\ files' = files /\ shadow' = shadow
  BY DEF CallPlugin
<1>1. PICK i \in Callees(r) :
        /\ \A k \in Callees(r) : i <= k
        /\ SetPlugin(r, i, AfterCall(Program[pc[r]], plugin[r][i]))
        /\ \/ next' = [next EXCEPT ![r] = i + 1] /\ UNCHANGED <<pc, outcome>>
           \/ Raise(r)
  BY DEF CallPlugin
<1> DEFINE called == AfterCall(Program[pc[r]], plugin[r][i])
<1>2. /\ pc[r] \in {2, 14, 15, 16, 19, 21, 23} /\ "plugins" \in got[r]
      /\ i \in Indices /\ i >= next[r] /\ plugin[r][i] \notin {"new", "broken"}
      /\ pc[r] < 21 => plugin[r][i] = "ready" /\ called = "ready"
      /\ pc[r] = 21 => called = "cleaned"
      /\ pc[r] = 23 => called = "reopened" /\ Plugins[i] = "observability"
  BY <1>0, <1>1, CallSteps
<1>3. plugin'[r][i] = called /\ \A k \in Indices \ {i} : plugin'[r][k] = plugin[r][k]
  BY <1>1, <1>2 DEF SetPlugin, DataOK
<1>4. \A k \in Indices : plugin[r][k] # "misused" /\
          (plugin[r][k] = "reopened" => Plugins[k] = "observability")
  BY DEF RunInv, PluginsKept
<1>5. \A k \in Indices : plugin'[r][k] # "misused" /\
          (plugin'[r][k] = "reopened" => Plugins[k] = "observability")
  <2>1. plugin'[r][i] \in {"ready", "cleaned"} \/
          (plugin'[r][i] = "reopened" /\ Plugins[i] = "observability")
    BY <1>2, <1>3
  <2>. QED
    BY <1>3, <1>4, <2>1
<1>6. pc[r] < 21 => \A k \in Indices : plugin'[r][k] \in {"new", "broken", "ready"}
  <2>1. pc[r] < 21 => \A k \in Indices : plugin[r][k] \in {"new", "broken", "ready"}
    BY <1>2 DEF RunInv, PluginsKept
  <2>. QED
    BY <1>2, <1>3, <2>1
<1>7. CASE Raise(r)
  BY <1>0, <1>2, <1>5, <1>6, <1>7, RaiseKeeps
<1>8. CASE next' = [next EXCEPT ![r] = i + 1] /\ UNCHANGED <<pc, outcome>>
  <2>1. next'[r] = i + 1
    BY <1>8 DEF ControlOK
  <2>2. ASSUME pc[r] = 21, NEW k \in Indices
        PROVE  plugin'[r][k] \in {"new", "broken", IF k < i + 1 THEN "cleaned" ELSE "ready"}
    <3>1. k \in Nat /\ i \in Nat /\ next[r] \in Nat
      BY <1>2, IndexFacts DEF ControlOK
    <3>2. plugin[r][k] \in {"new", "broken", IF k < next[r] THEN "cleaned" ELSE "ready"}
      BY <1>2, <2>2 DEF RunInv, PluginsKept
    <3>3. CASE k = i
      BY <1>2, <1>3, <2>2, <3>1, <3>3
    <3>4. CASE k < next[r]
      BY <1>2, <1>3, <3>1, <3>2, <3>4
    <3>5. CASE k > i
      BY <1>2, <1>3, <3>1, <3>2, <3>5
    <3>6. CASE k >= next[r] /\ k < i
      <4>1. k \notin Callees(r)
        BY <1>1, <3>1, <3>6
      <4>2. Plugins[k] \in Hooks[Program[pc[r]]]
        BY <2>2, Steps, RunPipelineAssumption DEF Hooks, Indices
      <4>3. plugin[r][k] \in {"new", "broken"}
        BY <1>2, <3>6, <4>1, <4>2 DEF Callees, Initialized
      <4>. QED
        BY <1>3, <3>6, <3>1, <4>3
    <3>. QED
      BY <3>1, <3>3, <3>4, <3>5, <3>6
  <2>3. ASSUME pc[r] = 23, Ordinary(r)
        PROVE  \A k \in Indices : plugin'[r][k] \in {"new", "broken", "cleaned", "reopened"}
    <3>1. \A k \in Indices : plugin[r][k] \in {"new", "broken", "cleaned", "reopened"}
      BY <1>2, <2>3 DEF RunInv, PluginsKept, Past
    <3>. QED
      BY <1>2, <1>3, <2>3, <3>1
  <2>4. PluginsKept(r)'
    BY <1>0, <1>2, <1>5, <1>6, <1>8, <2>1, <2>2, <2>3 DEF PluginsKept, Past, Ordinary
  <2>. QED
    BY <1>0, <1>8, <2>4, StayKeeps
<1>. QED
  BY <1>1, <1>7, <1>8

(* and the end of a loop over plugins.                                     *)
LEMMA PluginsCalledKeeps ==
  ASSUME ControlOK, DataOK, NEW r \in Runs, RunInv(r), PluginsCalled(r)
  PROVE  RunInv(r)'
<1>. USE ProgramBounds
<1>0. /\ Active(r) /\ Advance(r) /\ Program[pc[r]] \in DOMAIN Hooks
      /\ opt' = opt /\ got' = got /\ plugin' = plugin /\ files' = files /\ shadow' = shadow
  BY DEF PluginsCalled
<1>1. pc[r] \in {2, 14, 15, 16, 19, 21, 23}
  BY <1>0, Positions DEF Active
<1>2. ASSUME pc[r] = 21, "plugins" \in got[r], NEW i \in Indices
      PROVE  plugin[r][i] # "ready"
  <2>1. Program[pc[r]] = "cleanup_plugins" /\ Callees(r) = {}
    BY <1>2, Steps DEF PluginsCalled
  <2>2. Plugins[i] \in Hooks[Program[pc[r]]]
    BY <2>1, RunPipelineAssumption DEF Hooks, Indices
  <2>3. i \in Nat /\ next[r] \in Nat
    BY IndexFacts DEF ControlOK
  <2>4. CASE i < next[r]
    BY <1>2, <2>4 DEF RunInv, PluginsKept
  <2>5. CASE i >= next[r]
    BY <1>2, <2>1, <2>2, <2>5 DEF Callees, Initialized
  <2>. QED
    BY <2>3, <2>4, <2>5
<1>3. Progress(r)'
  BY <1>0, <1>1, AdvanceProgress
<1>4. Leftovers(r)'
  <2>1. shadow[r] = "created" => "shadow" \in got[r]
    BY DEF RunInv, Leftovers
  <2>. QED
    BY <1>0, <1>1, <2>1, AdvanceLeftovers
<1>5. Retained(r)'
  <2>1. ~opt[r].persist => files[r]["docs_sample.jsonl"] = Absent
                           /\ files[r]["queries_extracted.jsonl"] = Absent
    BY DEF RunInv, Retained
  <2>. QED
    BY <1>0, <1>1, <2>1, AdvanceRetained
<1>6. PluginsKept(r)'
  BY <1>0, <1>1, <1>2, AdvancePlugins
<1>. QED
  BY <1>3, <1>4, <1>5, <1>6 DEF RunInv

-----------------------------------------------------------------------------
(* A step of one run leaves what another run has, except for the rules and *)
(* the note of overlaps, which this invariant does not mention.            *)
StepOf(r) ==
  \/ Begin(r) \/ Fail(r) \/ Write(r)
  \/ Connect(r) \/ Close(r)
  \/ SetMasking(r) \/ ResetMasking(r) \/ Retention(r) \/ ReportPrivacy(r)
  \/ CreateShadow(r) \/ CleanupShadow(r)
  \/ InitPlugin(r) \/ PluginsInitialized(r) \/ CallPlugin(r) \/ PluginsCalled(r)

(* What moves one run leaves the control of the others alone.              *)
LEMMA ControlFrame ==
  ASSUME ControlOK, NEW r \in Runs, NEW s \in Runs \ {r},
         Advance(r) \/ Raise(r) \/ PluginRaised(r)
  PROVE  pc'[s] = pc[s] /\ next'[s] = next[s] /\ outcome'[s] = outcome[s]
BY DEF Advance, Raise, PluginRaised, Goto, ControlOK

(* A step of one run keeps the invariant of the others.                    *)
LEMMA OthersKeep ==
  ASSUME ControlOK, DataOK, NEW r \in Runs, NEW s \in Runs \ {r}, StepOf(r), RunInv(s)
  PROVE  RunInv(s)'
<1>1. opt' = opt
  BY DEF StepOf, Begin, Fail, Write, Connect, Close, SetMasking, ResetMasking, Retention,
         ReportPrivacy, CreateShadow, CleanupShadow, InitPlugin, PluginsInitialized, CallPlugin,
         PluginsCalled
<1>2. pc'[s] = pc[s] /\ next'[s] = next[s] /\ outcome'[s] = outcome[s]
  <2>1. CASE Begin(r)
    BY <2>1 DEF Begin, Goto, ControlOK
  <2>2. CASE InitPlugin(r)
    BY <2>2, ControlFrame DEF InitPlugin, ControlOK
  <2>3. CASE CallPlugin(r)
    BY <2>3, ControlFrame DEF CallPlugin, ControlOK
  <2>4. CASE ~(Begin(r) \/ InitPlugin(r) \/ CallPlugin(r))
    <3>1. Advance(r) \/ Raise(r)
      BY <2>4 DEF StepOf, Fail, Write, Connect, Close, SetMasking, ResetMasking, Retention,
                  ReportPrivacy, CreateShadow, CleanupShadow, PluginsInitialized, PluginsCalled
    <3>. QED
      BY <3>1, ControlFrame
  <2>. QED
    BY <2>1, <2>2, <2>3, <2>4
<1>3. got'[s] = got[s]
  BY DEF StepOf, Begin, Fail, Write, Connect, Close, SetMasking, ResetMasking, Retention,
         ReportPrivacy, CreateShadow, CleanupShadow, InitPlugin, PluginsInitialized, CallPlugin,
         PluginsCalled, Assign, DataOK
<1>4. plugin'[s] = plugin[s]
  BY DEF StepOf, Begin, Fail, Write, Connect, Close, SetMasking, ResetMasking, Retention,
         ReportPrivacy, CreateShadow, CleanupShadow, InitPlugin, PluginsInitialized, CallPlugin,
         PluginsCalled, SetPlugin, DataOK
<1>5. files'[s] = files[s]
  BY DEF StepOf, Begin, Fail, Write, Connect, Close, SetMasking, ResetMasking, Retention,
         ReportPrivacy, CreateShadow, CleanupShadow, InitPlugin, PluginsInitialized, CallPlugin,
         PluginsCalled, Put, DataOK
<1>6. shadow'[s] = shadow[s]
  BY DEF StepOf, Begin, Fail, Write, Connect, Close, SetMasking, ResetMasking, Retention,
         ReportPrivacy, CreateShadow, CleanupShadow, InitPlugin, PluginsInitialized, CallPlugin,
         PluginsCalled, DataOK
<1>. QED
  BY <1>1, <1>2, <1>3, <1>4, <1>5, <1>6, StillRuns

(* Every step keeps the invariant of all runs.                             *)
LEMMA OutcomeStep == TypeOK /\ OutcomeInv /\ [Next]_vars => OutcomeInv'
<1> SUFFICES ASSUME TypeOK, OutcomeInv, [Next]_vars, NEW s \in Runs
             PROVE  RunInv(s)'
  BY DEF OutcomeInv
<1>0. ControlOK /\ DataOK /\ RunInv(s)
  BY TypeParts DEF OutcomeInv
<1>1. CASE UNCHANGED vars
  BY <1>0, <1>1, StillRuns DEF vars
<1>2. CASE Crash
  BY <1>0, <1>2, CrashKeeps
<1>3. ASSUME NEW r \in Runs, StepOf(r), r # s
      PROVE  RunInv(s)'
  BY <1>0, <1>3, OthersKeep
<1>4. CASE StepOf(s)
  <2>1. CASE Begin(s)
    BY <1>0, <2>1, BeginKeeps
  <2>2. CASE Fail(s)
    BY <1>0, <2>2, FailKeeps
  <2>3. CASE Write(s)
    BY <1>0, <2>3, WriteKeeps
  <2>4. CASE Connect(s) \/ SetMasking(s) \/ ResetMasking(s) \/ Close(s) \/ ReportPrivacy(s)
               \/ PluginsInitialized(s)
    BY <1>0, <2>4, LocalsKeep
  <2>5. CASE Retention(s)
    BY <1>0, <2>5, RetentionKeeps
  <2>6. CASE CreateShadow(s)
    BY <1>0, <2>6, CreateShadowKeeps
  <2>7. CASE CleanupShadow(s)
    BY <1>0, <2>7, CleanupShadowKeeps
  <2>8. CASE InitPlugin(s)
    BY <1>0, <2>8, InitPluginKeeps
  <2>9. CASE CallPlugin(s)
    BY <1>0, <2>9, CallPluginKeeps
  <2>10. CASE PluginsCalled(s)
    BY <1>0, <2>10, PluginsCalledKeeps
  <2>. QED
    BY <1>4, <2>1, <2>2, <2>3, <2>4, <2>5, <2>6, <2>7, <2>8, <2>9, <2>10 DEF StepOf
<1>. QED
  BY <1>1, <1>2, <1>3, <1>4 DEF Next, StepOf

(* It holds at the start.                                                  *)
LEMMA OutcomeInit == Init => OutcomeInv
<1> SUFFICES ASSUME Init, NEW r \in Runs PROVE RunInv(r)
  BY DEF OutcomeInv
<1>. USE ProgramBounds
<1>0. /\ pc[r] = 0 /\ outcome[r] = "ok" /\ got[r] = {} /\ shadow[r] = "none"
      /\ \A i \in Indices : plugin[r][i] = "new"
      /\ \A a \in Artifacts : files[r][a] = Absent
  BY DEF Init
<1>1. Progress(r)
  BY <1>0 DEF Progress, Past, Ordinary
<1>2. Leftovers(r)
  BY <1>0 DEF Leftovers, Past
<1>3. Retained(r)
  BY <1>0 DEF Retained, Past, Artifacts, Sensitive
<1>4. PluginsKept(r)
  BY <1>0 DEF PluginsKept, Past
<1>. QED
  BY <1>1, <1>2, <1>3, <1>4 DEF RunInv

(* So it holds always.                                                     *)
LEMMA OutcomeHolds == Spec => []OutcomeInv
BY OutcomeInit, OutcomeStep, PipelineTypeCorrect, PTL DEF Spec

(* A run that is completed is past the steps of the `finally` block.       *)
LEMMA CompletedIsPast ==
  ASSUME NEW r \in Runs, Completed(r)
  PROVE  Past(r, 22) /\ Past(r, 23) /\ Past(r, 26) /\ Past(r, 30) /\ Past(r, 32)
BY ProgramBounds DEF Completed, Past, Ordinary

(* RetentionRespected (privacy/retention.py, enforce_retention): under      *)
(* no_persist_sensitive a run never has copies of documents or queries in  *)
(* its directory, at no moment and however it ends, and a run that is      *)
(* through has no replayed answers either, nor what summary-only forbids.  *)
THEOREM RetentionIsRespected == Spec => []RetentionRespected
<1>1. OutcomeInv => RetentionRespected
  <2> SUFFICES ASSUME OutcomeInv, NEW r \in Runs, "privacy" \in got[r], ~opt[r].persist
               PROVE  /\ files[r]["docs_sample.jsonl"] = Absent
                      /\ files[r]["queries_extracted.jsonl"] = Absent
                      /\ Completed(r) => files[r]["replay.json"] = Absent
                      /\ Completed(r) /\ opt[r].summary =>
                           files[r]["details"] = Absent /\ files[r]["plugins.json"] = Absent
    BY DEF RetentionRespected
  <2>1. Retained(r)
    BY DEF OutcomeInv, RunInv
  <2>2. ASSUME Completed(r)
        PROVE  \A a \in Expired(r) \ {"compare.json"} : files[r][a] = Absent
    BY <2>1, <2>2, CompletedIsPast DEF Retained
  <2>3. /\ "replay.json" \in Expired(r) \ {"compare.json"}
        /\ opt[r].summary => /\ "details" \in Expired(r) \ {"compare.json"}
                             /\ "plugins.json" \in Expired(r) \ {"compare.json"}
    BY DEF Expired, Sensitive, SummaryOnlyExtra
  <2>. QED
    BY <2>1, <2>2, <2>3 DEF Retained
<1>. QED
  BY <1>1, OutcomeHolds, PTL

(* PluginProtocol (runtime/plugin_service.py): none is called before it was *)
(* initialized or cleaned up twice, only observability plugins are called  *)
(* after their cleanup, and a run that is through has cleaned up each one  *)
(* it initialized, also when a hook raised in strict mode.                 *)
THEOREM PluginsAreKept == Spec => []PluginProtocol
<1>1. OutcomeInv => PluginProtocol
  <2> SUFFICES ASSUME OutcomeInv, NEW r \in Runs, NEW i \in Indices
               PROVE  /\ plugin[r][i] # "misused"
                      /\ plugin[r][i] = "reopened" => Plugins[i] = "observability"
                      /\ Completed(r) => plugin[r][i] # "ready"
    BY DEF PluginProtocol
  <2>1. PluginsKept(r) /\ Progress(r)
    BY DEF OutcomeInv, RunInv
  <2>2. ASSUME Completed(r) PROVE plugin[r][i] # "ready"
    <3>1. Past(r, 22) /\ Past(r, 28)
      BY <2>2, ProgramBounds DEF Completed, Past, Ordinary
    <3>2. "plugins" \in got[r]
      BY <2>1, <3>1 DEF Progress
    <3>. QED
      BY <2>1, <3>1, <3>2 DEF PluginsKept
  <2>. QED
    BY <2>1, <2>2 DEF PluginsKept
<1>. QED
  BY <1>1, OutcomeHolds, PTL

(* CompletedRunLeavesNothing (cli.py, the finally block of run): a run     *)
(* that returns or hands on the exception of a stage has written its       *)
(* manifest, closed its clients and deleted its shadow if it was to, or    *)
(* found that it could not.                                                *)
THEOREM CompletedRunsLeaveNothing == Spec => []CompletedRunLeavesNothing
<1>1. OutcomeInv => CompletedRunLeavesNothing
  <2> SUFFICES ASSUME OutcomeInv, NEW r \in Runs, Completed(r)
               PROVE  /\ files[r]["run_manifest.json"] # Absent
                      /\ "clients" \notin got[r]
                      /\ opt[r].cleanup => shadow[r] # "created"
    BY DEF CompletedRunLeavesNothing
  <2>1. Leftovers(r)
    BY DEF OutcomeInv, RunInv
  <2>. QED
    BY <2>1, CompletedIsPast DEF Leftovers
<1>. QED
  BY <1>1, OutcomeHolds, PTL
==============================================================================
