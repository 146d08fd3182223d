------------------------ MODULE ShadowLifecycleProofs -----------------------
(***************************************************************************)
(* What holds of ShadowLifecycle for any number of runs, names, attempts,  *)
(* faults and overdue requests: its types, that the live collection is     *)
(* kept, and what it promises of one run's shadow: the truth of the        *)
(* manifest, what a cleanup leaves, and who owns a collection.             *)
(***************************************************************************)
EXTENDS ShadowLifecycle, TLAPS

USE SolrAdminAssumption, ShadowAssumption

(* A request that is no threat to the baseline: it creates and deletes     *)
(* under the names of shadows only, a schema change carries the mark of    *)
(* the run whose collection it goes to, and the live configset is asked    *)
(* for only by a run that has given up being isolated.                     *)
Harmless(q) ==
  /\ q.op \in {"CREATE", "DELETE"} => q.on \in Names
  /\ q.op \in {"UPLOAD", "CREATE_CONFIGSET"} => q.on \in Configsets \ {Live}
  /\ q.op = "DELETE_CONFIGSET" => q.on \in Configsets
  /\ q.op = "UPLOAD" => q.cfg = None
  /\ q.op = "CREATE_CONFIGSET" => q.cfg \in Configsets
  /\ q.op = "SCHEMA" => \E r \in Runs, i \in 1..NumOps :
                          q.on = name[r] /\ q.body = {<<r, i>>}
  /\ q.op = "CREATE" => q.cfg \in Configsets
  /\ q.op = "CREATE" /\ q.cfg = Live => Shared(q.on)

(* A collection is bound to the live configset only if a run of its name   *)
(* has given up being isolated.                                            *)
BoundApart == \A n \in Names : uses[n] = Live => Shared(n)

ServerInv == SolrTypeOK /\ BaselineKept /\ BoundApart

IInv ==
  /\ TypeOK /\ BaselineKept /\ BoundApart
  /\ \A r \in Runs : isolated[r] => cfg[r] # Live
  /\ \A q \in late : Harmless(q)

(* What an attempt of run r can change outside the run.                    *)
NetStep(r) ==
  /\ Handle(Ask(r)) \/ UNCHANGED solrVars
  /\ late' \subseteq late \cup {Ask(r)}
  /\ overdue' \subseteq Runs /\ faulty' \subseteq Runs

(* The configsets of a name are configsets and not the live one.           *)
LEMMA ConfigsetNames ==
  ASSUME NEW n \in Names
  PROVE  /\ Cfg(n) \in Configsets /\ Cfg(n) # Live
         /\ Trusted(n) \in Configsets /\ Trusted(n) # Live
         /\ Live \in Configsets
  BY DEF Configsets, Cfg, Trusted, Live

-----------------------------------------------------------------------------
(* Every request a run sends is a request, and harmless.                   *)
LEMMA AskHarmless ==
  ASSUME IInv, NEW r \in Runs, Awaiting(r)
  PROVE  Ask(r) \in Requests /\ Harmless(Ask(r))
  <1> DEFINE n == name[r]
  <1>1. n \in Names /\ cfg[r] \in Configsets /\ copy[r] \subseteq Edits /\ op[r] \in 1..(NumOps + 1)
    BY DEF IInv, TypeOK
  <1>2. /\ Cfg(n) \in Configsets /\ Cfg(n) # Live
        /\ Trusted(n) \in Configsets /\ Trusted(n) # Live /\ Live \in Configsets
    BY <1>1, ConfigsetNames
  <1>3. <<r, 0>> \in Edits /\ \A i \in 1..NumOps : <<r, i>> \in Edits
    BY DEF Edits
  <1>4. CASE pc[r] \in {"status", "download"}
    BY <1>4, <1>2 DEF Ask, Request, Requests, Harmless
  <1>5. CASE pc[r] = "upload"
    BY <1>5, <1>1, <1>2, <1>3 DEF Ask, Request, Requests, Harmless
  <1>6. CASE pc[r] \in {"promote", "drop", "clone"}
    BY <1>6, <1>1, <1>2 DEF Ask, Request, Requests, Harmless
  <1>7. CASE pc[r] = "collection"
    <2>1. cfg[r] = Live => Shared(n)
      BY DEF IInv, Shared
    <2> QED BY <1>7, <1>1, <2>1 DEF Ask, Request, Requests, Harmless
  <1>8. CASE pc[r] = "schema"
    <2>1. op[r] \in 1..NumOps
      BY <1>8, <1>1 DEF Awaiting
    <2>2. Ask(r) = Request("SCHEMA", n, None, {<<r, op[r]>>})
      BY <1>8 DEF Ask
    <2>3. {<<r, op[r]>>} \subseteq Edits
      BY <2>1, <1>3
    <2> QED BY <2>1, <2>2, <2>3, <1>1 DEF Request, Requests, Harmless
  <1>9. CASE pc[r] \in {"drop_collection", "drop_configset"}
    BY <1>9, <1>1, <1>2 DEF Ask, Request, Requests, Harmless
  <1> QED BY <1>4, <1>5, <1>6, <1>7, <1>8, <1>9 DEF Awaiting, Calling

(* Solr's dealing with a harmless request, one disjunct per operation.     *)
LEMMA ServerKeeps ==
  ASSUME ServerInv, name \in [Runs -> Names], NEW q \in Requests, Harmless(q),
         Handle(q) \/ UNCHANGED solrVars
  PROVE  /\ SolrTypeOK'
         /\ Live \in configsets' /\ uses'[Baseline] = Live
         /\ \A e \in edits'[Live] : e[2] # 0 /\ Shared(name[e[1]])
         /\ \A n \in Names : uses'[n] = Live => Shared(n)
  <1> USE DEF ServerInv
  <1>1. CASE UNCHANGED solrVars
    BY <1>1 DEF solrVars, SolrTypeOK, BaselineKept, BoundApart
  <1>2. CASE Perform(q) /\ q.op \in {"CLUSTERSTATUS", "DOWNLOAD"}
    BY <1>2 DEF Perform, configsetsAfter, editsAfter, usesAfter, SolrTypeOK, BaselineKept, BoundApart
  <1>3. CASE Perform(q) /\ q.op = "UPLOAD"
    <2>1. q.body \subseteq Edits /\ q.on \in Configsets /\ q.on # Live
      BY <1>3 DEF Requests, Harmless
    <2>2. configsets' = configsets \cup {q.on} /\ edits' = [edits EXCEPT ![q.on] = q.body] /\ uses' = uses
      BY <1>3 DEF Perform, configsetsAfter, editsAfter, usesAfter
    <2> QED BY <2>1, <2>2, ConfigsetNames DEF SolrTypeOK, BaselineKept, BoundApart
  <1>4. CASE Perform(q) /\ q.op = "CREATE_CONFIGSET"
    <2>1. q.cfg \in Configsets /\ q.on \in Configsets /\ q.on # Live
      BY <1>4 DEF Harmless
    <2>2. configsets' = configsets \cup {q.on} /\ edits' = [edits EXCEPT ![q.on] = edits[q.cfg]] /\ uses' = uses
      BY <1>4 DEF Perform, configsetsAfter, editsAfter, usesAfter
    <2> QED BY <2>1, <2>2 DEF SolrTypeOK, BaselineKept, BoundApart
  <1>5. CASE Perform(q) /\ q.op = "DELETE_CONFIGSET"
    <2>1. q.on # Live
      BY <1>5 DEF Perform, Accepts, InUse, BaselineKept, SolrTypeOK
    <2>2. configsets' = configsets \ {q.on} /\ edits' = [edits EXCEPT ![q.on] = {}] /\ uses' = uses
      BY <1>5 DEF Perform, configsetsAfter, editsAfter, usesAfter
    <2> QED BY <2>1, <2>2 DEF SolrTypeOK, BaselineKept, BoundApart
  <1>6. CASE Perform(q) /\ q.op = "CREATE"
    <2>1. q.on \in Names /\ q.cfg \in Configsets
      BY <1>6 DEF Harmless
    <2>2. configsets' = configsets /\ edits' = edits /\ uses' = [uses EXCEPT ![q.on] = q.cfg]
      BY <1>6 DEF Perform, configsetsAfter, editsAfter, usesAfter
    <2>3. ASSUME NEW n \in Names, uses'[n] = Live
          PROVE  Shared(n)
      BY <1>6, <2>1, <2>2, <2>3 DEF SolrTypeOK, BoundApart, Harmless
    <2> QED BY <2>1, <2>2, <2>3 DEF SolrTypeOK, BaselineKept
  <1>7. CASE Perform(q) /\ q.op = "SCHEMA"
    <2>1. PICK r \in Runs, i \in 1..NumOps : q.on = name[r] /\ q.body = {<<r, i>>}
      BY <1>7 DEF Harmless
    <2>2. /\ configsets' = configsets /\ uses' = uses
          /\ edits' = [edits EXCEPT ![uses[q.on]] = @ \cup {<<r, i>>}]
      BY <1>7, <2>1 DEF Perform, configsetsAfter, editsAfter, usesAfter
    <2>3. uses[q.on] \in Configsets
      BY <1>7, <2>1 DEF Perform, Accepts, SolrTypeOK
    <2>4. <<r, i>> \in Edits
      BY DEF Edits
    <2>5. uses[q.on] = Live => Shared(name[r])
      BY <2>1 DEF BoundApart
    <2>6. \A e \in edits'[Live] : e \in edits[Live] \/ (e = <<r, i>> /\ uses[q.on] = Live)
      BY <2>2, <2>3, ConfigsetNames DEF SolrTypeOK, BaselineKept
    <2>7. edits' \in [Configsets -> SUBSET Edits]
      BY <2>2, <2>3, <2>4 DEF SolrTypeOK
    <2> QED BY <2>2, <2>5, <2>6, <2>7 DEF SolrTypeOK, BaselineKept, BoundApart
  <1>8. CASE Perform(q) /\ q.op = "DELETE"
    <2>1. q.on \in Names
      BY <1>8 DEF Harmless
    <2>2. configsets' = configsets /\ edits' = edits /\ uses' = [uses EXCEPT ![q.on] = None]
      BY <1>8 DEF Perform, configsetsAfter, editsAfter, usesAfter
    <2> QED BY <2>1, <2>2 DEF SolrTypeOK, BaselineKept, BoundApart
  <1>9. CASE Reject(q)
    BY <1>9, <1>1 DEF Reject
  <1> QED BY <1>1, <1>2, <1>3, <1>4, <1>5, <1>6, <1>7, <1>8, <1>9 DEF Handle, Requests

-----------------------------------------------------------------------------
(* An attempt, whatever becomes of it, is a NetStep, and a NetStep keeps   *)
(* the part of IInv that is not about the run's own variables.             *)
LEMMA AttemptIsNetStep ==
  ASSUME IInv, NEW r \in Runs, Succeeds(r) \/ Fails(r) \/ Unanswered(r)
  PROVE  NetStep(r)
  <1>0. overdue \subseteq Runs /\ faulty \subseteq Runs
    BY DEF IInv, TypeOK
  <1>1. CASE Unanswered(r)
    BY <1>0, <1>1 DEF Unanswered, NetStep
  <1>2. CASE Succeeds(r)
    BY <1>0, <1>2 DEF Succeeds, NetStep, Handle
  <1>3. CASE SolrError(r)
    BY <1>0, <1>1, <1>3 DEF SolrError, NetStep, Handle, Reject
  <1> QED BY <1>1, <1>2, <1>3 DEF Fails, Escapes

(* A call, answered or not, keeps what is said of Solr and of requests.    *)
LEMMA NetStepKeeps ==
  ASSUME IInv, NEW r \in Runs, Awaiting(r), NetStep(r),
         name' = name, \A s \in Runs : isolated'[s] => isolated[s]
  PROVE  /\ SolrTypeOK' /\ BaselineKept' /\ BoundApart'
         /\ late' \subseteq Requests /\ \A q \in late' : Harmless(q)'
         /\ overdue' \subseteq Runs /\ faulty' \subseteq Runs
  <1>1. ServerInv /\ name \in [Runs -> Names]
    BY DEF IInv, ServerInv, TypeOK
  <1>2. Ask(r) \in Requests /\ Harmless(Ask(r))
    BY AskHarmless
  <1>3. /\ SolrTypeOK'
        /\ Live \in configsets' /\ uses'[Baseline] = Live
        /\ \A e \in edits'[Live] : e[2] # 0 /\ Shared(name[e[1]])
        /\ \A n \in Names : uses'[n] = Live => Shared(n)
    BY <1>1, <1>2, ServerKeeps DEF NetStep
  <1>4. \A n : Shared(n) => Shared(n)'
    BY DEF Shared
  <1>5. \A e \in edits'[Live] : e[1] \in Runs
    BY <1>3, ConfigsetNames DEF SolrTypeOK, Edits, Configsets
  <1>6. BaselineKept'
    BY <1>3, <1>4, <1>5 DEF BaselineKept, Live
  <1>7. BoundApart'
    BY <1>3, <1>4 DEF BoundApart, Live
  <1>8. \A q : Harmless(q) => Harmless(q)'
    BY <1>4 DEF Harmless, Live, Configsets
  <1>9. late' \subseteq Requests /\ \A q \in late' : Harmless(q)
    BY <1>2 DEF NetStep, IInv, TypeOK
  <1> QED BY <1>3, <1>6, <1>7, <1>8, <1>9 DEF NetStep

(* A request that Solr gets to late.                                       *)
LEMMA OverdueKeeps ==
  ASSUME IInv, NEW q \in late, Overdue(q)
  PROVE  IInv'
  <1>1. ServerInv /\ name \in [Runs -> Names] /\ q \in Requests /\ Harmless(q)
    BY DEF IInv, ServerInv, TypeOK
  <1>2. /\ SolrTypeOK'
        /\ Live \in configsets' /\ uses'[Baseline] = Live
        /\ \A e \in edits'[Live] : e[2] # 0 /\ Shared(name[e[1]])
        /\ \A n \in Names : uses'[n] = Live => Shared(n)
    BY <1>1, ServerKeeps DEF Overdue
  <1>3. UNCHANGED <<name, isolated, cfg>>
    BY DEF Overdue, localVars
  <1>4. \A n : Shared(n) => Shared(n)'
    BY <1>3 DEF Shared
  <1>5. BaselineKept' /\ BoundApart'
    BY <1>2, <1>3, <1>4 DEF BaselineKept, BoundApart, Live
  <1>6. \A p : Harmless(p) => Harmless(p)'
    BY <1>3, <1>4 DEF Harmless, Live, Configsets
  <1>7. \A p \in late' : Harmless(p)'
    BY <1>6 DEF IInv, Overdue
  <1>8. TypeOK'
    BY <1>2 DEF IInv, TypeOK, Overdue, localVars
  <1> QED BY <1>3, <1>5, <1>7, <1>8 DEF IInv, Live

-----------------------------------------------------------------------------
(* What a step of run r does to the runs' own variables.                   *)
LocalKept ==
  /\ name' = name /\ opt' = opt
  /\ pc' \in [Runs -> Calling \cup Ended \cup {"idle", "ready"}]
  /\ tries' \in [Runs -> 0..(Attempts - 1)]
  /\ cfg' \in [Runs -> Configsets]
  /\ isolated' \in [Runs -> BOOLEAN]
  /\ patch' \in [Runs -> {"none", "applied", "skipped"}]
  /\ copy' \in [Runs -> SUBSET Edits]
  /\ op' \in [Runs -> 1..(NumOps + 1)]
  /\ applied' \in [Runs -> SUBSET (1..NumOps)]
  /\ \A s \in Runs : isolated'[s] => isolated[s] /\ cfg'[s] # Live

NetKept(r) == \/ Awaiting(r) /\ NetStep(r)
              \/ UNCHANGED <<solrVars, late, overdue, faulty>>

(* A step that keeps the parts of the invariant keeps it.                  *)
LEMMA KeptTogether ==
  ASSUME IInv, NEW r \in Runs, LocalKept, NetKept(r)
  PROVE  IInv'
  <1>1. name' = name /\ \A s \in Runs : isolated'[s] => isolated[s]
    BY DEF LocalKept
  <1>2. CASE Awaiting(r) /\ NetStep(r)
    <2>1. /\ SolrTypeOK' /\ BaselineKept' /\ BoundApart'
          /\ late' \subseteq Requests /\ \A q \in late' : Harmless(q)'
          /\ overdue' \subseteq Runs /\ faulty' \subseteq Runs
      BY <1>1, <1>2, NetStepKeeps
    <2> QED BY <2>1 DEF IInv, TypeOK, LocalKept, Live, Requests, Configsets, Edits
  <1>3. CASE UNCHANGED <<solrVars, late, overdue, faulty>>
    <2>1. \A n : Shared(n) => Shared(n)'
      BY <1>1 DEF Shared
    <2>2. SolrTypeOK' /\ late' \subseteq Requests /\ overdue' \subseteq Runs /\ faulty' \subseteq Runs
      BY <1>3 DEF IInv, TypeOK, SolrTypeOK, solrVars
    <2>3. \A e \in edits[Live] : e[1] \in Runs
      BY ConfigsetNames DEF IInv, TypeOK, SolrTypeOK, Edits, Configsets
    <2>4. BaselineKept' /\ BoundApart'
      BY <1>1, <1>3, <2>1, <2>3 DEF IInv, BaselineKept, BoundApart, Live, solrVars
    <2>5. \A q : Harmless(q) => Harmless(q)'
      BY <1>1, <2>1 DEF Harmless, Live, Configsets
    <2>6. \A q \in late' : Harmless(q)'
      BY <1>3, <2>5 DEF IInv
    <2> QED BY <2>2, <2>4, <2>6 DEF IInv, TypeOK, LocalKept, Live, Requests, Configsets, Edits
  <1> QED BY <1>2, <1>3 DEF NetKept

GotoTypesHold ==
  /\ pc' \in [Runs -> Calling \cup Ended \cup {"idle", "ready"}]
  /\ tries' \in [Runs -> 0..(Attempts - 1)]

(* To go on to a step keeps the types.                                     *)
LEMMA GotoTypes ==
  ASSUME IInv, NEW r \in Runs, NEW s \in Calling \cup Ended \cup {"idle", "ready"}, Goto(r, s)
  PROVE  GotoTypesHold
  BY DEF IInv, TypeOK, Goto, GotoTypesHold

(* Going back to the clone, or giving up, from any point of the patching.  *)
LEMMA PatchingRaisedTypes ==
  ASSUME IInv, NEW r \in Runs, PatchingRaised(r)
  PROVE  /\ GotoTypesHold
         /\ patch' \in [Runs -> {"none", "applied", "skipped"}]
  <1>1. patch' \in [Runs -> {"none", "applied", "skipped"}]
    BY DEF IInv, TypeOK, PatchingRaised
  <1>2. \E s \in {"clone", "failed"} : Goto(r, s)
    BY DEF PatchingRaised
  <1> QED BY <1>1, <1>2, GotoTypes DEF Calling, Ended

-----------------------------------------------------------------------------
(* Every step of a run keeps IInv, one lemma's step per action.            *)
LEMMA RunKeeps ==
  ASSUME IInv, NEW r \in Runs, Begin(r) \/ Step(r) \/ Kill(r)
  PROVE  IInv'
  <1> USE DEF localVars
  <1>0. /\ TypeOK /\ \A s \in Runs : isolated[s] => cfg[s] # Live
        /\ name[r] \in Names
    BY DEF IInv, TypeOK
  <1>1. CASE Begin(r)
    <2>1. LocalKept
      BY <1>0, <1>1, GotoTypes DEF GotoTypesHold, Begin, LocalKept, TypeOK, Calling
    <2> QED BY <1>1, <2>1, KeptTogether DEF Begin, NetKept
  <1>2. CASE Retry(r)
    <2>1. LocalKept
      BY <1>0, <1>2 DEF Retry, LocalKept, TypeOK
    <2> QED BY <1>2, <2>1, KeptTogether, AttemptIsNetStep DEF Retry, NetKept
  <1>3. CASE ConfigName(r)
    <2>1. \E s \in {"download", "clone", "failed"} : Goto(r, s)
      BY <1>3 DEF ConfigName
    <2>2. LocalKept
      BY <1>0, <1>3, <2>1, GotoTypes DEF GotoTypesHold, ConfigName, LocalKept, TypeOK, Calling, Ended
    <2> QED BY <1>3, <2>2, KeptTogether, AttemptIsNetStep DEF ConfigName, NetKept, Awaiting, Calling
  <1>4. CASE Download(r)
    <2>1. edits[Live] \subseteq Edits
      BY <1>0, ConfigsetNames DEF TypeOK, SolrTypeOK
    <2>2. copy' \in [Runs -> SUBSET Edits]
      BY <1>0, <1>4, <2>1 DEF Download, TypeOK
    <2>3. UNCHANGED <<name, opt, cfg, isolated, op, applied>>
      BY <1>4 DEF Download
    <2>4. \/ PatchingRaised(r)
          \/ patch' = [patch EXCEPT ![r] = "applied"] /\ Goto(r, "upload")
      BY <1>4 DEF Download
    <2>5. patch' \in [Runs -> {"none", "applied", "skipped"}]
      BY <1>0, <2>4, PatchingRaisedTypes DEF TypeOK
    <2>6. GotoTypesHold
      BY <2>4, PatchingRaisedTypes, GotoTypes DEF GotoTypesHold, Calling
    <2>7. LocalKept
      BY <1>0, <2>2, <2>3, <2>5, <2>6 DEF LocalKept, GotoTypesHold, TypeOK
    <2>8. Awaiting(r) /\ (Succeeds(r) \/ Fails(r))
      BY <1>4 DEF Download, Awaiting, Calling
    <2> QED BY <2>7, <2>8, KeptTogether, AttemptIsNetStep DEF NetKept
  <1>5. CASE Upload(r)
    <2>1. UNCHANGED <<name, opt, cfg, isolated, copy, op, applied>>
      BY <1>5 DEF Upload
    <2>2. \/ PatchingRaised(r)
          \/ UNCHANGED patch /\ \E s \in {"promote", "collection"} : Goto(r, s)
      BY <1>5 DEF Upload
    <2>3. patch' \in [Runs -> {"none", "applied", "skipped"}]
      BY <1>0, <2>2, PatchingRaisedTypes DEF TypeOK
    <2>4. GotoTypesHold
      BY <2>2, PatchingRaisedTypes, GotoTypes DEF GotoTypesHold, Calling
    <2>5. LocalKept
      BY <1>0, <2>1, <2>3, <2>4 DEF LocalKept, GotoTypesHold, TypeOK
    <2>6. Awaiting(r) /\ (Succeeds(r) \/ Fails(r))
      BY <1>5 DEF Upload, Awaiting, Calling, Fails
    <2> QED BY <2>5, <2>6, KeptTogether, AttemptIsNetStep DEF NetKept
  <1>6. CASE Promote(r)
    <2>1. UNCHANGED <<name, opt, cfg, isolated, copy, op, applied>>
      BY <1>6 DEF Promote
    <2>2. \/ PatchingRaised(r)
          \/ UNCHANGED patch /\ \E s \in {"drop", "collection"} : Goto(r, s)
      BY <1>6 DEF Promote
    <2>3. patch' \in [Runs -> {"none", "applied", "skipped"}]
      BY <1>0, <2>2, PatchingRaisedTypes DEF TypeOK
    <2>4. GotoTypesHold
      BY <2>2, PatchingRaisedTypes, GotoTypes DEF GotoTypesHold, Calling
    <2>5. LocalKept
      BY <1>0, <2>1, <2>3, <2>4 DEF LocalKept, GotoTypesHold, TypeOK
    <2>6. Awaiting(r) /\ (Succeeds(r) \/ Fails(r))
      BY <1>6 DEF Promote, Awaiting, Calling, Fails
    <2> QED BY <2>5, <2>6, KeptTogether, AttemptIsNetStep DEF NetKept
  <1>7. CASE DropUpload(r)
    <2>1. UNCHANGED <<name, opt, isolated, copy, op, applied>>
      BY <1>7 DEF DropUpload
    <2>2. \/ PatchingRaised(r) /\ UNCHANGED cfg
          \/ UNCHANGED patch /\ cfg' = [cfg EXCEPT ![r] = Trusted(name[r])] /\ Goto(r, "collection")
      BY <1>7 DEF DropUpload
    <2>3. patch' \in [Runs -> {"none", "applied", "skipped"}]
      BY <1>0, <2>2, PatchingRaisedTypes DEF TypeOK
    <2>4. GotoTypesHold
      BY <2>2, PatchingRaisedTypes, GotoTypes DEF GotoTypesHold, Calling
    <2>5. cfg' \in [Runs -> Configsets] /\ \A s \in Runs : isolated[s] => cfg'[s] # Live
      BY <1>0, <2>2, ConfigsetNames DEF TypeOK
    <2>6. LocalKept
      BY <1>0, <2>1, <2>3, <2>4, <2>5 DEF LocalKept, GotoTypesHold, TypeOK
    <2>7. Awaiting(r) /\ (Succeeds(r) \/ Fails(r))
      BY <1>7 DEF DropUpload, Awaiting, Calling, Fails
    <2> QED BY <2>6, <2>7, KeptTogether, AttemptIsNetStep DEF NetKept
  <1>8. CASE Clone(r)
    <2>1. UNCHANGED <<name, opt, patch, copy, op, applied>>
      BY <1>8 DEF Clone
    <2>2. \/ UNCHANGED <<cfg, isolated>> /\ \E s \in {"collection", "failed"} : Goto(r, s)
          \/ /\ cfg' = [cfg EXCEPT ![r] = Live]
             /\ isolated' = [isolated EXCEPT ![r] = FALSE]
             /\ Goto(r, "collection")
      BY <1>8 DEF Clone
    <2>3. GotoTypesHold
      BY <2>2, GotoTypes DEF GotoTypesHold, Calling, Ended
    <2>4. cfg' \in [Runs -> Configsets] /\ isolated' \in [Runs -> BOOLEAN]
      <3>1. cfg \in [Runs -> Configsets] /\ Live \in Configsets
        BY <1>0, ConfigsetNames DEF TypeOK
      <3>2. isolated \in [Runs -> BOOLEAN]
        BY <1>0 DEF TypeOK
      <3>3. cfg' \in [Runs -> Configsets]
        BY <2>2, <3>1
      <3>4. isolated' \in [Runs -> BOOLEAN]
        BY <2>2, <3>2
      <3> QED BY <3>3, <3>4
    <2>5. ASSUME NEW s \in Runs, isolated'[s]
          PROVE  isolated[s] /\ cfg'[s] # Live
      <3>1. CASE UNCHANGED <<cfg, isolated>>
        BY <1>0, <2>5, <3>1
      <3>2. CASE cfg' = [cfg EXCEPT ![r] = Live] /\ isolated' = [isolated EXCEPT ![r] = FALSE]
        <4>0. isolated \in [Runs -> BOOLEAN]
          BY <1>0 DEF TypeOK
        <4>1. s # r
          BY <2>5, <3>2, <4>0
        <4>2. isolated'[s] = isolated[s] /\ cfg'[s] = cfg[s]
          BY <1>0, <3>2, <4>1 DEF TypeOK
        <4> QED BY <1>0, <2>5, <4>2
      <3> QED BY <2>2, <3>1, <3>2
    <2>6. LocalKept
      BY <1>0, <2>1, <2>3, <2>4, <2>5 DEF LocalKept, GotoTypesHold, TypeOK
    <2>7. Awaiting(r) /\ (Succeeds(r) \/ Fails(r))
      BY <1>8 DEF Clone, Awaiting, Calling, Fails
    <2> QED BY <2>6, <2>7, KeptTogether, AttemptIsNetStep DEF NetKept
  <1>9. CASE CreateCollection(r)
    <2>1. \E s \in {"schema", "failed"} : Goto(r, s)
      BY <1>9 DEF CreateCollection
    <2>2. LocalKept
      BY <1>0, <1>9, <2>1, GotoTypes DEF GotoTypesHold, CreateCollection, LocalKept, TypeOK, Calling, Ended
    <2> QED BY <1>9, <2>2, KeptTogether, AttemptIsNetStep DEF CreateCollection, NetKept, Awaiting, Calling
  <1>10. CASE SchemaOp(r)
    <2>1. op[r] \in 1..NumOps
      BY <1>0, <1>10 DEF SchemaOp, TypeOK
    <2>2. op' \in [Runs -> 1..(NumOps + 1)] /\ applied' \in [Runs -> SUBSET (1..NumOps)]
      BY <1>0, <1>10, <2>1 DEF SchemaOp, TypeOK
    <2>3. \E s \in {"schema", "failed"} : Goto(r, s)
      BY <1>10 DEF SchemaOp
    <2>4. LocalKept
      BY <1>0, <1>10, <2>2, <2>3, GotoTypes DEF GotoTypesHold, SchemaOp, LocalKept, TypeOK, Calling, Ended
    <2>5. Awaiting(r)
      BY <1>10 DEF SchemaOp, Awaiting, Calling
    <2>6. Succeeds(r) \/ Fails(r) \/ UNCHANGED <<solrVars, late, overdue, faulty>>
      BY <1>10 DEF SchemaOp
    <2> QED BY <2>4, <2>5, <2>6, KeptTogether, AttemptIsNetStep DEF NetKept
  <1>11. CASE CreateShadowReturns(r)
    <2>1. LocalKept
      BY <1>0, <1>11, GotoTypes DEF GotoTypesHold, CreateShadowReturns, LocalKept, TypeOK
    <2> QED BY <1>11, <2>1, KeptTogether DEF CreateShadowReturns, NetKept
  <1>12. CASE Finish(r)
    <2>1. \E s \in {"drop_collection", "kept", "aborted"} : Goto(r, s)
      BY <1>12 DEF Finish
    <2>2. LocalKept
      BY <1>0, <1>12, <2>1, GotoTypes DEF GotoTypesHold, Finish, LocalKept, TypeOK, Calling, Ended
    <2> QED BY <1>12, <2>2, KeptTogether DEF Finish, NetKept
  <1>13. CASE DropCollection(r)
    <2>1. \E s \in {"drop_configset", "clean", "unclean"} : Goto(r, s)
      BY <1>13 DEF DropCollection
    <2>2. LocalKept
      BY <1>0, <1>13, <2>1, GotoTypes DEF GotoTypesHold, DropCollection, LocalKept, TypeOK, Calling, Ended
    <2> QED BY <1>13, <2>2, KeptTogether, AttemptIsNetStep DEF DropCollection, NetKept, Awaiting, Calling
  <1>14. CASE DropConfigset(r)
    <2>1. \E s \in {"clean", "unclean"} : Goto(r, s)
      BY <1>14 DEF DropConfigset
    <2>2. LocalKept
      BY <1>0, <1>14, <2>1, GotoTypes DEF GotoTypesHold, DropConfigset, LocalKept, TypeOK, Calling, Ended
    <2> QED BY <1>14, <2>2, KeptTogether, AttemptIsNetStep DEF DropConfigset, NetKept, Awaiting, Calling
  <1>15. CASE Kill(r)
    <2>1. LocalKept
      BY <1>0, <1>15, GotoTypes DEF GotoTypesHold, Kill, LocalKept, TypeOK, Ended
    <2>2. NetKept(r)
      BY <1>0, <1>15 DEF Kill, NetKept, NetStep, TypeOK
    <2> QED BY <2>1, <2>2, KeptTogether
  <1> QED BY <1>1, <1>2, <1>3, <1>4, <1>5, <1>6, <1>7, <1>8, <1>9, <1>10, <1>11, <1>12,
             <1>13, <1>14, <1>15 DEF Step

-----------------------------------------------------------------------------
(* The invariant holds at the start.                                       *)
LEMMA InitIInv ==
  ASSUME Init
  PROVE  IInv
  <1>1. SolrTypeOK /\ BaselineKept
    BY ConfigsetNames DEF Init, SolrInit, SolrTypeOK, BaselineKept, Configsets
  <1>2. name \in [Runs -> Names] /\ \A r \in Runs : cfg[r] \in Configsets /\ cfg[r] # Live
    BY ConfigsetNames DEF Init
  <1>3. TypeOK
    BY <1>1, <1>2 DEF Init, TypeOK
  <1>4. BoundApart
    BY <1>2, ConfigsetNames DEF Init, SolrInit, BoundApart
  <1> QED BY <1>1, <1>2, <1>3, <1>4 DEF IInv, Init

(* Every step keeps it.                                                    *)
LEMMA NextKeepsIInv == IInv /\ [Next]_vars => IInv'
  <1> SUFFICES ASSUME IInv, [Next]_vars
               PROVE  IInv'
    OBVIOUS
  <1>1. CASE UNCHANGED vars
    <2>1. UNCHANGED <<solrVars, tries, late, overdue, faulty, pc, localVars>>
      BY <1>1 DEF vars, netVars
    <2>2. TypeOK'
      BY <2>1 DEF IInv, TypeOK, SolrTypeOK, solrVars, localVars
    <2>3. BaselineKept' /\ BoundApart'
      BY <2>1 DEF IInv, BaselineKept, BoundApart, Shared, Live, solrVars, localVars
    <2>4. \A q : Harmless(q) => Harmless(q)'
      BY <2>1 DEF Harmless, Shared, Live, Configsets, localVars
    <2> QED BY <2>1, <2>2, <2>3, <2>4 DEF IInv, localVars, Live
  <1>2. CASE \E r \in Runs : Begin(r) \/ Step(r) \/ Kill(r)
    BY <1>2, RunKeeps
  <1>3. CASE \E q \in late : Overdue(q)
    BY <1>3, OverdueKeeps
  <1> QED BY <1>1, <1>2, <1>3 DEF Next

(* Types of Solr and of the runs: in particular a request is never sent    *)
(* more than Attempts times.                                               *)
THEOREM ShadowTypeCorrect == Spec => []TypeOK
  <1>1. IInv => TypeOK
    BY DEF IInv
  <1> QED BY <1>1, InitIInv, NextKeepsIInv, PTL DEF Spec

(* The live collection survives whatever the runs do and whatever becomes  *)
(* of their requests, and only a run that reports a shared configset can   *)
(* have changed its schema.                                                *)
THEOREM BaselineIsKept == Spec => []BaselineKept
  <1>1. IInv => BaselineKept
    BY DEF IInv
  <1> QED BY <1>1, InitIInv, NextKeepsIInv, PTL DEF Spec

-----------------------------------------------------------------------------
(* The two configsets a shadow named n may have.                           *)
Own(n) == {Cfg(n), Trusted(n)}

(* A request that a run named n may send.                                  *)
Of(q, n) ==
  /\ q.op \in {"CREATE", "SCHEMA", "DELETE"} => q.on = n
  /\ q.op \in {"UPLOAD", "CREATE_CONFIGSET"} => q.on \in Own(n)
  /\ q.op = "DELETE_CONFIGSET" => q.on \in Own(n) \cup {Live}
  /\ q.op = "CREATE" => q.cfg \in Own(n) \cup {Live}

(* Names are kept apart: a collection uses the configsets of its own name  *)
(* or the live one, and what Solr has still to do was asked for by a run   *)
(* under its own name.                                                     *)
Apart ==
  /\ \A n \in Names : uses[n] \in Own(n) \cup {Live, None}
  /\ \A r \in Runs : cfg[r] \in Own(name[r]) \cup {Live}
  /\ \A q \in late : \E r \in overdue : Of(q, name[r])

Early == {"idle", "status", "download"}
Preparing == Early \cup {"upload", "promote", "drop", "clone"}
Working == {"schema", "ready"}

(* Where the collection of run r is.                                       *)
Bound(r) ==
  /\ pc[r] \in Preparing \cup {"drop_configset", "clean"} => uses[name[r]] = None
  /\ pc[r] \in Working => uses[name[r]] = cfg[r]
  /\ pc[r] \in {"collection", "drop_collection"} => uses[name[r]] \in {None, cfg[r]}
  /\ pc[r] = "drop_collection" /\ r \notin faulty => uses[name[r]] = cfg[r]

(* What the edits in a set are: those of r, or of runs that share.         *)
Pure(r, es) == \A e \in es : e[1] # r => Shared(name[e[1]])
Patched(r, c) == c \in configsets /\ <<r, 0>> \in edits[c]

(* Which configsets of r there are, and what is in them: at any time,      *)
(* while the configset is prepared, with it, and at the end.               *)
Clear(r) == Pure(r, copy[r]) /\ \A c \in Own(name[r]) : Pure(r, edits[c])

Prepared(r) ==
  /\ pc[r] \in Preparing => cfg[r] = Cfg(name[r]) /\ isolated[r]
  /\ pc[r] \in Preparing \cup {"collection"} => applied[r] = {}
  /\ pc[r] \in Early => patch[r] = "none" /\ Own(name[r]) \cap configsets = {}
  /\ pc[r] \in {"upload", "promote", "drop"} => patch[r] = "applied"
  /\ pc[r] = "upload" => Trusted(name[r]) \notin configsets
  /\ pc[r] = "promote" => /\ Patched(r, Cfg(name[r]))
                          /\ Trusted(name[r]) \in configsets => Patched(r, Trusted(name[r]))
  /\ pc[r] = "drop" => Patched(r, Trusted(name[r]))
  /\ pc[r] = "clone" => patch[r] # "applied"

Settled(r) ==
  pc[r] \in Working \cup {"collection"} =>
    /\ cfg[r] \in configsets /\ (isolated[r] <=> cfg[r] # Live)
    /\ patch[r] = "applied" <=> <<r, 0>> \in edits[cfg[r]]
    /\ \A i \in applied[r] : <<r, i>> \in edits[cfg[r]]

Swept(r) ==
  /\ pc[r] = "drop_configset" => isolated[r]
  /\ pc[r] = "clean" /\ isolated[r] => cfg[r] \notin configsets

(* Which ones there are when r met no fault.                               *)
Expected(r) ==
  CASE pc[r] = "promote" -> {Cfg(name[r])}
    [] pc[r] = "drop"    -> Own(name[r])
    [] pc[r] \in Working \cup {"collection", "drop_collection", "drop_configset"} -> {cfg[r]}
    [] OTHER             -> {}

Tidy(r) ==
  r \notin faulty /\ pc[r] \notin Ended \ {"clean"} =>
    isolated[r] /\ Own(name[r]) \cap configsets = Expected(r)

(* The invariant of a run that has its name to itself and has left no      *)
(* request behind, and that of all runs together.                          *)
Stage(r) == Bound(r) /\ Clear(r) /\ Prepared(r) /\ Settled(r) /\ Swept(r) /\ Tidy(r)
StageInv == Apart /\ \A r \in Runs : Alone(r) /\ r \notin overdue => Stage(r)

-----------------------------------------------------------------------------
(* A name has two configsets, neither another's nor the live one.          *)
LEMMA OwnNames ==
  ASSUME NEW n \in Names
  PROVE  /\ Own(n) = {Cfg(n), Trusted(n)} /\ Own(n) \subseteq Configsets
         /\ Cfg(n) # Trusted(n) /\ Cfg(n) # Live /\ Trusted(n) # Live
         /\ Live \notin Own(n) /\ None \notin Own(n) \cup {Live}
         /\ n # Baseline
         /\ \A m \in Names \ {n} : Own(m) \cap Own(n) = {}
  <1>1. Own(n) = {Cfg(n), Trusted(n)}
    BY DEF Own
  <1>2. /\ Cfg(n) \in Configsets /\ Trusted(n) \in Configsets /\ Live \in Configsets
        /\ Cfg(n) # Live /\ Trusted(n) # Live
    BY ConfigsetNames
  <1>3. None \notin Configsets /\ n # Baseline
    OBVIOUS
  <1>4. Cfg(n) # Trusted(n)
    BY DEF Cfg, Trusted
  <1>5. ASSUME NEW m \in Names \ {n}
        PROVE  Own(m) \cap Own(n) = {}
    <2>1. /\ Cfg(m) # Cfg(n) /\ Cfg(m) # Trusted(n)
          /\ Trusted(m) # Cfg(n) /\ Trusted(m) # Trusted(n)
      BY DEF Cfg, Trusted
    <2> QED BY <1>1, <2>1 DEF Own
  <1> QED BY <1>1, <1>2, <1>3, <1>4, <1>5

(* A run sends requests under its own name.                                *)
LEMMA AskOf ==
  ASSUME IInv, Apart, NEW r \in Runs, Awaiting(r)
  PROVE  Of(Ask(r), name[r])
  <1> DEFINE n == name[r]
  <1>1. Cfg(n) \in Own(n) /\ Trusted(n) \in Own(n) /\ cfg[r] \in Own(n) \cup {Live}
    BY DEF Own, Apart
  <1>2. CASE pc[r] \in {"status", "download", "schema", "drop_collection"}
    BY <1>2 DEF Ask, Request, Of
  <1>3. CASE pc[r] \in {"upload", "promote", "drop", "clone"}
    BY <1>1, <1>3 DEF Ask, Request, Of
  <1>4. CASE pc[r] \in {"collection", "drop_configset"}
    BY <1>1, <1>4 DEF Ask, Request, Of
  <1> QED BY <1>2, <1>3, <1>4 DEF Awaiting, Calling

(* What a request of a run named n leaves alone.                           *)
Untouched(m) ==
  /\ uses'[m] = uses[m]
  /\ \A c \in Own(m) : (c \in configsets' <=> c \in configsets) /\ edits'[c] = edits[c]

LiveGrows == Live \in configsets' /\ edits[Live] \subseteq edits'[Live]

(* A request for one name touches nothing of another.                      *)
LEMMA ServerApart ==
  ASSUME SolrTypeOK, BaselineKept, \A m \in Names : uses[m] \in Own(m) \cup {Live, None},
         NEW n \in Names, NEW q \in Requests, Of(q, n), Handle(q) \/ UNCHANGED solrVars
  PROVE  /\ \A m \in Names : uses'[m] \in Own(m) \cup {Live, None}
         /\ \A m \in Names \ {n} : Untouched(m)
         /\ LiveGrows
  <1>0. Live \in Configsets /\ Live \in configsets
    BY ConfigsetNames DEF BaselineKept
  <1>1. CASE UNCHANGED solrVars
    BY <1>0, <1>1 DEF solrVars, Untouched, LiveGrows
  <1>2. CASE Perform(q) /\ q.op \in {"CLUSTERSTATUS", "DOWNLOAD"}
    BY <1>0, <1>2 DEF Perform, configsetsAfter, editsAfter, usesAfter, Untouched, LiveGrows
  <1>3. CASE Perform(q) /\ q.op \in {"UPLOAD", "CREATE_CONFIGSET"}
    <2>1. /\ configsets' = configsets \cup {q.on} /\ uses' = uses
          /\ \E es : edits' = [edits EXCEPT ![q.on] = es]
      BY <1>3 DEF Perform, configsetsAfter, editsAfter, usesAfter
    <2>a. q.on \in Own(n)
      BY <1>3 DEF Of
    <2>b. Live \notin Own(n)
      BY OwnNames
    <2>2. q.on \in Own(n) /\ q.on # Live
      BY <2>a, <2>b
    <2>3. \A m \in Names \ {n} : q.on \notin Own(m) /\ Own(m) \subseteq Configsets
      BY <2>2, OwnNames
    <2> QED BY <1>0, <2>1, <2>2, <2>3 DEF SolrTypeOK, Untouched, LiveGrows
  <1>4. CASE Perform(q) /\ q.op = "DELETE_CONFIGSET"
    <2>1. /\ configsets' = configsets \ {q.on} /\ uses' = uses
          /\ edits' = [edits EXCEPT ![q.on] = {}]
      BY <1>4 DEF Perform, configsetsAfter, editsAfter, usesAfter
    <2>2. q.on # Live
      BY <1>4 DEF Perform, Accepts, InUse, BaselineKept, SolrTypeOK
    <2>3. q.on \in Own(n)
      BY <1>4, <2>2 DEF Of
    <2>4. \A m \in Names \ {n} : q.on \notin Own(m) /\ Own(m) \subseteq Configsets
      BY <2>3, OwnNames
    <2> QED BY <1>0, <2>1, <2>2, <2>4 DEF SolrTypeOK, Untouched, LiveGrows
  <1>5. CASE Perform(q) /\ q.op \in {"CREATE", "DELETE"}
    <2>1. /\ configsets' = configsets /\ edits' = edits
          /\ \E c \in Own(n) \cup {Live, None} : uses' = [uses EXCEPT ![n] = c]
      BY <1>5 DEF Perform, configsetsAfter, editsAfter, usesAfter, Of
    <2> QED BY <1>0, <2>1 DEF SolrTypeOK, Untouched, LiveGrows
  <1>6. CASE Perform(q) /\ q.op = "SCHEMA"
    <2>1. /\ configsets' = configsets /\ uses' = uses
          /\ edits' = [edits EXCEPT ![uses[n]] = @ \cup q.body]
      BY <1>6 DEF Perform, configsetsAfter, editsAfter, usesAfter, Of
    <2>2. \A m \in Names \ {n} : uses[n] \notin Own(m) /\ Own(m) \subseteq Configsets
      BY OwnNames
    <2> QED BY <1>0, <2>1, <2>2 DEF SolrTypeOK, Untouched, LiveGrows
  <1>7. CASE Reject(q)
    BY <1>1, <1>7 DEF Reject
  <1> QED BY <1>1, <1>2, <1>3, <1>4, <1>5, <1>6, <1>7 DEF Handle, Requests

(* What a run has stays true while others act.                             *)
LEMMA SharedGrows ==
  ASSUME name' = name, \A s \in Runs : isolated'[s] => isolated[s]
  PROVE  /\ \A n : Shared(n) => Shared(n)'
         /\ \A r, es : Pure(r, es) => Pure(r, es)'
  <1>1. \A n : Shared(n) => Shared(n)'
    BY DEF Shared
  <1> QED BY <1>1 DEF Pure

(* The live configset has edits of runs that share it only, and no patch.  *)
LEMMA LiveIsPure ==
  ASSUME BaselineKept
  PROVE  \A r : Pure(r, edits[Live]) /\ <<r, 0>> \notin edits[Live]
  <1>1. \A e \in edits[Live] : e[2] # 0 /\ Shared(name[e[1]])
    BY DEF BaselineKept
  <1> SUFFICES ASSUME NEW r
               PROVE  Pure(r, edits[Live]) /\ <<r, 0>> \notin edits[Live]
    OBVIOUS
  <1>2. Pure(r, edits[Live])
    BY <1>1 DEF Pure
  <1>3. <<r, 0>>[2] = 0
    OBVIOUS
  <1> QED BY <1>1, <1>2, <1>3

(* A run is at its stage still when others do something elsewhere.         *)
LEMMA StageStays ==
  ASSUME BaselineKept, BaselineKept', Apart, NEW r \in Runs, name[r] \in Names, Stage(r),
         isolated[r] => cfg[r] # Live,
         name' = name, \A s \in Runs : isolated'[s] => isolated[s],
         pc'[r] = pc[r], cfg'[r] = cfg[r], isolated'[r] = isolated[r], patch'[r] = patch[r],
         copy'[r] = copy[r], applied'[r] = applied[r], r \in faulty => r \in faulty',
         Untouched(name[r]), LiveGrows
  PROVE  Stage(r)'
  <1>n. PICK n \in Names : n = name[r] /\ n = name'[r]
    OBVIOUS
  <1>0. /\ Own(n) = {Cfg(n), Trusted(n)} /\ Live \notin Own(n) /\ cfg[r] \in Own(n) \cup {Live}
        /\ \A m : Cfg(m)' = Cfg(m) /\ Trusted(m)' = Trusted(m) /\ Own(m)' = Own(m) /\ Live' = Live
    BY <1>n, OwnNames DEF Apart, Own, Cfg, Trusted, Live
  <1>1. /\ uses'[n] = uses[n]
        /\ \A c \in Own(n) : (c \in configsets' <=> c \in configsets) /\ edits'[c] = edits[c]
    BY <1>n DEF Untouched
  <1>2. Bound(r)'
    BY <1>n, <1>1 DEF Stage, Bound
  <1>3. \A es : Pure(r, es) => Pure(r, es)'
    BY SharedGrows
  <1>4. Live \in configsets' /\ edits[Live] \subseteq edits'[Live]
        /\ <<r, 0>> \notin edits[Live] /\ <<r, 0>> \notin edits'[Live]
    BY LiveIsPure, <1>0 DEF LiveGrows, BaselineKept
  <1>5. Clear(r)'
    BY <1>n, <1>0, <1>1, <1>3 DEF Stage, Clear
  <1>6. Prepared(r)'
    BY <1>n, <1>0, <1>1 DEF Stage, Prepared, Patched
  <1>7. Settled(r)'
    <2>1. CASE cfg[r] \in Own(n)
      BY <1>0, <1>1, <2>1 DEF Stage, Settled
    <2>2. CASE cfg[r] = Live
      BY <1>0, <1>4, <2>2 DEF Stage, Settled
    <2> QED BY <1>0, <2>1, <2>2
  <1>8. Swept(r)'
    BY <1>0, <1>1 DEF Stage, Swept
  <1>9. Tidy(r)'
    BY <1>n, <1>0, <1>1 DEF Stage, Tidy, Expected
  <1> QED BY <1>2, <1>5, <1>6, <1>7, <1>8, <1>9 DEF Stage

-----------------------------------------------------------------------------
(* What Solr does with the request of run r, and why it may refuse it.     *)
Done(r) ==
  LET n == name[r] IN
  /\ pc[r] \in {"status", "download"} => UNCHANGED solrVars
  /\ pc[r] = "upload" =>
       /\ configsets' = configsets \cup {Cfg(n)} /\ uses' = uses
       /\ edits' = [edits EXCEPT ![Cfg(n)] = copy[r] \cup {<<r, 0>>}]
  /\ pc[r] = "promote" =>
       /\ Cfg(n) \in configsets /\ Trusted(n) \notin configsets
       /\ configsets' = configsets \cup {Trusted(n)} /\ uses' = uses
       /\ edits' = [edits EXCEPT ![Trusted(n)] = edits[Cfg(n)]]
  /\ pc[r] = "drop" =>
       /\ configsets' = configsets \ {Cfg(n)} /\ uses' = uses
       /\ edits' = [edits EXCEPT ![Cfg(n)] = {}]
  /\ pc[r] = "clone" =>
       /\ Cfg(n) \notin configsets
       /\ configsets' = configsets \cup {Cfg(n)} /\ uses' = uses
       /\ edits' = [edits EXCEPT ![Cfg(n)] = edits[Live]]
  /\ pc[r] = "collection" =>
       /\ uses[n] = None /\ cfg[r] \in configsets
       /\ configsets' = configsets /\ edits' = edits /\ uses' = [uses EXCEPT ![n] = cfg[r]]
  /\ pc[r] = "schema" =>
       /\ uses[n] # None /\ configsets' = configsets /\ uses' = uses
       /\ edits' = [edits EXCEPT ![uses[n]] = @ \cup {<<r, op[r]>>}]
  /\ pc[r] = "drop_collection" =>
       configsets' = configsets /\ edits' = edits /\ uses' = [uses EXCEPT ![n] = None]
  /\ pc[r] = "drop_configset" =>
       /\ configsets' = configsets \ {cfg[r]} /\ uses' = uses
       /\ edits' = [edits EXCEPT ![cfg[r]] = {}]

Refused(r) ==
  LET n == name[r] IN
  /\ pc[r] # "upload"
  /\ pc[r] = "promote" => Trusted(n) \in configsets \/ Cfg(n) \notin configsets
  /\ pc[r] = "drop" => Cfg(n) \notin configsets \/ InUse(Cfg(n))
  /\ pc[r] = "clone" => Cfg(n) \in configsets \/ Live \notin configsets

(* A request that Solr performs has its effect.                            *)
LEMMA PerformIsDone ==
  ASSUME NEW r \in Runs, Awaiting(r), Perform(Ask(r))
  PROVE  Done(r)
  <1> USE DEF Perform, configsetsAfter, editsAfter, usesAfter, Done
  <1>1. CASE pc[r] \in {"status", "download"}
    <2>1. Ask(r).op \in {"CLUSTERSTATUS", "DOWNLOAD"}
      BY <1>1 DEF Ask, Request
    <2>2. UNCHANGED solrVars
      BY <2>1 DEF solrVars
    <2> QED BY <1>1, <2>2
  <1>2. CASE pc[r] = "upload"
    <2>1. Ask(r) = Request("UPLOAD", Cfg(name[r]), None, copy[r] \cup {<<r, 0>>})
      BY <1>2 DEF Ask
    <2>2. /\ Ask(r).op = "UPLOAD" /\ Ask(r).on = Cfg(name[r])
          /\ Ask(r).cfg = None /\ Ask(r).body = copy[r] \cup {<<r, 0>>}
      BY <2>1 DEF Request
    <2> QED BY <1>2, <2>2
  <1>3. CASE pc[r] = "promote"
    <2>1. Ask(r) = Request("CREATE_CONFIGSET", Trusted(name[r]), Cfg(name[r]), {})
      BY <1>3 DEF Ask
    <2>2. /\ Ask(r).op = "CREATE_CONFIGSET" /\ Ask(r).on = Trusted(name[r])
          /\ Ask(r).cfg = Cfg(name[r]) /\ Ask(r).body = {}
      BY <2>1 DEF Request
    <2> QED BY <1>3, <2>2 DEF Accepts
  <1>4. CASE pc[r] = "drop"
    <2>1. Ask(r) = Request("DELETE_CONFIGSET", Cfg(name[r]), None, {})
      BY <1>4 DEF Ask
    <2>2. /\ Ask(r).op = "DELETE_CONFIGSET" /\ Ask(r).on = Cfg(name[r])
          /\ Ask(r).cfg = None /\ Ask(r).body = {}
      BY <2>1 DEF Request
    <2> QED BY <1>4, <2>2
  <1>5. CASE pc[r] = "clone"
    <2>1. Ask(r) = Request("CREATE_CONFIGSET", Cfg(name[r]), Live, {})
      BY <1>5 DEF Ask
    <2>2. /\ Ask(r).op = "CREATE_CONFIGSET" /\ Ask(r).on = Cfg(name[r])
          /\ Ask(r).cfg = Live /\ Ask(r).body = {}
      BY <2>1 DEF Request
    <2> QED BY <1>5, <2>2 DEF Accepts
  <1>6. CASE pc[r] = "collection"
    <2>1. Ask(r) = Request("CREATE", name[r], cfg[r], {})
      BY <1>6 DEF Ask
    <2>2. /\ Ask(r).op = "CREATE" /\ Ask(r).on = name[r]
          /\ Ask(r).cfg = cfg[r] /\ Ask(r).body = {}
      BY <2>1 DEF Request
    <2> QED BY <1>6, <2>2 DEF Accepts
  <1>7. CASE pc[r] = "schema"
    <2>1. Ask(r) = Request("SCHEMA", name[r], None, {<<r, op[r]>>})
      BY <1>7 DEF Ask
    <2>2. /\ Ask(r).op = "SCHEMA" /\ Ask(r).on = name[r]
          /\ Ask(r).cfg = None /\ Ask(r).body = {<<r, op[r]>>}
      BY <2>1 DEF Request
    <2> QED BY <1>7, <2>2 DEF Accepts
  <1>8. CASE pc[r] = "drop_collection"
    <2>1. Ask(r) = Request("DELETE", name[r], None, {})
      BY <1>8 DEF Ask
    <2>2. /\ Ask(r).op = "DELETE" /\ Ask(r).on = name[r]
          /\ Ask(r).cfg = None /\ Ask(r).body = {}
      BY <2>1 DEF Request
    <2> QED BY <1>8, <2>2
  <1>9. CASE pc[r] = "drop_configset"
    <2>1. Ask(r) = Request("DELETE_CONFIGSET", cfg[r], None, {})
      BY <1>9 DEF Ask
    <2>2. /\ Ask(r).op = "DELETE_CONFIGSET" /\ Ask(r).on = cfg[r]
          /\ Ask(r).cfg = None /\ Ask(r).body = {}
      BY <2>1 DEF Request
    <2> QED BY <1>9, <2>2
  <1> QED BY <1>1, <1>2, <1>3, <1>4, <1>5, <1>6, <1>7, <1>8, <1>9 DEF Awaiting, Calling

(* One that Solr rejects has none.                                         *)
LEMMA RejectIsRefused ==
  ASSUME NEW r \in Runs, Reject(Ask(r))
  PROVE  Refused(r) /\ UNCHANGED solrVars
  <1>0. ~Accepts(Ask(r)) /\ UNCHANGED solrVars
    BY DEF Reject
  <1>1. pc[r] # "upload"
    <2> SUFFICES ASSUME pc[r] = "upload" PROVE FALSE
      OBVIOUS
    <2>1. Ask(r) = Request("UPLOAD", Cfg(name[r]), None, copy[r] \cup {<<r, 0>>})
      BY DEF Ask
    <2>2. /\ Ask(r).op = "UPLOAD" /\ Ask(r).on = Cfg(name[r])
          /\ Ask(r).cfg = None /\ Ask(r).body = copy[r] \cup {<<r, 0>>}
      BY <2>1 DEF Request
    <2> QED BY <1>0, <2>2 DEF Accepts
  <1>2. ASSUME pc[r] = "promote"
        PROVE  Trusted(name[r]) \in configsets \/ Cfg(name[r]) \notin configsets
    <2>1. Ask(r) = Request("CREATE_CONFIGSET", Trusted(name[r]), Cfg(name[r]), {})
      BY <1>2 DEF Ask
    <2>2. /\ Ask(r).op = "CREATE_CONFIGSET" /\ Ask(r).on = Trusted(name[r])
          /\ Ask(r).cfg = Cfg(name[r]) /\ Ask(r).body = {}
      BY <2>1 DEF Request
    <2> QED BY <1>0, <2>2 DEF Accepts
  <1>3. ASSUME pc[r] = "drop"
        PROVE  Cfg(name[r]) \notin configsets \/ InUse(Cfg(name[r]))
    <2>1. Ask(r) = Request("DELETE_CONFIGSET", Cfg(name[r]), None, {})
      BY <1>3 DEF Ask
    <2>2. /\ Ask(r).op = "DELETE_CONFIGSET" /\ Ask(r).on = Cfg(name[r])
          /\ Ask(r).cfg = None /\ Ask(r).body = {}
      BY <2>1 DEF Request
    <2> QED BY <1>0, <2>2 DEF Accepts
  <1>4. ASSUME pc[r] = "clone"
        PROVE  Cfg(name[r]) \in configsets \/ Live \notin configsets
    <2>1. Ask(r) = Request("CREATE_CONFIGSET", Cfg(name[r]), Live, {})
      BY <1>4 DEF Ask
    <2>2. /\ Ask(r).op = "CREATE_CONFIGSET" /\ Ask(r).on = Cfg(name[r])
          /\ Ask(r).cfg = Live /\ Ask(r).body = {}
      BY <2>1 DEF Request
    <2> QED BY <1>0, <2>2 DEF Accepts
  <1> QED BY <1>0, <1>1, <1>2, <1>3, <1>4 DEF Refused

(* An attempt of a run that leaves no request behind.                      *)
LEMMA AttemptEffect ==
  ASSUME NEW r \in Runs, Awaiting(r), r \notin overdue'
  PROVE  /\ Succeeds(r) => Done(r) /\ faulty' = faulty
         /\ Unanswered(r) => (Done(r) \/ UNCHANGED solrVars) /\ r \in faulty'
         /\ SolrError(r) => \/ UNCHANGED solrVars /\ Refused(r) /\ faulty' = faulty
                            \/ (Done(r) \/ UNCHANGED solrVars) /\ r \in faulty'
  <1>1. Handle(Ask(r)) => Done(r) \/ UNCHANGED solrVars
    BY PerformIsDone DEF Handle, Reject
  <1>2. Unanswered(r) => (Done(r) \/ UNCHANGED solrVars) /\ r \in faulty'
    BY <1>1 DEF Unanswered
  <1>3. Succeeds(r) => Done(r) /\ faulty' = faulty
    BY PerformIsDone DEF Succeeds
  <1>4. SolrError(r) => \/ UNCHANGED solrVars /\ Refused(r) /\ faulty' = faulty
                        \/ (Done(r) \/ UNCHANGED solrVars) /\ r \in faulty'
    BY <1>1, <1>2, RejectIsRefused DEF SolrError
  <1> QED BY <1>2, <1>3, <1>4

-----------------------------------------------------------------------------
(* The names of configsets do not change.                                  *)
LEMMA NamesStay ==
  /\ \A m : Cfg(m)' = Cfg(m) /\ Trusted(m)' = Trusted(m) /\ Own(m)' = Own(m)
  /\ Live' = Live
  BY DEF Cfg, Trusted, Own, Live

(* Nothing is put into a configset of r but what r may have there.         *)
LEMMA ClearStays ==
  ASSUME IInv, NEW r \in Runs, Clear(r), Done(r) \/ UNCHANGED solrVars, Apart,
         pc[r] \in Calling \/ UNCHANGED solrVars,
         name' = name, \A s \in Runs : isolated'[s] => isolated[s],
         copy'[r] = copy[r] \/ copy'[r] = edits[Live]
  PROVE  Clear(r)'
  <1>n. PICK n \in Names : n = name[r] /\ n = name'[r]
    BY DEF IInv, TypeOK
  <1>0. /\ Own(n) = {Cfg(n), Trusted(n)} /\ Own(n) \subseteq Configsets
        /\ \A s : Pure(s, edits[Live]) /\ edits \in [Configsets -> SUBSET Edits]
        /\ uses[n] \in Own(n) \cup {Live, None}
    BY OwnNames, LiveIsPure DEF IInv, TypeOK, SolrTypeOK, Apart
  <1>1. Pure(r, copy[r]) /\ \A c \in Own(n) : Pure(r, edits[c])
    BY <1>n DEF Clear
  <1>2. \/ edits' = edits
        \/ \E x, es : Pure(r, es) /\ edits' = [edits EXCEPT ![x] = es]
    <2>1. CASE pc[r] \in {"status", "download", "collection", "drop_collection"} \/ UNCHANGED solrVars
      BY <2>1 DEF Done, solrVars
    <2>2. CASE Done(r) /\ pc[r] = "upload"
      <3>1. Pure(r, copy[r] \cup {<<r, 0>>})
        BY <1>1 DEF Pure
      <3> QED BY <2>2, <3>1 DEF Done
    <2>3. CASE Done(r) /\ pc[r] = "promote"
      BY <1>n, <1>0, <1>1, <2>3 DEF Done
    <2>4. CASE Done(r) /\ pc[r] \in {"drop", "drop_configset"}
      <3>1. Pure(r, {})
        BY DEF Pure
      <3> QED BY <2>4, <3>1 DEF Done
    <2>5. CASE Done(r) /\ pc[r] = "clone"
      BY <1>0, <2>5 DEF Done
    <2>6. CASE Done(r) /\ pc[r] = "schema"
      <3>1. uses[n] # None /\ edits' = [edits EXCEPT ![uses[n]] = edits[uses[n]] \cup {<<r, op[r]>>}]
        BY <1>n, <2>6 DEF Done
      <3>2. Pure(r, edits[uses[n]])
        BY <1>0, <1>1, <3>1
      <3>3. Pure(r, edits[uses[n]] \cup {<<r, op[r]>>})
        BY <3>2 DEF Pure
      <3> QED BY <3>1, <3>3
    <2> QED BY <2>1, <2>2, <2>3, <2>4, <2>5, <2>6 DEF Calling
  <1>3. \A c \in Own(n) : Pure(r, edits'[c])
    BY <1>0, <1>1, <1>2
  <1>4. Pure(r, copy'[r])
    BY <1>0, <1>1
  <1>5. \A es : Pure(r, es) => Pure(r, es)'
    BY SharedGrows
  <1> QED BY <1>n, <1>3, <1>4, <1>5, NamesStay DEF Clear

(* Where a step may lead to: an end, the clone, the collection.            *)
LEMMA EndedStage ==
  ASSUME NEW r \in Runs, Clear(r)', pc'[r] \in {"failed", "aborted", "kept", "unclean"}
  PROVE  Stage(r)'
  <1>1. Bound(r)' /\ Prepared(r)'
    BY DEF Bound, Prepared, Preparing, Early, Working
  <1>2. Settled(r)' /\ Swept(r)' /\ Tidy(r)'
    BY DEF Settled, Swept, Tidy, Working, Ended
  <1> QED BY <1>1, <1>2 DEF Stage

(* What makes a run ready to clone the configset.                          *)
LEMMA CloneStage ==
  ASSUME NEW r \in Runs, Clear(r)', pc'[r] = "clone",
         uses'[name'[r]] = None, cfg'[r] = Cfg(name'[r]), isolated'[r], applied'[r] = {},
         patch'[r] # "applied", r \in faulty' \/ Own(name'[r]) \cap configsets' = {}
  PROVE  Stage(r)'
  <1>1. Bound(r)'
    BY DEF Bound, Preparing, Early, Working
  <1>2. Prepared(r)'
    BY NamesStay DEF Prepared, Preparing, Early, Working
  <1>3. Settled(r)' /\ Swept(r)'
    BY DEF Settled, Swept, Working
  <1>4. Tidy(r)'
    BY NamesStay DEF Tidy, Expected, Working
  <1> QED BY <1>1, <1>2, <1>3, <1>4 DEF Stage

(* What makes a run ready to create the collection.                        *)
LEMMA CollectionStage ==
  ASSUME NEW r \in Runs, Clear(r)', pc'[r] = "collection",
         uses'[name'[r]] = None, applied'[r] = {}, cfg'[r] \in configsets',
         isolated'[r] <=> cfg'[r] # Live,
         patch'[r] = "applied" <=> <<r, 0>> \in edits'[cfg'[r]],
         r \in faulty' \/ (isolated'[r] /\ Own(name'[r]) \cap configsets' = {cfg'[r]})
  PROVE  Stage(r)'
  <1>1. Bound(r)' /\ Prepared(r)'
    BY DEF Bound, Prepared, Preparing, Early, Working
  <1>2. Settled(r)'
    BY NamesStay DEF Settled
  <1>3. Swept(r)'
    BY DEF Swept
  <1>4. Tidy(r)'
    BY NamesStay DEF Tidy, Expected, Working
  <1> QED BY <1>1, <1>2, <1>3, <1>4 DEF Stage

(* The patching that raised leaves the run ready to clone, or failed.      *)
LEMMA PatchingRaisedStage ==
  ASSUME IInv, NEW r \in Runs, Clear(r)', PatchingRaised(r), name' = name,
         uses'[name[r]] = None, cfg'[r] = Cfg(name[r]), isolated'[r], applied'[r] = {},
         r \in faulty' \/ Own(name[r]) \cap configsets' = {}
  PROVE  Stage(r)'
  <1>1. \/ pc'[r] = "clone" /\ patch'[r] = "skipped"
        \/ pc'[r] = "failed"
    BY DEF PatchingRaised, Goto, IInv, TypeOK
  <1> QED BY <1>1, CloneStage, EndedStage

-----------------------------------------------------------------------------
(* The steps of a run, one lemma each.                                     *)
LEMMA SilentStage ==
  ASSUME IInv, Apart, NEW r \in Runs, Stage(r),
         Begin(r) \/ CreateShadowReturns(r) \/ Finish(r)
  PROVE  Stage(r)'
  <1>0. /\ UNCHANGED <<solrVars, faulty, localVars>>
        /\ \/ pc[r] = "idle" /\ pc'[r] = "status"
           \/ pc[r] = "schema" /\ pc'[r] = "ready"
           \/ pc[r] = "ready" /\ pc'[r] \in {"drop_collection", "kept", "aborted"}
    BY DEF Begin, CreateShadowReturns, Finish, Goto, IInv, TypeOK
  <1>n. /\ name' = name /\ cfg' = cfg /\ isolated' = isolated /\ patch' = patch /\ copy' = copy
        /\ applied' = applied /\ uses' = uses /\ configsets' = configsets /\ edits' = edits
        /\ faulty' = faulty
    BY <1>0 DEF localVars, solrVars
  <1>1. Clear(r)'
    BY <1>0, <1>n, ClearStays DEF Stage
  <1>2. Bound(r)'
    BY <1>0, <1>n DEF Stage, Bound, Preparing, Early, Working
  <1>3. Prepared(r)'
    BY <1>0, <1>n, NamesStay DEF Stage, Prepared, Preparing, Early, Working
  <1>4. Settled(r)' /\ Swept(r)'
    BY <1>0, <1>n, NamesStay DEF Stage, Settled, Swept, Working
  <1>5. Tidy(r)'
    BY <1>0, <1>n, NamesStay DEF Stage, Tidy, Expected, Working, Ended
  <1> QED BY <1>1, <1>2, <1>3, <1>4, <1>5 DEF Stage

(* The stage after the name of the live configset was asked for,           *)
LEMMA ConfigNameStage ==
  ASSUME IInv, Apart, NEW r \in Runs, Stage(r), r \notin overdue', ConfigName(r)
  PROVE  Stage(r)'
  <1>0. /\ UNCHANGED localVars /\ pc[r] = "status" /\ Awaiting(r)
        /\ (Succeeds(r) \/ Fails(r))
        /\ pc'[r] \in {"download", "clone", "failed"}
    BY DEF ConfigName, Goto, IInv, TypeOK, Awaiting, Calling
  <1>n. /\ name' = name /\ cfg' = cfg /\ isolated' = isolated /\ patch' = patch /\ copy' = copy
        /\ applied' = applied
    BY <1>0 DEF localVars
  <1>e. UNCHANGED solrVars
    BY <1>0, AttemptEffect DEF Done, Fails, Escapes
  <1>s. uses' = uses /\ configsets' = configsets /\ edits' = edits
    BY <1>e DEF solrVars
  <1>1. Clear(r)'
    BY <1>n, <1>e, ClearStays DEF Stage
  <1>2. CASE pc'[r] = "failed"
    BY <1>1, <1>2, EndedStage
  <1>3. /\ uses[name[r]] = None /\ cfg[r] = Cfg(name[r]) /\ isolated[r] /\ applied[r] = {}
        /\ patch[r] = "none" /\ Own(name[r]) \cap configsets = {}
    BY <1>0 DEF Stage, Bound, Prepared, Preparing, Early
  <1>4. CASE pc'[r] = "clone"
    BY <1>n, <1>s, <1>1, <1>3, <1>4, CloneStage
  <1>5. CASE pc'[r] = "download"
    <2>1. Bound(r)'
      BY <1>n, <1>s, <1>3, <1>5 DEF Bound, Working
    <2>2. Prepared(r)'
      BY <1>n, <1>s, <1>3, <1>5, NamesStay DEF Prepared, Preparing, Early
    <2>3. Settled(r)' /\ Swept(r)'
      BY <1>5 DEF Settled, Swept, Working
    <2>4. Tidy(r)'
      BY <1>n, <1>s, <1>3, <1>5, NamesStay DEF Tidy, Expected, Working
    <2> QED BY <1>1, <2>1, <2>2, <2>3, <2>4 DEF Stage
  <1> QED BY <1>0, <1>2, <1>4, <1>5

(* after the download,                                                     *)
LEMMA DownloadStage ==
  ASSUME IInv, Apart, NEW r \in Runs, Stage(r), r \notin overdue', Download(r)
  PROVE  Stage(r)'
  <1>0. /\ pc[r] = "download" /\ Awaiting(r) /\ (Succeeds(r) \/ Fails(r))
        /\ \/ PatchingRaised(r)
           \/ patch'[r] = "applied" /\ pc'[r] = "upload"
        /\ copy'[r] = copy[r] \/ copy'[r] = edits[Live]
    BY DEF Download, Goto, IInv, TypeOK, Awaiting, Calling
  <1>n. name' = name /\ cfg' = cfg /\ isolated' = isolated /\ applied' = applied
    BY DEF Download
  <1>e. UNCHANGED solrVars
    BY <1>0, AttemptEffect DEF Done, Fails, Escapes
  <1>s. uses' = uses /\ configsets' = configsets /\ edits' = edits
    BY <1>e DEF solrVars
  <1>1. Clear(r)'
    BY <1>0, <1>n, <1>e, ClearStays DEF Stage
  <1>2. /\ uses[name[r]] = None /\ cfg[r] = Cfg(name[r]) /\ isolated[r] /\ applied[r] = {}
        /\ Own(name[r]) \cap configsets = {}
    BY <1>0 DEF Stage, Bound, Prepared, Preparing, Early
  <1>3. CASE PatchingRaised(r)
    BY <1>n, <1>s, <1>1, <1>2, <1>3, PatchingRaisedStage
  <1>4. CASE patch'[r] = "applied" /\ pc'[r] = "upload"
    <2>0. Trusted(name[r]) \in Own(name[r])
      BY DEF Own
    <2>1. Bound(r)'
      BY <1>n, <1>s, <1>2, <1>4 DEF Bound, Working
    <2>2. Prepared(r)'
      BY <1>n, <1>s, <1>2, <1>4, <2>0, NamesStay DEF Prepared, Preparing, Early
    <2>3. Settled(r)' /\ Swept(r)'
      BY <1>4 DEF Settled, Swept, Working
    <2>4. Tidy(r)'
      BY <1>n, <1>s, <1>2, <1>4, NamesStay DEF Tidy, Expected, Working
    <2> QED BY <1>1, <2>1, <2>2, <2>3, <2>4 DEF Stage
  <1> QED BY <1>0, <1>3, <1>4

(* after the upload,                                                       *)
LEMMA UploadStage ==
  ASSUME IInv, Apart, NEW r \in Runs, Stage(r), r \notin overdue', Upload(r)
  PROVE  Stage(r)'
  <1>0. /\ pc[r] = "upload" /\ Awaiting(r)
        /\ \/ /\ Succeeds(r) /\ patch'[r] = patch[r]
              /\ pc'[r] \in {"promote", "collection"}
           \/ Fails(r) /\ PatchingRaised(r)
    BY DEF Upload, Goto, IInv, TypeOK, Awaiting, Calling
  <1>n. name' = name /\ cfg' = cfg /\ isolated' = isolated /\ applied' = applied /\ copy' = copy
    BY DEF Upload
  <1>m. PICK n \in Names : n = name[r] /\ n = name'[r]
    BY <1>n DEF IInv, TypeOK
  <1>o. /\ Own(n) = {Cfg(n), Trusted(n)} /\ Own(n) \subseteq Configsets
        /\ Cfg(n) # Trusted(n) /\ Cfg(n) # Live
    BY OwnNames
  <1>b. /\ uses[n] = None /\ cfg[r] = Cfg(n) /\ isolated[r] /\ applied[r] = {}
        /\ patch[r] = "applied" /\ Trusted(n) \notin configsets
        /\ r \notin faulty => Own(n) \cap configsets = {}
    BY <1>0, <1>m DEF Stage, Bound, Prepared, Tidy, Expected, Preparing, Early, Working, Ended
  <1>1. CASE Fails(r) /\ PatchingRaised(r)
    <2>1. (Done(r) \/ UNCHANGED solrVars) /\ r \in faulty'
      BY <1>0, <1>1, AttemptEffect DEF Fails, Escapes, Refused
    <2>2. uses' = uses
      BY <1>0, <2>1 DEF Done, solrVars
    <2>3. Clear(r)'
      BY <1>0, <1>n, <2>1, ClearStays DEF Stage, Calling
    <2> QED BY <1>1, <1>n, <1>m, <1>b, <2>1, <2>2, <2>3, PatchingRaisedStage
  <1>2. CASE /\ Succeeds(r) /\ patch'[r] = patch[r]
             /\ pc'[r] \in {"promote", "collection"}
    <2>1. Done(r) /\ faulty' = faulty
      BY <1>0, <1>2, AttemptEffect
    <2>2. /\ configsets' = configsets \cup {Cfg(n)} /\ uses' = uses
          /\ edits' = [edits EXCEPT ![Cfg(n)] = copy[r] \cup {<<r, 0>>}]
      BY <1>0, <1>m, <2>1 DEF Done
    <2>3. <<r, 0>> \in edits'[Cfg(n)]
      BY <1>o, <2>2 DEF IInv, TypeOK, SolrTypeOK
    <2>4. r \in faulty' \/ Own(n) \cap configsets' = {Cfg(n)}
      BY <1>o, <1>b, <2>1, <2>2
    <2>5. Clear(r)'
      BY <1>0, <1>n, <2>1, ClearStays DEF Stage, Calling
    <2>6. CASE pc'[r] = "collection"
      BY <1>n, <1>m, <1>o, <1>b, <1>2, <2>2, <2>3, <2>4, <2>5, <2>6, CollectionStage
    <2>7. CASE pc'[r] = "promote"
      <3>1. Bound(r)'
        BY <1>n, <1>m, <1>b, <2>2, <2>7 DEF Bound, Working
      <3>2. Prepared(r)'
        BY <1>n, <1>m, <1>o, <1>b, <1>2, <2>2, <2>3, <2>7, NamesStay
           DEF Prepared, Patched, Preparing, Early
      <3>3. Settled(r)' /\ Swept(r)'
        BY <2>7 DEF Settled, Swept, Working
      <3>4. Tidy(r)'
        BY <1>n, <1>m, <1>b, <2>4, <2>7, NamesStay DEF Tidy, Expected
      <3> QED BY <2>5, <3>1, <3>2, <3>3, <3>4 DEF Stage
    <2> QED BY <1>2, <2>6, <2>7
  <1> QED BY <1>0, <1>1, <1>2

(* after the promotion,                                                    *)
LEMMA PromoteStage ==
  ASSUME IInv, Apart, NEW r \in Runs, Stage(r), r \notin overdue', Promote(r)
  PROVE  Stage(r)'
  <1>0. /\ pc[r] = "promote" /\ Awaiting(r)
        /\ \/ Succeeds(r) /\ patch'[r] = patch[r] /\ pc'[r] = "drop"
           \/ SolrError(r) /\ patch'[r] = patch[r] /\ pc'[r] = "collection"
           \/ Escapes(r) /\ PatchingRaised(r)
    BY DEF Promote, Goto, IInv, TypeOK, Awaiting, Calling
  <1>n. name' = name /\ cfg' = cfg /\ isolated' = isolated /\ applied' = applied /\ copy' = copy
    BY DEF Promote
  <1>m. PICK n \in Names : n = name[r] /\ n = name'[r]
    BY <1>n DEF IInv, TypeOK
  <1>o. /\ Own(n) = {Cfg(n), Trusted(n)} /\ Own(n) \subseteq Configsets
        /\ Cfg(n) # Trusted(n) /\ Cfg(n) # Live
    BY OwnNames
  <1>b. /\ uses[n] = None /\ cfg[r] = Cfg(n) /\ isolated[r] /\ applied[r] = {}
        /\ patch[r] = "applied" /\ Cfg(n) \in configsets /\ <<r, 0>> \in edits[Cfg(n)]
        /\ r \notin faulty => Own(n) \cap configsets = {Cfg(n)}
    BY <1>0, <1>m DEF Stage, Bound, Prepared, Patched, Tidy, Expected, Preparing, Early, Working, Ended
  <1>1. /\ Done(r) \/ UNCHANGED solrVars
        /\ Succeeds(r) => Done(r)
        /\ r \in faulty' \/ Succeeds(r)
        /\ faulty' = faulty \/ r \in faulty'
    <2>1. r \notin faulty => ~Refused(r)
      BY <1>0, <1>m, <1>o, <1>b DEF Refused
    <2> QED BY <1>0, <2>1, AttemptEffect DEF Escapes
  <1>2. /\ uses' = uses /\ configsets' \in {configsets, configsets \cup {Trusted(n)}}
        /\ edits'[Cfg(n)] = edits[Cfg(n)]
        /\ Done(r) => Trusted(n) \in configsets' /\ edits'[Trusted(n)] = edits[Cfg(n)]
    <2>1. CASE UNCHANGED solrVars /\ ~Done(r)
      BY <2>1 DEF solrVars
    <2>2. CASE Done(r)
      BY <1>0, <1>m, <1>o, <2>2 DEF Done, IInv, TypeOK, SolrTypeOK
    <2> QED BY <1>1, <2>1, <2>2
  <1>3. Clear(r)'
    BY <1>0, <1>n, <1>1, ClearStays DEF Stage, Calling
  <1>4. CASE PatchingRaised(r) /\ Escapes(r)
    <2>1. r \in faulty'
      BY <1>0, <1>4, AttemptEffect DEF Escapes
    <2> QED BY <1>n, <1>m, <1>b, <1>2, <1>3, <1>4, <2>1, PatchingRaisedStage
  <1>5. CASE SolrError(r) /\ patch'[r] = patch[r] /\ pc'[r] = "collection"
    <2>1. r \in faulty'
      <3>1. r \notin faulty => ~Refused(r)
        BY <1>0, <1>m, <1>o, <1>b DEF Refused
      <3> QED BY <1>0, <1>5, <3>1, AttemptEffect
    <2> QED BY <1>n, <1>m, <1>o, <1>b, <1>2, <1>3, <1>5, <2>1, CollectionStage
  <1>6. CASE Succeeds(r) /\ patch'[r] = patch[r] /\ pc'[r] = "drop"
    <2>0. Done(r) /\ faulty' = faulty /\ configsets' = configsets \cup {Trusted(n)}
      BY <1>0, <1>m, <1>6, AttemptEffect DEF Done
    <2>1. Bound(r)'
      BY <1>n, <1>m, <1>b, <1>2, <1>6 DEF Bound, Working
    <2>2. Prepared(r)'
      BY <1>n, <1>m, <1>b, <1>2, <1>6, <2>0, NamesStay DEF Prepared, Patched, Preparing, Early
    <2>3. Settled(r)' /\ Swept(r)'
      BY <1>6 DEF Settled, Swept, Working
    <2>4. r \in faulty' \/ Own(n) \cap configsets' = Own(n)
      BY <1>o, <1>b, <2>0
    <2>5. Expected(r)' = Own(name[r])'
      BY <1>6 DEF Expected, Working
    <2>6. Tidy(r)'
      BY <1>n, <1>m, <1>b, <2>4, <2>5, NamesStay DEF Tidy
    <2> QED BY <1>3, <2>1, <2>2, <2>3, <2>6 DEF Stage
  <1> QED BY <1>0, <1>4, <1>5, <1>6

(* after the upload was dropped,                                           *)
LEMMA DropUploadStage ==
  ASSUME IInv, Apart, NEW r \in Runs, Stage(r), r \notin overdue', DropUpload(r)
  PROVE  Stage(r)'
  <1>0. /\ pc[r] = "drop" /\ Awaiting(r)
        /\ \/ /\ Succeeds(r) \/ SolrError(r)
              /\ patch'[r] = patch[r] /\ pc'[r] = "collection" /\ cfg'[r] = Trusted(name[r])
           \/ Escapes(r) /\ PatchingRaised(r) /\ cfg'[r] = cfg[r]
    BY DEF DropUpload, Goto, IInv, TypeOK, Awaiting, Calling
  <1>n. name' = name /\ isolated' = isolated /\ applied' = applied /\ copy' = copy
    BY DEF DropUpload
  <1>m. PICK n \in Names : n = name[r] /\ n = name'[r]
    BY <1>n DEF IInv, TypeOK
  <1>o. /\ Own(n) = {Cfg(n), Trusted(n)} /\ Own(n) \subseteq Configsets
        /\ Cfg(n) # Trusted(n) /\ Trusted(n) # Live
    BY OwnNames
  <1>b. /\ uses[n] = None /\ cfg[r] = Cfg(n) /\ isolated[r] /\ applied[r] = {}
        /\ patch[r] = "applied" /\ Trusted(n) \in configsets /\ <<r, 0>> \in edits[Trusted(n)]
    BY <1>0, <1>m DEF Stage, Bound, Prepared, Patched, Preparing, Early, Working
  <1>t. r \notin faulty => Own(n) \subseteq configsets
    <2>1. Expected(r) = Own(name[r])
      BY <1>0 DEF Expected, Working
    <2> QED BY <1>0, <1>m, <2>1 DEF Stage, Tidy, Ended
  <1>u. ~InUse(Cfg(n))
    <2>1. uses[Baseline] # Cfg(n)
      BY ConfigsetNames DEF IInv, BaselineKept
    <2>2. \A m \in Names \ {n} : uses[m] # Cfg(n)
      <3> SUFFICES ASSUME NEW m \in Names \ {n} PROVE uses[m] # Cfg(n)
        OBVIOUS
      <3>1. Own(m) \cap Own(n) = {} /\ Cfg(n) # Live /\ None \notin Own(n)
        BY OwnNames
      <3>2. uses[m] \in Own(m) \cup {Live, None} /\ Cfg(n) \in Own(n)
        BY <1>o DEF Apart
      <3> QED BY <3>1, <3>2
    <2>3. uses[n] # Cfg(n)
      BY <1>b, <1>o
    <2> QED BY <2>1, <2>2, <2>3 DEF InUse, IInv, TypeOK, SolrTypeOK
  <1>1. /\ Done(r) \/ UNCHANGED solrVars
        /\ r \in faulty' \/ (Done(r) /\ faulty' = faulty)
    <2>1. r \notin faulty => ~Refused(r)
      BY <1>0, <1>m, <1>o, <1>t, <1>u DEF Refused
    <2> QED BY <1>0, <2>1, AttemptEffect DEF Escapes
  <1>2. /\ uses' = uses /\ configsets' \in {configsets, configsets \ {Cfg(n)}}
        /\ edits'[Trusted(n)] = edits[Trusted(n)]
        /\ Done(r) => configsets' = configsets \ {Cfg(n)}
    <2>1. CASE UNCHANGED solrVars /\ ~Done(r)
      BY <2>1 DEF solrVars
    <2>2. CASE Done(r)
      BY <1>0, <1>m, <1>o, <2>2 DEF Done, IInv, TypeOK, SolrTypeOK
    <2> QED BY <1>1, <2>1, <2>2
  <1>3. Clear(r)'
    BY <1>0, <1>n, <1>1, ClearStays DEF Stage, Calling
  <1>4. CASE Escapes(r) /\ PatchingRaised(r) /\ cfg'[r] = cfg[r]
    <2>1. r \in faulty'
      BY <1>0, <1>4, AttemptEffect DEF Escapes
    <2> QED BY <1>n, <1>m, <1>b, <1>2, <1>3, <1>4, <2>1, PatchingRaisedStage
  <1>5. CASE patch'[r] = patch[r] /\ pc'[r] = "collection" /\ cfg'[r] = Trusted(name[r])
    <2>1. r \in faulty' \/ Own(n) \cap configsets' = {Trusted(n)}
      BY <1>o, <1>t, <1>1, <1>2
    <2>2. Trusted(n) \in configsets'
      BY <1>o, <1>b, <1>2
    <2> QED BY <1>n, <1>m, <1>o, <1>b, <1>2, <1>3, <1>5, <2>1, <2>2, CollectionStage
  <1> QED BY <1>0, <1>4, <1>5

(* after the clone,                                                        *)
LEMMA CloneStepStage ==
  ASSUME IInv, Apart, BaselineKept', NEW r \in Runs, Stage(r), r \notin overdue', Clone(r)
  PROVE  Stage(r)'
  <1>0. /\ pc[r] = "clone" /\ Awaiting(r)
        /\ \/ Succeeds(r) /\ pc'[r] = "collection" /\ UNCHANGED <<cfg, isolated>>
           \/ /\ SolrError(r) /\ pc'[r] = "collection" /\ cfg'[r] = Live
              /\ isolated' = [isolated EXCEPT ![r] = FALSE]
           \/ Fails(r) /\ pc'[r] = "failed" /\ UNCHANGED <<cfg, isolated>>
    BY DEF Clone, Fails, Goto, IInv, TypeOK, Awaiting, Calling
  <1>n. name' = name /\ applied' = applied /\ copy' = copy /\ patch' = patch
    BY DEF Clone
  <1>m. PICK n \in Names : n = name[r] /\ n = name'[r]
    BY <1>n DEF IInv, TypeOK
  <1>o. /\ Own(n) = {Cfg(n), Trusted(n)} /\ Own(n) \subseteq Configsets
        /\ Cfg(n) # Trusted(n) /\ Cfg(n) # Live /\ Live \in configsets /\ Live \in configsets'
        /\ <<r, 0>> \notin edits[Live] /\ <<r, 0>> \notin edits'[Live]
    BY OwnNames, LiveIsPure, NamesStay DEF IInv, BaselineKept
  <1>b. /\ uses[n] = None /\ cfg[r] = Cfg(n) /\ isolated[r] /\ applied[r] = {}
        /\ patch[r] # "applied" /\ (r \notin faulty => Own(n) \cap configsets = {})
    BY <1>0, <1>m DEF Stage, Bound, Prepared, Tidy, Expected, Preparing, Early, Working, Ended
  <1>i. \A s \in Runs : isolated'[s] => isolated[s]
    BY <1>0 DEF IInv, TypeOK
  <1>1. Done(r) \/ UNCHANGED solrVars
    BY <1>0, AttemptEffect DEF Fails, Escapes
  <1>2. Clear(r)'
    BY <1>0, <1>n, <1>i, <1>1, ClearStays DEF Stage, Calling
  <1>3. uses' = uses
    BY <1>0, <1>1 DEF Done, solrVars
  <1>4. CASE Succeeds(r) /\ pc'[r] = "collection" /\ UNCHANGED <<cfg, isolated>>
    <2>1. /\ faulty' = faulty /\ configsets' = configsets \cup {Cfg(n)}
          /\ edits' = [edits EXCEPT ![Cfg(n)] = edits[Live]]
      BY <1>0, <1>m, <1>4, AttemptEffect DEF Done
    <2>2. <<r, 0>> \notin edits'[Cfg(n)]
      BY <1>o, <2>1 DEF IInv, TypeOK, SolrTypeOK
    <2>3. r \in faulty' \/ Own(n) \cap configsets' = {Cfg(n)}
      BY <1>o, <1>b, <2>1
    <2> QED BY <1>n, <1>m, <1>o, <1>b, <1>2, <1>3, <1>4, <2>1, <2>2, <2>3, CollectionStage
  <1>5. CASE SolrError(r) /\ pc'[r] = "collection" /\ cfg'[r] = Live
               /\ isolated' = [isolated EXCEPT ![r] = FALSE]
    <2>1. r \in faulty'
      <3>1. r \notin faulty => ~Refused(r)
        BY <1>0, <1>m, <1>o, <1>b DEF Refused
      <3> QED BY <1>0, <1>5, <3>1, AttemptEffect
    <2>2. ~isolated'[r]
      BY <1>5 DEF IInv, TypeOK
    <2> QED BY <1>n, <1>m, <1>o, <1>b, <1>2, <1>3, <1>5, <2>1, <2>2, NamesStay, CollectionStage
  <1>6. CASE pc'[r] = "failed"
    BY <1>2, <1>6, EndedStage
  <1> QED BY <1>0, <1>4, <1>5, <1>6

(* after the creation of the collection,                                   *)
LEMMA CreateCollectionStage ==
  ASSUME IInv, Apart, NEW r \in Runs, Stage(r), r \notin overdue', CreateCollection(r)
  PROVE  Stage(r)'
  <1>0. /\ UNCHANGED localVars /\ pc[r] = "collection" /\ Awaiting(r)
        /\ \/ Succeeds(r) /\ pc'[r] = "schema"
           \/ Fails(r) /\ pc'[r] = "failed"
    BY DEF CreateCollection, Goto, IInv, TypeOK, Awaiting, Calling
  <1>n. /\ name' = name /\ cfg' = cfg /\ isolated' = isolated /\ patch' = patch /\ copy' = copy
        /\ applied' = applied
    BY <1>0 DEF localVars
  <1>m. PICK n \in Names : n = name[r] /\ n = name'[r]
    BY <1>n DEF IInv, TypeOK
  <1>1. Done(r) \/ UNCHANGED solrVars
    BY <1>0, AttemptEffect DEF Fails, Escapes
  <1>2. Clear(r)'
    BY <1>0, <1>n, <1>1, ClearStays DEF Stage, Calling
  <1>3. CASE pc'[r] = "failed"
    BY <1>2, <1>3, EndedStage
  <1>4. CASE Succeeds(r) /\ pc'[r] = "schema"
    <2>1. /\ faulty' = faulty /\ configsets' = configsets /\ edits' = edits
          /\ uses' = [uses EXCEPT ![n] = cfg[r]]
      BY <1>0, <1>m, <1>4, AttemptEffect DEF Done
    <2>2. uses'[n] = cfg[r]
      BY <2>1 DEF IInv, TypeOK, SolrTypeOK
    <2>3. Bound(r)'
      BY <1>n, <1>m, <1>4, <2>2 DEF Bound, Preparing, Early, Working
    <2>4. Prepared(r)' /\ Swept(r)'
      BY <1>4 DEF Prepared, Swept, Preparing, Early
    <2>5. Settled(r)'
      BY <1>0, <1>n, <2>1, NamesStay DEF Stage, Settled, Working
    <2>6. Tidy(r)'
      BY <1>0, <1>n, <1>4, <2>1, NamesStay DEF Stage, Tidy, Expected, Working, Ended
    <2> QED BY <1>2, <2>3, <2>4, <2>5, <2>6 DEF Stage
  <1> QED BY <1>0, <1>3, <1>4

(* after a call of the schema API,                                         *)
LEMMA SchemaOpStage ==
  ASSUME IInv, Apart, NEW r \in Runs, Stage(r), r \notin overdue', SchemaOp(r)
  PROVE  Stage(r)'
  <1>0. /\ pc[r] = "schema" /\ Awaiting(r) /\ op[r] \in 1..NumOps
        /\ \/ /\ Succeeds(r) /\ pc'[r] = "schema" /\ applied'[r] = applied[r] \cup {op[r]}
           \/ /\ UNCHANGED <<solrVars, late, overdue, faulty>> /\ pc'[r] = "schema"
              /\ applied'[r] = applied[r]
           \/ /\ Fails(r) \/ UNCHANGED <<solrVars, late, overdue, faulty>>
              /\ pc'[r] = "failed"
    BY DEF SchemaOp, Goto, IInv, TypeOK, Awaiting, Calling
  <1>n. name' = name /\ cfg' = cfg /\ isolated' = isolated /\ patch' = patch /\ copy' = copy
    BY DEF SchemaOp
  <1>m. PICK n \in Names : n = name[r] /\ n = name'[r]
    BY <1>n DEF IInv, TypeOK
  <1>b. /\ uses[n] = cfg[r] /\ cfg[r] \in configsets /\ (isolated[r] <=> cfg[r] # Live)
        /\ patch[r] = "applied" <=> <<r, 0>> \in edits[cfg[r]]
        /\ \A i \in applied[r] : <<r, i>> \in edits[cfg[r]]
    BY <1>0, <1>m DEF Stage, Bound, Settled, Working
  <1>1. Done(r) \/ UNCHANGED solrVars
    BY <1>0, AttemptEffect DEF Fails, Escapes
  <1>2. Clear(r)'
    BY <1>0, <1>n, <1>1, ClearStays DEF Stage, Calling
  <1>3. CASE pc'[r] = "failed"
    BY <1>2, <1>3, EndedStage
  <1>4. CASE /\ pc'[r] = "schema" /\ faulty' = faulty /\ uses' = uses /\ configsets' = configsets
             /\ edits[cfg[r]] \subseteq edits'[cfg[r]]
             /\ <<r, 0>> \in edits'[cfg[r]] => <<r, 0>> \in edits[cfg[r]]
             /\ \A i \in applied'[r] : <<r, i>> \in edits'[cfg[r]]
    <2>3. Bound(r)'
      BY <1>n, <1>m, <1>b, <1>4 DEF Bound, Preparing, Early, Working
    <2>4. Prepared(r)' /\ Swept(r)'
      BY <1>4 DEF Prepared, Swept, Preparing, Early
    <2>5. Settled(r)'
      BY <1>n, <1>b, <1>4, NamesStay DEF Settled
    <2>6. Tidy(r)'
      BY <1>0, <1>n, <1>4, NamesStay DEF Stage, Tidy, Expected, Working, Ended
    <2> QED BY <1>2, <2>3, <2>4, <2>5, <2>6 DEF Stage
  <1>5. CASE Succeeds(r) /\ pc'[r] = "schema" /\ applied'[r] = applied[r] \cup {op[r]}
    <2>0. Done(r) /\ faulty' = faulty
      BY <1>0, <1>5, AttemptEffect
    <2>1. /\ uses' = uses /\ configsets' = configsets
          /\ edits' = [edits EXCEPT ![uses[n]] = @ \cup {<<r, op[r]>>}]
      BY <1>0, <1>m, <2>0 DEF Done
    <2>2. edits'[cfg[r]] = edits[cfg[r]] \cup {<<r, op[r]>>}
      BY <1>b, <2>1 DEF IInv, TypeOK, SolrTypeOK
    <2>3. <<r, 0>> # <<r, op[r]>>
      BY <1>0
    <2>4. \A i \in applied'[r] : <<r, i>> \in edits'[cfg[r]]
      BY <1>b, <1>5, <2>2
    <2> QED BY <1>4, <1>5, <2>0, <2>1, <2>2, <2>3, <2>4
  <1>6. CASE /\ UNCHANGED <<solrVars, late, overdue, faulty>> /\ pc'[r] = "schema"
             /\ applied'[r] = applied[r]
    BY <1>4, <1>b, <1>6 DEF solrVars
  <1> QED BY <1>0, <1>3, <1>5, <1>6

(* after the collection was dropped,                                       *)
LEMMA DropCollectionStage ==
  ASSUME IInv, Apart, NEW r \in Runs, Stage(r), r \notin overdue', DropCollection(r)
  PROVE  Stage(r)'
  <1>0. /\ UNCHANGED localVars /\ pc[r] = "drop_collection" /\ Awaiting(r)
        /\ \/ Succeeds(r) /\ pc'[r] = IF isolated[r] THEN "drop_configset" ELSE "clean"
           \/ Fails(r) /\ pc'[r] = "unclean"
    BY DEF DropCollection, Goto, IInv, TypeOK, Awaiting, Calling
  <1>n. /\ name' = name /\ cfg' = cfg /\ isolated' = isolated /\ patch' = patch /\ copy' = copy
        /\ applied' = applied
    BY <1>0 DEF localVars
  <1>m. PICK n \in Names : n = name[r] /\ n = name'[r]
    BY <1>n DEF IInv, TypeOK
  <1>1. Done(r) \/ UNCHANGED solrVars
    BY <1>0, AttemptEffect DEF Fails, Escapes
  <1>2. Clear(r)'
    BY <1>0, <1>n, <1>1, ClearStays DEF Stage, Calling
  <1>3. CASE pc'[r] = "unclean"
    BY <1>2, <1>3, EndedStage
  <1>4. CASE Succeeds(r) /\ pc'[r] = IF isolated[r] THEN "drop_configset" ELSE "clean"
    <2>1. /\ faulty' = faulty /\ configsets' = configsets /\ edits' = edits
          /\ uses' = [uses EXCEPT ![n] = None]
      BY <1>0, <1>m, <1>4, AttemptEffect DEF Done
    <2>2. uses'[n] = None
      BY <2>1 DEF IInv, TypeOK, SolrTypeOK
    <2>3. Bound(r)'
      BY <1>n, <1>m, <1>4, <2>2 DEF Bound, Preparing, Early, Working
    <2>4. Prepared(r)' /\ Settled(r)'
      BY <1>4 DEF Prepared, Settled, Preparing, Early, Working
    <2>5. Swept(r)'
      BY <1>n, <1>4 DEF Swept
    <2>6. Tidy(r)'
      BY <1>0, <1>n, <1>4, <2>1, NamesStay DEF Stage, Tidy, Expected, Working, Ended
    <2> QED BY <1>2, <2>3, <2>4, <2>5, <2>6 DEF Stage
  <1> QED BY <1>0, <1>3, <1>4

(* after its configset was dropped,                                        *)
LEMMA DropConfigsetStage ==
  ASSUME IInv, Apart, NEW r \in Runs, Stage(r), r \notin overdue', DropConfigset(r)
  PROVE  Stage(r)'
  <1>0. /\ UNCHANGED localVars /\ pc[r] = "drop_configset" /\ Awaiting(r)
        /\ \/ Succeeds(r) /\ pc'[r] = "clean"
           \/ Fails(r) /\ pc'[r] = "unclean"
    BY DEF DropConfigset, Goto, IInv, TypeOK, Awaiting, Calling
  <1>n. /\ name' = name /\ cfg' = cfg /\ isolated' = isolated /\ patch' = patch /\ copy' = copy
        /\ applied' = applied
    BY <1>0 DEF localVars
  <1>m. PICK n \in Names : n = name[r] /\ n = name'[r]
    BY <1>n DEF IInv, TypeOK
  <1>1. Done(r) \/ UNCHANGED solrVars
    BY <1>0, AttemptEffect DEF Fails, Escapes
  <1>2. Clear(r)'
    BY <1>0, <1>n, <1>1, ClearStays DEF Stage, Calling
  <1>3. CASE pc'[r] = "unclean"
    BY <1>2, <1>3, EndedStage
  <1>4. CASE Succeeds(r) /\ pc'[r] = "clean"
    <2>1. faulty' = faulty /\ configsets' = configsets \ {cfg[r]} /\ uses' = uses
      BY <1>0, <1>4, AttemptEffect DEF Done
    <2>2. Bound(r)'
      BY <1>0, <1>n, <1>4, <2>1 DEF Stage, Bound, Preparing, Early, Working
    <2>3. Prepared(r)' /\ Settled(r)'
      BY <1>4 DEF Prepared, Settled, Preparing, Early, Working
    <2>4. Swept(r)'
      BY <1>n, <1>4, <2>1 DEF Swept
    <2>5. r \notin faulty => isolated[r] /\ Own(n) \cap configsets = {cfg[r]}
      BY <1>0, <1>m DEF Stage, Tidy, Expected, Working, Ended
    <2>6. Expected(r)' = {}
      BY <1>4 DEF Expected, Working
    <2>7. Tidy(r)'
      BY <1>n, <1>m, <2>1, <2>5, <2>6, NamesStay DEF Tidy
    <2> QED BY <1>2, <2>2, <2>3, <2>4, <2>7 DEF Stage
  <1> QED BY <1>0, <1>3, <1>4

(* and after the process was killed.                                       *)
LEMMA KillStage ==
  ASSUME IInv, Apart, NEW r \in Runs, Stage(r), Kill(r)
  PROVE  Stage(r)'
  <1>1. UNCHANGED localVars /\ pc'[r] = "aborted"
    BY DEF Kill, Goto, IInv, TypeOK
  <1>2. (Awaiting(r) /\ Handle(Ask(r))) \/ UNCHANGED solrVars
    BY DEF Kill
  <1>3. /\ Done(r) \/ UNCHANGED solrVars
        /\ pc[r] \in Calling \/ UNCHANGED solrVars
    BY <1>2, PerformIsDone DEF Handle, Reject, Awaiting
  <1>4. Clear(r)'
    BY <1>1, <1>3, ClearStays DEF Stage, localVars
  <1> QED BY <1>1, <1>4, EndedStage

(* A request that is sent again has been answered by nobody, and may have  *)
(* been dealt with all the same.                                           *)
LEMMA RetryStage ==
  ASSUME IInv, Apart, NEW r \in Runs, Stage(r), r \notin overdue', Retry(r)
  PROVE  Stage(r)'
  <1>0. /\ pc' = pc /\ Awaiting(r) /\ r \in faulty' /\ (Done(r) \/ UNCHANGED solrVars)
    BY AttemptEffect DEF Retry
  <1>n. /\ name' = name /\ cfg' = cfg /\ isolated' = isolated /\ patch' = patch /\ copy' = copy
        /\ applied' = applied
    BY DEF Retry, localVars
  <1>m. PICK n \in Names : n = name[r] /\ n = name'[r]
    BY <1>n DEF IInv, TypeOK
  <1>o. /\ Own(n) = {Cfg(n), Trusted(n)} /\ Own(n) \subseteq Configsets
        /\ Cfg(n) # Trusted(n) /\ Cfg(n) # Live /\ Live \in Configsets
        /\ edits \in [Configsets -> SUBSET Edits] /\ cfg[r] \in Configsets
        /\ uses \in [Names \cup {Baseline} -> Configsets \cup {None}]
    BY OwnNames, ConfigsetNames DEF IInv, TypeOK, SolrTypeOK
  <1>1. Clear(r)'
    BY <1>0, <1>n, ClearStays DEF Stage, Awaiting
  <1>2. Bound(r)'
    <2>1. CASE pc[r] \in Preparing \cup {"drop_configset", "clean"} \cup Working
      <3>1. uses' = uses
        BY <1>0, <2>1 DEF Done, solrVars, Awaiting, Calling, Preparing, Early, Working
      <3> QED BY <1>0, <1>n, <2>1, <3>1 DEF Stage, Bound, Preparing, Early, Working
    <2>2. CASE pc[r] \in {"collection", "drop_collection"}
      <3>1. uses[n] \in {None, cfg[r]} /\ uses'[n] \in {uses[n], None, cfg[r]}
        BY <1>0, <1>m, <1>o, <2>2 DEF Stage, Bound, Done, solrVars
      <3> QED BY <1>0, <1>n, <1>m, <2>2, <3>1 DEF Bound, Preparing, Early, Working
    <2> QED BY <1>0, <2>1, <2>2 DEF Awaiting, Calling, Preparing, Early, Working
  <1>3. Prepared(r)'
    <2>0. Prepared(r)
      BY DEF Stage
    <2>1. CASE pc[r] \in {"status", "download", "clone", "collection", "schema", "drop_collection",
                          "drop_configset"}
      <3>1. pc[r] \in {"status", "download"} => configsets' = configsets
        BY <1>0 DEF Done, solrVars
      <3> QED BY <1>0, <1>n, <2>0, <2>1, <3>1, NamesStay DEF Prepared, Preparing, Early, Working
    <2>2. CASE pc[r] = "upload"
      <3>1. Trusted(n) \notin configsets'
        BY <1>0, <1>m, <1>o, <2>0, <2>2 DEF Prepared, Done, solrVars
      <3> QED BY <1>0, <1>n, <1>m, <2>0, <2>2, <3>1, NamesStay DEF Prepared, Preparing, Early
    <2>3. CASE pc[r] = "promote"
      <3>1. /\ Patched(r, Cfg(n)) /\ (Trusted(n) \in configsets => Patched(r, Trusted(n)))
            /\ patch[r] = "applied" /\ cfg[r] = Cfg(n) /\ isolated[r] /\ applied[r] = {}
        BY <1>m, <2>0, <2>3 DEF Prepared, Preparing
      <3>2. /\ Cfg(n) \in configsets' /\ <<r, 0>> \in edits'[Cfg(n)]
            /\ Trusted(n) \in configsets' => <<r, 0>> \in edits'[Trusted(n)]
        BY <1>0, <1>m, <1>o, <2>3, <3>1 DEF Patched, Done, solrVars
      <3> QED BY <1>0, <1>n, <1>m, <2>3, <3>1, <3>2, NamesStay
                 DEF Prepared, Patched, Preparing, Early
    <2>4. CASE pc[r] = "drop"
      <3>1. /\ Patched(r, Trusted(n))
            /\ patch[r] = "applied" /\ cfg[r] = Cfg(n) /\ isolated[r] /\ applied[r] = {}
        BY <1>m, <2>0, <2>4 DEF Prepared, Preparing
      <3>2. Trusted(n) \in configsets' /\ <<r, 0>> \in edits'[Trusted(n)]
        BY <1>0, <1>m, <1>o, <2>4, <3>1 DEF Patched, Done, solrVars
      <3> QED BY <1>0, <1>n, <1>m, <2>4, <3>1, <3>2, NamesStay
                 DEF Prepared, Patched, Preparing, Early
    <2> QED BY <1>0, <2>1, <2>2, <2>3, <2>4 DEF Awaiting, Calling
  <1>4. Settled(r)'
    <2>1. CASE pc[r] = "collection"
      <3>1. configsets' = configsets /\ edits' = edits
        BY <1>0, <2>1 DEF Done, solrVars
      <3> QED BY <1>0, <1>n, <3>1, NamesStay DEF Stage, Settled
    <2>2. CASE pc[r] = "schema"
      <3>1. uses[n] = cfg[r] /\ op[r] \in Nat \ {0}
        BY <1>m, <2>2 DEF Stage, Bound, Working, IInv, TypeOK
      <3>2. <<r, 0>> # <<r, op[r]>>
        BY <3>1
      <3>3. configsets' = configsets
        BY <1>0, <2>2 DEF Done, solrVars
      <3>4. edits'[cfg[r]] \in {edits[cfg[r]], edits[cfg[r]] \cup {<<r, op[r]>>}}
        BY <1>0, <1>m, <1>o, <2>2, <3>1 DEF Done, solrVars
      <3> QED BY <1>0, <1>n, <3>2, <3>3, <3>4, NamesStay DEF Stage, Settled
    <2> QED BY <1>0, <2>1, <2>2 DEF Settled, Working, Awaiting, Calling
  <1>5. Swept(r)' /\ Tidy(r)'
    BY <1>0, <1>n DEF Stage, Swept, Tidy, Awaiting, Calling
  <1> QED BY <1>1, <1>2, <1>3, <1>4, <1>5 DEF Stage

-----------------------------------------------------------------------------
(* What a step of run r is to the other runs.                              *)
Sends(r) ==
  /\ Awaiting(r)
  /\ Handle(Ask(r)) \/ UNCHANGED solrVars
  /\ late' = late \/ (late' = late \cup {Ask(r)} /\ r \in overdue' \cap faulty')
  /\ overdue \subseteq overdue' /\ faulty \subseteq faulty'

Quiet == UNCHANGED <<solrVars, late, overdue, faulty>>

Local(r) ==
  /\ name' = name
  /\ \A s \in Runs : isolated'[s] => isolated[s]
  /\ cfg'[r] \in {cfg[r], Trusted(name[r]), Live}
  /\ \A s \in Runs \ {r} :
       /\ pc'[s] = pc[s] /\ cfg'[s] = cfg[s] /\ isolated'[s] = isolated[s]
       /\ patch'[s] = patch[s] /\ copy'[s] = copy[s] /\ applied'[s] = applied[s]

(* A call does to Solr what its request does, or nothing.                  *)
LEMMA AttemptSends ==
  ASSUME NEW r \in Runs, Awaiting(r), Succeeds(r) \/ Fails(r) \/ Unanswered(r)
  PROVE  Sends(r)
  <1>1. CASE Unanswered(r)
    BY <1>1 DEF Unanswered, Sends
  <1>2. CASE Succeeds(r)
    BY <1>2 DEF Succeeds, Sends, Handle
  <1>3. CASE SolrError(r)
    BY <1>1, <1>3 DEF SolrError, Sends, Handle, Reject
  <1> QED BY <1>1, <1>2, <1>3 DEF Fails, Escapes

(* A step of a run is local but for what it sends.                         *)
LEMMA RunFrame ==
  ASSUME IInv, NEW r \in Runs, Begin(r) \/ Step(r) \/ Kill(r)
  PROVE  Local(r) /\ (Sends(r) \/ Quiet)
  <1> USE DEF Goto, Local
  <1>0. /\ pc \in [Runs -> Calling \cup Ended \cup {"idle", "ready"}]
        /\ cfg \in [Runs -> Configsets] /\ isolated \in [Runs -> BOOLEAN]
        /\ patch \in [Runs -> {"none", "applied", "skipped"}] /\ copy \in [Runs -> SUBSET Edits]
        /\ applied \in [Runs -> SUBSET (1..NumOps)]
    BY DEF IInv, TypeOK
  <1>1. CASE Begin(r) \/ CreateShadowReturns(r) \/ Finish(r)
    <2>1. Local(r)
      BY <1>0, <1>1 DEF Begin, CreateShadowReturns, Finish, localVars
    <2> QED BY <1>1, <2>1 DEF Begin, CreateShadowReturns, Finish, Quiet
  <1>2. CASE Retry(r)
    <2>1. Local(r)
      BY <1>0, <1>2 DEF Retry, localVars
    <2> QED BY <1>2, <2>1, AttemptSends DEF Retry
  <1>3. CASE ConfigName(r) \/ CreateCollection(r) \/ DropCollection(r) \/ DropConfigset(r)
    <2>1. Local(r)
      BY <1>0, <1>3 DEF ConfigName, CreateCollection, DropCollection, DropConfigset, localVars
    <2>2. Awaiting(r) /\ (Succeeds(r) \/ Fails(r))
      BY <1>3 DEF ConfigName, CreateCollection, DropCollection, DropConfigset, Awaiting, Calling
    <2> QED BY <2>1, <2>2, AttemptSends
  <1>4. CASE Download(r) \/ Upload(r) \/ Promote(r) \/ DropUpload(r)
    <2>1. Local(r)
      BY <1>0, <1>4 DEF Download, Upload, Promote, DropUpload, PatchingRaised
    <2>2. Awaiting(r) /\ (Succeeds(r) \/ Fails(r))
      BY <1>4 DEF Download, Upload, Promote, DropUpload, Awaiting, Calling, Fails
    <2> QED BY <2>1, <2>2, AttemptSends
  <1>5. CASE Clone(r)
    <2>1. Local(r)
      BY <1>0, <1>5 DEF Clone
    <2>2. Awaiting(r) /\ (Succeeds(r) \/ Fails(r))
      BY <1>5 DEF Clone, Awaiting, Calling, Fails
    <2> QED BY <2>1, <2>2, AttemptSends
  <1>6. CASE SchemaOp(r)
    <2>1. Local(r)
      BY <1>0, <1>6 DEF SchemaOp
    <2>2. Awaiting(r) /\ (Succeeds(r) \/ Fails(r) \/ Quiet)
      BY <1>6 DEF SchemaOp, Awaiting, Calling, Quiet
    <2> QED BY <2>1, <2>2, AttemptSends
  <1>7. CASE Kill(r)
    <2>1. Local(r)
      BY <1>0, <1>7 DEF Kill, localVars
    <2>2. Sends(r) \/ Quiet
      BY <1>7 DEF Kill, Sends, Quiet
    <2> QED BY <2>1, <2>2
  <1> QED BY <1>1, <1>2, <1>3, <1>4, <1>5, <1>6, <1>7 DEF Step

(* Neither a run nor a late request of its reaches beyond its name.        *)
LEMMA RunApart ==
  ASSUME IInv, Apart, NEW r \in Runs, Local(r), Sends(r) \/ Quiet
  PROVE  /\ Apart' /\ LiveGrows
         /\ \A m \in Names \ {name[r]} : Untouched(m)
  <1>0. /\ SolrTypeOK /\ BaselineKept /\ late \subseteq Requests /\ Live \in configsets
        /\ name \in [Runs -> Names] /\ name' = name
        /\ overdue \subseteq Runs
    BY DEF IInv, TypeOK, BaselineKept, Local
  <1>1. /\ \A m \in Names : uses'[m] \in Own(m) \cup {Live, None}
        /\ \A m \in Names \ {name[r]} : Untouched(m)
        /\ LiveGrows
    <2>1. CASE Sends(r)
      <3>1. Ask(r) \in Requests /\ Of(Ask(r), name[r])
        BY <2>1, AskHarmless, AskOf DEF Sends
      <3> QED BY <1>0, <2>1, <3>1, ServerApart DEF Sends, Apart
    <2>2. CASE Quiet
      BY <1>0, <2>2 DEF Quiet, solrVars, Untouched, LiveGrows, Apart
    <2> QED BY <2>1, <2>2
  <1>2. \A s \in Runs : cfg'[s] \in Own(name[s]) \cup {Live}
    <2>1. Trusted(name[r]) \in Own(name[r])
      BY DEF Own
    <2> QED BY <2>1 DEF Apart, Local
  <1>3. \A q \in late' : \E s \in overdue' : Of(q, name[s])
    <2>1. CASE Sends(r)
      <3>1. Of(Ask(r), name[r])
        BY <2>1, AskOf DEF Sends
      <3> QED BY <2>1, <3>1 DEF Sends, Apart
    <2>2. CASE Quiet
      BY <2>2 DEF Quiet, Apart
    <2> QED BY <2>1, <2>2
  <1>4. \A q, m : Of(q, m)' = Of(q, m)
    BY NamesStay DEF Of
  <1> QED BY <1>0, <1>1, <1>2, <1>3, <1>4, NamesStay DEF Apart

(* A request that is performed late touches nothing of another name.       *)
LEMMA OverdueApart ==
  ASSUME IInv, Apart, NEW q \in late, Overdue(q)
  PROVE  /\ Apart' /\ LiveGrows
         /\ \E s \in overdue : \A m \in Names \ {name[s]} : Untouched(m)
  <1>0. /\ SolrTypeOK /\ BaselineKept /\ q \in Requests
        /\ name \in [Runs -> Names] /\ overdue \subseteq Runs
        /\ name' = name /\ cfg' = cfg /\ overdue' = overdue /\ late' \subseteq late
    BY DEF IInv, TypeOK, Overdue, localVars
  <1>1. PICK s \in overdue : Of(q, name[s])
    BY DEF Apart
  <1>2. /\ \A m \in Names : uses'[m] \in Own(m) \cup {Live, None}
        /\ \A m \in Names \ {name[s]} : Untouched(m)
        /\ LiveGrows
    BY <1>0, <1>1, ServerApart DEF Overdue, Apart
  <1>3. \A p, m : Of(p, m)' = Of(p, m)
    BY NamesStay DEF Of
  <1>4. Apart'
    BY <1>0, <1>2, <1>3, NamesStay DEF Apart
  <1> QED BY <1>2, <1>4

-----------------------------------------------------------------------------
(* A step of a run itself brings it to a stage.                            *)
LEMMA OwnStepStage ==
  ASSUME IInv, IInv', Apart, NEW r \in Runs, Stage(r), r \notin overdue', Begin(r) \/ Step(r) \/ Kill(r)
  PROVE  Stage(r)'
  <1>1. BaselineKept'
    BY DEF IInv
  <1>2. CASE Begin(r) \/ CreateShadowReturns(r) \/ Finish(r)
    BY <1>2, SilentStage
  <1>3. CASE Retry(r) \/ Kill(r)
    BY <1>3, RetryStage, KillStage
  <1>4. CASE ConfigName(r) \/ Download(r) \/ Upload(r) \/ Promote(r) \/ DropUpload(r)
    BY <1>4, ConfigNameStage, DownloadStage, UploadStage, PromoteStage, DropUploadStage
  <1>5. CASE Clone(r)
    BY <1>1, <1>5, CloneStepStage
  <1>6. CASE CreateCollection(r) \/ SchemaOp(r)
    BY <1>6, CreateCollectionStage, SchemaOpStage
  <1>7. CASE DropCollection(r) \/ DropConfigset(r)
    BY <1>7, DropCollectionStage, DropConfigsetStage
  <1> QED BY <1>2, <1>3, <1>4, <1>5, <1>6, <1>7 DEF Step

(* The steps of the others, and requests that are late, are for a run that *)
(* has its name to itself as if they did not happen.                       *)
LEMMA NextKeepsStageInv == IInv /\ IInv' /\ StageInv /\ [Next]_vars => StageInv'
  <1> SUFFICES ASSUME IInv, IInv', StageInv, [Next]_vars
               PROVE  StageInv'
    OBVIOUS
  <1>0. /\ Apart /\ BaselineKept /\ BaselineKept' /\ name \in [Runs -> Names]
        /\ overdue \subseteq Runs
        /\ \A r \in Runs : Alone(r) /\ r \notin overdue => Stage(r)
        /\ \A r \in Runs : isolated[r] => cfg[r] # Live
    BY DEF IInv, TypeOK, StageInv
  <1>1. CASE UNCHANGED vars
    <2>1. UNCHANGED <<solrVars, name, pc, cfg, isolated, patch, copy, applied, late, overdue, faulty>>
      BY <1>1 DEF vars, netVars, localVars
    <2>2. Apart'
      BY <1>0, <2>1, NamesStay DEF Apart, Of, solrVars
    <2>3. LiveGrows /\ \A m : Untouched(m)
      BY <1>0, <2>1 DEF LiveGrows, Untouched, BaselineKept, solrVars
    <2>4. \A r \in Runs : Alone(r)' /\ r \notin overdue' => Stage(r)
      BY <1>0, <2>1 DEF Alone
    <2>5. \A r \in Runs : Stage(r) => Stage(r)'
      BY <1>0, <2>1, <2>3, StageStays
    <2> QED BY <2>2, <2>4, <2>5 DEF StageInv
  <1>2. ASSUME NEW s \in Runs, Begin(s) \/ Step(s) \/ Kill(s)
        PROVE  StageInv'
    <2>1. Local(s) /\ (Sends(s) \/ Quiet)
      BY <1>2, RunFrame
    <2>2. Apart' /\ LiveGrows /\ \A m \in Names \ {name[s]} : Untouched(m)
      BY <1>0, <2>1, RunApart
    <2>3. overdue \subseteq overdue' /\ faulty \subseteq faulty' /\ name' = name
      BY <2>1 DEF Sends, Quiet, Local
    <2>4. ASSUME NEW r \in Runs, Alone(r)', r \notin overdue'
          PROVE  Stage(r)'
      <3>1. Alone(r) /\ Stage(r)
        BY <1>0, <2>3, <2>4 DEF Alone
      <3>2. CASE r = s
        BY <1>0, <1>2, <2>4, <3>1, <3>2, OwnStepStage
      <3>3. CASE r # s
        <4>1. Untouched(name[r])
          BY <1>0, <2>2, <3>1, <3>3 DEF Alone
        <4> QED BY <1>0, <2>1, <2>2, <2>3, <3>1, <3>3, <4>1, StageStays DEF Local
      <3> QED BY <3>2, <3>3
    <2> QED BY <2>2, <2>4 DEF StageInv
  <1>3. ASSUME NEW q \in late, Overdue(q)
        PROVE  StageInv'
    <2>1. Apart' /\ LiveGrows
      BY <1>0, <1>3, OverdueApart
    <2>2. PICK s \in overdue : \A m \in Names \ {name[s]} : Untouched(m)
      BY <1>0, <1>3, OverdueApart
    <2>3. UNCHANGED <<pc, overdue, faulty, name, cfg, isolated, patch, copy, applied>>
      BY <1>3 DEF Overdue, localVars
    <2>4. ASSUME NEW r \in Runs, Alone(r)', r \notin overdue'
          PROVE  Stage(r)'
      <3>1. Alone(r) /\ Stage(r) /\ r # s /\ s \in Runs
        BY <1>0, <2>3, <2>4 DEF Alone
      <3>2. Untouched(name[r])
        BY <1>0, <2>2, <3>1 DEF Alone
      <3> QED BY <1>0, <2>1, <2>3, <3>1, <3>2, StageStays
    <2> QED BY <2>1, <2>4 DEF StageInv
  <1> QED BY <1>1, <1>2, <1>3 DEF Next

(* Every run is at a stage at the start.                                   *)
LEMMA InitStageInv ==
  ASSUME Init
  PROVE  StageInv
  <1>0. /\ name \in [Runs -> Names] /\ configsets = {Live}
        /\ edits = [c \in Configsets |-> {}]
        /\ uses = [n \in Names \cup {Baseline} |-> IF n = Baseline THEN Live ELSE None]
    BY DEF Init, SolrInit
  <1>1. \A n \in Names : uses[n] = None
    BY <1>0
  <1>2. \A r \in Runs : cfg[r] = Cfg(name[r])
    BY DEF Init
  <1>3. Apart
    BY <1>0, <1>1, <1>2 DEF Init, Apart, Own
  <1>4. ASSUME NEW r \in Runs
        PROVE  Stage(r)
    <2>0. /\ pc[r] = "idle" /\ isolated[r] /\ applied[r] = {} /\ patch[r] = "none" /\ copy[r] = {}
      BY DEF Init
    <2>1. Bound(r)
      BY <1>0, <1>1, <2>0 DEF Bound, Working
    <2>2. Clear(r)
      BY <1>0, <2>0, OwnNames DEF Clear, Pure
    <2>3. Own(name[r]) \cap configsets = {}
      BY <1>0, OwnNames
    <2>4. Prepared(r)
      BY <1>2, <2>0, <2>3 DEF Prepared
    <2>5. Settled(r) /\ Swept(r)
      BY <2>0 DEF Settled, Swept, Working
    <2>6. Tidy(r)
      BY <2>0, <2>3 DEF Tidy, Expected, Working
    <2> QED BY <2>1, <2>2, <2>4, <2>5, <2>6 DEF Stage
  <1> QED BY <1>3, <1>4 DEF StageInv

(* So both invariants hold always.                                         *)
LEMMA StageInvariant == Spec => [](IInv /\ StageInv)
  BY InitIInv, NextKeepsIInv, InitStageInv, NextKeepsStageInv, PTL DEF Spec

(* When create_shadow has returned to a run that has its name to itself    *)
(* and has left no request behind, its manifest describes the shadow that  *)
(* is in Solr: whichever steps failed on the way, however often they were  *)
(* tried again, and whatever other runs and their late requests do.        *)
THEOREM ManifestIsTruthful == Spec => []ManifestTruthful
  <1>1. IInv /\ StageInv => ManifestTruthful
    <2> SUFFICES ASSUME IInv, StageInv, NEW r \in Runs, pc[r] = "ready", Alone(r), r \notin overdue
                 PROVE  /\ uses[name[r]] = cfg[r] /\ cfg[r] \in configsets
                        /\ isolated[r] <=> cfg[r] # Live
                        /\ patch[r] = "applied" <=> <<r, 0>> \in edits[cfg[r]]
                        /\ \A i \in applied[r] : <<r, i>> \in edits[cfg[r]]
                        /\ \A e \in edits[cfg[r]] : e[1] # r => Shared(name[e[1]])
      BY DEF ManifestTruthful
    <2>1. Stage(r) /\ Apart /\ BaselineKept
      BY DEF StageInv, IInv
    <2>2. uses[name[r]] = cfg[r] /\ Settled(r) /\ Clear(r)
      BY <2>1 DEF Stage, Bound, Working
    <2>3. Pure(r, edits[cfg[r]])
      BY <2>1, <2>2, LiveIsPure DEF Apart, Clear
    <2> QED BY <2>2, <2>3 DEF Settled, Working, Pure
  <1> QED BY <1>1, StageInvariant, PTL

(* A cleanup that says it is complete is, for a run that has its name to   *)
(* itself and has left no request behind: its collection is gone, so is    *)
(* the configset it was bound to, and after a run without a fault the      *)
(* other configset of its name too.                                        *)
THEOREM CleanupIsComplete == Spec => []CleanupComplete
  <1>1. IInv /\ StageInv => CleanupComplete
    <2> SUFFICES ASSUME IInv, StageInv, NEW r \in Runs, pc[r] = "clean", Alone(r), r \notin overdue
                 PROVE  /\ uses[name[r]] = None
                        /\ isolated[r] => cfg[r] \notin configsets
                        /\ r \notin faulty => {Cfg(name[r]), Trusted(name[r])} \cap configsets = {}
      BY DEF CleanupComplete
    <2>1. Stage(r)
      BY DEF StageInv
    <2>2. Expected(r) = {}
      BY DEF Expected, Working
    <2> QED BY <2>1, <2>2 DEF Stage, Bound, Swept, Tidy, Own, Ended
  <1> QED BY <1>1, StageInvariant, PTL

-----------------------------------------------------------------------------
(* Who owns a collection.  A run of the same name can only take it away    *)
(* with a DELETE, and sends one only after a CREATE of its own that        *)
(* succeeded; a DELETE that is late comes from a run that met a fault.     *)
Dropping == {"drop_collection", "drop_configset"} \cup Ended
Owning == Working \cup {"drop_collection"}
Namesakes(r) == {s \in Runs \ {r} : name[s] = name[r]}
Safe(r) == \A s \in Namesakes(r) : s \notin faulty \/ pc[s] \notin Dropping
Holds(r) == pc[r] \in Working \/ (pc[r] = "drop_collection" /\ r \notin faulty)

Held(r) == uses[name[r]] = cfg[r] /\ \A s \in Namesakes(r) : pc[s] \notin Owning
LateDeletes ==
  \A q \in late : q.op = "DELETE" =>
    \E s \in overdue \cap faulty : name[s] = q.on /\ pc[s] \in Dropping
OwnInv == LateDeletes /\ \A r \in Runs : Safe(r) /\ Holds(r) => Held(r)

(* Only two requests change what a collection uses.                        *)
LEMMA UsesAfter ==
  ASSUME SolrTypeOK, NEW q \in Requests, Handle(q) \/ UNCHANGED solrVars
  PROVE  \A m \in Names : \/ uses'[m] = uses[m]
                          \/ q.on = m /\ q.op = "CREATE" /\ uses[m] = None
                          \/ q.on = m /\ q.op = "DELETE"
  <1>1. CASE UNCHANGED solrVars \/ Reject(q)
    BY <1>1 DEF Reject, solrVars
  <1>2. CASE Perform(q) /\ q.op = "CREATE"
    <2>1. uses[q.on] = None /\ uses' = [uses EXCEPT ![q.on] = q.cfg]
      BY <1>2 DEF Perform, Accepts, usesAfter
    <2> QED BY <1>2, <2>1 DEF SolrTypeOK
  <1>3. CASE Perform(q) /\ q.op = "DELETE"
    <2>1. uses' = [uses EXCEPT ![q.on] = None]
      BY <1>3 DEF Perform, usesAfter
    <2> QED BY <1>3, <2>1 DEF SolrTypeOK
  <1>4. CASE Perform(q) /\ q.op \notin {"CREATE", "DELETE"}
    BY <1>4 DEF Perform, usesAfter
  <1> QED BY <1>1, <1>2, <1>3, <1>4 DEF Handle

(* Which request that is, of run r.                                        *)
LEMMA AskUses ==
  ASSUME NEW r \in Runs, Awaiting(r)
  PROVE  /\ Ask(r).op = "CREATE" => pc[r] = "collection"
         /\ Ask(r).op = "DELETE" => pc[r] = "drop_collection" /\ Ask(r).on = name[r]
  <1>1. CASE pc[r] \in {"status", "download", "upload", "promote", "drop", "clone", "schema",
                        "drop_configset"}
    BY <1>1 DEF Ask, Request
  <1>2. CASE pc[r] \in {"collection", "drop_collection"}
    BY <1>2 DEF Ask, Request
  <1> QED BY <1>1, <1>2 DEF Awaiting, Calling

(* How a run comes to hold its collection, and that it does not come back  *)
(* to it.                                                                  *)
LEMMA Moves ==
  ASSUME IInv, NEW r \in Runs, Begin(r) \/ Step(r) \/ Kill(r)
  PROVE  /\ pc[r] \in Dropping => pc'[r] \in Dropping
         /\ pc'[r] \in Owning => /\ cfg'[r] = cfg[r]
                                 /\ pc[r] \in Owning \/ (pc[r] = "collection" /\ Succeeds(r))
         /\ pc[r] = "drop_collection" /\ pc'[r] = "drop_collection" => r \in faulty'
  <1> USE DEF Goto, Dropping, Owning, Working, Ended
  <1>0. pc \in [Runs -> Calling \cup Ended \cup {"idle", "ready"}]
    BY DEF IInv, TypeOK
  <1>1. CASE Begin(r) \/ CreateShadowReturns(r) \/ Finish(r)
    BY <1>0, <1>1 DEF Begin, CreateShadowReturns, Finish, localVars
  <1>2. CASE Retry(r)
    BY <1>0, <1>2 DEF Retry, Unanswered, Awaiting, Calling, localVars
  <1>3. CASE ConfigName(r) \/ DropCollection(r) \/ DropConfigset(r)
    BY <1>0, <1>3 DEF ConfigName, DropCollection, DropConfigset, localVars
  <1>4. CASE CreateCollection(r)
    BY <1>0, <1>4 DEF CreateCollection, localVars
  <1>5. CASE Download(r) \/ Upload(r) \/ Promote(r) \/ DropUpload(r)
    BY <1>0, <1>5 DEF Download, Upload, Promote, DropUpload, PatchingRaised
  <1>6. CASE Clone(r) \/ SchemaOp(r)
    BY <1>0, <1>6 DEF Clone, SchemaOp
  <1>7. CASE Kill(r)
    BY <1>0, <1>7 DEF Kill
  <1> QED BY <1>1, <1>2, <1>3, <1>4, <1>5, <1>6, <1>7 DEF Step

(* A run that is answered that its collection was created had no namesake  *)
(* that owned it: Solr refuses the CREATE of a collection that is there.   *)
LEMMA CreatedIsHeld ==
  ASSUME IInv, OwnInv, NEW r \in Runs, Local(r), Safe(r), pc[r] = "collection", Succeeds(r),
         cfg'[r] = cfg[r]
  PROVE  Held(r)'
  <1>1. PICK n \in Names : n = name[r] /\ n = name'[r]
    BY DEF IInv, TypeOK, Local
  <1>2. Done(r)
    BY PerformIsDone DEF Succeeds, Awaiting, Calling
  <1>3. uses[n] = None /\ uses' = [uses EXCEPT ![n] = cfg[r]]
    BY <1>1, <1>2 DEF Done
  <1>4. uses'[n] = cfg'[r]
    BY <1>3 DEF IInv, TypeOK, SolrTypeOK
  <1>5. ASSUME NEW s \in Namesakes(r), pc[s] \in Owning
        PROVE  FALSE
    <2>1. s \in Runs /\ s # r /\ name[s] = n
      BY <1>1 DEF Namesakes
    <2>2. Holds(s)
      BY <1>5 DEF Safe, Holds, Owning, Dropping
    <2>3. ASSUME NEW t \in Namesakes(s)
          PROVE  t \notin faulty \/ pc[t] \notin Dropping
      <3>1. CASE t = r
        BY <3>1 DEF Dropping, Ended
      <3>2. CASE t # r
        <4>1. t \in Namesakes(r)
          BY <1>1, <2>1, <3>2 DEF Namesakes
        <4> QED BY <4>1 DEF Safe
      <3> QED BY <3>1, <3>2
    <2>4. uses[n] = cfg[s]
      BY <2>1, <2>2, <2>3 DEF OwnInv, Safe, Held
    <2>5. cfg[s] \in Configsets
      BY <2>1 DEF IInv, TypeOK
    <2> QED BY <1>3, <2>4, <2>5
  <1>6. \A s \in Namesakes(r)' : s \in Namesakes(r) /\ pc'[s] = pc[s]
    BY DEF Namesakes, Local
  <1> QED BY <1>1, <1>4, <1>5, <1>6 DEF Held, Owning, Working

(* The steps of a run, for the run itself and for the others.              *)
LEMMA RunKeepsHeld ==
  ASSUME IInv, Apart, OwnInv, NEW s \in Runs, Begin(s) \/ Step(s) \/ Kill(s),
         NEW r \in Runs, Safe(r)', Holds(r)'
  PROVE  Held(r)'
  <1>1. Local(s) /\ (Sends(s) \/ Quiet)
    BY RunFrame
  <1>2. /\ name' = name /\ name \in [Runs -> Names] /\ SolrTypeOK /\ cfg[r] \in Configsets
        /\ faulty \subseteq faulty' /\ Namesakes(r)' = Namesakes(r)
    BY <1>1 DEF IInv, TypeOK, Local, Sends, Quiet, Namesakes
  <1>n. PICK n \in Names : n = name[r] /\ n = name'[r]
    BY <1>2
  <1>3. Safe(r)
    <2> SUFFICES ASSUME NEW t \in Namesakes(r), t \in faulty, pc[t] \in Dropping
                 PROVE  FALSE
      BY DEF Safe
    <2>1. pc'[t] \in Dropping
      BY <1>1, Moves DEF Local, Namesakes
    <2>2. pc'[t] \in Dropping'
      BY <2>1 DEF Dropping, Ended
    <2> QED BY <1>2, <2>2 DEF Safe
  <1>4. \/ uses'[n] = uses[n]
        \/ pc[s] = "collection" /\ uses[n] = None
        \/ pc[s] = "drop_collection" /\ name[s] = n
    <2>1. CASE Sends(s)
      BY <1>2, <2>1, AskHarmless, UsesAfter, AskUses DEF Sends
    <2>2. CASE Quiet
      BY <2>2 DEF Quiet, solrVars
    <2> QED BY <1>1, <2>1, <2>2
  <1>5. CASE s # r
    <2>1. Holds(r) /\ cfg'[r] = cfg[r]
      BY <1>1, <1>2, <1>5 DEF Holds, Local, Working
    <2>2. uses[n] = cfg[r] /\ \A t \in Namesakes(r) : pc[t] \notin Owning
      BY <1>n, <1>3, <2>1 DEF OwnInv, Held
    <2>3. uses'[n] = cfg[r]
      BY <1>2, <1>n, <1>4, <1>5, <2>2 DEF Namesakes, Owning
    <2>4. ASSUME NEW t \in Namesakes(r), pc'[t] \in Owning
          PROVE  FALSE
      <3>1. CASE t = s
        <4>1. pc[s] = "collection" /\ Succeeds(s)
          BY <2>2, <2>4, <3>1, Moves
        <4>2. Done(s)
          BY <4>1, PerformIsDone DEF Succeeds, Awaiting, Calling
        <4>3. uses[n] = None
          BY <1>n, <2>4, <3>1, <4>1, <4>2 DEF Done, Namesakes
        <4> QED BY <1>2, <2>2, <4>3
      <3>2. CASE t # s
        BY <1>1, <2>2, <2>4, <3>2 DEF Local, Namesakes
      <3> QED BY <3>1, <3>2
    <2> QED BY <1>2, <1>n, <2>1, <2>3, <2>4 DEF Held, Owning, Working
  <1>6. CASE s = r
    <2>1. pc'[r] \in Owning
      BY DEF Holds, Owning, Working
    <2>2. cfg'[r] = cfg[r] /\ (pc[r] \in Owning \/ (pc[r] = "collection" /\ Succeeds(r)))
      BY <1>6, <2>1, Moves
    <2>3. CASE pc[r] = "collection" /\ Succeeds(r)
      BY <1>1, <1>3, <1>6, <2>2, <2>3, CreatedIsHeld
    <2>4. CASE pc[r] = "drop_collection"
      <3>1. pc'[r] \in Dropping
        BY <1>6, <2>4, Moves DEF Dropping
      <3>2. pc'[r] = "drop_collection"
        BY <2>1, <3>1 DEF Owning, Working, Dropping, Ended
      <3> QED BY <1>6, <2>4, <3>2, Moves DEF Holds, Working
    <2>5. CASE pc[r] \in Working
      <3>1. Held(r)
        BY <1>3, <2>5 DEF OwnInv, Holds
      <3>2. uses'[n] = uses[n]
        BY <1>4, <1>6, <2>5 DEF Working
      <3>3. \A t \in Namesakes(r) : pc'[t] = pc[t]
        BY <1>1, <1>6 DEF Local, Namesakes
      <3> QED BY <1>2, <1>n, <2>2, <3>1, <3>2, <3>3 DEF Held, Owning, Working
    <2> QED BY <2>2, <2>3, <2>4, <2>5 DEF Owning
  <1> QED BY <1>5, <1>6

(* Every step keeps what a run owns.                                       *)
LEMMA NextKeepsOwnInv == IInv /\ StageInv /\ OwnInv /\ [Next]_vars => OwnInv'
  <1> SUFFICES ASSUME IInv, Apart, OwnInv, [Next]_vars
               PROVE  OwnInv'
    BY DEF StageInv
  <1>0. /\ SolrTypeOK /\ name \in [Runs -> Names] /\ overdue \subseteq Runs /\ late \subseteq Requests
        /\ \A r \in Runs : cfg[r] \in Configsets
        /\ Dropping' = Dropping
    BY DEF IInv, TypeOK, Dropping, Ended
  <1>1. CASE UNCHANGED vars
    <2>1. UNCHANGED <<uses, name, pc, cfg, late, overdue, faulty>>
      BY <1>1 DEF vars, solrVars, netVars, localVars
    <2>2. LateDeletes'
      BY <1>0, <2>1 DEF OwnInv, LateDeletes
    <2>3. \A r \in Runs : Safe(r)' /\ Holds(r)' => Held(r)'
      BY <1>0, <2>1 DEF OwnInv, Safe, Holds, Held, Namesakes, Owning, Working
    <2> QED BY <2>2, <2>3 DEF OwnInv
  <1>2. ASSUME NEW s \in Runs, Begin(s) \/ Step(s) \/ Kill(s)
        PROVE  OwnInv'
    <2>1. Local(s) /\ (Sends(s) \/ Quiet)
      BY <1>2, RunFrame
    <2>2. /\ name' = name /\ overdue \subseteq overdue' /\ faulty \subseteq faulty'
          /\ late' = late \/ (/\ Awaiting(s) /\ s \in overdue' \cap faulty'
                              /\ late' = late \cup {Ask(s)})
      BY <2>1 DEF Local, Sends, Quiet
    <2>3. \A t \in Runs : pc[t] \in Dropping => pc'[t] \in Dropping
      BY <1>2, <2>1, Moves DEF Local
    <2>4. ASSUME NEW q \in late', q.op = "DELETE"
          PROVE  \E t \in overdue' \cap faulty' : name'[t] = q.on /\ pc'[t] \in Dropping
      <3>1. CASE q \in late
        BY <1>0, <2>2, <2>3, <2>4, <3>1 DEF OwnInv, LateDeletes
      <3>2. CASE q \notin late
        <4>1. Awaiting(s) /\ s \in overdue' \cap faulty' /\ q = Ask(s)
          BY <2>2, <2>4, <3>2
        <4>2. pc[s] = "drop_collection" /\ q.on = name[s]
          BY <2>4, <4>1, AskUses
        <4>3. pc'[s] \in Dropping
          BY <2>3, <4>2 DEF Dropping
        <4> QED BY <2>2, <4>1, <4>2, <4>3
      <3> QED BY <3>1, <3>2
    <2>5. LateDeletes'
      BY <1>0, <2>4 DEF LateDeletes
    <2>6. \A r \in Runs : Safe(r)' /\ Holds(r)' => Held(r)'
      BY <1>2, RunKeepsHeld
    <2> QED BY <2>5, <2>6 DEF OwnInv
  <1>3. ASSUME NEW q \in late, Overdue(q)
        PROVE  OwnInv'
    <2>1. /\ UNCHANGED <<pc, overdue, faulty, name, cfg>> /\ late' \subseteq late /\ q \in Requests
          /\ Handle(q)
      BY <1>0, <1>3 DEF Overdue, localVars
    <2>2. LateDeletes'
      BY <1>0, <2>1 DEF OwnInv, LateDeletes
    <2>3. ASSUME NEW r \in Runs, Safe(r)', Holds(r)'
          PROVE  Held(r)'
      <3>1. Safe(r) /\ Holds(r)
        BY <1>0, <2>1, <2>3 DEF Safe, Holds, Namesakes, Working
      <3>2. Held(r)
        BY <3>1 DEF OwnInv
      <3>3. ASSUME q.op = "DELETE", q.on = name[r]
            PROVE  FALSE
        <4>1. PICK t \in overdue \cap faulty : name[t] = q.on /\ pc[t] \in Dropping
          BY <3>3 DEF OwnInv, LateDeletes
        <4>2. t \notin Namesakes(r)
          BY <3>1, <4>1 DEF Safe
        <4>3. t = r
          BY <1>0, <3>3, <4>1, <4>2 DEF Namesakes
        <4> QED BY <3>1, <4>1, <4>3 DEF Holds, Working, Dropping, Ended
      <3>4. uses'[name[r]] = uses[name[r]]
        <4>1. uses[name[r]] # None
          BY <1>0, <3>2 DEF Held
        <4> QED BY <1>0, <2>1, <3>3, <4>1, UsesAfter
      <3> QED BY <2>1, <3>2, <3>4 DEF Held, Namesakes, Owning, Working
    <2> QED BY <2>2, <2>3 DEF OwnInv
  <1> QED BY <1>1, <1>2, <1>3 DEF Next

(* It holds at the start.                                                  *)
LEMMA InitOwnInv ==
  ASSUME Init
  PROVE  OwnInv
  BY DEF Init, OwnInv, LateDeletes, Holds, Working

(* From the answer to its CREATE until it deletes the collection, a run    *)
(* has the collection it named, bound to the configset its manifest names, *)
(* even when other runs were given the same name, as long as none of those *)
(* met a fault: create_shadow's CREATE is what keeps them apart.           *)
THEOREM CollectionsAreOwned == Spec => []Owned
  <1>1. OwnInv => Owned
    <2> SUFFICES ASSUME OwnInv, NEW r \in Runs, pc[r] \in {"schema", "ready"},
                        \A s \in Runs \ {r} : name[s] = name[r] => s \notin faulty
                 PROVE  uses[name[r]] = cfg[r]
      BY DEF Owned
    <2>1. Safe(r) /\ Holds(r)
      BY DEF Safe, Holds, Namesakes, Working
    <2> QED BY <2>1 DEF OwnInv, Held
  <1>2. Spec => []OwnInv
    BY StageInvariant, InitOwnInv, NextKeepsOwnInv, PTL DEF Spec
  <1> QED BY <1>1, <1>2, PTL
=============================================================================
