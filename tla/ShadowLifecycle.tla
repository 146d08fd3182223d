--------------------------- MODULE ShadowLifecycle --------------------------
(***************************************************************************)
(* shadow/manager.py and what `run` does with it in cli.py: a run derives  *)
(* a configset from the baseline's, creates the shadow collection, applies *)
(* the schema changes to it and deletes it at the end.  Each step is one   *)
(* HTTP request, sent by http/client.py as many as Attempts times; between *)
(* the requests of one run come those of the others.                       *)
(***************************************************************************)
EXTENDS SolrAdmin, FiniteSets

CONSTANTS Namings,     \* ways in which the runs may come to be named
          Options,     \* the shadow settings the runs may have
          Attempts,    \* 1 + the number of retry delays
          FaultyRuns,  \* the runs whose requests may meet a fault
          MaxLate      \* bound on the requests Solr is still working on

Settings == [updates: BOOLEAN,   \* the changeset patches configset files
             promote: BOOLEAN,   \* promote_uploaded_configset_trusted
             shared: BOOLEAN,    \* allow_shared_configset_fallback
             cleanup: BOOLEAN]

ASSUME ShadowAssumption == /\ Namings \subseteq [Runs -> Names]
                           /\ Options \subseteq [Runs -> Settings]
                           /\ Attempts \in Nat \ {0}
                           /\ FaultyRuns \subseteq Runs
                           /\ MaxLate \in Nat

VARIABLES
  name,      \* the collection name each run renders
  opt,       \* the settings of each run
  pc,        \* the request a run is waiting for, or how it ended
  tries,     \* unanswered attempts at that request
  cfg,       \* shadow_configset
  isolated,  \* configset_isolated
  patch,     \* configset_patch: "none", "applied" or "skipped"
  copy,      \* the edits in the configset that was downloaded
  op,        \* the next schema request
  applied,   \* applied_changes
  late,      \* requests whose caller timed out while Solr goes on with them
  overdue,   \* runs that left such a request behind
  faulty     \* runs that met a fault

netVars == <<tries, late, overdue, faulty>>
localVars == <<name, opt, cfg, isolated, patch, copy, op, applied>>
vars == <<solrVars, netVars, pc, localVars>>

Calling == {"status", "download", "upload", "promote", "drop", "clone", "collection",
            "schema", "drop_collection", "drop_configset"}
Ended == {"failed", "aborted", "kept", "clean", "unclean"}
Requests == [op: {"CLUSTERSTATUS", "DOWNLOAD", "UPLOAD", "CREATE_CONFIGSET",
                  "DELETE_CONFIGSET", "CREATE", "SCHEMA", "DELETE"},
             on: Configsets \cup Names \cup {Baseline},
             cfg: Configsets \cup {None},
             body: SUBSET Edits]

TypeOK ==
  /\ SolrTypeOK
  /\ name \in Namings
  /\ opt \in Options
  /\ pc \in [Runs -> Calling \cup Ended \cup {"idle", "ready"}]
  /\ tries \in [Runs -> 0..(Attempts - 1)]
  /\ cfg \in [Runs -> Configsets]
  /\ isolated \in [Runs -> BOOLEAN]
  /\ patch \in [Runs -> {"none", "applied", "skipped"}]
  /\ copy \in [Runs -> SUBSET Edits]
  /\ op \in [Runs -> 1..(NumOps + 1)]
  /\ applied \in [Runs -> SUBSET (1..NumOps)]
  /\ late \subseteq Requests
  /\ overdue \subseteq Runs /\ faulty \subseteq Runs

Init ==
  /\ SolrInit
  /\ name \in Namings
  /\ opt \in Options
  /\ pc = [r \in Runs |-> "idle"]
  /\ tries = [r \in Runs |-> 0]
  /\ cfg = [r \in Runs |-> Cfg(name[r])]
  /\ isolated = [r \in Runs |-> TRUE]
  /\ patch = [r \in Runs |-> "none"]
  /\ copy = [r \in Runs |-> {}]
  /\ op = [r \in Runs |-> 1]
  /\ applied = [r \in Runs |-> {}]
  /\ late = {} /\ overdue = {} /\ faulty = {}

-----------------------------------------------------------------------------
(* The request run r is sending.                                           *)
Ask(r) ==
  LET n == name[r] IN
  CASE pc[r] = "status"          -> Request("CLUSTERSTATUS", Baseline, None, {})
    [] pc[r] = "download"        -> Request("DOWNLOAD", Live, None, {})
    [] pc[r] = "upload"          -> Request("UPLOAD", Cfg(n), None, copy[r] \cup {<<r, 0>>})
    [] pc[r] = "promote"         -> Request("CREATE_CONFIGSET", Trusted(n), Cfg(n), {})
    [] pc[r] = "drop"            -> Request("DELETE_CONFIGSET", Cfg(n), None, {})
    [] pc[r] = "clone"           -> Request("CREATE_CONFIGSET", Cfg(n), Live, {})
    [] pc[r] = "collection"      -> Request("CREATE", n, cfg[r], {})
    [] pc[r] = "schema"          -> Request("SCHEMA", n, None, {<<r, op[r]>>})
    [] pc[r] = "drop_collection" -> Request("DELETE", n, None, {})
    [] pc[r] = "drop_configset"  -> Request("DELETE_CONFIGSET", cfg[r], None, {})

Awaiting(r) == pc[r] \in Calling /\ (pc[r] = "schema" => op[r] <= NumOps)

(* No answer comes back.  The request did not reach Solr, or Solr has      *)
(* dealt with it, or will.                                                 *)
Unanswered(r) ==
  /\ r \in FaultyRuns
  /\ faulty' = faulty \cup {r}
  /\ \/ UNCHANGED <<solrVars, late, overdue>>
     \/ Handle(Ask(r)) /\ UNCHANGED <<late, overdue>>
     \/ /\ Cardinality(late) < MaxLate
        /\ late' = late \cup {Ask(r)}
        /\ overdue' = overdue \cup {r}
        /\ UNCHANGED solrVars

(* _request returns, raises SolrRequestError (an error answer other than   *)
(* 429, 503 and 504, an answer that is not JSON, no answer to the last     *)
(* attempt), or lets another exception of the transport through.           *)
Succeeds(r) == Perform(Ask(r)) /\ UNCHANGED <<late, overdue, faulty>>
SolrError(r) ==
  \/ Reject(Ask(r)) /\ UNCHANGED <<late, overdue, faulty>>
  \/ /\ r \in FaultyRuns
     /\ faulty' = faulty \cup {r}
     /\ UNCHANGED solrVars \/ Handle(Ask(r))
     /\ UNCHANGED <<late, overdue>>
  \/ tries[r] = Attempts - 1 /\ Unanswered(r)
Escapes(r) == Unanswered(r)
Fails(r) == SolrError(r) \/ Escapes(r)

Goto(r, s) ==
  /\ pc' = [pc EXCEPT ![r] = s]
  /\ tries' = [tries EXCEPT ![r] = 0]

(* Mutant: a retryable status is not counted as an attempt.                *)
RetryForever(r) ==
  /\ Awaiting(r)
  /\ Unanswered(r)
  /\ UNCHANGED <<pc, tries, localVars>>

(* Mutant: one attempt too many.                                           *)
RetryOnceMore(r) ==
  /\ Awaiting(r)
  /\ tries[r] < Attempts
  /\ Unanswered(r)
  /\ tries' = [tries EXCEPT ![r] = @ + 1]
  /\ UNCHANGED <<pc, localVars>>

Retry(r) ==
  /\ Awaiting(r)
  /\ tries[r] < Attempts - 1
  /\ Unanswered(r)
  /\ tries' = [tries EXCEPT ![r] = @ + 1]
  /\ UNCHANGED <<pc, localVars>>

(* Solr gets to a request nobody waits for any more.                       *)
Overdue(q) ==
  /\ Handle(q)
  /\ late' = late \ {q}
  /\ UNCHANGED <<pc, tries, overdue, faulty, localVars>>

-----------------------------------------------------------------------------
(* create_shadow.                                                          *)
Begin(r) ==
  /\ pc[r] = "idle"
  /\ Goto(r, "status")
  /\ UNCHANGED <<solrVars, late, overdue, faulty, localVars>>

ConfigName(r) ==
  /\ pc[r] = "status"
  /\ \/ Succeeds(r) /\ Goto(r, IF opt[r].updates THEN "download" ELSE "clone")
     \/ Fails(r) /\ Goto(r, "failed")
  /\ UNCHANGED localVars

(* Mutant: the manifest goes on saying that the patch was applied.         *)
PatchingRaisedUnnoticed(r) ==
  /\ Goto(r, IF opt[r].shared THEN "clone" ELSE "failed")
  /\ UNCHANGED patch

(* The except clause around the patch workflow.                            *)
PatchingRaised(r) ==
  /\ patch' = [patch EXCEPT ![r] = IF opt[r].shared THEN "skipped" ELSE @]
  /\ Goto(r, IF opt[r].shared THEN "clone" ELSE "failed")

(* The downloaded files are patched before they are sent back; a missing   *)
(* source file or a malformed entry raises.                                *)
Download(r) ==
  /\ pc[r] = "download"
  /\ \/ /\ Succeeds(r)
        /\ copy' = [copy EXCEPT ![r] = edits[Live]]
        /\ \/ patch' = [patch EXCEPT ![r] = "applied"] /\ Goto(r, "upload")
           \/ PatchingRaised(r)
     \/ Fails(r) /\ PatchingRaised(r) /\ UNCHANGED copy
  /\ UNCHANGED <<name, opt, cfg, isolated, op, applied>>

Upload(r) ==
  /\ pc[r] = "upload"
  /\ \/ /\ Succeeds(r)
        /\ Goto(r, IF opt[r].promote THEN "promote" ELSE "collection")
        /\ UNCHANGED patch
     \/ Fails(r) /\ PatchingRaised(r)
  /\ UNCHANGED <<name, opt, cfg, isolated, copy, op, applied>>

Promote(r) ==
  /\ pc[r] = "promote"
  /\ \/ Succeeds(r) /\ Goto(r, "drop") /\ UNCHANGED patch
     \/ SolrError(r) /\ Goto(r, "collection") /\ UNCHANGED patch
     \/ Escapes(r) /\ PatchingRaised(r)
  /\ UNCHANGED <<name, opt, cfg, isolated, copy, op, applied>>

(* Deleting what has been promoted may fail without consequences.          *)
DropUpload(r) ==
  /\ pc[r] = "drop"
  /\ \/ /\ Succeeds(r) \/ SolrError(r)
        /\ cfg' = [cfg EXCEPT ![r] = Trusted(name[r])]
        /\ Goto(r, "collection")
        /\ UNCHANGED patch
     \/ Escapes(r) /\ PatchingRaised(r) /\ UNCHANGED cfg
  /\ UNCHANGED <<name, opt, isolated, copy, op, applied>>

(* Mutant: the fallback to the shared configset is not recorded.           *)
CloneSilently(r) ==
  /\ pc[r] = "clone"
  /\ \/ Succeeds(r) /\ Goto(r, "collection") /\ UNCHANGED cfg
     \/ /\ SolrError(r) /\ opt[r].shared
        /\ cfg' = [cfg EXCEPT ![r] = Live]
        /\ Goto(r, "collection")
     \/ Escapes(r) /\ Goto(r, "failed") /\ UNCHANGED cfg
  /\ UNCHANGED <<name, opt, isolated, patch, copy, op, applied>>

(* Clone the baseline's configset, or share it if that is allowed.         *)
Clone(r) ==
  /\ pc[r] = "clone"
  /\ \/ Succeeds(r) /\ Goto(r, "collection") /\ UNCHANGED <<cfg, isolated>>
     \/ /\ SolrError(r) /\ opt[r].shared
        /\ cfg' = [cfg EXCEPT ![r] = Live]
        /\ isolated' = [isolated EXCEPT ![r] = FALSE]
        /\ Goto(r, "collection")
     \/ /\ \/ SolrError(r) /\ ~opt[r].shared
           \/ Escapes(r)
        /\ Goto(r, "failed")
        /\ UNCHANGED <<cfg, isolated>>
  /\ UNCHANGED <<name, opt, patch, copy, op, applied>>

(* Mutant: "already exists" is taken for an answer to a repeated CREATE.   *)
CreateCollectionAgain(r) ==
  /\ pc[r] = "collection"
  /\ \/ Succeeds(r) /\ Goto(r, "schema")
     \/ Reject(Ask(r)) /\ Goto(r, "schema") /\ UNCHANGED <<late, overdue, faulty>>
     \/ Fails(r) /\ Goto(r, "failed")
  /\ UNCHANGED localVars

CreateCollection(r) ==
  /\ pc[r] = "collection"
  /\ \/ Succeeds(r) /\ Goto(r, "schema")
     \/ Fails(r) /\ Goto(r, "failed")
  /\ UNCHANGED localVars

(* apply_schema_operations: an update is sent, a filter that is already    *)
(* gone is passed over, anything else raises.                              *)
SchemaOp(r) ==
  /\ pc[r] = "schema" /\ op[r] <= NumOps
  /\ \/ /\ Succeeds(r)
        /\ applied' = [applied EXCEPT ![r] = @ \cup {op[r]}]
        /\ op' = [op EXCEPT ![r] = @ + 1]
        /\ Goto(r, "schema")
     \/ /\ op' = [op EXCEPT ![r] = @ + 1]
        /\ Goto(r, "schema")
        /\ UNCHANGED <<solrVars, late, overdue, faulty, applied>>
     \/ /\ Fails(r) \/ UNCHANGED <<solrVars, late, overdue, faulty>>
        /\ Goto(r, "failed")
        /\ UNCHANGED <<op, applied>>
  /\ UNCHANGED <<name, opt, cfg, isolated, patch, copy>>

CreateShadowReturns(r) ==
  /\ pc[r] = "schema" /\ op[r] > NumOps
  /\ Goto(r, "ready")
  /\ UNCHANGED <<solrVars, late, overdue, faulty, localVars>>

-----------------------------------------------------------------------------
(* The cleanup stage of run.  Whether the stages in between succeeded      *)
(* makes no difference to it.  A strict plugin's cleanup may raise first.  *)
Finish(r) ==
  /\ pc[r] = "ready"
  /\ \/ Goto(r, IF opt[r].cleanup THEN "drop_collection" ELSE "kept")
     \/ Goto(r, "aborted")
  /\ UNCHANGED <<solrVars, late, overdue, faulty, localVars>>

(* Mutant: a failed delete of the collection does not stop the cleanup.    *)
DropCollectionAnyhow(r) ==
  /\ pc[r] = "drop_collection"
  /\ Succeeds(r) \/ Fails(r)
  /\ Goto(r, IF isolated[r] THEN "drop_configset" ELSE "clean")
  /\ UNCHANGED localVars

DropCollection(r) ==
  /\ pc[r] = "drop_collection"
  /\ \/ Succeeds(r) /\ Goto(r, IF isolated[r] THEN "drop_configset" ELSE "clean")
     \/ Fails(r) /\ Goto(r, "unclean")
  /\ UNCHANGED localVars

DropConfigset(r) ==
  /\ pc[r] = "drop_configset"
  /\ \/ Succeeds(r) /\ Goto(r, "clean")
     \/ Fails(r) /\ Goto(r, "unclean")
  /\ UNCHANGED localVars

(* The process dies, its request already sent or not.                      *)
Kill(r) ==
  /\ pc[r] \notin Ended
  /\ Goto(r, "aborted")
  /\ \/ UNCHANGED solrVars
     \/ Awaiting(r) /\ Handle(Ask(r))
  /\ UNCHANGED <<late, overdue, faulty, localVars>>

-----------------------------------------------------------------------------
Step(r) ==
  \/ Retry(r) \/ ConfigName(r) \/ Download(r) \/ Upload(r) \/ Promote(r)
  \/ DropUpload(r) \/ Clone(r) \/ CreateCollection(r) \/ SchemaOp(r)
  \/ CreateShadowReturns(r) \/ Finish(r) \/ DropCollection(r) \/ DropConfigset(r)

Next ==
  \/ \E r \in Runs : Begin(r) \/ Step(r) \/ Kill(r)
  \/ \E q \in late : Overdue(q)

(* Every request ends or times out, and nothing in run waits for another   *)
(* run, so a run that can go on does.                                      *)
Spec == Init /\ [][Next]_vars
FairSpec == Spec /\ \A r \in Runs : WF_vars(Step(r))

-----------------------------------------------------------------------------
Alone(r) == \A s \in Runs \ {r} : name[s] # name[r]

(* The manifest of a run that is named n reports the live configset.       *)
Shared(n) == \E r \in Runs : name[r] = n /\ ~isolated[r]

(* The live collection and its configset survive every run, no file patch  *)
(* reaches that configset, and neither does a schema change, except from   *)
(* runs under whose name somebody's manifest admits that it is shared.     *)
(* (Of two runs that were given the same name, one may write to the        *)
(* collection of the other.)                                               *)
BaselineKept ==
  /\ Live \in configsets /\ uses[Baseline] = Live
  /\ \A e \in edits[Live] : e[2] # 0 /\ Shared(name[e[1]])

(* What the manifest of a finished create_shadow says is what is in Solr:  *)
(* the configset, whether it is shared, whether the files are patched, the *)
(* schema changes, and no change of anyone else's that the baseline had    *)
(* not got.  Out of its reach are runs that share a name, and an upload    *)
(* that Solr goes on with after the client has sent it again.              *)
ManifestTruthful ==
  \A r \in Runs :
    pc[r] = "ready" /\ Alone(r) /\ r \notin overdue =>
      /\ uses[name[r]] = cfg[r] /\ cfg[r] \in configsets
      /\ isolated[r] <=> cfg[r] # Live
      /\ patch[r] = "applied" <=> <<r, 0>> \in edits[cfg[r]]
      /\ \A i \in applied[r] : <<r, i>> \in edits[cfg[r]]
      /\ \A e \in edits[cfg[r]] : e[1] # r => Shared(name[e[1]])

(* A cleanup that reports success has deleted the collection and the       *)
(* configset it was bound to, and after a run without a fault nothing of   *)
(* the run's name is left.                                                 *)
CleanupComplete ==
  \A r \in Runs :
    pc[r] = "clean" /\ Alone(r) /\ r \notin overdue =>
      /\ uses[name[r]] = None
      /\ isolated[r] => cfg[r] \notin configsets
      /\ r \notin faulty => {Cfg(name[r]), Trusted(name[r])} \cap configsets = {}

(* From the answer to its CREATE until it deletes it, a run has its        *)
(* collection to itself, even if another run was given the same name: the  *)
(* other one's CREATE fails, and a failed run cleans nothing up.           *)
Owned ==
  \A r \in Runs :
    /\ pc[r] \in {"schema", "ready"}
    /\ \A s \in Runs \ {r} : name[s] = name[r] => s \notin faulty
    => uses[name[r]] = cfg[r]

(* The retries are bounded, so every run comes to an end.                  *)
EveryRunEnds == \A r \in Runs : pc[r] = "status" ~> pc[r] \in Ended

(* docs/changeset-spec.md:360: a changeset that patches files never falls  *)
(* back to the baseline's configset.                                       *)
FallbackOnlyWithoutPatching ==
  \A r \in Runs : opt[r].updates => cfg[r] # Live

(* docs/changeset-spec.md:315: a changeset that patches files gets a       *)
(* shadow collection on a configset patched for it and by no other run.    *)
PatchedForItself ==
  \A r \in Runs :
    pc[r] = "ready" /\ patch[r] = "applied" =>
      /\ <<r, 0>> \in edits[cfg[r]]
      /\ \A s \in Runs \ {r} : <<s, 0>> \notin edits[cfg[r]]
=============================================================================
