----------------------------- MODULE SolrAdmin ------------------------------
(***************************************************************************)
(* The part of SolrCloud that schema_lens.solr drives: configsets, each a  *)
(* set of edits over what the baseline started with, and collections, each *)
(* bound to a configset.  Solr is not part of this repository: what a      *)
(* request does is what its callers rely on.                               *)
(***************************************************************************)
EXTENDS Naturals

CONSTANTS Runs,      \* the runs that create shadows
          Names,     \* the names shadow collections get
          Baseline,  \* the live collection
          NumOps,    \* how many schema requests a changeset makes
          None

(* Live is the baseline's configset; a shadow named n may have two.        *)
Live == <<Baseline, "live">>
Cfg(n) == <<n, "cfg">>
Trusted(n) == <<n, "trusted">>
Configsets == {Live} \cup (Names \X {"cfg", "trusted"})

ASSUME SolrAdminAssumption == /\ Baseline \notin Names
                              /\ None \notin Configsets
                              /\ NumOps \in Nat

(* <<r, 0>> is the file patch of run r, <<r, i>> its i-th schema request.  *)
Edits == Runs \X (0..NumOps)

VARIABLES configsets,  \* the configsets that exist
          edits,       \* edits[c]: the edits found in configset c
          uses         \* uses[n]: the configset of collection n, or None

solrVars == <<configsets, edits, uses>>

SolrTypeOK ==
  /\ configsets \subseteq Configsets
  /\ edits \in [Configsets -> SUBSET Edits]
  /\ uses \in [Names \cup {Baseline} -> Configsets \cup {None}]

SolrInit ==
  /\ configsets = {Live}
  /\ edits = [c \in Configsets |-> {}]
  /\ uses = [n \in Names \cup {Baseline} |-> IF n = Baseline THEN Live ELSE None]

-----------------------------------------------------------------------------
(* A request: its operation, the collection or configset it is about, the  *)
(* configset it refers to, and the edits its body carries.                 *)
Request(op, on, cfg, body) == [op |-> op, on |-> on, cfg |-> cfg, body |-> body]

InUse(c) == \E n \in DOMAIN uses : uses[n] = c

Accepts(q) ==
  CASE q.op = "CLUSTERSTATUS"    -> uses[q.on] # None
    [] q.op = "DOWNLOAD"         -> q.on \in configsets
    [] q.op = "UPLOAD"           -> TRUE
    [] q.op = "CREATE_CONFIGSET" -> q.on \notin configsets /\ q.cfg \in configsets
    [] q.op = "DELETE_CONFIGSET" -> q.on \in configsets /\ ~InUse(q.on)
    [] q.op = "CREATE"           -> uses[q.on] = None /\ q.cfg \in configsets
    [] q.op = "SCHEMA"           -> uses[q.on] # None
    [] q.op = "DELETE"           -> uses[q.on] # None

(* UPLOAD overwrites and cleans up, SCHEMA edits whatever configset the    *)
(* collection is bound to.                                                 *)
configsetsAfter(q) ==
  CASE q.op \in {"UPLOAD", "CREATE_CONFIGSET"} -> configsets \cup {q.on}
    [] q.op = "DELETE_CONFIGSET"               -> configsets \ {q.on}
    [] OTHER                                   -> configsets

editsAfter(q) ==
  CASE q.op = "UPLOAD"           -> [edits EXCEPT ![q.on] = q.body]
    [] q.op = "CREATE_CONFIGSET" -> [edits EXCEPT ![q.on] = edits[q.cfg]]
    [] q.op = "DELETE_CONFIGSET" -> [edits EXCEPT ![q.on] = {}]
    [] q.op = "SCHEMA"           -> [edits EXCEPT ![uses[q.on]] = @ \cup q.body]
    [] OTHER                     -> edits

usesAfter(q) ==
  CASE q.op = "CREATE" -> [uses EXCEPT ![q.on] = q.cfg]
    [] q.op = "DELETE" -> [uses EXCEPT ![q.on] = None]
    [] OTHER           -> uses

Perform(q) ==
  /\ Accepts(q)
  /\ configsets' = configsetsAfter(q)
  /\ edits' = editsAfter(q)
  /\ uses' = usesAfter(q)

Reject(q) == ~Accepts(q) /\ UNCHANGED solrVars

(* Solr deals with q whether or not the caller ever hears of it.           *)
Handle(q) == Perform(q) \/ Reject(q)
=============================================================================
