------------------------------ MODULE JobStore ------------------------------
(***************************************************************************)
(* The job metadata store behind ApiStorage: one record per job, read and  *)
(* overwritten whole.  SqliteJobStore upserts under a lock, in one step.   *)
(* FileJobStore rewrites jobs/<id>/job.json in place: open(..., "w")       *)
(* empties the file, the new content arrives with the close, and a reader  *)
(* in between finds no JSON document.                                      *)
(***************************************************************************)
CONSTANTS Jobs,
          Procs,    \* the threads of control that save records
          Backends, \* the values of job_store_backend to consider
          NoJob     \* not a job

ASSUME JobStoreAssumption == /\ Backends \subseteq {"file", "sqlite"}
                             /\ NoJob \notin Jobs

VARIABLES backend,  \* the configured backend
          status,   \* status[j]: the status in j's record, "absent" before the first
          file,     \* file[j]: state of the record's text
          open      \* open[p]: the job whose file p has open for writing

Terminal == {"succeeded", "failed"}
Status == {"absent", "queued", "running"} \cup Terminal

storeVars == <<backend, status, file, open>>

StoreTypeOK ==
  /\ backend \in Backends
  /\ status \in [Jobs -> Status]
  /\ file \in [Jobs -> {"whole", "torn", "mixed"}]
  /\ open \in [Procs -> Jobs \cup {NoJob}]

StoreInit ==
  /\ backend \in Backends
  /\ status = [j \in Jobs |-> "absent"]
  /\ file = [j \in Jobs |-> "whole"]
  /\ open = [p \in Procs |-> NoJob]

OpenByOther(p, j) == \E q \in Procs \ {p} : open[q] = j

(* The file has been emptied and not written yet.  Two writers at once may *)
(* leave one document on top of the tail of a longer one: "mixed" text may *)
(* or may not parse.                                                       *)
BeginWrite(p, j) ==
  /\ backend = "file"
  /\ open[p] = NoJob
  /\ open' = [open EXCEPT ![p] = j]
  /\ file' = [file EXCEPT ![j] = IF OpenByOther(p, j) THEN "mixed" ELSE "torn"]
  /\ UNCHANGED <<backend, status>>

(* Mutant: the record is not flushed by the close.                         *)
CommitUnflushed(p, j, s) ==
  /\ backend = "sqlite" \/ open[p] = j
  /\ status' = [status EXCEPT ![j] = s]
  /\ open' = [open EXCEPT ![p] = NoJob]
  /\ UNCHANGED <<backend, file>>

(* The close of the file, or the upsert's COMMIT.  status[j] is the last   *)
(* record whose write was completed.                                       *)
Commit(p, j, s) ==
  /\ backend = "sqlite" \/ open[p] = j
  /\ status' = [status EXCEPT ![j] = s]
  /\ open' = [open EXCEPT ![p] = NoJob]
  /\ file' = [file EXCEPT ![j] = IF @ = "mixed" THEN "mixed" ELSE "whole"]
  /\ UNCHANGED backend

(* The writers in P die, or their write raises: what they had emptied      *)
(* stays as it is.                                                         *)
Abandon(P) ==
  /\ open' = [p \in Procs |-> IF p \in P THEN NoJob ELSE open[p]]
  /\ UNCHANGED <<backend, status, file>>

(* A read may return the record; a read may raise.                         *)
CanRead(j) == file[j] # "torn"
CanFailToRead(j) == file[j] # "whole"
=============================================================================
