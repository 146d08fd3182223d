----------------------------- MODULE JobManager -----------------------------
(***************************************************************************)
(* api/jobs.py: request handlers submit jobs, and the jobs are run by the  *)
(* handler itself (worker_mode "inline"), by a daemon thread that takes    *)
(* them from an in-memory queue ("inprocess"), or by pull workers that     *)
(* list the store for queued jobs ("external").  The API process and the   *)
(* pull workers can crash; the store survives.                             *)
(***************************************************************************)
EXTENDS Naturals, Sequences, FiniteSets, JobStore

CONSTANTS Clients,     \* request handlers of the API process
          Threads,     \* identities of its worker threads
          Pullers,     \* processes that call run_pending
          Modes,       \* the worker modes to consider
          Registered,  \* the jobs whose job_type has an executor
          PullLimit,   \* run_pending's limit
          NoThread, Sentinel,
          MaxFaults,   \* bound on crashes and storage errors
          MaxStops     \* bound on calls of stop()

ASSUME JobManagerAssumption ==
  /\ Procs = Clients \cup Threads \cup Pullers
  /\ Clients \cap Threads = {} /\ Clients \cap Pullers = {} /\ Threads \cap Pullers = {}
  /\ IsFiniteSet(Pullers)
  /\ Modes \subseteq {"inline", "inprocess", "external"}
  /\ Registered \subseteq Jobs
  /\ Sentinel \notin Jobs /\ Sentinel # NoJob /\ NoThread \notin Procs
  /\ PullLimit \in Nat \ {0}
  /\ MaxFaults \in Nat /\ MaxStops \in Nat

VARIABLES
  mode,      \* worker_mode
  up,        \* the API process is running
  queue,     \* _queue
  running,   \* _running
  thread,    \* _thread
  stopping,  \* stop() is in its join
  pc, job,   \* what each process is doing, and for which job
  todo,      \* todo[p]: rest of the listing run_pending is working through
  starts,    \* starts[j]: how often j's executor was called
  timeouts,  \* joins that gave up on a live thread
  stops, faults

managerVars == <<mode, up, queue, running, thread, stopping, pc, job, todo,
                 starts, timeouts, stops, faults>>
vars == <<storeVars, managerVars>>

(* The program counters.  "run" .. "fail" are inside _run_job.             *)
Saving == {"save", "mark", "succeed", "fail"}
Jobless == {"idle", "loop", "get", "next"}
PC == {"dispatch", "put", "run", "exec"} \cup Saving \cup Jobless

TypeOK ==
  /\ StoreTypeOK
  /\ mode \in Modes /\ up \in BOOLEAN /\ running \in BOOLEAN /\ stopping \in BOOLEAN
  /\ queue \in Seq(Jobs \cup {Sentinel})
  /\ thread \in Threads \cup {NoThread}
  /\ pc \in [Procs -> PC]
  /\ job \in [Procs -> Jobs \cup {NoJob}]
  /\ \A p \in Procs : pc[p] \in Jobless <=> job[p] = NoJob
  /\ todo \in [Pullers -> SUBSET Jobs]
  /\ starts \in [Jobs -> Nat]
  /\ timeouts \in Nat /\ stops \in Nat /\ faults \in Nat

Alive(t) == t # NoThread /\ pc[t] # "idle"
Local == Clients \cup Threads

(* The constructor, with auto_start or without.                            *)
Init ==
  /\ StoreInit
  /\ mode \in Modes
  /\ up = TRUE
  /\ queue = <<>>
  /\ running \in (IF mode = "inprocess" THEN BOOLEAN ELSE {FALSE})
  /\ thread \in (IF running THEN Threads ELSE {NoThread})
  /\ stopping = FALSE
  /\ pc = [p \in Procs |-> IF p = thread THEN "loop" ELSE "idle"]
  /\ job = [p \in Procs |-> NoJob]
  /\ todo = [p \in Pullers |-> {}]
  /\ starts = [j \in Jobs |-> 0]
  /\ timeouts = 0 /\ stops = 0 /\ faults = 0

-----------------------------------------------------------------------------
(* Saving a record: every save_job below begins here with the file store.  *)
BeginSave(p) ==
  /\ pc[p] \in Saving
  /\ BeginWrite(p, job[p])
  /\ UNCHANGED managerVars

-----------------------------------------------------------------------------
(* submit: a fresh uuid, the record saved as queued, the request snapshot, *)
(* then the job is run here, queued, or left to the pull workers.          *)
Submit(c, j) ==
  /\ up /\ pc[c] = "idle"
  /\ status[j] = "absent" /\ file[j] = "whole" /\ \A q \in Procs : job[q] # j
  /\ pc' = [pc EXCEPT ![c] = "save"]
  /\ job' = [job EXCEPT ![c] = j]
  /\ UNCHANGED <<storeVars, mode, up, queue, running, thread, stopping, todo,
                 starts, timeouts, stops, faults>>

SubmitSave(c) ==
  /\ pc[c] = "save"
  /\ Commit(c, job[c], "queued")
  /\ pc' = [pc EXCEPT ![c] = "dispatch"]
  /\ UNCHANGED <<mode, up, queue, running, thread, stopping, job, todo, starts,
                 timeouts, stops, faults>>

SubmitDispatch(c) ==
  /\ pc[c] = "dispatch"
  /\ pc' = [pc EXCEPT ![c] = CASE mode = "inline"    -> "run"
                               [] mode = "inprocess" -> "put"
                               [] mode = "external"  -> "idle"]
  /\ job' = IF mode = "external" THEN [job EXCEPT ![c] = NoJob] ELSE job
  /\ UNCHANGED <<storeVars, mode, up, queue, running, thread, stopping, todo,
                 starts, timeouts, stops, faults>>

SubmitPut(c) ==
  /\ pc[c] = "put"
  /\ queue' = Append(queue, job[c])
  /\ pc' = [pc EXCEPT ![c] = "idle"]
  /\ job' = [job EXCEPT ![c] = NoJob]
  /\ UNCHANGED <<storeVars, mode, up, running, thread, stopping, todo, starts,
                 timeouts, stops, faults>>

-----------------------------------------------------------------------------
(* start and stop, called by the lifespan hooks.                           *)
(* Mutant: no test of the old thread.                                      *)
StartAnyway ==
  /\ up /\ ~stopping /\ mode = "inprocess"
  /\ \E t \in Threads :
       /\ pc[t] = "idle"
       /\ thread' = t
       /\ pc' = [pc EXCEPT ![t] = "loop"]
  /\ running' = TRUE
  /\ UNCHANGED <<storeVars, mode, up, queue, stopping, job, todo, starts,
                 timeouts, stops, faults>>

Start ==
  /\ up /\ ~stopping /\ mode = "inprocess"
  /\ ~Alive(thread)
  /\ \E t \in Threads :
       /\ pc[t] = "idle"
       /\ thread' = t
       /\ pc' = [pc EXCEPT ![t] = "loop"]
  /\ running' = TRUE
  /\ UNCHANGED <<storeVars, mode, up, queue, stopping, job, todo, starts,
                 timeouts, stops, faults>>

(* Mutant: stop() throws away what is queued.                              *)
StopDrains ==
  /\ up /\ ~stopping /\ mode = "inprocess" /\ stops < MaxStops
  /\ running' = FALSE
  /\ queue' = <<Sentinel>>
  /\ stopping' = TRUE
  /\ stops' = stops + 1
  /\ UNCHANGED <<storeVars, mode, up, thread, pc, job, todo, starts, timeouts,
                 faults>>

(* Mutant: stop() does not wake the worker.                                *)
StopSilently ==
  /\ up /\ ~stopping /\ mode = "inprocess" /\ stops < MaxStops
  /\ running' = FALSE
  /\ stopping' = TRUE
  /\ stops' = stops + 1
  /\ UNCHANGED <<storeVars, mode, up, queue, thread, pc, job, todo, starts,
                 timeouts, faults>>

(* _running = False; _queue.put(sentinel).  A worker reads the flag only   *)
(* at the top of its loop, so the two count as one step.                   *)
Stop ==
  /\ up /\ ~stopping /\ mode = "inprocess" /\ stops < MaxStops
  /\ running' = FALSE
  /\ queue' = Append(queue, Sentinel)
  /\ stopping' = TRUE
  /\ stops' = stops + 1
  /\ UNCHANGED <<storeVars, mode, up, thread, pc, job, todo, starts, timeouts,
                 faults>>

(* join(timeout=1.5) returns, with the thread gone or not; either way the  *)
(* manager forgets it.                                                     *)
StopJoined ==
  /\ up /\ stopping
  /\ thread' = NoThread
  /\ timeouts' = IF Alive(thread) THEN timeouts + 1 ELSE timeouts
  /\ stopping' = FALSE
  /\ UNCHANGED <<storeVars, mode, up, queue, running, pc, job, todo, starts,
                 stops, faults>>

-----------------------------------------------------------------------------
(* _worker: `while self._running', then a blocking get.                    *)
WorkerLoop(t) ==
  /\ pc[t] = "loop"
  /\ pc' = [pc EXCEPT ![t] = IF running THEN "get" ELSE "idle"]
  /\ UNCHANGED <<storeVars, mode, up, queue, running, thread, stopping, job,
                 todo, starts, timeouts, stops, faults>>

(* Mutant: the worker looks at the head of the queue and leaves it there.  *)
WorkerPeek(t) ==
  /\ pc[t] = "get" /\ queue # <<>> /\ Head(queue) # Sentinel
  /\ pc' = [pc EXCEPT ![t] = "run"]
  /\ job' = [job EXCEPT ![t] = Head(queue)]
  /\ UNCHANGED <<storeVars, mode, up, queue, running, thread, stopping, todo,
                 starts, timeouts, stops, faults>>

WorkerGet(t) ==
  /\ pc[t] = "get" /\ queue # <<>>
  /\ queue' = Tail(queue)
  /\ IF Head(queue) = Sentinel
     THEN /\ pc' = [pc EXCEPT ![t] = "loop"]
          /\ UNCHANGED job
     ELSE /\ pc' = [pc EXCEPT ![t] = "run"]
          /\ job' = [job EXCEPT ![t] = Head(queue)]
  /\ UNCHANGED <<storeVars, mode, up, running, thread, stopping, todo, starts,
                 timeouts, stops, faults>>

-----------------------------------------------------------------------------
(* run_pending: one listing of the queued records, of which the first      *)
(* `limit' are run.  The listing is newest first with one-second stamps;   *)
(* which jobs come first is left open.                                     *)
Queued == {j \in Jobs : status[j] = "queued"}

(* Mutant: nothing is pulled while some job is marked running.             *)
PullListWhenQuiet(p) ==
  /\ mode # "inprocess" /\ pc[p] = "idle"
  /\ Queued # {} /\ \A j \in Jobs : CanRead(j) /\ status[j] # "running"
  /\ \E j \in Queued : todo' = [todo EXCEPT ![p] = {j}]
  /\ pc' = [pc EXCEPT ![p] = "next"]
  /\ UNCHANGED <<storeVars, mode, up, queue, running, thread, stopping, job,
                 starts, timeouts, stops, faults>>

PullList(p) ==
  /\ mode # "inprocess" /\ pc[p] = "idle"
  /\ Queued # {} /\ \A j \in Jobs : CanRead(j)
  /\ \E batch \in SUBSET Queued :
       /\ batch # {} /\ Cardinality(batch) <= PullLimit
       /\ Cardinality(batch) < PullLimit => batch = Queued
       /\ todo' = [todo EXCEPT ![p] = batch]
  /\ pc' = [pc EXCEPT ![p] = "next"]
  /\ UNCHANGED <<storeVars, mode, up, queue, running, thread, stopping, job,
                 starts, timeouts, stops, faults>>

PullNext(p) ==
  /\ pc[p] = "next"
  /\ IF todo[p] = {}
     THEN pc' = [pc EXCEPT ![p] = "idle"] /\ UNCHANGED <<job, todo>>
     ELSE \E j \in todo[p] :
            /\ pc' = [pc EXCEPT ![p] = "run"]
            /\ job' = [job EXCEPT ![p] = j]
            /\ todo' = [todo EXCEPT ![p] = @ \ {j}]
  /\ UNCHANGED <<storeVars, mode, up, queue, running, thread, stopping, starts,
                 timeouts, stops, faults>>

-----------------------------------------------------------------------------
(* _run_job, by whichever process has the job.                             *)
Return(p) == CASE p \in Clients -> "idle" [] p \in Threads -> "loop" [] p \in Pullers -> "next"

RunRead(p) ==
  /\ pc[p] = "run" /\ CanRead(job[p])
  /\ pc' = [pc EXCEPT ![p] = IF job[p] \in Registered THEN "mark" ELSE "fail"]
  /\ UNCHANGED <<storeVars, mode, up, queue, running, thread, stopping, job,
                 todo, starts, timeouts, stops, faults>>

RunMark(p) ==
  /\ pc[p] = "mark"
  /\ Commit(p, job[p], "running")
  /\ pc' = [pc EXCEPT ![p] = "exec"]
  /\ starts' = [starts EXCEPT ![job[p]] = @ + 1]
  /\ UNCHANGED <<mode, up, queue, running, thread, stopping, job, todo,
                 timeouts, stops, faults>>

(* The executor returns, or raises and the exception becomes job.error.    *)
RunExecutor(p) ==
  /\ pc[p] = "exec"
  /\ \E outcome \in {"succeed", "fail"} : pc' = [pc EXCEPT ![p] = outcome]
  /\ UNCHANGED <<storeVars, mode, up, queue, running, thread, stopping, job,
                 todo, starts, timeouts, stops, faults>>

(* Mutant: a failed job goes back to "queued" for another attempt.         *)
RunSaveRetry(p) ==
  /\ pc[p] \in {"succeed", "fail"}
  /\ Commit(p, job[p], IF pc[p] = "succeed" THEN "succeeded" ELSE "queued")
  /\ pc' = [pc EXCEPT ![p] = Return(p)]
  /\ job' = [job EXCEPT ![p] = NoJob]
  /\ UNCHANGED <<mode, up, queue, running, thread, stopping, todo, starts,
                 timeouts, stops, faults>>

(* Mutant: the worker keeps its reference to the finished job.             *)
RunSaveKeepingJob(p) ==
  /\ pc[p] \in {"succeed", "fail"}
  /\ Commit(p, job[p], IF pc[p] = "succeed" THEN "succeeded" ELSE "failed")
  /\ pc' = [pc EXCEPT ![p] = Return(p)]
  /\ UNCHANGED <<mode, up, queue, running, thread, stopping, job, todo, starts,
                 timeouts, stops, faults>>

RunSave(p) ==
  /\ pc[p] \in {"succeed", "fail"}
  /\ Commit(p, job[p], IF pc[p] = "succeed" THEN "succeeded" ELSE "failed")
  /\ pc' = [pc EXCEPT ![p] = Return(p)]
  /\ job' = [job EXCEPT ![p] = NoJob]
  /\ UNCHANGED <<mode, up, queue, running, thread, stopping, todo, starts,
                 timeouts, stops, faults>>

-----------------------------------------------------------------------------
(* Nothing above _run_job catches what the store raises: a handler answers *)
(* 500, a worker thread ends, run_pending returns to its caller.           *)
Unwind(P) ==
  /\ Abandon(P)
  /\ pc' = [p \in Procs |-> IF p \in P THEN "idle" ELSE pc[p]]
  /\ job' = [p \in Procs |-> IF p \in P THEN NoJob ELSE job[p]]
  /\ todo' = [p \in Pullers |-> IF p \in P THEN {} ELSE todo[p]]

ReadRaises(p) ==
  /\ pc[p] = "run" /\ CanFailToRead(job[p])
  /\ Unwind({p})
  /\ UNCHANGED <<mode, up, queue, running, thread, stopping, starts, timeouts,
                 stops, faults>>

StorageError(p) ==
  /\ pc[p] \in Saving \cup {"dispatch", "run"} /\ faults < MaxFaults
  /\ Unwind({p})
  /\ faults' = faults + 1
  /\ UNCHANGED <<mode, up, queue, running, thread, stopping, starts, timeouts,
                 stops>>

(* The API process dies with its handlers, its threads and its queue.      *)
Crash ==
  /\ up /\ faults < MaxFaults
  /\ Unwind(Local)
  /\ up' = FALSE
  /\ queue' = <<>>
  /\ running' = FALSE
  /\ thread' = NoThread
  /\ stopping' = FALSE
  /\ faults' = faults + 1
  /\ UNCHANGED <<mode, starts, timeouts, stops>>

(* Mutant: the new manager queues every record that is not terminal.       *)
RestartRequeues ==
  /\ ~up
  /\ up' = TRUE
  /\ \E j \in Jobs : status[j] \in {"queued", "running"} /\ queue' = <<j>>
  /\ UNCHANGED <<storeVars, mode, running, thread, stopping, pc, job, todo,
                 starts, timeouts, stops, faults>>

(* A new manager on the old store: nothing reads the queued records back.  *)
Restart ==
  /\ ~up
  /\ up' = TRUE
  /\ UNCHANGED <<storeVars, mode, queue, running, thread, stopping, pc, job,
                 todo, starts, timeouts, stops, faults>>

PullerCrash(p) ==
  /\ pc[p] # "idle" /\ faults < MaxFaults
  /\ Unwind({p})
  /\ faults' = faults + 1
  /\ UNCHANGED <<mode, up, queue, running, thread, stopping, starts, timeouts,
                 stops>>

-----------------------------------------------------------------------------
Handler(c) == SubmitSave(c) \/ SubmitDispatch(c) \/ SubmitPut(c)
Worker(t) == WorkerLoop(t) \/ WorkerGet(t)
Puller(p) == PullList(p) \/ PullNext(p)
RunJob(p) == BeginSave(p) \/ RunRead(p) \/ RunMark(p) \/ RunExecutor(p) \/ RunSave(p)
               \/ ReadRaises(p)

Next ==
  \/ \E c \in Clients : Handler(c) \/ \E j \in Jobs : Submit(c, j)
  \/ \E t \in Threads : Worker(t)
  \/ \E p \in Pullers : Puller(p) \/ PullerCrash(p)
  \/ \E p \in Procs : RunJob(p) \/ StorageError(p)
  \/ Start \/ Stop \/ StopJoined \/ Crash \/ Restart

Spec == Init /\ [][Next]_vars

(* Started threads keep running, and executors return.                     *)
Fairness ==
  /\ \A c \in Clients : WF_vars(Handler(c))
  /\ \A t \in Threads : WF_vars(Worker(t))
  /\ \A p \in Pullers : WF_vars(Puller(p))
  /\ \A p \in Procs : WF_vars(RunJob(p))
  /\ WF_vars(StopJoined)

FairSpec == Spec /\ Fairness

-----------------------------------------------------------------------------
InQueue(j) == \E i \in 1..Len(queue) : queue[i] = j
Holds(p, j) == job[p] = j

(* In-process no two queue entries or processes ever have the same job, so *)
(* its executor is called at most once: across stop and start, overlapping *)
(* workers, left-over sentinels, storage errors and crashes.               *)
AtMostOnce == mode = "inprocess" => \A j \in Jobs : starts[j] <= 1

(* run_pending claims nothing, so all that holds of pulled jobs is: once   *)
(* per pull worker, and once more for the handler of an inline job.        *)
OncePerWorker ==
  \A j \in Jobs :
    starts[j] <= Cardinality(Pullers) + (IF mode = "external" THEN 0 ELSE 1)

(* Why AtMostOnce holds: a job has one owner, which knows how far it got.  *)
OneOwner ==
  /\ \A p, q \in Procs : job[p] = job[q] /\ job[p] # NoJob => p = q
  /\ \A i, k \in 1..Len(queue) : queue[i] = queue[k] /\ queue[i] # Sentinel => i = k
  /\ \A i \in 1..Len(queue), p \in Procs : queue[i] # job[p]

Stage(p) ==
  /\ pc[p] = "save" => status[job[p]] = "absent"
  /\ pc[p] \in {"dispatch", "put", "run", "mark"} => status[job[p]] = "queued"
  /\ pc[p] \in {"exec", "succeed"} => status[job[p]] = "running"
  /\ pc[p] = "fail" => status[job[p]] \in {"queued", "running"}

Ownership ==
  mode = "inprocess" =>
    /\ OneOwner
    /\ \A p \in Procs : Stage(p)
    /\ \A p \in Pullers : pc[p] = "idle"
    /\ \A i \in 1..Len(queue) : queue[i] # Sentinel => status[queue[i]] = "queued"
    /\ \A j \in Jobs : status[j] \in {"absent", "queued"} => starts[j] = 0
    /\ \A j \in Jobs : starts[j] <= 1

(* A job can be stuck only through a crash or a storage error: otherwise a *)
(* record that says "running" belongs to a process that is running it, and *)
(* one that says "queued" is in the queue, in somebody's hands, or left to *)
(* the pull workers.                                                       *)
NoJobForgotten ==
  faults = 0 =>
    \A j \in Jobs :
      /\ status[j] = "running" =>
           \E p \in Procs : Holds(p, j) /\ pc[p] \in {"exec", "succeed", "fail"}
      /\ status[j] = "queued" /\ mode # "external" =>
           InQueue(j) \/ \E p \in Procs : Holds(p, j)

(* With one manager and no failure, the window in which a record cannot be *)
(* parsed (and every listing of the store raises) is that of one write.    *)
UnreadableOnlyWhileWritten ==
  mode = "inprocess" /\ faults = 0 =>
    \A j \in Jobs : file[j] # "whole" => \E p \in Procs : open[p] = j

(* There is one worker thread, plus at most one for every stop() whose     *)
(* join gave up: such a thread finds _running set again after a start().   *)
ThreadsBounded == Cardinality({t \in Threads : pc[t] # "idle"}) <= 1 + timeouts

(* In-process, the stored status of a job follows the promised lifecycle,  *)
(* whatever stops, starts, crashes and storage errors happen around it.    *)
(* The other modes promise less (OncePerWorker): they map to a job manager *)
(* that is never given anything.                                           *)
InProcessStatus == IF mode = "inprocess" THEN status ELSE [j \in Jobs |-> "absent"]
Promise == INSTANCE JobLifecycle WITH status <- InProcessStatus
Lifecycle == Promise!Spec

(* While the manager keeps its worker thread, what is queued gets done.    *)
EveryQueuedJobFinishes ==
  <>[]Alive(thread) =>
    \A j \in Jobs : InQueue(j) ~> (status[j] \in Terminal \/ faults > 0)

(* stop() ends the worker even when its join times out, if no earlier join *)
(* did and nobody starts the manager again.                                *)
StoppedWorkerExits ==
  (stopping /\ timeouts = 0) ~> (running \/ \A t \in Threads : pc[t] = "idle")

(* With the SQLite store a queued job outlives every crash: some pull      *)
(* worker takes it.                                                        *)
PullDrainsQueue ==
  \A j \in Jobs : (mode = "external" /\ backend = "sqlite" /\ status[j] = "queued")
                   ~> status[j] # "queued"

(* run_pending's docstring: "Run queued jobs in pull-worker mode".  It     *)
(* runs the jobs of its listing without looking at their status again.     *)
PullRunsQueuedJobs ==
  [][\A p \in Pullers : pc[p] = "mark" /\ pc'[p] = "exec"
                          => status[job[p]] = "queued"]_vars
=============================================================================
