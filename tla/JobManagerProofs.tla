-------------------------- MODULE JobManagerProofs --------------------------
(***************************************************************************)
(* Proofs about JobManager, for any number of requests, threads, jobs,     *)
(* stops and failures: types, the at-most-once execution of in-process     *)
(* jobs, and that their stored statuses follow JobLifecycle; and in every  *)
(* worker mode what becomes of the records while nothing fails, and how    *)
(* many threads and executions there can be.                               *)
(***************************************************************************)
EXTENDS JobManager, SequenceTheorems, FiniteSetTheorems, TLAPS
(* Every state of the manager and its store has the declared types.        *)
THEOREM TypeCorrect == Spec => []TypeOK
<1>. USE JobStoreAssumption, JobManagerAssumption
         DEF TypeOK, StoreTypeOK, Status, Terminal, PC, Saving, Jobless
<1>1. Init => TypeOK
  <2>. SUFFICES ASSUME Init PROVE TypeOK
    OBVIOUS
  <2>1. StoreTypeOK
    BY DEF Init, StoreInit
  <2>2. thread \in Threads \cup {NoThread}
    BY DEF Init
  <2>4. up \in BOOLEAN /\ running \in BOOLEAN /\ stopping \in BOOLEAN
    BY Zenon DEF Init
  <2>5. queue \in Seq(Jobs \cup {Sentinel})
    BY DEF Init
  <2>6. todo \in [Pullers -> SUBSET Jobs] /\ starts \in [Jobs -> Nat]
    BY DEF Init
  <2>3. pc \in [Procs -> PC] /\ job \in [Procs -> Jobs \cup {NoJob}]
    BY DEF Init
  <2>. QED
    BY <2>1, <2>2, <2>3, <2>4, <2>5, <2>6 DEF Init
<1>2. TypeOK /\ [Next]_vars => TypeOK'
  <2>. SUFFICES ASSUME TypeOK, [Next]_vars PROVE TypeOK'
    OBVIOUS
  <2>. USE DEF Commit, BeginWrite
  <2>1. ASSUME NEW p \in Procs, BeginSave(p) PROVE TypeOK'
    BY <2>1 DEF BeginSave, managerVars
  <2>2. ASSUME NEW c \in Clients, NEW j \in Jobs, Submit(c, j) PROVE TypeOK'
    BY <2>2 DEF Submit, storeVars
  <2>3. ASSUME NEW c \in Clients, Handler(c) PROVE TypeOK'
    <3>1. CASE SubmitSave(c)
      BY <3>1 DEF SubmitSave
    <3>2. CASE SubmitDispatch(c)
      BY <3>2 DEF SubmitDispatch, storeVars
    <3>3. CASE SubmitPut(c)
      <4>1. job[c] \in Jobs
        BY <3>3 DEF SubmitPut
      <4>. QED
        BY <3>3, <4>1 DEF SubmitPut, storeVars
    <3>. QED
      BY <2>3, <3>1, <3>2, <3>3 DEF Handler
  <2>4. ASSUME NEW t \in Threads, Worker(t) PROVE TypeOK'
    <3>1. CASE WorkerLoop(t)
      BY <3>1 DEF WorkerLoop, storeVars
    <3>2. CASE WorkerGet(t)
      <4>1. Tail(queue) \in Seq(Jobs \cup {Sentinel}) /\ Head(queue) \in Jobs \cup {Sentinel}
        <5>. DEFINE E == Jobs \cup {Sentinel}
        <5>1. queue \in Seq(E) /\ queue # <<>>
          BY <3>2 DEF WorkerGet
        <5>. HIDE DEF E
        <5>2. Tail(queue) \in Seq(E) /\ Head(queue) \in E
          BY <5>1, HeadTailProperties
        <5>. QED
          BY <5>2 DEF E
      <4>2. CASE Head(queue) = Sentinel
        <5>1. pc' = [pc EXCEPT ![t] = "loop"] /\ pc[t] = "get" /\ queue' = Tail(queue)
          BY <3>2, <4>2 DEF WorkerGet
        <5>2. UNCHANGED <<storeVars, mode, up, running, thread, stopping, job, todo, starts,
                          timeouts, stops, faults>>
          BY <3>2, <4>2 DEF WorkerGet
        <5>. QED
          BY <4>1, <5>1, <5>2 DEF storeVars
      <4>3. CASE Head(queue) # Sentinel
        <5>1. Head(queue) \in Jobs
          BY <4>1, <4>3
        <5>2. pc' = [pc EXCEPT ![t] = "run"] /\ job' = [job EXCEPT ![t] = Head(queue)]
              /\ queue' = Tail(queue)
          BY <3>2, <4>3 DEF WorkerGet
        <5>. HIDE DEF StoreTypeOK
        <5>3. StoreTypeOK'
          BY <3>2 DEF WorkerGet, storeVars, StoreTypeOK
        <5>. QED
          BY <3>2, <4>1, <5>1, <5>2, <5>3 DEF WorkerGet
      <4>. QED
        BY <4>2, <4>3
    <3>. QED
      BY <2>4, <3>1, <3>2 DEF Worker
  <2>5. ASSUME NEW p \in Pullers, Puller(p) PROVE TypeOK'
    <3>1. CASE PullList(p)
      BY <3>1 DEF PullList, Queued, storeVars
    <3>2. CASE PullNext(p)
      <4>1. CASE todo[p] = {}
        BY <3>2, <4>1, ZenonT(40) DEF PullNext, storeVars
      <4>2. CASE todo[p] # {}
        <5>1. PICK j \in todo[p] : /\ pc' = [pc EXCEPT ![p] = "run"]
                                  /\ job' = [job EXCEPT ![p] = j]
                                  /\ todo' = [todo EXCEPT ![p] = @ \ {j}]
          BY <3>2, <4>2 DEF PullNext
        <5>2. j \in Jobs /\ todo[p] \ {j} \in SUBSET Jobs
          BY <5>1
        <5>. QED
          BY <3>2, <5>1, <5>2 DEF PullNext, storeVars
      <4>. QED
        BY <4>1, <4>2
    <3>. QED
      BY <2>5, <3>1, <3>2 DEF Puller
  <2>6. ASSUME NEW p \in Procs, RunRead(p) PROVE TypeOK'
    BY <2>6 DEF RunRead, storeVars
  <2>14. ASSUME NEW p \in Procs, RunExecutor(p) PROVE TypeOK'
    BY <2>14 DEF RunExecutor, storeVars
  <2>7. ASSUME NEW p \in Procs, RunMark(p) PROVE TypeOK'
    <3>1. job[p] \in Jobs
      BY <2>7 DEF RunMark
    <3>2. StoreTypeOK' /\ starts' \in [Jobs -> Nat]
      BY <2>7, <3>1 DEF RunMark
    <3>. QED
      BY <2>7, <3>1, <3>2 DEF RunMark
  <2>8. ASSUME NEW p \in Procs, RunSave(p) PROVE TypeOK'
    <3>1. job[p] \in Jobs /\ Return(p) \in Jobless
      BY <2>8 DEF RunSave, Return
    <3>2. StoreTypeOK'
      BY <2>8, <3>1 DEF RunSave
    <3>. QED
      BY <2>8, <3>1, <3>2 DEF RunSave
  <2>9. ASSUME NEW P \in SUBSET Procs, Unwind(P)
        PROVE  /\ StoreTypeOK'
               /\ pc' \in [Procs -> PC]
               /\ job' \in [Procs -> Jobs \cup {NoJob}]
               /\ \A p \in Procs : pc'[p] \in Jobless <=> job'[p] = NoJob
               /\ todo' \in [Pullers -> SUBSET Jobs]
    BY <2>9 DEF Unwind, Abandon
  <2>10. ASSUME NEW p \in Procs, ReadRaises(p) \/ StorageError(p) \/ PullerCrash(p) PROVE TypeOK'
    <3>1. Unwind({p}) /\ faults' \in Nat
      BY <2>10 DEF ReadRaises, StorageError, PullerCrash
    <3>2. UNCHANGED <<mode, up, queue, running, thread, stopping, starts, timeouts, stops>>
      BY <2>10 DEF ReadRaises, StorageError, PullerCrash
    <3>. QED
      BY <2>9, <3>1, <3>2
  <2>11. CASE Crash
    <3>1. Unwind(Local) /\ Local \in SUBSET Procs
      BY <2>11 DEF Crash, Local
    <3>2. up' \in BOOLEAN /\ running' \in BOOLEAN /\ stopping' \in BOOLEAN
      BY <2>11, Zenon DEF Crash
    <3>3. queue' \in Seq(Jobs \cup {Sentinel}) /\ faults' \in Nat
      BY <2>11 DEF Crash
    <3>. HIDE DEF StoreTypeOK
    <3>. QED
      BY <2>9, <3>1, <2>11, <3>2, <3>3 DEF Crash
  <2>12. CASE Start
    BY <2>12 DEF Start, storeVars
  <2>15. CASE Stop
    <3>1. queue' \in Seq(Jobs \cup {Sentinel}) /\ stops' \in Nat
      BY <2>15 DEF Stop
    <3>2. running' \in BOOLEAN /\ stopping' \in BOOLEAN
      BY <2>15, Zenon DEF Stop
    <3>. QED
      BY <2>15, <3>1, <3>2 DEF Stop, storeVars
  <2>16. CASE StopJoined
    <3>1. timeouts' \in Nat
      BY <2>16 DEF StopJoined
    <3>2. stopping' \in BOOLEAN
      BY <2>16, Zenon DEF StopJoined
    <3>. QED
      BY <2>16, <3>1, <3>2 DEF StopJoined, storeVars
  <2>17. CASE Restart
    <3>1. up' \in BOOLEAN
      BY <2>17, Zenon DEF Restart
    <3>. QED
      BY <2>17, <3>1 DEF Restart, storeVars
  <2>13. CASE UNCHANGED vars
    BY <2>13 DEF vars, storeVars, managerVars
  <2>. QED
    BY <2>1, <2>2, <2>3, <2>4, <2>5, <2>6, <2>7, <2>8, <2>10, <2>11, <2>12, <2>13, <2>14,
       <2>15, <2>16, <2>17 DEF Next, RunJob
<1>. QED
  BY <1>1, <1>2, PTL DEF Spec

-----------------------------------------------------------------------------
(* worker_mode is set by the constructor only.                             *)
LEMMA ModeFixed == [Next]_vars => mode' = mode
  BY DEF Next, vars, storeVars, managerVars, Handler, Worker, Puller, RunJob, BeginSave, Submit, SubmitSave,
         SubmitDispatch, SubmitPut, Start, Stop, StopJoined, WorkerLoop, WorkerGet,
         PullList, PullNext, RunRead, RunMark, RunExecutor, RunSave, ReadRaises,
         StorageError, Crash, Restart, PullerCrash

(* What processes that give up their jobs leave behind.                    *)
LEMMA UnwindOwnership ==
  ASSUME TypeOK, Ownership, mode = "inprocess", mode' = mode,
         NEW P \in SUBSET Procs, Unwind(P), queue' \in {queue, <<>>}, starts' = starts
  PROVE  Ownership'
<1>1. /\ status' = status
      /\ \A p \in Procs : job'[p] = IF p \in P THEN NoJob ELSE job[p]
      /\ \A p \in Procs : pc'[p] = IF p \in P THEN "idle" ELSE pc[p]
  BY DEF Unwind, Abandon
<1>2. \A i \in 1..Len(queue') : i \in 1..Len(queue) /\ queue'[i] = queue[i]
  BY DEF TypeOK
<1>3. OneOwner'
  <2>1. Sentinel # NoJob /\ NoJob \notin Jobs
    BY JobManagerAssumption, JobStoreAssumption
  <2>. QED
    BY <1>1, <1>2, <2>1 DEF OneOwner, Ownership, TypeOK
<1>4. \A p \in Procs : Stage(p)'
  BY <1>1 DEF Stage, Ownership
<1>. QED
  BY <1>1, <1>2, <1>3, <1>4, JobManagerAssumption DEF Ownership

(* A job in the in-process mode has one owner that knows how far it got.   *)
THEOREM OneOwnerEach == Spec => []Ownership
<1>0. /\ Procs = Clients \cup Threads \cup Pullers
      /\ Threads \cap Pullers = {} /\ NoThread \notin Procs
      /\ NoJob \notin Jobs /\ Sentinel \notin Jobs /\ Sentinel # NoJob
  BY JobStoreAssumption, JobManagerAssumption
<1>1. Init => Ownership
  <2>. SUFFICES ASSUME Init PROVE Ownership
    OBVIOUS
  <2>1. \A p \in Procs : Stage(p)
    BY DEF Init, Stage
  <2>. QED
    BY <1>0, <2>1 DEF Init, StoreInit, Ownership, OneOwner
<1>2. TypeOK /\ TypeOK' /\ Ownership /\ [Next]_vars => Ownership'
  <2>. SUFFICES ASSUME TypeOK, TypeOK', Ownership, [Next]_vars, mode = "inprocess"
                PROVE  Ownership'
    BY ModeFixed DEF Ownership
  <2>0. mode' = mode
    BY ModeFixed
  <2>. DEFINE Types ==
         /\ status \in [Jobs -> Status] /\ starts \in [Jobs -> Nat]
         /\ job \in [Procs -> Jobs \cup {NoJob}]
         /\ pc \in [Procs -> PC]
         /\ \A p \in Procs : pc[p] \in Jobless <=> job[p] = NoJob
         /\ queue \in Seq(Jobs \cup {Sentinel})
  <2>t. Types /\ Types'
    BY DEF TypeOK, StoreTypeOK
  <2>. USE <1>0, <2>t DEF Saving, Jobless, PC
  <2>s. ASSUME UNCHANGED <<status, starts, job, queue>>,
               \A p \in Procs : Stage(p)',
               \A p \in Pullers : pc'[p] = "idle"
        PROVE  Ownership'
    BY <2>0, <2>s DEF Ownership, OneOwner
  <2>1. ASSUME NEW p \in Procs, BeginSave(p) PROVE Ownership'
    BY <2>1 DEF BeginSave, BeginWrite, managerVars, Ownership, OneOwner, Stage
  <2>2. ASSUME NEW c \in Clients, NEW j \in Jobs, Submit(c, j) PROVE Ownership'
    <3>0. /\ job' = [job EXCEPT ![c] = j] /\ queue' = queue
          /\ status[j] = "absent" /\ \A q \in Procs : job[q] # j
      BY <2>2 DEF Submit
    <3>4. \A i \in 1..Len(queue) : queue[i] # j
      BY <3>0 DEF Ownership
    <3>1. OneOwner'
      BY <3>0, <3>4 DEF Ownership, OneOwner
    <3>2. \A p \in Procs : Stage(p)'
      BY <2>2 DEF Submit, storeVars, Ownership, Stage
    <3>3. UNCHANGED <<status, starts, queue, mode>> /\ \A p \in Pullers : pc'[p] = pc[p]
      BY <2>2, JobManagerAssumption DEF Submit, storeVars
    <3>. QED
      BY <3>1, <3>2, <3>3 DEF Ownership
  <2>3. ASSUME NEW c \in Clients, SubmitSave(c) PROVE Ownership'
    <3>1. OneOwner'
      BY <2>3 DEF SubmitSave, Commit, Ownership, OneOwner
    <3>2. \A p \in Procs : Stage(p)'
      BY <2>3 DEF SubmitSave, Commit, Ownership, OneOwner, Stage
    <3>. QED
      BY <2>3, <3>1, <3>2 DEF SubmitSave, Commit, Ownership, OneOwner, Stage
  <2>4. ASSUME NEW c \in Clients, SubmitDispatch(c) PROVE Ownership'
    BY <2>4 DEF SubmitDispatch, storeVars, Ownership, OneOwner, Stage
  <2>5. ASSUME NEW c \in Clients, SubmitPut(c) PROVE Ownership'
    <3>1. job[c] \in Jobs /\ status[job[c]] = "queued"
      BY <2>5 DEF SubmitPut, Ownership, Stage
    <3>2. /\ Len(queue') = Len(queue) + 1
          /\ \A i \in 1..Len(queue) : queue'[i] = queue[i]
          /\ queue'[Len(queue) + 1] = job[c]
      BY <2>5, <3>1, AppendProperties DEF SubmitPut
    <3>3. OneOwner'
      BY <2>5, <3>1, <3>2 DEF SubmitPut, Ownership, OneOwner
    <3>4. \A p \in Procs : Stage(p)'
      BY <2>5 DEF SubmitPut, storeVars, Ownership, Stage
    <3>. QED
      BY <2>5, <3>1, <3>2, <3>3, <3>4 DEF SubmitPut, storeVars, Ownership
  <2>6. CASE Start
    BY <2>6 DEF Start, storeVars, Ownership, OneOwner, Stage
  <2>7. CASE Stop
    <3>2. /\ Len(queue') = Len(queue) + 1
          /\ \A i \in 1..Len(queue) : queue'[i] = queue[i]
          /\ queue'[Len(queue) + 1] = Sentinel
      BY <2>7, AppendProperties DEF Stop
    <3>3. OneOwner'
      BY <2>7, <3>2 DEF Stop, Ownership, OneOwner
    <3>4. \A p \in Procs : Stage(p)'
      BY <2>7 DEF Stop, storeVars, Ownership, Stage
    <3>. QED
      <4>1. \A i \in 1..Len(queue') : i \in 1..Len(queue) \/ queue'[i] = Sentinel
        BY <3>2
      <4>. QED
        BY <2>7, <3>2, <3>3, <3>4, <4>1 DEF Stop, storeVars, Ownership
  <2>8. CASE StopJoined \/ Restart
    BY <2>8 DEF StopJoined, Restart, storeVars, Ownership, OneOwner, Stage
  <2>9. ASSUME NEW t \in Threads, WorkerLoop(t) PROVE Ownership'
    <3>1. /\ UNCHANGED <<status, starts, job, queue>>
          /\ pc[t] = "loop" /\ pc'[t] \in {"get", "idle"}
          /\ \A q \in Procs \ {t} : pc'[q] = pc[q]
      BY <2>9 DEF WorkerLoop, storeVars
    <3>2. \A p \in Procs : Stage(p)'
      BY <3>1 DEF Ownership, Stage
    <3>. QED
      BY <3>1, <3>2, <2>s DEF Ownership
  <2>10. ASSUME NEW t \in Threads, WorkerGet(t) PROVE Ownership'
    <3>1. /\ Len(queue) > 0 /\ Len(queue') = Len(queue) - 1
          /\ \A i \in 1..Len(queue') : queue'[i] = queue[i + 1]
          /\ Head(queue) = queue[1]
      BY <2>10, HeadTailProperties, EmptySeq DEF WorkerGet
    <3>2. /\ UNCHANGED <<status, starts>>
          /\ \A q \in Procs \ {t} : pc'[q] = pc[q] /\ job'[q] = job[q]
          /\ pc[t] = "get" /\ job[t] = NoJob
          /\ \/ queue[1] = Sentinel /\ pc'[t] = "loop" /\ job'[t] = NoJob
             \/ queue[1] # Sentinel /\ pc'[t] = "run" /\ job'[t] = queue[1]
      BY <2>10, <3>1 DEF WorkerGet, storeVars
    <3>3. OneOwner'
      <4>1. /\ 1 \in 1..Len(queue)
            /\ \A i \in 1..Len(queue') : i + 1 \in 1..Len(queue) /\ i + 1 # 1
        BY <3>1
      <4>2. \A i \in 1..Len(queue) : queue[i] # NoJob
        OBVIOUS
      <4>3. OneOwner
        BY DEF Ownership
      <4>4. \A p, q \in Procs : job'[p] = job'[q] /\ job'[p] # NoJob => p = q
        BY <3>2, <4>1, <4>3 DEF OneOwner
      <4>5. \A i, k \in 1..Len(queue') :
              queue'[i] = queue'[k] /\ queue'[i] # Sentinel => i = k
        BY <3>1, <4>1, <4>3 DEF OneOwner
      <4>6. \A i \in 1..Len(queue'), p \in Procs : queue'[i] # job'[p]
        BY <3>1, <3>2, <4>1, <4>2, <4>3 DEF OneOwner
      <4>. QED
        BY <4>4, <4>5, <4>6 DEF OneOwner
    <3>4. \A p \in Procs : Stage(p)'
      BY <3>1, <3>2 DEF Ownership, Stage
    <3>5. \A i \in 1..Len(queue') : queue'[i] # Sentinel => status[queue'[i]] = "queued"
      <4>1. \A i \in 1..Len(queue') : i + 1 \in 1..Len(queue) /\ queue'[i] = queue[i + 1]
        BY <3>1
      <4>2. \A i \in 1..Len(queue) : queue[i] # Sentinel => status[queue[i]] = "queued"
        BY DEF Ownership
      <4>. QED
        BY <4>1, <4>2
    <3>6. \A p \in Pullers : pc'[p] = "idle"
      BY <3>2 DEF Ownership
    <3>. QED
      BY <2>0, <3>2, <3>3, <3>4, <3>5, <3>6 DEF Ownership
  <2>11. ASSUME NEW p \in Pullers, Puller(p) PROVE FALSE
    BY <2>11 DEF Puller, PullList, PullNext, Ownership
  <2>12. ASSUME NEW p \in Procs, RunRead(p) \/ RunExecutor(p) PROVE Ownership'
    <3>1. /\ UNCHANGED <<status, starts, job, queue, mode>>
          /\ \A q \in Procs \ {p} : pc'[q] = pc[q]
          /\ \/ pc[p] = "run" /\ pc'[p] \in {"mark", "fail"}
             \/ pc[p] = "exec" /\ pc'[p] \in {"succeed", "fail"}
      BY <2>12 DEF RunRead, RunExecutor, storeVars
    <3>2. \A q \in Procs : Stage(q)'
      BY <3>1 DEF Stage, Ownership
    <3>. QED
      BY <3>1, <3>2, <2>s DEF Ownership
  <2>13. ASSUME NEW p \in Procs, RunMark(p) PROVE Ownership'
    <3>1. OneOwner'
      BY <2>13 DEF RunMark, Commit, Ownership, OneOwner
    <3>2. \A q \in Procs : Stage(q)'
      BY <2>13 DEF RunMark, Commit, Ownership, OneOwner, Stage
    <3>. QED
      <4>1. job[p] \in Jobs /\ status[job[p]] = "queued" /\ p \notin Pullers
        BY <2>13 DEF RunMark, Ownership, Stage
      <4>2. /\ status' = [status EXCEPT ![job[p]] = "running"]
            /\ starts' = [starts EXCEPT ![job[p]] = @ + 1]
            /\ pc' = [pc EXCEPT ![p] = "exec"]
            /\ UNCHANGED <<queue, mode, job>>
        BY <2>13 DEF RunMark, Commit
      <4>3. \A i \in 1..Len(queue) : queue[i] # job[p]
        BY DEF Ownership, OneOwner
      <4>. QED
        BY <3>1, <3>2, <4>1, <4>2, <4>3 DEF Ownership
  <2>14. ASSUME NEW p \in Procs, RunSave(p) PROVE Ownership'
    <3>1. OneOwner'
      BY <2>14 DEF RunSave, Commit, Ownership, OneOwner
    <3>2. \A q \in Procs : Stage(q)'
      BY <2>14 DEF RunSave, Return, Commit, Ownership, OneOwner, Stage
    <3>. QED
      <4>1. job[p] \in Jobs /\ p \notin Pullers
        BY <2>14 DEF RunSave, Ownership
      <4>2. PICK s \in Terminal : status' = [status EXCEPT ![job[p]] = s]
        BY <2>14 DEF RunSave, Commit, Terminal
      <4>3. /\ \A q \in Pullers : pc'[q] = pc[q]
            /\ UNCHANGED <<queue, mode, starts>>
        BY <2>14, <4>1 DEF RunSave
      <4>4. \A i \in 1..Len(queue) : queue[i] # job[p]
        BY DEF Ownership, OneOwner
      <4>. QED
        BY <3>1, <3>2, <4>1, <4>2, <4>3, <4>4 DEF Ownership, Terminal
  <2>15. ASSUME NEW p \in Procs, ReadRaises(p) \/ StorageError(p) PROVE Ownership'
    BY <2>0, <2>15, UnwindOwnership DEF ReadRaises, StorageError
  <2>16. ASSUME NEW p \in Pullers, PullerCrash(p) PROVE Ownership'
    BY <2>0, <2>16, UnwindOwnership DEF PullerCrash
  <2>17. CASE Crash
    BY <2>0, <2>17, UnwindOwnership DEF Crash, Local
  <2>18. CASE UNCHANGED vars
    BY <2>18 DEF vars, storeVars, managerVars, Ownership, OneOwner, Stage
  <2>. QED
    BY <2>1, <2>2, <2>3, <2>4, <2>5, <2>6, <2>7, <2>8, <2>9, <2>10, <2>11, <2>12, <2>13,
       <2>14, <2>15, <2>16, <2>17, <2>18 DEF Next, Handler, Worker, RunJob
<1>. QED
  BY <1>1, <1>2, TypeCorrect, PTL DEF Spec

(* The executor of a job is called at most once in the in-process mode.    *)
THEOREM RunsAtMostOnce == Spec => []AtMostOnce
<1>1. Ownership => AtMostOnce
  BY DEF Ownership, AtMostOnce
<1>. QED
  BY <1>1, OneOwnerEach, PTL

(* Every step of the in-process manager moves at most one job, and along   *)
(* its lifecycle: the stored statuses implement JobLifecycle.              *)
THEOREM ImplementsLifecycle == Spec => Lifecycle
<1>1. Init => Promise!Init
  BY DEF Init, StoreInit, Promise!Init, InProcessStatus
<1>2. [Next]_vars /\ mode # "inprocess" => UNCHANGED InProcessStatus
  BY ModeFixed DEF InProcessStatus
<1>3. TypeOK /\ Ownership /\ [Next]_vars => [Promise!Next]_InProcessStatus
  <2>. SUFFICES ASSUME mode = "inprocess", TypeOK, Ownership, [Next]_vars, status' # status,
                       InProcessStatus = status, InProcessStatus' = status'
                PROVE  Promise!Next
    BY <1>2, ModeFixed DEF InProcessStatus
  <2>. USE DEF Promise!Accept, Promise!Claim, Promise!Refuse, Promise!Finish, Promise!Move,
               Promise!Terminal
  <2>0. ASSUME NEW p \in Procs, pc[p] \notin Jobless PROVE job[p] \in Jobs
    BY <2>0 DEF TypeOK
  <2>1. ASSUME NEW c \in Clients, SubmitSave(c) PROVE Promise!Next
    <3>1. job[c] \in Jobs /\ status[job[c]] = "absent"
      BY <2>0, <2>1, JobManagerAssumption DEF SubmitSave, Ownership, Stage, Jobless
    <3>2. Promise!Accept(job[c])
      BY <2>1, <3>1 DEF SubmitSave, Commit
    <3>. QED
      BY <3>1, <3>2 DEF Promise!Next
  <2>2. ASSUME NEW p \in Procs, RunMark(p) PROVE Promise!Next
    <3>1. job[p] \in Jobs /\ status[job[p]] = "queued"
      BY <2>0, <2>2 DEF RunMark, Ownership, Stage, Jobless
    <3>2. Promise!Claim(job[p])
      BY <2>2, <3>1 DEF RunMark, Commit
    <3>. QED
      BY <3>1, <3>2 DEF Promise!Next
  <2>3. ASSUME NEW p \in Procs, RunSave(p) PROVE Promise!Next
    <3>1. job[p] \in Jobs
      BY <2>0, <2>3 DEF RunSave, Jobless
    <3>2. \/ status[job[p]] = "running"
          \/ pc[p] = "fail" /\ status[job[p]] = "queued"
      BY <2>3 DEF RunSave, Ownership, Stage
    <3>3. status' = [status EXCEPT ![job[p]] =
                       IF pc[p] = "succeed" THEN "succeeded" ELSE "failed"]
      BY <2>3 DEF RunSave, Commit
    <3>4. Promise!Finish(job[p]) \/ Promise!Refuse(job[p])
      BY <3>2, <3>3
    <3>. QED
      BY <3>1, <3>4 DEF Promise!Next
  <2>. QED
    BY <2>1, <2>2, <2>3
       DEF Next, vars, storeVars, Handler, Worker, Puller, RunJob, BeginSave, BeginWrite,
           Submit, SubmitDispatch, SubmitPut, Start, Stop, StopJoined, WorkerLoop,
           WorkerGet, PullList, PullNext, RunRead, RunExecutor, ReadRaises, StorageError,
           Crash, Restart, PullerCrash, Unwind, Abandon
<1>. QED
  BY <1>1, <1>3, TypeCorrect, OneOwnerEach, PTL DEF Spec, Lifecycle, Promise!Spec

-----------------------------------------------------------------------------
(* A process that has a record's file open is saving that record.          *)
Writing == \A p \in Procs : open[p] # NoJob => pc[p] \in Saving /\ open[p] = job[p]

(* Of a job without a record nobody knows but the handler that saves it.   *)
Untouched(j) ==
  /\ file[j] # "mixed" /\ ~InQueue(j)
  /\ \A p \in Pullers : j \notin todo[p]
  /\ \A p \in Procs : Holds(p, j) => pc[p] = "save"
  /\ \A p, q \in Procs : Holds(p, j) /\ Holds(q, j) => p = q

AbsentUntouched == \A j \in Jobs : status[j] = "absent" => Untouched(j)
FirstSave == \A p \in Procs : pc[p] = "save" => status[job[p]] = "absent"

(* Without a failure the record of a job that no worker has marked yet is  *)
(* unreadable only while somebody writes it.                               *)
OpenWhileTorn ==
  faults = 0 =>
    \A j \in Jobs : status[j] \in {"absent", "queued"} /\ file[j] # "whole" =>
      \E p \in Procs : open[p] = j

RecordInv == Writing /\ AbsentUntouched /\ FirstSave /\ OpenWhileTorn /\ NoJobForgotten

(* The kinds of processes are apart, and the special values are special.   *)
LEMMA ProcessFacts ==
  /\ Procs = Clients \cup Threads \cup Pullers
  /\ Clients \cap Threads = {} /\ Clients \cap Pullers = {} /\ Threads \cap Pullers = {}
  /\ NoThread \notin Procs /\ NoJob \notin Jobs /\ Sentinel \notin Jobs /\ Sentinel # NoJob
BY JobStoreAssumption, JobManagerAssumption

Types ==
  /\ status \in [Jobs -> Status] /\ file \in [Jobs -> {"whole", "torn", "mixed"}]
  /\ open \in [Procs -> Jobs \cup {NoJob}]
  /\ job \in [Procs -> Jobs \cup {NoJob}] /\ pc \in [Procs -> PC]
  /\ \A p \in Procs : pc[p] \in Jobless <=> job[p] = NoJob
  /\ todo \in [Pullers -> SUBSET Jobs] /\ queue \in Seq(Jobs \cup {Sentinel})
  /\ starts \in [Jobs -> Nat] /\ faults \in Nat
  /\ mode \in {"inline", "inprocess", "external"}

(* They follow from the type invariant.                                    *)
LEMMA TypesHold == TypeOK => Types
BY JobManagerAssumption DEF TypeOK, StoreTypeOK, Types

-----------------------------------------------------------------------------
(* Steps that save no record.                                              *)
LEMMA SaveKeepsRecords ==
  ASSUME Types, RecordInv, NEW p \in Procs, BeginSave(p)
  PROVE  RecordInv'
<1>. USE ProcessFacts DEF Types, Saving, Jobless, PC
<1>0. /\ pc[p] \in Saving /\ job[p] \in Jobs /\ open[p] = NoJob
      /\ open' = [open EXCEPT ![p] = job[p]]
      /\ file' = [file EXCEPT ![job[p]] = IF OpenByOther(p, job[p]) THEN "mixed" ELSE "torn"]
      /\ UNCHANGED <<status, queue, pc, job, todo, mode, faults>>
  BY DEF BeginSave, BeginWrite, managerVars
<1>1. Writing'
  BY <1>0 DEF RecordInv, Writing
<1>2. AbsentUntouched'
  <2> SUFFICES ASSUME NEW j \in Jobs, status[j] = "absent" PROVE Untouched(j)'
    BY <1>0 DEF AbsentUntouched
  <2>1. Untouched(j)
    BY DEF RecordInv, AbsentUntouched
  <2>2. file'[j] # "mixed"
    BY <1>0, <2>1 DEF Untouched, OpenByOther, RecordInv, Writing, Holds
  <2>. QED
    BY <1>0, <2>1, <2>2 DEF Untouched, Holds, InQueue
<1>3. FirstSave'
  BY <1>0 DEF RecordInv, FirstSave
<1>4. OpenWhileTorn'
  BY <1>0 DEF RecordInv, OpenWhileTorn
<1>5. NoJobForgotten'
  BY <1>0 DEF RecordInv, NoJobForgotten, Holds, InQueue
<1>. QED
  BY <1>1, <1>2, <1>3, <1>4, <1>5 DEF RecordInv

(* Nobody comes to know of a job by a step that hands it to no one.        *)
LEMMA UntouchedStays ==
  ASSUME NEW k \in Jobs, Untouched(k), file'[k] # "mixed", InQueue(k)' => InQueue(k),
         \A p \in Pullers : k \in todo'[p] => k \in todo[p],
         \A p \in Procs : job'[p] = k => job[p] = k /\ pc'[p] = pc[p]
  PROVE  Untouched(k)'
<1>1. \A p \in Procs : Holds(p, k)' => Holds(p, k) /\ pc'[p] = pc[p]
  BY DEF Holds
<1>. QED
  BY <1>1 DEF Untouched

(* What a step that leaves the store alone may do to the processes: each   *)
(* keeps saving, or does not begin to, and a queued or running job changes *)
(* hands.                                                                  *)
LEMMA StoreIdleKeepsRecords ==
  ASSUME Types, RecordInv, UNCHANGED <<status, file, open, mode, faults>>,
         \A p \in Procs : open[p] # NoJob => pc'[p] = pc[p] /\ job'[p] = job[p],
         \A j \in Jobs : status[j] = "absent" => Untouched(j)',
         \A p \in Procs : pc'[p] = "save" => status[job'[p]] = "absent",
         \A p \in Procs : pc[p] \in {"exec", "succeed", "fail"} =>
           job'[p] = job[p] /\ pc'[p] \in {"exec", "succeed", "fail"},
         \A j \in Jobs : status[j] = "queued" /\ mode # "external" =>
           ((InQueue(j) \/ \E p \in Procs : Holds(p, j)) =>
              (InQueue(j)' \/ \E p \in Procs : Holds(p, j)'))
  PROVE  RecordInv'
<1>1. Writing'
  BY DEF Types, RecordInv, Writing
<1>2. AbsentUntouched' /\ FirstSave'
  BY DEF AbsentUntouched, FirstSave
<1>3. OpenWhileTorn'
  BY DEF RecordInv, OpenWhileTorn
<1>4. NoJobForgotten'
  BY DEF RecordInv, NoJobForgotten, Holds
<1>. QED
  BY <1>1, <1>2, <1>3, <1>4 DEF RecordInv

(* submit keeps the records, up to its first save,                         *)
LEMMA SubmitKeepsRecords ==
  ASSUME Types, RecordInv, NEW c \in Clients, NEW j \in Jobs, Submit(c, j)
  PROVE  RecordInv'
<1>. USE ProcessFacts DEF Types, Saving, Jobless, PC
<1>0. /\ pc[c] = "idle" /\ job[c] = NoJob /\ open[c] = NoJob
      /\ status[j] = "absent" /\ \A q \in Procs : job[q] # j
      /\ pc' = [pc EXCEPT ![c] = "save"] /\ job' = [job EXCEPT ![c] = j]
      /\ UNCHANGED <<status, file, open, queue, todo, mode, faults>>
  BY DEF Submit, storeVars, RecordInv, Writing
<1>1. \A k \in Jobs : status[k] = "absent" => Untouched(k)'
  BY <1>0 DEF RecordInv, AbsentUntouched, Untouched, Holds, InQueue
<1>2. \A p \in Procs : pc'[p] = "save" => status[job'[p]] = "absent"
  BY <1>0 DEF RecordInv, FirstSave
<1>. QED
  BY <1>0, <1>1, <1>2, StoreIdleKeepsRecords DEF Holds, InQueue

(* as it dispatches the job,                                               *)
LEMMA SubmitDispatchKeepsRecords ==
  ASSUME Types, RecordInv, NEW c \in Clients, SubmitDispatch(c)
  PROVE  RecordInv'
<1>. USE ProcessFacts DEF Types, Saving, Jobless, PC
<1>0. /\ pc[c] = "dispatch" /\ job[c] \in Jobs /\ open[c] = NoJob /\ status[job[c]] # "absent"
      /\ \E s \in {"run", "put", "idle"} : pc' = [pc EXCEPT ![c] = s]
      /\ \/ mode = "external" /\ job' = [job EXCEPT ![c] = NoJob]
         \/ job' = job
      /\ UNCHANGED <<status, file, open, queue, todo, mode, faults>>
  BY ZenonT(40) DEF SubmitDispatch, storeVars, RecordInv, Writing, AbsentUntouched, Untouched, Holds
<1>a. /\ \A q \in Procs \ {c} : pc'[q] = pc[q] /\ job'[q] = job[q]
      /\ pc'[c] \in {"run", "put", "idle"} /\ job'[c] \in {job[c], NoJob}
      /\ mode # "external" => job' = job
  <2>1. c \in Procs
    OBVIOUS
  <2>2. \A q \in Procs \ {c} : pc'[q] = pc[q] /\ job'[q] = job[q]
    BY <1>0, <2>1
  <2>3. pc'[c] \in {"run", "put", "idle"}
    BY <1>0, <2>1
  <2>4. job'[c] \in {job[c], NoJob}
    BY <1>0, <2>1
  <2>. QED
    BY <1>0, <2>2, <2>3, <2>4
<1>1. \A k \in Jobs : status[k] = "absent" => Untouched(k)'
  <2> SUFFICES ASSUME NEW k \in Jobs, status[k] = "absent" PROVE Untouched(k)'
    OBVIOUS
  <2>1. Untouched(k)
    BY DEF RecordInv, AbsentUntouched
  <2>2. job[c] # k
    BY <1>0
  <2>3. \A p \in Procs : job'[p] = k => job[p] = k /\ pc'[p] = pc[p]
    <3> TAKE p \in Procs
    <3>1. CASE p = c
      BY <1>a, <2>2, <3>1
    <3>2. CASE p # c
      BY <1>a, <3>2
    <3>. QED
      BY <3>1, <3>2
  <2>4. InQueue(k)' => InQueue(k)
    BY <1>0 DEF InQueue
  <2>. QED
    <3>1. file'[k] # "mixed"
      BY <1>0, <2>1 DEF Untouched
    <3>2. \A p \in Pullers : k \in todo'[p] => k \in todo[p]
      BY <1>0
    <3>. QED
      BY <2>1, <2>3, <2>4, <3>1, <3>2, UntouchedStays
<1>2. \A p \in Procs : pc'[p] = "save" => status[job'[p]] = "absent"
  BY <1>a, ZenonT(40) DEF RecordInv, FirstSave
<1>. QED
  BY <1>0, <1>a, <1>1, <1>2, StoreIdleKeepsRecords DEF Holds, InQueue

(* and as it puts the job into the queue.                                  *)
LEMMA SubmitPutKeepsRecords ==
  ASSUME Types, RecordInv, NEW c \in Clients, SubmitPut(c)
  PROVE  RecordInv'
<1>. USE ProcessFacts DEF Types, Saving, Jobless, PC
<1>0. /\ pc[c] = "put" /\ job[c] \in Jobs /\ open[c] = NoJob /\ status[job[c]] # "absent"
      /\ pc' = [pc EXCEPT ![c] = "idle"] /\ job' = [job EXCEPT ![c] = NoJob]
      /\ UNCHANGED <<status, file, open, todo, mode, faults>>
  BY ZenonT(40) DEF SubmitPut, storeVars, RecordInv, Writing, AbsentUntouched, Untouched, Holds
<1>1. /\ Len(queue') = Len(queue) + 1
      /\ \A i \in 1..Len(queue) : queue'[i] = queue[i]
      /\ queue'[Len(queue) + 1] = job[c]
  BY <1>0, AppendProperties DEF SubmitPut
<1>2. \A k : InQueue(k)' <=> InQueue(k) \/ k = job[c]
  <2>1. Len(queue) \in Nat
    OBVIOUS
  <2>2. \A i : i \in 1..Len(queue') <=> i \in 1..Len(queue) \/ i = Len(queue) + 1
    BY <1>1, <2>1
  <2>. QED
    BY <1>1, <2>2 DEF InQueue
<1>3. \A k \in Jobs : status[k] = "absent" => Untouched(k)'
  <2> SUFFICES ASSUME NEW k \in Jobs, status[k] = "absent" PROVE Untouched(k)'
    OBVIOUS
  <2>1. Untouched(k)
    BY DEF RecordInv, AbsentUntouched
  <2>. QED
    BY <1>0, <1>2, <2>1 DEF Untouched, Holds
<1>4. \A p \in Procs : pc'[p] = "save" => status[job'[p]] = "absent"
  BY <1>0 DEF RecordInv, FirstSave
<1>. QED
  BY <1>0, <1>2, <1>3, <1>4, StoreIdleKeepsRecords DEF Holds

(* A thread keeps them as it takes from the queue or ends,                 *)
LEMMA WorkerKeepsRecords ==
  ASSUME Types, RecordInv, NEW t \in Threads, Worker(t)
  PROVE  RecordInv'
<1>. USE ProcessFacts DEF Types, Saving, Jobless, PC
<1>1. CASE WorkerLoop(t)
  <2>0. /\ pc[t] = "loop" /\ job[t] = NoJob /\ open[t] = NoJob
        /\ \E s \in {"get", "idle"} : pc' = [pc EXCEPT ![t] = s]
        /\ UNCHANGED <<status, file, open, queue, job, todo, mode, faults>>
    BY <1>1 DEF WorkerLoop, storeVars, RecordInv, Writing
  <2>1. \A k \in Jobs : status[k] = "absent" => Untouched(k)'
    BY <2>0 DEF RecordInv, AbsentUntouched, Untouched, Holds, InQueue
  <2>2. \A p \in Procs : pc'[p] = "save" => status[job'[p]] = "absent"
    BY <2>0 DEF RecordInv, FirstSave
  <2>. QED
    BY <2>0, <2>1, <2>2, StoreIdleKeepsRecords DEF Holds, InQueue
<1>2. CASE WorkerGet(t)
  <2>0. /\ pc[t] = "get" /\ job[t] = NoJob /\ open[t] = NoJob
        /\ Len(queue) > 0 /\ Len(queue') = Len(queue) - 1
        /\ \A i \in 1..Len(queue') : queue'[i] = queue[i + 1]
        /\ Head(queue) = queue[1] /\ queue[1] \in Jobs \cup {Sentinel}
        /\ UNCHANGED <<status, file, open, todo, mode, faults>>
    BY <1>2, HeadTailProperties, EmptySeq DEF WorkerGet, storeVars, RecordInv, Writing
  <2>1. \/ queue[1] = Sentinel /\ pc' = [pc EXCEPT ![t] = "loop"] /\ job' = job
        \/ /\ queue[1] # Sentinel /\ pc' = [pc EXCEPT ![t] = "run"]
           /\ job' = [job EXCEPT ![t] = queue[1]]
    BY <1>2, <2>0 DEF WorkerGet
  <2>2. /\ \A k : InQueue(k)' => InQueue(k)
        /\ \A k : InQueue(k) => InQueue(k)' \/ k = queue[1]
        /\ InQueue(queue[1])
    <3>1. Len(queue) \in Nat
      OBVIOUS
    <3>2. /\ 1 \in 1..Len(queue)
          /\ \A i \in 1..Len(queue') : i + 1 \in 1..Len(queue)
          /\ \A i \in 1..Len(queue) : i = 1 \/ (i - 1 \in 1..Len(queue') /\ (i - 1) + 1 = i)
      BY <2>0, <3>1
    <3>3. \A k : InQueue(k)' => InQueue(k)
      BY <2>0, <3>2 DEF InQueue
    <3>4. InQueue(queue[1])
      BY <3>2 DEF InQueue
    <3>5. ASSUME NEW k, InQueue(k), k # queue[1] PROVE InQueue(k)'
      <4>1. PICK i \in 1..Len(queue) : queue[i] = k
        BY <3>5 DEF InQueue
      <4>2. i - 1 \in 1..Len(queue') /\ queue'[i - 1] = k
        BY <2>0, <3>2, <3>5, <4>1
      <4>. QED
        BY <4>2 DEF InQueue
    <3>. QED
      BY <3>3, <3>4, <3>5
  <2>3. queue[1] # Sentinel => status[queue[1]] # "absent"
    BY <2>0, <2>2 DEF RecordInv, AbsentUntouched, Untouched
  <2>a. /\ \A q \in Procs \ {t} : pc'[q] = pc[q] /\ job'[q] = job[q]
        /\ \/ queue[1] = Sentinel /\ pc'[t] = "loop" /\ job'[t] = NoJob
           \/ queue[1] \in Jobs /\ pc'[t] = "run" /\ job'[t] = queue[1]
    BY <2>0, <2>1
  <2>4. \A k \in Jobs : status[k] = "absent" => Untouched(k)'
    <3> SUFFICES ASSUME NEW k \in Jobs, status[k] = "absent" PROVE Untouched(k)'
      OBVIOUS
    <3>1. Untouched(k)
      BY DEF RecordInv, AbsentUntouched
    <3>2. k # queue[1]
      BY <2>2, <3>1 DEF Untouched
    <3>3. \A p \in Procs : job'[p] = k => job[p] = k /\ pc'[p] = pc[p]
      <4> TAKE p \in Procs
      <4>1. CASE p = t
        BY <2>a, <3>2, <4>1
      <4>2. CASE p # t
        BY <2>a, <4>2
      <4>. QED
        BY <4>1, <4>2
    <3>. QED
      <4>1. file'[k] # "mixed"
        BY <2>0, <3>1 DEF Untouched
      <4>2. \A p \in Pullers : k \in todo'[p] => k \in todo[p]
        BY <2>0
      <4>3. InQueue(k)' => InQueue(k)
        BY <2>2
      <4>4. \A p \in Procs : Holds(p, k)' => Holds(p, k) /\ pc'[p] = pc[p]
        BY <3>3 DEF Holds
      <4>. QED
        BY <3>1, <4>1, <4>2, <4>3, <4>4 DEF Untouched
  <2>5. \A p \in Procs : pc'[p] = "save" => status[job'[p]] = "absent"
    BY <2>a, SMTT(30) DEF RecordInv, FirstSave
  <2>6. \A k \in Jobs : InQueue(k) => InQueue(k)' \/ Holds(t, k)'
    BY <2>2, <2>a DEF Holds
  <2>7. \A k \in Jobs, p \in Procs : Holds(p, k) => Holds(p, k)'
    BY <2>0, <2>a DEF Holds
  <2>8. \A p \in Procs : pc[p] \in {"exec", "succeed", "fail"} \/ open[p] # NoJob => p # t
    BY <2>0
  <2>. QED
    BY <2>0, <2>a, <2>4, <2>5, <2>6, <2>7, <2>8, StoreIdleKeepsRecords
<1>. QED
  BY <1>1, <1>2 DEF Worker

(* a pull worker as it lists the jobs or goes on to the next,              *)
LEMMA PullerKeepsRecords ==
  ASSUME Types, RecordInv, NEW p \in Pullers, Puller(p)
  PROVE  RecordInv'
<1>. USE ProcessFacts DEF Types, Saving, Jobless, PC
<1>0. /\ pc[p] \in {"idle", "next"} /\ job[p] = NoJob /\ open[p] = NoJob
      /\ UNCHANGED <<status, file, open, queue, mode, faults>>
      /\ \A q \in Procs \ {p} : pc'[q] = pc[q] /\ job'[q] = job[q]
      /\ \A q \in Pullers \ {p} : todo'[q] = todo[q]
  BY DEF Puller, PullList, PullNext, storeVars, RecordInv, Writing
<1>1. /\ pc'[p] \in {"idle", "next", "run"} /\ job'[p] \in Jobs \cup {NoJob}
      /\ \A k \in Jobs : status[k] = "absent" => k \notin todo'[p] /\ job'[p] # k
  <2>1. \A k \in Jobs : status[k] = "absent" => k \notin todo[p]
    BY DEF RecordInv, AbsentUntouched, Untouched
  <2>2. CASE PullList(p)
    <3>1. PICK batch \in SUBSET Queued : todo' = [todo EXCEPT ![p] = batch]
      BY <2>2 DEF PullList
    <3>2. todo'[p] = batch /\ pc'[p] = "next" /\ job' = job
      BY <2>2, <3>1 DEF PullList
    <3>. QED
      BY <1>0, <3>2 DEF Queued
  <2>3. CASE PullNext(p)
    <3>1. CASE todo[p] = {}
      BY <1>0, <2>1, <2>3, <3>1 DEF PullNext
    <3>2. CASE todo[p] # {}
      <4>1. PICK j \in todo[p] : /\ pc' = [pc EXCEPT ![p] = "run"]
                                /\ job' = [job EXCEPT ![p] = j]
                                /\ todo' = [todo EXCEPT ![p] = @ \ {j}]
        BY <2>3, <3>2 DEF PullNext
      <4>2. pc'[p] = "run" /\ job'[p] = j /\ todo'[p] = todo[p] \ {j} /\ j \in Jobs
        BY <4>1
      <4>. QED
        BY <2>1, <4>2
    <3>. QED
      BY <3>1, <3>2
  <2>. QED
    BY <2>2, <2>3 DEF Puller
<1>2. \A k \in Jobs : status[k] = "absent" => Untouched(k)'
  <2> SUFFICES ASSUME NEW k \in Jobs, status[k] = "absent" PROVE Untouched(k)'
    OBVIOUS
  <2>1. Untouched(k)
    BY DEF RecordInv, AbsentUntouched
  <2>2. file'[k] # "mixed" /\ (InQueue(k)' => InQueue(k))
    BY <1>0, <2>1 DEF Untouched, InQueue
  <2>3. \A q \in Pullers : k \in todo'[q] => k \in todo[q]
    BY <1>0, <1>1
  <2>4. \A q \in Procs : job'[q] = k => job[q] = k /\ pc'[q] = pc[q]
    BY <1>0, <1>1
  <2>. QED
    BY <2>1, <2>2, <2>3, <2>4, UntouchedStays
<1>3. \A q \in Procs : pc'[q] = "save" => status[job'[q]] = "absent"
  <2> SUFFICES ASSUME NEW q \in Procs, pc'[q] = "save" PROVE status'[job'[q]] = "absent"
    BY <1>0
  <2>1. q # p
    BY <1>1
  <2>. QED
    BY <1>0, <2>1 DEF RecordInv, FirstSave
<1>4. \A k \in Jobs, q \in Procs : Holds(q, k) => Holds(q, k)'
  BY <1>0, SMTT(30) DEF Holds
<1>5. \A k \in Jobs : InQueue(k) => InQueue(k)'
  BY <1>0 DEF InQueue
<1>6. \A q \in Procs : pc[q] \in {"exec", "succeed", "fail"} \/ open[q] # NoJob => q # p
  BY <1>0
<1>. QED
  BY <1>0, <1>2, <1>3, <1>4, <1>5, <1>6, StoreIdleKeepsRecords

(* the run of a job as it reads the record or executes,                    *)
LEMMA RunningKeepsRecords ==
  ASSUME Types, RecordInv, NEW p \in Procs, RunRead(p) \/ RunExecutor(p)
  PROVE  RecordInv'
<1>. USE ProcessFacts DEF Types, Saving, Jobless, PC
<1>0. /\ pc[p] \in {"run", "exec"} /\ job[p] \in Jobs /\ open[p] = NoJob
      /\ pc[p] = "exec" => pc'[p] \in {"succeed", "fail"}
      /\ pc'[p] \in {"mark", "succeed", "fail"}
      /\ \A q \in Procs \ {p} : pc'[q] = pc[q]
      /\ UNCHANGED <<status, file, open, queue, job, todo, mode, faults>>
  BY DEF RunRead, RunExecutor, storeVars, RecordInv, Writing
<1>1. status[job[p]] # "absent"
  BY <1>0 DEF RecordInv, AbsentUntouched, Untouched, Holds
<1>2. \A k \in Jobs : status[k] = "absent" => Untouched(k)'
  <2> SUFFICES ASSUME NEW k \in Jobs, status[k] = "absent" PROVE Untouched(k)'
    OBVIOUS
  <2>1. Untouched(k)
    BY DEF RecordInv, AbsentUntouched
  <2>2. file'[k] # "mixed" /\ (InQueue(k)' => InQueue(k))
    BY <1>0, <2>1 DEF Untouched, InQueue
  <2>3. \A q \in Procs : job'[q] = k => job[q] = k /\ pc'[q] = pc[q]
    BY <1>0, <1>1
  <2>. QED
    BY <1>0, <2>1, <2>2, <2>3, UntouchedStays
<1>3. \A q \in Procs : pc'[q] = "save" => status[job'[q]] = "absent"
  BY <1>0 DEF RecordInv, FirstSave
<1>4. \A k \in Jobs, q \in Procs : Holds(q, k) => Holds(q, k)'
  BY <1>0 DEF Holds
<1>5. \A k \in Jobs : InQueue(k) => InQueue(k)'
  BY <1>0 DEF InQueue
<1>6. /\ \A q \in Procs : open[q] # NoJob => pc'[q] = pc[q] /\ job'[q] = job[q]
      /\ \A q \in Procs : pc[q] \in {"exec", "succeed", "fail"} =>
           job'[q] = job[q] /\ pc'[q] \in {"exec", "succeed", "fail"}
  BY <1>0
<1>. QED
  BY <1>0, <1>2, <1>3, <1>4, <1>5, <1>6, StoreIdleKeepsRecords

(* and the manager as it starts, stops or is started anew.                 *)
LEMMA LifespanKeepsRecords ==
  ASSUME Types, RecordInv, Start \/ Stop \/ StopJoined \/ Restart
  PROVE  RecordInv'
<1>. USE ProcessFacts DEF Types, Saving, Jobless, PC
<1>0. UNCHANGED <<status, file, open, job, todo, mode, faults>>
  BY DEF Start, Stop, StopJoined, Restart, storeVars
<1>1. \A q \in Procs : pc'[q] = pc[q] \/ (pc[q] = "idle" /\ pc'[q] = "loop")
  <2>1. CASE Start
    <3>1. PICK t \in Threads : pc[t] = "idle" /\ pc' = [pc EXCEPT ![t] = "loop"]
      BY <2>1 DEF Start
    <3>. QED
      BY <3>1
  <2>2. CASE pc' = pc
    BY <2>2
  <2>. QED
    BY <2>1, <2>2 DEF Stop, StopJoined, Restart
<1>2. \A k \in Jobs : InQueue(k)' <=> InQueue(k)
  <2>1. CASE Stop
    <3>1. /\ Len(queue') = Len(queue) + 1
          /\ \A i \in 1..Len(queue) : queue'[i] = queue[i]
          /\ queue'[Len(queue) + 1] = Sentinel
      BY <2>1, AppendProperties DEF Stop
    <3>2. Len(queue) \in Nat
      OBVIOUS
    <3>3. \A i : i \in 1..Len(queue') <=> i \in 1..Len(queue) \/ i = Len(queue) + 1
      BY <3>1, <3>2
    <3>. QED
      BY <3>1, <3>3 DEF InQueue
  <2>2. CASE queue' = queue
    BY <2>2 DEF InQueue
  <2>. QED
    BY <2>1, <2>2 DEF Start, StopJoined, Restart
<1>3. \A k \in Jobs : status[k] = "absent" => Untouched(k)'
  BY <1>0, <1>1, <1>2 DEF RecordInv, AbsentUntouched, Untouched, Holds
<1>4. \A q \in Procs : pc'[q] = "save" => status[job'[q]] = "absent"
  BY <1>0, <1>1 DEF RecordInv, FirstSave
<1>5. \A k \in Jobs, q \in Procs : Holds(q, k) => Holds(q, k)'
  BY <1>0 DEF Holds
<1>6. /\ \A q \in Procs : open[q] # NoJob => pc'[q] = pc[q] /\ job'[q] = job[q]
      /\ \A q \in Procs : pc[q] \in {"exec", "succeed", "fail"} =>
           job'[q] = job[q] /\ pc'[q] \in {"exec", "succeed", "fail"}
  BY <1>0, <1>1 DEF RecordInv, Writing
<1>. QED
  BY <1>0, <1>2, <1>3, <1>4, <1>5, <1>6, StoreIdleKeepsRecords

-----------------------------------------------------------------------------
(* Steps that complete a record: from then on the job is either accepted   *)
(* and in the hands of its saver, or marked and about to be executed, or   *)
(* done with.                                                              *)
LEMMA CommitKeepsRecords ==
  ASSUME Types, RecordInv, NEW p \in Procs, NEW s \in Status \ {"absent"},
         pc[p] \in Saving, Commit(p, job[p], s), UNCHANGED <<queue, todo, mode, faults>>,
         \A q \in Procs \ {p} : pc'[q] = pc[q] /\ job'[q] = job[q],
         pc'[p] # "save", job'[p] \in {job[p], NoJob},
         s = "queued" => pc[p] = "save" /\ job'[p] = job[p],
         s = "running" => pc'[p] = "exec" /\ job'[p] = job[p]
  PROVE  RecordInv'
<1>. USE ProcessFacts DEF Types, Saving, Jobless, PC
<1> DEFINE j == job[p]
<1>0. /\ j \in Jobs /\ status'[j] = s /\ file'[j] \in {file[j], "whole"}
      /\ file[j] # "mixed" => file'[j] = "whole"
      /\ \A k \in Jobs \ {j} : status'[k] = status[k] /\ file'[k] = file[k]
      /\ open'[p] = NoJob /\ \A q \in Procs \ {p} : open'[q] = open[q]
      /\ open[p] \in {j, NoJob}
  BY ZenonT(40) DEF Commit, RecordInv, Writing
<1>1. \A q \in Procs \ {p} : job[q] = j => pc[q] # "save"
  <2> SUFFICES ASSUME NEW q \in Procs \ {p}, job[q] = j, pc[q] = "save" PROVE FALSE
    OBVIOUS
  <2>1. status[j] = "absent"
    BY DEF RecordInv, FirstSave
  <2>2. Untouched(j)
    BY <1>0, <2>1 DEF RecordInv, AbsentUntouched
  <2>. QED
    BY <2>2 DEF Untouched, Holds
<1>2. Writing'
  BY <1>0 DEF RecordInv, Writing
<1>3. AbsentUntouched'
  <2> SUFFICES ASSUME NEW k \in Jobs, status'[k] = "absent" PROVE Untouched(k)'
    BY DEF AbsentUntouched
  <2>0. k # j /\ status[k] = "absent"
    BY <1>0
  <2>1. Untouched(k)
    BY <2>0 DEF RecordInv, AbsentUntouched
  <2>2. file'[k] # "mixed" /\ (InQueue(k)' => InQueue(k))
    BY <1>0, <2>0, <2>1 DEF Untouched, InQueue
  <2>3. \A q \in Procs : job'[q] = k => job[q] = k /\ pc'[q] = pc[q]
    BY <1>0, <2>0
  <2>. QED
    BY <2>1, <2>2, <2>3, UntouchedStays
<1>4. FirstSave'
  <2> SUFFICES ASSUME NEW q \in Procs, pc'[q] = "save" PROVE status'[job'[q]] = "absent"
    BY DEF FirstSave
  <2>1. q # p /\ pc[q] = "save" /\ job'[q] = job[q] /\ job[q] \in Jobs
    OBVIOUS
  <2>2. status[job[q]] = "absent" /\ job[q] # j
    BY <1>1, <2>1 DEF RecordInv, FirstSave
  <2>. QED
    BY <1>0, <2>1, <2>2
<1>5. OpenWhileTorn'
  <2> SUFFICES ASSUME faults = 0, NEW k \in Jobs, status'[k] \in {"absent", "queued"},
                      file'[k] # "whole"
               PROVE  \E q \in Procs : open'[q] = k
    BY DEF OpenWhileTorn
  <2>1. CASE k = j
    <3>1. status[j] = "absent"
      BY <1>0, <2>1 DEF RecordInv, FirstSave
    <3>2. file[j] # "mixed"
      BY <1>0, <3>1 DEF RecordInv, AbsentUntouched, Untouched
    <3>. QED
      BY <1>0, <2>1, <3>2
  <2>2. CASE k # j
    <3>1. PICK q \in Procs : open[q] = k
      BY <1>0, <2>2 DEF RecordInv, OpenWhileTorn
    <3>2. q # p
      BY <1>0, <2>2, <3>1
    <3>. QED
      BY <1>0, <3>1, <3>2
  <2>. QED
    BY <2>1, <2>2
<1>6. NoJobForgotten'
  <2> SUFFICES ASSUME faults = 0, NEW k \in Jobs
               PROVE  /\ status'[k] = "running" =>
                           \E q \in Procs : Holds(q, k)' /\ pc'[q] \in {"exec", "succeed", "fail"}
                      /\ status'[k] = "queued" /\ mode # "external" =>
                           InQueue(k)' \/ \E q \in Procs : Holds(q, k)'
    BY DEF NoJobForgotten
  <2>1. CASE k = j
    BY <1>0, <2>1 DEF Holds
  <2>2. CASE k # j
    <3>1. \A q \in Procs : Holds(q, k) => Holds(q, k)' /\ pc'[q] = pc[q]
      BY <2>2 DEF Holds
    <3>2. InQueue(k) => InQueue(k)'
      BY DEF InQueue
    <3>3. status'[k] = status[k]
      BY <1>0, <2>2
    <3>4. CASE status[k] = "running"
      BY <3>1, <3>3, <3>4 DEF RecordInv, NoJobForgotten
    <3>5. CASE status[k] = "queued"
      BY <3>1, <3>2, <3>3, <3>5 DEF RecordInv, NoJobForgotten
    <3>. QED
      BY <3>3, <3>4, <3>5
  <2>. QED
    BY <2>1, <2>2
<1>. QED
  BY <1>2, <1>3, <1>4, <1>5, <1>6 DEF RecordInv

(* The steps that commit a save keep them too.                             *)
LEMMA SavingKeepsRecords ==
  ASSUME Types, RecordInv, NEW p \in Procs,
         (p \in Clients /\ SubmitSave(p)) \/ RunMark(p) \/ RunSave(p)
  PROVE  RecordInv'
<1>. USE ProcessFacts DEF Types, Saving, Jobless, PC
<1>s. {"queued", "running", "succeeded", "failed"} \subseteq Status \ {"absent"}
  BY DEF Status, Terminal
<1>1. CASE SubmitSave(p)
  <2>1. \A q \in Procs \ {p} : pc'[q] = pc[q] /\ job'[q] = job[q]
    BY <1>1 DEF SubmitSave
  <2>2. pc[p] \in Saving /\ pc'[p] = "dispatch" /\ job'[p] = job[p] /\ pc[p] = "save"
    BY <1>1 DEF SubmitSave
  <2>. QED
    BY <1>1, <1>s, <2>1, <2>2, CommitKeepsRecords DEF SubmitSave
<1>2. CASE RunMark(p)
  <2>1. \A q \in Procs \ {p} : pc'[q] = pc[q] /\ job'[q] = job[q]
    BY <1>2 DEF RunMark
  <2>2. pc[p] \in Saving /\ pc'[p] = "exec" /\ job'[p] = job[p]
    BY <1>2 DEF RunMark
  <2>. QED
    BY <1>2, <1>s, <2>1, <2>2, CommitKeepsRecords DEF RunMark
<1>3. CASE RunSave(p)
  <2>1. Return(p) # "save"
    BY DEF Return
  <2>2. \A q \in Procs \ {p} : pc'[q] = pc[q] /\ job'[q] = job[q]
    BY <1>3 DEF RunSave
  <2>3. pc[p] \in Saving /\ pc'[p] = Return(p) /\ job'[p] = NoJob
    BY <1>3 DEF RunSave
  <2>4. PICK s \in {"succeeded", "failed"} : Commit(p, job[p], s)
    BY <1>3 DEF RunSave
  <2>. QED
    BY <1>3, <1>s, <2>1, <2>2, <2>3, <2>4, CommitKeepsRecords DEF RunSave
<1>. QED
  BY <1>1, <1>2, <1>3

-----------------------------------------------------------------------------
(* Steps by which processes give up: without a failure that is only a read *)
(* of a record somebody is writing.                                        *)
LEMMA UnwindKeepsRecords ==
  ASSUME Types, RecordInv, NEW P \in SUBSET Procs, Unwind(P), queue' \in {queue, <<>>},
         mode' = mode,
         \/ faults' > 0
         \/ /\ UNCHANGED <<queue, faults>>
            /\ \E p \in Procs : P = {p} /\ pc[p] = "run" /\ file[job[p]] # "whole"
  PROVE  RecordInv'
<1>. USE ProcessFacts DEF Types, Saving, Jobless, PC
<1>0. /\ UNCHANGED <<status, file>>
      /\ \A q \in Procs : IF q \in P
                            THEN open'[q] = NoJob /\ job'[q] = NoJob /\ pc'[q] = "idle"
                            ELSE open'[q] = open[q] /\ job'[q] = job[q] /\ pc'[q] = pc[q]
      /\ \A q \in Pullers : todo'[q] = IF q \in P THEN {} ELSE todo[q]
  BY DEF Unwind, Abandon
<1>1. \A k : InQueue(k)' => InQueue(k)
  BY DEF InQueue
<1>2. Writing'
  BY <1>0 DEF RecordInv, Writing
<1>3. AbsentUntouched'
  <2> SUFFICES ASSUME NEW k \in Jobs, status[k] = "absent" PROVE Untouched(k)'
    BY <1>0 DEF AbsentUntouched
  <2>1. Untouched(k)
    BY DEF RecordInv, AbsentUntouched
  <2>2. file'[k] # "mixed"
    BY <1>0, <2>1 DEF Untouched
  <2>3. \A q \in Procs : job'[q] = k => job[q] = k /\ pc'[q] = pc[q]
    BY <1>0
  <2>4. \A q \in Pullers : k \in todo'[q] => k \in todo[q]
    BY <1>0
  <2>. QED
    BY <1>1, <2>1, <2>2, <2>3, <2>4, UntouchedStays
<1>4. FirstSave'
  BY <1>0 DEF RecordInv, FirstSave
<1>5. CASE faults' > 0
  BY <1>2, <1>3, <1>4, <1>5 DEF RecordInv, OpenWhileTorn, NoJobForgotten
<1>6. ASSUME UNCHANGED <<queue, faults>>, NEW p \in Procs,
             P = {p}, pc[p] = "run", file[job[p]] # "whole"
      PROVE  RecordInv'
  <2>1. open[p] = NoJob
    BY <1>6 DEF RecordInv, Writing
  <2>2. OpenWhileTorn'
    <3>1. \A q \in Procs, k \in Jobs : open[q] = k => open'[q] = k
      BY <1>0, <1>6, <2>1
    <3>. QED
      BY <1>0, <1>6, <3>1 DEF RecordInv, OpenWhileTorn
  <2>3. NoJobForgotten'
    <3> SUFFICES ASSUME faults = 0, NEW k \in Jobs
                 PROVE  /\ status[k] = "running" =>
                             \E q \in Procs : Holds(q, k)' /\ pc'[q] \in {"exec", "succeed", "fail"}
                        /\ status[k] = "queued" /\ mode # "external" =>
                             InQueue(k)' \/ \E q \in Procs : Holds(q, k)'
      BY <1>0, <1>6 DEF NoJobForgotten
    <3>1. \A q \in Procs \ {p} : Holds(q, k) => Holds(q, k)' /\ pc'[q] = pc[q]
      BY <1>0, <1>6 DEF Holds
    <3>2. InQueue(k) => InQueue(k)'
      BY <1>6 DEF InQueue
    <3>3. CASE status[k] = "running"
      <4>1. PICK q \in Procs : Holds(q, k) /\ pc[q] \in {"exec", "succeed", "fail"}
        BY <3>3 DEF RecordInv, NoJobForgotten
      <4>. QED
        BY <1>6, <3>1, <3>3, <4>1
    <3>4. CASE status[k] = "queued" /\ Holds(p, k)
      <4>1. PICK q \in Procs : open[q] = k
        BY <1>6, <3>4 DEF RecordInv, OpenWhileTorn, Holds
      <4>2. Holds(q, k) /\ q # p
        BY <2>1, <4>1 DEF RecordInv, Writing, Holds
      <4>. QED
        BY <3>1, <3>4, <4>2
    <3>5. CASE status[k] = "queued" /\ ~Holds(p, k)
      <4> SUFFICES ASSUME mode # "external" PROVE InQueue(k)' \/ \E q \in Procs : Holds(q, k)'
        BY <1>0, <3>5
      <4>1. InQueue(k) \/ \E q \in Procs : Holds(q, k)
        BY <3>5 DEF RecordInv, NoJobForgotten
      <4>. QED
        BY <3>1, <3>2, <3>5, <4>1
    <3>. QED
      BY <3>3, <3>4, <3>5
  <2>. QED
    BY <1>2, <1>3, <1>4, <2>2, <2>3 DEF RecordInv
<1>. QED
  BY <1>5, <1>6

(* Every step keeps the records.                                           *)
LEMMA RecordStep == TypeOK /\ RecordInv /\ [Next]_vars => RecordInv'
<1> SUFFICES ASSUME Types, RecordInv, [Next]_vars PROVE RecordInv'
  BY TypesHold
<1>. USE ProcessFacts
<1>1. CASE UNCHANGED vars
  BY <1>1 DEF vars, storeVars, managerVars, RecordInv, Writing, AbsentUntouched, Untouched,
              FirstSave, OpenWhileTorn, NoJobForgotten, Holds, InQueue
<1>2. ASSUME NEW c \in Clients, Handler(c) PROVE RecordInv'
  BY <1>2, SavingKeepsRecords, SubmitDispatchKeepsRecords, SubmitPutKeepsRecords DEF Handler
<1>3. ASSUME NEW p \in Procs, ReadRaises(p) \/ StorageError(p) PROVE RecordInv'
  <2>1. {p} \in SUBSET Procs
    OBVIOUS
  <2>2. CASE ReadRaises(p)
    BY <2>1, <2>2, UnwindKeepsRecords DEF ReadRaises, CanFailToRead
  <2>3. CASE StorageError(p)
    <3>1. faults' > 0
      BY <2>3 DEF StorageError, Types
    <3>. QED
      BY <2>1, <2>3, <3>1, UnwindKeepsRecords DEF StorageError
  <2>. QED
    BY <1>3, <2>2, <2>3
<1>4. ASSUME NEW p \in Pullers, PullerCrash(p) PROVE RecordInv'
  BY <1>4, UnwindKeepsRecords DEF PullerCrash, Types
<1>5. CASE Crash
  BY <1>5, UnwindKeepsRecords DEF Crash, Local, Types
<1>. QED
  BY <1>1, <1>2, <1>3, <1>4, <1>5, SaveKeepsRecords, SubmitKeepsRecords, WorkerKeepsRecords,
     PullerKeepsRecords, RunningKeepsRecords, LifespanKeepsRecords, SavingKeepsRecords
     DEF Next, RunJob

(* The records are so at the start.                                        *)
LEMMA RecordInit == Init => RecordInv
BY ProcessFacts DEF Init, StoreInit, RecordInv, Writing, AbsentUntouched, Untouched,
                    FirstSave, OpenWhileTorn, NoJobForgotten, Holds, InQueue

(* Without a crash or a storage error, a record that says "running" is in  *)
(* the hands of a process that executes it, and one that says "queued" is  *)
(* in the queue, in somebody's hands or left to the pull workers: no       *)
(* schedule of api/jobs.py loses a job, in any worker mode.                *)
THEOREM NoJobIsForgotten == Spec => []NoJobForgotten
<1>1. Init => RecordInv
  BY RecordInit
<1>2. RecordInv => NoJobForgotten
  BY DEF RecordInv
<1>. QED
  BY <1>1, <1>2, RecordStep, TypeCorrect, PTL DEF Spec

-----------------------------------------------------------------------------
(* In-process a job has one writer at a time, so no text is mixed, and a   *)
(* record is emptied by a write that is still open.                        *)
Written(j) ==
  /\ file[j] # "mixed"
  /\ file[j] = "torn" => \E p \in Procs : open[p] = j

Readable == mode = "inprocess" /\ faults = 0 => \A j \in Jobs : Written(j)

(* Without faults every step leaves the records readable.                  *)
LEMMA ReadableStep ==
  TypeOK /\ RecordInv /\ Ownership /\ Readable /\ [Next]_vars => Readable'
<1> SUFFICES ASSUME Types, RecordInv, Ownership, Readable, [Next]_vars,
                    mode = "inprocess", faults' = 0
             PROVE  \A j \in Jobs : Written(j)'
  BY TypesHold, ModeFixed DEF Readable
<1>. USE ProcessFacts DEF Types, Saving, Jobless, PC
<1>1. ASSUME UNCHANGED <<file, faults>>, \A p \in Procs : open[p] # NoJob => open'[p] = open[p]
      PROVE  \A j \in Jobs : Written(j)'
  <2> SUFFICES ASSUME NEW j \in Jobs PROVE Written(j)'
    OBVIOUS
  <2>1. Written(j)
    BY <1>1 DEF Readable
  <2>2. \A p \in Procs : open[p] = j => open'[p] = j
    BY <1>1
  <2>. QED
    BY <1>1, <2>1, <2>2 DEF Written
<1>2. ASSUME NEW p \in Procs, BeginSave(p)
      PROVE  \A j \in Jobs : Written(j)'
  <2>0. /\ job[p] \in Jobs /\ open[p] = NoJob /\ faults = 0
        /\ open' = [open EXCEPT ![p] = job[p]]
        /\ file' = [file EXCEPT ![job[p]] = IF OpenByOther(p, job[p]) THEN "mixed" ELSE "torn"]
    BY <1>2 DEF BeginSave, BeginWrite, managerVars
  <2>1. ~OpenByOther(p, job[p])
    BY <2>0 DEF OpenByOther, RecordInv, Writing, Ownership, OneOwner
  <2>2. \A q \in Procs : open[q] # NoJob => open'[q] = open[q]
    BY <2>0
  <2>3. open'[p] = job[p] /\ file'[job[p]] = "torn"
    BY <2>0, <2>1
  <2>4. \A j \in Jobs \ {job[p]} : file'[j] = file[j]
    BY <2>0
  <2> SUFFICES ASSUME NEW j \in Jobs
               PROVE  Written(j)'
    OBVIOUS
  <2>5. CASE j = job[p]
    BY <2>3, <2>5 DEF Written
  <2>6. CASE j # job[p]
    BY <2>0, <2>2, <2>4, <2>6 DEF Readable, Written
  <2>. QED
    BY <2>5, <2>6
<1>3. ASSUME NEW p \in Procs, SubmitSave(p) \/ RunMark(p) \/ RunSave(p)
      PROVE  \A j \in Jobs : Written(j)'
  <2>1. faults = 0 /\ pc[p] \in Saving /\ job[p] \in Jobs
    BY <1>3 DEF SubmitSave, RunMark, RunSave
  <2>2. PICK s \in Status : Commit(p, job[p], s)
    BY <1>3 DEF SubmitSave, RunMark, RunSave, Status, Terminal
  <2>3. file[job[p]] # "mixed"
    BY <2>1 DEF Readable, Written
  <2>4. file'[job[p]] = "whole" /\ \A j \in Jobs \ {job[p]} : file'[j] = file[j]
    BY <2>1, <2>2, <2>3 DEF Commit
  <2>5. \A q \in Procs \ {p} : open'[q] = open[q]
    BY <2>2 DEF Commit
  <2>6. open[p] \in {job[p], NoJob}
    BY DEF RecordInv, Writing
  <2> SUFFICES ASSUME NEW j \in Jobs, j # job[p]
               PROVE  Written(j)'
    BY <2>4 DEF Written
  <2>7. \A q \in Procs : open[q] = j => open'[q] = j
    BY <2>5, <2>6
  <2>8. Written(j)
    BY <2>1 DEF Readable
  <2>. QED
    BY <2>4, <2>7, <2>8 DEF Written
<1>4. ASSUME NEW p \in Procs, ReadRaises(p)
      PROVE  UNCHANGED <<file, faults>> /\ \A q \in Procs : open[q] # NoJob => open'[q] = open[q]
  BY <1>4 DEF ReadRaises, Unwind, Abandon, RecordInv, Writing
<1>5. ASSUME NEW p \in Procs, StorageError(p) \/ PullerCrash(p) \/ Crash PROVE FALSE
  BY <1>5 DEF StorageError, PullerCrash, Crash
<1>9. \/ UNCHANGED <<file, open, faults>>
      \/ \E p \in Procs : \/ BeginSave(p) \/ RunMark(p) \/ RunSave(p) \/ ReadRaises(p)
                          \/ StorageError(p) \/ PullerCrash(p)
      \/ \E c \in Clients : SubmitSave(c)
      \/ Crash
  BY DEF Next, vars, storeVars, managerVars, Handler, Worker, Puller, RunJob, Submit,
         SubmitDispatch, SubmitPut, Start, Stop, StopJoined, WorkerLoop, WorkerGet, PullList,
         PullNext, RunRead, RunExecutor, Restart
<1>10. CASE Crash
  BY <1>10 DEF Crash, Types
<1>. QED
  BY <1>1, <1>2, <1>3, <1>4, <1>5, <1>9, <1>10

(* In-process and without a crash or a storage error, a job.json cannot be *)
(* parsed only while a write of it is open: the window util/io.py's        *)
(* write_json leaves a reader is never left behind by a writer.            *)
THEOREM UnreadableIsWritten == Spec => []UnreadableOnlyWhileWritten
<1>1. Init => RecordInv /\ Readable
  BY RecordInit DEF Init, StoreInit, Readable, Written
<1>2. TypeOK /\ Readable => UnreadableOnlyWhileWritten
  BY TypesHold DEF Types, Readable, Written, UnreadableOnlyWhileWritten
<1>. QED
  BY <1>1, <1>2, RecordStep, ReadableStep, TypeCorrect, OneOwnerEach, PTL DEF Spec

-----------------------------------------------------------------------------
(* Worker threads: those the manager has forgotten are no more than the    *)
(* joins that gave up.                                                     *)
Busy == {t \in Threads : pc[t] # "idle"}
ThreadInv == IsFiniteSet(Busy) /\ Cardinality(Busy \ {thread}) <= timeouts

(* A set is larger by one than without one of its members.                 *)
LEMMA WithoutOne ==
  ASSUME NEW S, NEW x, IsFiniteSet(S)
  PROVE  /\ IsFiniteSet(S \ {x}) /\ Cardinality(S) \in Nat /\ Cardinality(S \ {x}) \in Nat
         /\ Cardinality(S) = Cardinality(S \ {x}) + (IF x \in S THEN 1 ELSE 0)
<1>1. IsFiniteSet(S \ {x}) /\ Cardinality(S \ {x}) =
         IF x \in S THEN Cardinality(S) - 1 ELSE Cardinality(S)
  BY FS_RemoveElement
<1>2. Cardinality(S) \in Nat
  BY FS_CardinalityType
<1>3. Cardinality(S \ {x}) \in Nat
  BY <1>1, FS_CardinalityType
<1>. QED
  BY <1>1, <1>2, <1>3

(* No step but Start and Crash changes which threads run, other than       *)
(* ending one.                                                             *)
LEMMA ThreadsOnlyEnd ==
  ASSUME Types, [Next]_vars, ~Start, ~Crash
  PROVE  Busy' \subseteq Busy
<1>. USE ProcessFacts DEF Types, Saving, Jobless, PC, Busy
<1>1. ASSUME NEW t \in Threads, pc[t] = "idle" PROVE pc'[t] = "idle"
  <2>1. ASSUME NEW c \in Clients, Handler(c) \/ \E j \in Jobs : Submit(c, j) PROVE pc'[t] = pc[t]
    BY <2>1 DEF Handler, Submit, SubmitSave, SubmitDispatch, SubmitPut
  <2>2. ASSUME NEW u \in Threads, Worker(u) PROVE pc'[t] = pc[t]
    <3>1. pc[u] \in {"loop", "get"} /\ \A v \in Procs \ {u} : pc'[v] = pc[v]
      BY <2>2 DEF Worker, WorkerLoop, WorkerGet
    <3>. QED
      BY <1>1, <3>1
  <2>3. ASSUME NEW p \in Pullers, Puller(p) PROVE pc'[t] = pc[t]
    BY <2>3 DEF Puller, PullList, PullNext
  <2>4. ASSUME NEW p \in Procs, RunJob(p) PROVE pc'[t] = "idle"
    <3>1. CASE ReadRaises(p)
      BY <1>1, <3>1 DEF ReadRaises, Unwind
    <3>2. CASE ~ReadRaises(p)
      <4>1. /\ pc[p] \in {"run", "exec"} \cup Saving \/ pc' = pc
            /\ \A v \in Procs \ {p} : pc'[v] = pc[v]
        BY <2>4, <3>2 DEF RunJob, BeginSave, RunRead, RunMark, RunExecutor, RunSave, managerVars
      <4>. QED
        BY <1>1, <4>1
    <3>. QED
      BY <3>1, <3>2
  <2>5. ASSUME NEW p \in Procs, StorageError(p) \/ PullerCrash(p) PROVE pc'[t] = "idle"
    BY <1>1, <2>5 DEF StorageError, PullerCrash, Unwind
  <2>6. CASE Stop \/ StopJoined \/ Restart \/ UNCHANGED vars
    BY <1>1, <2>6 DEF Stop, StopJoined, Restart, vars, managerVars
  <2>. QED
    BY <1>1, <2>1, <2>2, <2>3, <2>4, <2>5, <2>6 DEF Next
<1>. QED
  BY <1>1

(* Every step keeps the threads within their number.                       *)
LEMMA ThreadStep == TypeOK /\ ThreadInv /\ [Next]_vars => ThreadInv'
<1> SUFFICES ASSUME TypeOK, ThreadInv, [Next]_vars PROVE ThreadInv'
  OBVIOUS
<1>0. /\ timeouts \in Nat /\ thread \in Threads \cup {NoThread} /\ Types
      /\ pc \in [Procs -> PC]
  BY TypesHold DEF TypeOK
<1>. USE ProcessFacts
<1>1. CASE Start
  <2>1. PICK t \in Threads : pc[t] = "idle" /\ thread' = t /\ pc' = [pc EXCEPT ![t] = "loop"]
    BY <1>1 DEF Start
  <2>2. thread \notin Busy /\ timeouts' = timeouts
    BY <1>1 DEF Start, Alive, Busy
  <2>3. Busy' = Busy \cup {t} /\ t \notin Busy
    BY <1>0, <2>1 DEF Busy
  <2>4. Busy' \ {thread'} = Busy \ {thread}
    BY <2>1, <2>2, <2>3
  <2>5. IsFiniteSet(Busy')
    BY <2>3, FS_AddElement DEF ThreadInv
  <2>. QED
    BY <2>2, <2>4, <2>5 DEF ThreadInv
<1>2. CASE Crash
  <2>1. Busy' = {} /\ timeouts' = timeouts
    BY <1>2 DEF Crash, Unwind, Local, Busy
  <2>. QED
    BY <1>0, <2>1, FS_EmptySet DEF ThreadInv
<1>3. CASE StopJoined
  <2>1. Busy' = Busy /\ thread' = NoThread /\ Busy' \ {thread'} = Busy
    BY <1>3 DEF StopJoined, Busy
  <2>2. /\ Cardinality(Busy) \in Nat /\ Cardinality(Busy \ {thread}) \in Nat
        /\ Cardinality(Busy) = Cardinality(Busy \ {thread}) + (IF thread \in Busy THEN 1 ELSE 0)
    BY WithoutOne DEF ThreadInv
  <2>3. thread \in Busy <=> Alive(thread)
    BY <1>0 DEF Alive, Busy
  <2>4. timeouts' = IF Alive(thread) THEN timeouts + 1 ELSE timeouts
    BY <1>3 DEF StopJoined
  <2>5. IsFiniteSet(Busy') /\ Cardinality(Busy' \ {thread'}) = Cardinality(Busy)
    BY <2>1 DEF ThreadInv
  <2>. QED
    BY <1>0, <2>2, <2>3, <2>4, <2>5 DEF ThreadInv
<1>4. CASE ~Start /\ ~Crash /\ ~StopJoined
  <2>1. Busy' \subseteq Busy
    BY <1>0, <1>4, ThreadsOnlyEnd
  <2>2. thread' = thread /\ timeouts' = timeouts
    BY <1>4 DEF Next, vars, managerVars, Handler, Worker, Puller, RunJob, BeginSave, Submit,
                SubmitSave, SubmitDispatch, SubmitPut, Stop, WorkerLoop, WorkerGet, PullList,
                PullNext, RunRead, RunMark, RunExecutor, RunSave, ReadRaises, StorageError,
                Restart, PullerCrash
  <2>3. IsFiniteSet(Busy \ {thread}) /\ Busy' \ {thread'} \in SUBSET (Busy \ {thread})
    BY <2>1, <2>2, FS_RemoveElement DEF ThreadInv
  <2>4. /\ Cardinality(Busy' \ {thread'}) <= Cardinality(Busy \ {thread})
        /\ Cardinality(Busy' \ {thread'}) \in Nat /\ Cardinality(Busy \ {thread}) \in Nat
    BY <2>3, FS_Subset, FS_CardinalityType
  <2>5. IsFiniteSet(Busy')
    BY <2>1, FS_Subset DEF ThreadInv
  <2>. QED
    BY <1>0, <2>2, <2>4, <2>5 DEF ThreadInv
<1>. QED
  BY <1>1, <1>2, <1>3, <1>4

(* However start and stop of the manager overlap with its worker threads,  *)
(* at most one thread runs besides those whose join in stop() timed out.   *)
THEOREM ThreadsAreBounded == Spec => []ThreadsBounded
<1>1. Init => ThreadInv
  <2> SUFFICES ASSUME Init PROVE ThreadInv
    OBVIOUS
  <2>1. Busy \ {thread} = {} /\ timeouts = 0
    BY ProcessFacts DEF Init, Busy
  <2>2. Busy \subseteq {thread}
    BY <2>1
  <2>3. IsFiniteSet(Busy)
    BY <2>2, FS_Singleton, FS_Subset
  <2>. QED
    BY <2>1, <2>3, FS_EmptySet DEF ThreadInv
<1>2. TypeOK /\ ThreadInv => ThreadsBounded
  <2> SUFFICES ASSUME TypeOK, ThreadInv PROVE Cardinality(Busy) <= 1 + timeouts
    BY DEF ThreadsBounded, Busy
  <2>1. /\ Cardinality(Busy) \in Nat /\ Cardinality(Busy \ {thread}) \in Nat
        /\ Cardinality(Busy) = Cardinality(Busy \ {thread}) + (IF thread \in Busy THEN 1 ELSE 0)
    BY WithoutOne DEF ThreadInv
  <2>. QED
    BY <2>1 DEF ThreadInv, TypeOK
<1>. QED
  BY <1>1, <1>2, ThreadStep, TypeCorrect, PTL DEF Spec

-----------------------------------------------------------------------------
(* Executions, where workers pull.  A puller may still start a job that is *)
(* in the rest of its listing or that it has read; the handler of an       *)
(* inline job may start it until it has marked it.                         *)
Fresh == {"absent", "queued"}
MayStart(p, j) == j \in todo[p] \/ (job[p] = j /\ pc[p] \in {"run", "mark"})
Underway(c, j) == job[c] = j /\ pc[c] \in {"dispatch", "run", "mark"}
Able(j) == {p \in Pullers : status[j] \in Fresh \/ MayStart(p, j)}
Owed(j) ==
  IF mode # "external" /\ (status[j] \in Fresh \/ \E c \in Clients : Underway(c, j))
  THEN 1 ELSE 0

Shares ==
  /\ \A c, d \in Clients : job[c] = job[d] /\ job[c] # NoJob => c = d
  /\ mode = "external" => \A c \in Clients : pc[c] \in {"idle", "save", "dispatch"}
  /\ \A p \in Pullers : job[p] \notin todo[p]

Budget(j) ==
  starts[j] + Cardinality(Able(j)) + Owed(j)
    <= Cardinality(Pullers) + (IF mode = "external" THEN 0 ELSE 1)

StartInv ==
  mode # "inprocess" => Busy = {} /\ Shares /\ \A j \in Jobs : Budget(j)

(* What a step that does not start job j leaves as it was.                 *)
StartsNot(j) ==
  /\ starts'[j] = starts[j]
  /\ status'[j] \in Fresh => status[j] \in Fresh
  /\ \A p \in Pullers : MayStart(p, j)' => status[j] \in Fresh \/ MayStart(p, j)
  /\ \A c \in Clients : Underway(c, j)' => status[j] \in Fresh \/ Underway(c, j)

(* The pull workers that may start a job are counted.                      *)
LEMMA AbleCounted ==
  ASSUME NEW j \in Jobs
  PROVE  /\ IsFiniteSet(Able(j)) /\ Cardinality(Able(j)) \in Nat
         /\ Cardinality(Able(j)) <= Cardinality(Pullers) /\ Cardinality(Pullers) \in Nat
<1>1. Able(j) \in SUBSET Pullers /\ IsFiniteSet(Pullers)
  BY JobManagerAssumption DEF Able
<1>2. IsFiniteSet(Able(j)) /\ Cardinality(Able(j)) <= Cardinality(Pullers)
  BY <1>1, FS_Subset
<1>. QED
  BY <1>1, <1>2, FS_CardinalityType

(* A step that starts no run leaves the job its budget.                    *)
LEMMA BudgetKept ==
  ASSUME Types, mode' = mode, NEW j \in Jobs, StartsNot(j), Budget(j)
  PROVE  Budget(j)'
<1>1. Able(j)' \in SUBSET Able(j)
  BY DEF StartsNot, Able
<1>2. /\ Cardinality(Able(j)') <= Cardinality(Able(j))
      /\ Cardinality(Able(j)') \in Nat /\ Cardinality(Able(j)) \in Nat
  BY <1>1, AbleCounted, FS_Subset, FS_CardinalityType
<1>3. Owed(j)' <= Owed(j) /\ Owed(j) \in Nat /\ Owed(j)' \in Nat
  BY DEF StartsNot, Owed
<1>4. starts[j] \in Nat /\ starts'[j] = starts[j]
  BY DEF Types, StartsNot
<1>5. Cardinality(Pullers) \in Nat
  BY AbleCounted
<1>. QED
  BY <1>2, <1>3, <1>4, <1>5 DEF Budget

(* When one process acts, only its own share has to be looked at.          *)
LEMMA OneActs ==
  ASSUME Types, Shares, mode' = mode, NEW p \in Procs,
         \A q \in Procs \ {p} : pc'[q] = pc[q] /\ job'[q] = job[q],
         \A q \in Pullers \ {p} : todo'[q] = todo[q],
         p \in Clients =>
           /\ job'[p] \in {job[p], NoJob} \/ \A q \in Procs : job[q] # job'[p]
           /\ mode = "external" => pc'[p] \in {"idle", "save", "dispatch"},
         p \in Pullers => job'[p] \notin todo'[p]
  PROVE  /\ Shares'
         /\ \A j \in Jobs, q \in Pullers \ {p} : MayStart(q, j)' => MayStart(q, j)
         /\ \A j \in Jobs, c \in Clients \ {p} : Underway(c, j)' => Underway(c, j)
<1>. USE ProcessFacts DEF Types
<1>1. \A c, d \in Clients : job'[c] = job'[d] /\ job'[c] # NoJob => c = d
  <2> SUFFICES ASSUME NEW c \in Clients, NEW d \in Clients, job'[c] = job'[d],
                      job'[c] # NoJob, c # d
               PROVE  FALSE
    OBVIOUS
  <2>1. CASE c = p
    BY <2>1 DEF Shares
  <2>2. CASE d = p
    BY <2>2 DEF Shares
  <2>3. CASE c # p /\ d # p
    BY <2>3 DEF Shares
  <2>. QED
    BY <2>1, <2>2, <2>3
<1>2. mode = "external" => \A c \in Clients : pc'[c] \in {"idle", "save", "dispatch"}
  BY DEF Shares
<1>3. \A q \in Pullers : job'[q] \notin todo'[q]
  BY DEF Shares
<1>. QED
  BY <1>1, <1>2, <1>3 DEF Shares, MayStart, Underway

(* No step but the mark of a run starts one.                               *)
LEMMA OthersStartNothing ==
  ASSUME Types, RecordInv, Shares, mode # "inprocess", Busy = {}, [Next]_vars,
         \A p \in Procs : ~RunMark(p)
  PROVE  Shares' /\ \A j \in Jobs : StartsNot(j)
<1>. USE ProcessFacts DEF Types, Saving, Jobless, PC
<1>0. mode' = mode /\ \A t \in Threads : pc[t] = "idle"
  BY ModeFixed DEF Busy
<1>1. ASSUME NEW c \in Clients, NEW k \in Jobs, Submit(c, k)
      PROVE  Shares' /\ \A j \in Jobs : StartsNot(j)
  <2>1. /\ pc[c] = "idle" /\ pc'[c] = "save" /\ job'[c] = k /\ \A q \in Procs : job[q] # k
        /\ UNCHANGED <<starts, status, todo>>
        /\ \A q \in Procs \ {c} : pc'[q] = pc[q] /\ job'[q] = job[q]
    BY <1>1 DEF Submit, storeVars
  <2>2. /\ Shares'
        /\ \A j \in Jobs, q \in Pullers : MayStart(q, j)' => MayStart(q, j)
        /\ \A j \in Jobs, d \in Clients \ {c} : Underway(d, j)' => Underway(d, j)
    BY <1>0, <2>1, OneActs
  <2>3. \A j \in Jobs : ~Underway(c, j)'
    BY <2>1 DEF Underway
  <2>. QED
    BY <2>1, <2>2, <2>3 DEF StartsNot
<1>2. ASSUME NEW c \in Clients, Handler(c)
      PROVE  Shares' /\ \A j \in Jobs : StartsNot(j)
  <2>1. /\ UNCHANGED <<starts, todo>>
        /\ \A q \in Procs \ {c} : pc'[q] = pc[q] /\ job'[q] = job[q]
        /\ job'[c] \in {job[c], NoJob}
    BY <1>2 DEF Handler, SubmitSave, SubmitDispatch, SubmitPut
  <2>2. /\ pc'[c] \in {"run", "mark"} => pc[c] = "dispatch" /\ mode = "inline"
        /\ pc'[c] = "dispatch" => status[job[c]] = "absent"
        /\ pc'[c] \in {"idle", "dispatch", "run", "put"}
        /\ mode = "external" => pc'[c] # "put"
        /\ mode' = mode
    BY <1>2 DEF Handler, SubmitSave, SubmitDispatch, SubmitPut, RecordInv, FirstSave
  <2>3. \A j \in Jobs : status'[j] = status[j] \/ status[j] = "absent"
    BY <1>2 DEF Handler, SubmitSave, Commit, SubmitDispatch, SubmitPut, storeVars, RecordInv,
                FirstSave
  <2>4. /\ Shares'
        /\ \A j \in Jobs, q \in Pullers : MayStart(q, j)' => MayStart(q, j)
        /\ \A j \in Jobs, d \in Clients \ {c} : Underway(d, j)' => Underway(d, j)
    <3>1. /\ \A q \in Pullers \ {c} : todo'[q] = todo[q]
          /\ job'[c] \in {job[c], NoJob}
          /\ mode = "external" => pc'[c] \in {"idle", "save", "dispatch"}
          /\ c \in Procs /\ c \notin Pullers
      BY <2>1, <2>2
    <3>. QED
      BY <1>0, <2>1, <2>2, <3>1, OneActs
  <2>5. \A j \in Jobs : Underway(c, j)' => status[j] \in Fresh \/ Underway(c, j)
    BY <2>1, <2>2 DEF Underway, Fresh
  <2>6. \A j \in Jobs : status'[j] \in Fresh => status[j] \in Fresh
    BY <2>3 DEF Fresh
  <2>. QED
    BY <2>1, <2>4, <2>5, <2>6 DEF StartsNot
<1>3. ASSUME NEW p \in Pullers, Puller(p)
      PROVE  Shares' /\ \A j \in Jobs : StartsNot(j)
  <2>0. /\ UNCHANGED <<starts, status>> /\ job[p] = NoJob
        /\ \A q \in Procs \ {p} : pc'[q] = pc[q] /\ job'[q] = job[q]
        /\ \A q \in Pullers \ {p} : todo'[q] = todo[q]
    BY <1>3 DEF Puller, PullList, PullNext, storeVars
  <2>1. CASE PullList(p)
    <3>1. PICK batch \in SUBSET Queued : todo' = [todo EXCEPT ![p] = batch]
      BY <2>1 DEF PullList
    <3>2. todo'[p] \subseteq Queued /\ pc'[p] = "next" /\ job'[p] = NoJob
      BY <2>0, <2>1, <3>1 DEF PullList
    <3>3. /\ Shares'
          /\ \A j \in Jobs, q \in Pullers \ {p} : MayStart(q, j)' => MayStart(q, j)
          /\ \A j \in Jobs, c \in Clients : Underway(c, j)' => Underway(c, j)
      <4>1. job'[p] \notin todo'[p]
        BY <3>2 DEF Queued
      <4>2. p \notin Clients /\ p \in Procs
        OBVIOUS
      <4>3. /\ Shares'
            /\ \A j \in Jobs, q \in Pullers \ {p} : MayStart(q, j)' => MayStart(q, j)
            /\ \A j \in Jobs, c \in Clients \ {p} : Underway(c, j)' => Underway(c, j)
        BY <1>0, <2>0, <4>1, <4>2, OneActs
      <4>. QED
        BY <4>2, <4>3
    <3>4. \A j \in Jobs : MayStart(p, j)' => status[j] \in Fresh
      BY <3>2 DEF MayStart, Fresh, Queued
    <3>. QED
      BY <2>0, <3>3, <3>4 DEF StartsNot
  <2>2. CASE PullNext(p)
    <3>1. \/ todo'[p] = todo[p] /\ job'[p] = NoJob /\ pc'[p] = "idle"
          \/ \E j \in todo[p] : todo'[p] = todo[p] \ {j} /\ job'[p] = j /\ pc'[p] = "run"
      BY <2>0, <2>2 DEF PullNext
    <3>2. /\ Shares'
          /\ \A j \in Jobs, q \in Pullers \ {p} : MayStart(q, j)' => MayStart(q, j)
          /\ \A j \in Jobs, c \in Clients : Underway(c, j)' => Underway(c, j)
      <4>1. job'[p] \notin todo'[p]
        BY <3>1
      <4>. QED
        BY <1>0, <2>0, <4>1, OneActs
    <3>3. \A j \in Jobs : MayStart(p, j)' => MayStart(p, j)
      BY <3>1 DEF MayStart
    <3>. QED
      BY <2>0, <3>2, <3>3 DEF StartsNot
  <2>. QED
    BY <1>3, <2>1, <2>2 DEF Puller
<1>4. ASSUME NEW p \in Procs, RunRead(p) \/ RunExecutor(p) \/ RunSave(p) \/ BeginSave(p)
      PROVE  Shares' /\ \A j \in Jobs : StartsNot(j)
  <2>1. /\ UNCHANGED <<starts, todo>>
        /\ \A q \in Procs \ {p} : pc'[q] = pc[q] /\ job'[q] = job[q]
        /\ job'[p] \in {job[p], NoJob}
        /\ pc'[p] # "dispatch" \/ pc[p] = "dispatch"
        /\ pc'[p] \in {"run", "mark"} => pc[p] \in {"run", "mark"}
    BY <1>4 DEF RunRead, RunExecutor, RunSave, BeginSave, managerVars, Return
  <2>2. pc'[p] = pc[p] \/ pc[p] \in {"run", "exec", "succeed", "fail"}
    BY <1>4 DEF RunRead, RunExecutor, RunSave, BeginSave, managerVars
  <2>3. \A j \in Jobs : status'[j] \in Fresh => status[j] = status'[j]
    BY <1>4 DEF RunRead, RunExecutor, RunSave, BeginSave, BeginWrite, Commit, storeVars, Fresh
  <2>4. /\ p \in Pullers => job'[p] \notin todo'[p]
        /\ p \in Clients /\ mode = "external" => pc'[p] \in {"idle", "save", "dispatch"}
    BY <2>1, <2>2 DEF Shares
  <2>5. /\ Shares'
        /\ \A j \in Jobs, q \in Pullers \ {p} : MayStart(q, j)' => MayStart(q, j)
        /\ \A j \in Jobs, c \in Clients \ {p} : Underway(c, j)' => Underway(c, j)
    BY <1>0, <2>1, <2>4, OneActs
  <2>6. \A j \in Jobs : /\ p \in Pullers /\ MayStart(p, j)' => MayStart(p, j)
                        /\ Underway(p, j)' => Underway(p, j)
    BY <2>1 DEF MayStart, Underway
  <2>. QED
    BY <2>1, <2>3, <2>5, <2>6 DEF StartsNot
<1>5. ASSUME NEW P \in SUBSET Procs, Unwind(P), starts' = starts
      PROVE  Shares' /\ \A j \in Jobs : StartsNot(j)
  <2>1. /\ status' = status
        /\ \A q \in Procs : \/ pc'[q] = pc[q] /\ job'[q] = job[q]
                            \/ pc'[q] = "idle" /\ job'[q] = NoJob
        /\ \A q \in Pullers : todo'[q] \subseteq todo[q]
    BY <1>5 DEF Unwind, Abandon
  <2>2. Shares'
    BY <1>0, <2>1 DEF Shares
  <2>. QED
    BY <1>5, <2>1, <2>2 DEF StartsNot, MayStart, Underway
<1>6. ASSUME NEW p \in Procs, ReadRaises(p) \/ StorageError(p) \/ PullerCrash(p)
      PROVE  Shares' /\ \A j \in Jobs : StartsNot(j)
  <2>1. {p} \in SUBSET Procs /\ Unwind({p}) /\ starts' = starts
    BY <1>6 DEF ReadRaises, StorageError, PullerCrash
  <2>. QED
    BY <1>5, <2>1
<1>7. CASE Crash
  <2>1. Local \in SUBSET Procs /\ Unwind(Local) /\ starts' = starts
    BY <1>7 DEF Crash, Local
  <2>. QED
    BY <1>5, <2>1
<1>8. CASE Stop \/ StopJoined \/ Restart \/ UNCHANGED vars
  <2>1. UNCHANGED <<status, starts, pc, job, todo>>
    BY <1>8 DEF Stop, StopJoined, Restart, vars, storeVars, managerVars
  <2>. QED
    BY <1>0, <2>1 DEF Shares, StartsNot, MayStart, Underway
<1>9. ASSUME NEW t \in Threads, Worker(t) PROVE FALSE
  BY <1>0, <1>9 DEF Worker, WorkerLoop, WorkerGet
<1>10. ~Start
  BY DEF Start
<1>. QED
  BY <1>1, <1>2, <1>3, <1>4, <1>6, <1>7, <1>8, <1>9, <1>10 DEF Next, RunJob

(* Whoever starts a job uses up its share of the starts.                   *)
LEMMA MarkUsesItsShare ==
  ASSUME Types, RecordInv, Shares, mode # "inprocess", Busy = {}, \A j \in Jobs : Budget(j),
         NEW p \in Procs, RunMark(p)
  PROVE  Shares' /\ \A j \in Jobs : Budget(j)'
<1>. USE ProcessFacts DEF Types, Saving, Jobless, PC
<1>k. PICK k \in Jobs : k = job[p]
  BY DEF RunMark
<1>0. /\ job[p] = k /\ pc[p] = "mark" /\ pc'[p] = "exec" /\ p \notin Threads
      /\ \A q \in Procs \ {p} : pc'[q] = pc[q]
      /\ UNCHANGED <<job, todo, mode>>
      /\ status'[k] = "running" /\ \A j \in Jobs \ {k} : status'[j] = status[j]
      /\ starts'[k] = starts[k] + 1 /\ \A j \in Jobs \ {k} : starts'[j] = starts[j]
  BY <1>k DEF RunMark, Commit, Busy
<1>1. /\ mode = "external" => p \notin Clients
      /\ \A c \in Clients : p \in Clients /\ job[c] = k => c = p
      /\ p \in Pullers => k \notin todo[p]
  <2>1. mode = "external" => p \notin Clients
    <3>1. pc[p] \notin {"idle", "save", "dispatch"}
      BY <1>0
    <3>. QED
      BY <3>1 DEF Shares
  <2>2. \A c \in Clients : p \in Clients /\ job[c] = k => c = p
    <3>1. k # NoJob
      OBVIOUS
    <3>. QED
      BY <1>0, <3>1 DEF Shares
  <2>3. p \in Pullers => k \notin todo[p]
    BY <1>0 DEF Shares
  <2>. QED
    BY <2>1, <2>2, <2>3
<1>2. Shares'
  BY <1>0, <1>1 DEF Shares
<1>3. ASSUME NEW j \in Jobs, j # k PROVE Budget(j)'
  <2>1. StartsNot(j)
    BY <1>0, <1>3 DEF StartsNot, MayStart, Underway
  <2>. QED
    BY <1>0, <2>1, BudgetKept
<1>4. status[k] = "absent" => FALSE
  BY <1>0 DEF RecordInv, AbsentUntouched, Untouched, Holds
<1>a. /\ Cardinality(Able(k)) \in Nat /\ Cardinality(Able(k)') \in Nat
      /\ IsFiniteSet(Able(k)) /\ IsFiniteSet(Able(k)')
      /\ Cardinality(Pullers) \in Nat /\ starts[k] \in Nat
  <2>1. IsFiniteSet(Able(k)) /\ Cardinality(Able(k)) \in Nat /\ Cardinality(Pullers) \in Nat
    BY <1>0, AbleCounted
  <2>2. Able(k)' \in SUBSET Pullers /\ IsFiniteSet(Pullers)
    BY JobManagerAssumption DEF Able
  <2>3. IsFiniteSet(Able(k)')
    BY <2>2, FS_Subset
  <2>. QED
    BY <1>0, <2>1, <2>3, FS_CardinalityType
<1>5. CASE p \in Pullers
  <2>1. p \in Able(k) /\ Able(k)' \in SUBSET (Able(k) \ {p})
    BY <1>0, <1>1, <1>5 DEF Able, MayStart, Fresh
  <2>2. IsFiniteSet(Able(k) \ {p}) /\ Cardinality(Able(k) \ {p}) = Cardinality(Able(k)) - 1
    BY <1>a, <2>1, FS_RemoveElement
  <2>3. Cardinality(Able(k)') <= Cardinality(Able(k)) - 1
    BY <2>1, <2>2, FS_Subset
  <2>4. Owed(k)' <= Owed(k) /\ Owed(k) \in Nat /\ Owed(k)' \in Nat
    <3>1. (\E c \in Clients : Underway(c, k)') => (\E c \in Clients : Underway(c, k))
      BY <1>0, <1>5 DEF Underway
    <3>2. status'[k] \notin Fresh /\ mode' = mode
      BY <1>0 DEF Fresh
    <3>. QED
      BY <3>1, <3>2 DEF Owed
  <2>5. Budget(k)'
    BY <1>0, <1>a, <2>3, <2>4 DEF Budget
  <2>. QED
    BY <1>2, <1>3, <2>5
<1>6. CASE p \in Clients
  <2>1. Able(k)' \in SUBSET Able(k)
    BY <1>0, <1>6 DEF Able, MayStart, Fresh
  <2>2. Cardinality(Able(k)') <= Cardinality(Able(k))
    BY <1>a, <2>1, FS_Subset
  <2>3. Owed(k) = 1
    BY <1>0, <1>1, <1>6 DEF Owed, Underway
  <2>4. Owed(k)' = 0
    BY <1>0, <1>1, <1>6 DEF Owed, Underway, Fresh
  <2>5. Budget(k)'
    BY <1>0, <1>a, <2>2, <2>3, <2>4 DEF Budget
  <2>. QED
    BY <1>2, <1>3, <2>5
<1>. QED
  BY <1>0, <1>5, <1>6

(* Every step keeps the budgets.                                           *)
LEMMA StartStep == TypeOK /\ RecordInv /\ StartInv /\ [Next]_vars => StartInv'
<1> SUFFICES ASSUME Types, RecordInv, StartInv, [Next]_vars, mode # "inprocess"
             PROVE  StartInv'
  BY TypesHold, ModeFixed DEF StartInv
<1>1. mode' = mode /\ Busy = {} /\ Shares /\ \A j \in Jobs : Budget(j)
  BY ModeFixed DEF StartInv
<1>2. Busy' = {}
  <2>1. CASE Crash
    BY <2>1, ProcessFacts DEF Crash, Unwind, Local, Busy
  <2>2. CASE ~Crash
    BY <1>1, <2>2, ThreadsOnlyEnd DEF Start
  <2>. QED
    BY <2>1, <2>2
<1>3. CASE \E p \in Procs : RunMark(p)
  BY <1>1, <1>2, <1>3, MarkUsesItsShare DEF StartInv
<1>4. CASE \A p \in Procs : ~RunMark(p)
  <2>1. Shares' /\ \A j \in Jobs : StartsNot(j)
    BY <1>1, <1>4, OthersStartNothing
  <2>2. \A j \in Jobs : Budget(j)'
    BY <1>1, <2>1, BudgetKept
  <2>. QED
    BY <1>2, <2>1, <2>2 DEF StartInv
<1>. QED
  BY <1>3, <1>4

(* run_pending claims nothing, and still a job is executed at most once by *)
(* every pull worker, and once more by the handler that submitted it if it *)
(* is an inline job: _run_job of a queued record runs at most that often.  *)
THEOREM StartsAreBounded == Spec => []OncePerWorker
<1>1. Init => RecordInv /\ StartInv
  <2> SUFFICES ASSUME Init PROVE RecordInv /\ StartInv
    OBVIOUS
  <2>1. RecordInv
    BY RecordInit
  <2>2. mode # "inprocess" => Busy = {}
    <3>1. mode # "inprocess" => \A t \in Threads : pc[t] = "idle"
      BY ProcessFacts DEF Init
    <3>. QED
      BY <3>1 DEF Busy
  <2>3. Shares
    <3>1. /\ \A p \in Procs : job[p] = NoJob
          /\ \A p \in Pullers : todo[p] = {}
          /\ \A c \in Clients : pc[c] = "idle"
      BY ProcessFacts DEF Init
    <3>. QED
      BY <3>1, ProcessFacts DEF Shares
  <2>4. ASSUME NEW j \in Jobs PROVE Budget(j)
    <3>1. starts[j] = 0 /\ Able(j) = Pullers /\ Owed(j) = IF mode = "external" THEN 0 ELSE 1
      <4>1. starts[j] = 0 /\ status[j] = "absent" /\ \A c \in Clients : job[c] # j
        BY ProcessFacts DEF Init, StoreInit
      <4>. QED
        BY <4>1 DEF Able, Owed, Fresh, Underway
    <3>2. Cardinality(Pullers) \in Nat
      BY AbleCounted
    <3>. QED
      BY <3>1, <3>2 DEF Budget
  <2>. QED
    BY <2>1, <2>2, <2>3, <2>4 DEF StartInv
<1>2. TypeOK /\ Ownership /\ StartInv => OncePerWorker
  <2> SUFFICES ASSUME TypeOK, Ownership, StartInv, NEW j \in Jobs
               PROVE  starts[j] <= Cardinality(Pullers) + (IF mode = "external" THEN 0 ELSE 1)
    BY DEF OncePerWorker
  <2>0. starts[j] \in Nat /\ Cardinality(Pullers) \in Nat /\ Cardinality(Able(j)) \in Nat
        /\ Owed(j) \in Nat
    BY AbleCounted DEF TypeOK, Owed
  <2>1. CASE mode = "inprocess"
    BY <2>0, <2>1 DEF Ownership
  <2>2. CASE mode # "inprocess"
    <3>1. Budget(j)
      BY <2>2 DEF StartInv
    <3>. QED
      BY <2>0, <3>1 DEF Budget
  <2>. QED
    BY <2>1, <2>2
<1>. QED
  BY <1>1, <1>2, RecordStep, StartStep, TypeCorrect, OneOwnerEach, PTL DEF Spec
==============================================================================
