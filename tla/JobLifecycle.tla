---------------------------- MODULE JobLifecycle ----------------------------
(***************************************************************************)
(* What the API promises of one job, whoever runs it: its stored status    *)
(* goes queued -> running -> succeeded | failed, or queued -> failed when  *)
(* no executor is registered for its type, and a terminal status stays.    *)
(* JobManager implements this specification in the in-process mode.        *)
(***************************************************************************)
CONSTANT Jobs

VARIABLE status

Terminal == {"succeeded", "failed"}
Status == {"absent", "queued", "running"} \cup Terminal

Move(j, from, to) ==
  /\ status[j] = from
  /\ status' = [status EXCEPT ![j] = to]

Init == status = [j \in Jobs |-> "absent"]

Accept(j) == Move(j, "absent", "queued")
Claim(j)  == Move(j, "queued", "running")
Refuse(j) == Move(j, "queued", "failed")
Finish(j) == \E outcome \in Terminal : Move(j, "running", outcome)

Next == \E j \in Jobs : Accept(j) \/ Claim(j) \/ Refuse(j) \/ Finish(j)

Spec == Init /\ [][Next]_status
=============================================================================
