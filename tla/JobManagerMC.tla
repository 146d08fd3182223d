---------------------------- MODULE JobManagerMC ----------------------------
(* Small instances of JobManager.                                          *)
EXTENDS JobManager, TLC

MCProcs == Clients \cup Threads \cup Pullers

=============================================================================
