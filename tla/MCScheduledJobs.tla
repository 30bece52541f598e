---------------------------- MODULE MCScheduledJobs ----------------------------
(* An instance of ScheduledJobs for TLC. *)
EXTENDS ScheduledJobs

CONSTANTS t1, w1, o1
=============================================================================
