----------------------------- MODULE MCScheduler ----------------------------
(* The main thread and another one that schedule a few tasks.              *)
EXTENDS Scheduler, TLC

CONSTANTS main, t1

=============================================================================
