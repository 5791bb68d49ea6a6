---------------------------- MODULE MCScheduler ----------------------------
(* The scheduler with few sequences and short prompts.                     *)
EXTENDS Scheduler

CONSTANTS a, b, c
=============================================================================
