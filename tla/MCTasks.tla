------------------------------ MODULE MCTasks ------------------------------
(***************************************************************************)
(* The scheduler with the main thread, a task that other tasks start (the  *)
(* menu) and the task that USB interrupts start: enough for a ring whose   *)
(* two directions differ.                                                  *)
(***************************************************************************)
EXTENDS Tasks

CONSTANTS acm, menu
=============================================================================
