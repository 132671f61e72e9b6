----------------------------- MODULE MCSchedule -----------------------------
(* An instance of Schedule for TLC, with the abstract queue it implements.  *)
EXTENDS ScheduleRefinement
=============================================================================
