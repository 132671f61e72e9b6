------------------------- MODULE ScheduleRefinement -------------------------
(***************************************************************************)
(* The list of time cells of Schedule implements the set of events of      *)
(* EventQueue.  An event is in the abstract queue from the step in which   *)
(* schedule_event_ links it, so the walk itself is invisible; the current  *)
(* cell's active queue holds what was activated.                           *)
(***************************************************************************)
EXTENDS Schedule, FiniteSets

\* The events that the cells of the list hold.
Queued == UNION {CellEvents(sched_list[k]) : k \in 1 .. Len(sched_list)}

\* The promoted events of the current cell.
Promoted ==
  IF CurrentCell
    THEN {e \in Range(sched_list[1].q["active"]) : e.seq # "active"}
    ELSE {}

\* The events that can be scheduled.
Schedulable == [id: 1 .. MaxEvents, due: Time, seq: SEQ, push: BOOLEAN]

Abstract ==
  INSTANCE EventQueue WITH
    Events <- Schedulable, None <- Nil, now <- schedule_time, queue <- Queued,
    activated <- Promoted, executing <- running, readonly <- sim_at_rosync,
    looping <- SignalsCaptured /\ pc # "final", dropped <- lost

\* The scheduler of the code is such a queue: whatever the cells, the relative
\* delays, the walk, the fast paths and the promotions do to the list, every
\* step is a step that the abstract queue allows or leaves it unchanged.
ImplementsQueue == Abstract!Spec
=============================================================================
