----------------------------- MODULE EventQueue -----------------------------
(***************************************************************************)
(* What the event queue of the simulator promises to the rest of the       *)
(* program, without lists, cells or relative delays: a set of events, each *)
(* with the time it is due and the region it is for.  The events of the    *)
(* current time are executed region by region; a region is activated as a  *)
(* whole once there is nothing active left; the read-only region follows   *)
(* when all the others are empty; and the time then moves to the nearest   *)
(* time for which anything is left.  The loop it states is the one the     *)
(* comments of schedule_simulate and of run_rosync describe.               *)
(***************************************************************************)
EXTENDS Integers

CONSTANTS
  TimeMod,   \* times wrap at this value
  Events,    \* the events there can be: records with an id, a due and a seq
  None       \* no event is being executed

VARIABLES
  now,        \* the simulation time
  queue,      \* the events that wait
  activated,  \* those of them that left the region they were scheduled for
  executing,  \* the event that is being executed, or None
  looping,    \* the simulation is in its main loop
  readonly,   \* the read-only region of the current time is being executed
  dropped     \* the events thrown away at the end of a time

qvars == <<now, queue, activated, executing, looping, readonly, dropped>>

Init ==
  /\ now = 0 /\ queue = {} /\ activated = {} /\ executing = None
  /\ looping = FALSE /\ readonly = FALSE /\ dropped = {}

\* How far away the time t is.
Distance(t) == IF t >= now THEN t - now ELSE t - now + TimeMod

Due(s) == {e \in queue : e.due = now /\ e.seq = s /\ e \notin activated}

Active == Due("active") \cup activated

\* The regions that are activated as a whole, from the first to the last.
Later == <<"inactive", "nbassign", "rwsync">>

\* A new event; in the read-only region too, where it may come too late.
Post ==
  /\ \E e \in queue' \ queue : e \in Events \ dropped /\ queue' = queue \cup {e}
  /\ UNCHANGED <<now, activated, executing, looping, readonly, dropped>>

Activate(i) ==
  /\ looping /\ ~readonly /\ executing = None
  /\ Active = {} /\ Due(Later[i]) # {}
  /\ \A j \in 1 .. i - 1 : Due(Later[j]) = {}
  /\ activated' = Due(Later[i])
  /\ UNCHANGED <<now, queue, executing, looping, readonly, dropped>>

\* An event is taken from the queue at the time it is due, and executed.
Take(e) ==
  /\ looping /\ executing = None
  /\ e \in queue /\ e.due = now
  /\ queue' = queue \ {e}
  /\ activated' = activated \ {e}
  /\ UNCHANGED <<now, looping, readonly, dropped>>

ExecuteStart(e) ==
  /\ e.seq = "start" /\ ~readonly
  /\ Take(e) /\ executing' = e

Execute(e) ==
  /\ e \in Active /\ ~readonly
  /\ Take(e) /\ executing' = e

ExecuteReadOnly(e) ==
  /\ e.seq = "rosync" /\ readonly
  /\ Take(e) /\ executing' = e

\* Deleting a thread executes nothing.
DeleteThread(e) ==
  /\ e.seq = "del_thr" /\ ~readonly
  /\ Take(e) /\ UNCHANGED executing

Finished ==
  /\ executing # None
  /\ executing' = None
  /\ UNCHANGED <<now, queue, activated, looping, readonly, dropped>>

\* Events that are not of the simulation time: those of the initial,
\* prestart and final lists.
ExecuteOther ==
  /\ ~looping /\ executing = None
  /\ executing' \in Events
  /\ UNCHANGED <<now, queue, activated, looping, readonly, dropped>>

\* The loop begins after the initial events and ends before the final ones.
Enter ==
  /\ ~looping /\ executing = None
  /\ looping' = TRUE
  /\ UNCHANGED <<now, queue, activated, executing, readonly, dropped>>

Leave ==
  /\ looping /\ ~readonly /\ executing = None
  /\ looping' = FALSE
  /\ UNCHANGED <<now, queue, activated, executing, readonly, dropped>>

BeginReadOnly ==
  /\ looping /\ ~readonly /\ executing = None
  /\ Active = {} /\ \A i \in 1 .. 3 : Due(Later[i]) = {}
  /\ readonly' = TRUE
  /\ UNCHANGED <<now, queue, activated, executing, looping, dropped>>

EndReadOnly ==
  /\ readonly /\ executing = None /\ Due("rosync") = {}
  /\ readonly' = FALSE
  /\ UNCHANGED <<now, queue, activated, executing, looping, dropped>>

\* The end of a time: what came too late for it is dropped.
EndOfTime ==
  /\ looping /\ ~readonly /\ executing = None /\ Due("del_thr") = {}
  /\ Due("rosync") = {} /\ activated = {}
  /\ LET late == {e \in queue : e.due = now}
     IN  queue' = queue \ late /\ dropped' = dropped \cup late
  /\ UNCHANGED <<now, activated, executing, looping, readonly>>

\* The time moves only when nothing is left for it, and to the nearest time
\* of all that are left.
Advance ==
  /\ looping /\ ~readonly /\ executing = None
  /\ queue # {} /\ \A e \in queue : e.due # now
  /\ \E e \in queue :
       /\ \A f \in queue : Distance(e.due) <= Distance(f.due)
       /\ now' = e.due
  /\ UNCHANGED <<queue, activated, executing, looping, readonly, dropped>>

Next ==
  \/ Post \/ ExecuteOther
  \/ \E e \in queue : ExecuteStart(e) \/ Execute(e) \/ ExecuteReadOnly(e) \/ DeleteThread(e)
  \/ \E i \in 1 .. 3 : Activate(i)
  \/ Finished \/ Enter \/ Leave \/ BeginReadOnly \/ EndReadOnly \/ EndOfTime \/ Advance

Spec == Init /\ [][Next]_qvars
=============================================================================
