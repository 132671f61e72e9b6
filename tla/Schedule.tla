------------------------------ MODULE Schedule ------------------------------
(***************************************************************************)
(* The stratified event queue of the vvp runtime, vvp/schedule.cc.          *)
(*                                                                         *)
(* sched_list is the list of event_time_s cells, one per simulation time   *)
(* that has events, each holding the delay from the cell before it and one *)
(* queue per region.  A queue is a sequence with its head first; the code  *)
(* keeps a circular list and a pointer to the tail.                        *)
(*                                                                         *)
(* The code is single threaded: user code (a running event, a callback, a  *)
(* command of the debugger) calls the schedule_* operations and returns to *)
(* the loop.  Only a signal handler interleaves with it.  schedule_event_  *)
(* walks the list one cell per step, with the local variables of the walk  *)
(* in ins, so that the loop invariant of the walk is a state invariant.    *)
(*                                                                         *)
(* History variables, which no guard of the code reads: an event's due,    *)
(* a cell's at, pending (scheduled, neither started nor dropped), lost     *)
(* (dropped with its cell) and nev, which numbers events in the order they *)
(* are scheduled.                                                          *)
(***************************************************************************)
EXTENDS Integers, Sequences, SequencesExt

CONSTANTS
  TimeMod,        \* vvp_time64_t wraps at this value (2^64 in the build)
  Delays,         \* the delays the callers use
  MaxEvents,      \* bound on the events ever scheduled
  MaxInterrupts,  \* bound on finish, stop, step requests and signals
  Stopped,        \* the initial values of schedule_stopped_flag: TRUE under vvp -s
  Nil             \* no event, no insertion in progress

ASSUME TimeAssumption == TimeMod \in Nat \ {0}
ASSUME StoppedAssumption == Stopped \subseteq BOOLEAN
ASSUME DelaysAssumption == Delays \subseteq 0 .. TimeMod - 1 /\ 0 \in Delays
ASSUME BoundsAssumption == MaxEvents \in Nat /\ MaxInterrupts \in Nat

VARIABLES
  sched_list, schedule_init_list, schedule_prestart_list, schedule_final_list,
  schedule_runnable, schedule_stopped_flag, schedule_single_step_flag,
  stop_is_finish, schedule_time, sim_started, sim_at_rosync, run_finals,
  pc,        \* where schedule_simulate is
  running,   \* the event whose run_run is executing, or Nil
  ins,       \* the locals of the schedule_event_ call in progress, or Nil
  error,     \* run_rosync has printed SCHEDULER ERROR
  nev, nint, pending, lost

lists == <<schedule_init_list, schedule_prestart_list, schedule_final_list>>
flags == <<schedule_runnable, schedule_stopped_flag, schedule_single_step_flag,
           stop_is_finish>>
phase == <<pc, sim_started, sim_at_rosync, run_finals, error>>
vars == <<sched_list, lists, flags, phase, schedule_time, running, ins,
          nev, nint, pending, lost>>

Time == 0 .. TimeMod - 1

\* The event_queue_t enumeration.
SEQ == {"start", "active", "inactive", "nbassign", "rwsync", "rosync", "del_thr"}

Event == [id: Nat, due: Time, seq: SEQ, push: BOOLEAN]
Cell == [delay: Time, at: Time, q: [SEQ -> Seq(Event)]]
Insertion == [cur: Event, delay: Time, ctim: Nat]

ASSUME NilAssumption == Nil \notin Event /\ Nil \notin Insertion

PCs == {"compile", "EndOfCompile", "init", "StartOfSim", "prestart", "main",
        "stop", "stop_handler", "NextSimTime", "start", "dispatch", "rosync",
        "del_thr", "final", "Postsim", "done"}

\* vvp_time64_t addition.
AddTime(t, d) == IF t + d < TimeMod THEN t + d ELSE t + d - TimeMod

NoEvents == [s \in SEQ |-> << >>]

\* A new event_time_s that holds the event e alone.
NewCell(d, e) == [delay |-> d, at |-> e.due, q |-> [NoEvents EXCEPT ![e.seq] = <<e>>]]

\* The list sl with the queue of region s of cell k replaced by q.
SetQueue(sl, k, s, q) == [sl EXCEPT ![k].q[s] = q]

\* Mutant of AtTail: the event goes to the head of its queue.
AtTailAtHead(sl, k, e) == SetQueue(sl, k, e.seq, <<e>> \o sl[k].q[e.seq])

AtTail(sl, k, e) == SetQueue(sl, k, e.seq, Append(sl[k].q[e.seq], e))

\* The list sl with the delay of cell k replaced by d.
SetDelay(sl, k, d) == [sl EXCEPT ![k].delay = d]

Init ==
  /\ sched_list = << >> /\ schedule_init_list = << >>
  /\ schedule_prestart_list = << >> /\ schedule_final_list = << >>
  /\ schedule_runnable = TRUE /\ schedule_single_step_flag = FALSE
  /\ schedule_stopped_flag \in Stopped
  /\ stop_is_finish \in BOOLEAN            \* the -n and -N options of vvp
  /\ schedule_time = 0 /\ sim_started = FALSE /\ sim_at_rosync = FALSE
  /\ run_finals = FALSE /\ error = FALSE
  /\ pc = "compile" /\ running = Nil /\ ins = Nil
  /\ nev = 0 /\ nint = 0 /\ pending = {} /\ lost = {}

-----------------------------------------------------------------------------
(***************************************************************************)
(* Inserting an event.                                                     *)
(***************************************************************************)

\* schedule_event_: the walk starts at the head of the list.
ScheduleEvent(e, delay) ==
  /\ ins' = [cur |-> e, delay |-> delay, ctim |-> 1]
  /\ UNCHANGED sched_list

\* The fast paths that append to the current cell without walking.
CurrentCell == sched_list # << >> /\ sched_list[1].delay = 0

ScheduleNbassign(e, delay) ==
  IF delay = 0 /\ CurrentCell
    THEN sched_list' = AtTail(sched_list, 1, e) /\ UNCHANGED ins
    ELSE ScheduleEvent(e, delay)

ScheduleEventPush(e) ==
  IF CurrentCell
    THEN /\ sched_list' = SetQueue(sched_list, 1, "active",
                                    <<e>> \o sched_list[1].q["active"])
         /\ UNCHANGED ins
    ELSE ScheduleEvent(e, 0)

ScheduleListReady(e) ==
  IF CurrentCell
    THEN sched_list' = AtTail(sched_list, 1, e) /\ UNCHANGED ins
    ELSE ScheduleEvent(e, 0)

Inserted(sl) ==
  /\ sched_list' = sl
  /\ ins' = Nil
  /\ UNCHANGED <<lists, flags, phase, schedule_time, running, nev, nint, pending, lost>>

InsertFirst ==
  /\ ins # Nil /\ sched_list = << >>
  /\ Inserted(<<NewCell(ins.delay, ins.cur)>>)

InsertFront ==
  /\ ins # Nil /\ sched_list # << >> /\ ins.ctim = 1
  /\ sched_list[1].delay > ins.delay
  /\ Inserted(<<NewCell(ins.delay, ins.cur)>>
              \o SetDelay(sched_list, 1, sched_list[1].delay - ins.delay))

\* Mutant of WalkNext: the delay of the cell is not taken off.
WalkNextKeepsDelay ==
  /\ ins # Nil /\ ins.ctim < Len(sched_list)
  /\ sched_list[ins.ctim].delay < ins.delay
  /\ ins' = [ins EXCEPT !.ctim = @ + 1]
  /\ UNCHANGED <<sched_list, lists, flags, phase, schedule_time, running,
                 nev, nint, pending, lost>>

WalkNext ==
  /\ ins # Nil /\ ins.ctim < Len(sched_list)
  /\ sched_list[ins.ctim].delay < ins.delay
  /\ ins' = [ins EXCEPT !.delay = @ - sched_list[ins.ctim].delay, !.ctim = @ + 1]
  /\ UNCHANGED <<sched_list, lists, flags, phase, schedule_time, running,
                 nev, nint, pending, lost>>

\* Mutant of InsertBetween: the cell after the new one keeps its delay.
InsertBetweenKeepsDelay ==
  /\ ins # Nil /\ sched_list # << >> /\ ins.ctim > 1
  /\ sched_list[ins.ctim].delay > ins.delay
  /\ Inserted(InsertAt(sched_list, ins.ctim, NewCell(ins.delay, ins.cur)))

InsertBetween ==
  /\ ins # Nil /\ sched_list # << >> /\ ins.ctim > 1
  /\ sched_list[ins.ctim].delay > ins.delay
  /\ LET after == SetDelay(sched_list, ins.ctim, sched_list[ins.ctim].delay - ins.delay)
     IN  Inserted(InsertAt(after, ins.ctim, NewCell(ins.delay, ins.cur)))

InsertHere ==
  /\ ins # Nil /\ sched_list # << >>
  /\ sched_list[ins.ctim].delay = ins.delay
  /\ Inserted(AtTail(sched_list, ins.ctim, ins.cur))

InsertTail ==
  /\ ins # Nil /\ sched_list # << >> /\ ins.ctim = Len(sched_list)
  /\ sched_list[ins.ctim].delay < ins.delay
  /\ Inserted(Append(sched_list,
                     NewCell(ins.delay - sched_list[ins.ctim].delay, ins.cur)))

Insert == \/ InsertFirst \/ InsertFront \/ WalkNext
          \/ InsertBetween \/ InsertHere \/ InsertTail

-----------------------------------------------------------------------------
(***************************************************************************)
(* The operations user code calls.  sim_at_rosync in a guard stands for    *)
(* the callers: no thread and no functor runs in a read-only callback, and *)
(* vpi_put_value refuses to write there (vpi_priv.cc).                     *)
(***************************************************************************)

\* User code is executing: an event's run_run, callbacks, or the debugger.
UserCode ==
  /\ ins = Nil
  /\ \/ running # Nil
     \/ pc \in {"compile", "EndOfCompile", "StartOfSim", "NextSimTime",
                "stop_handler", "Postsim"}

NewEvent(delay, seq, push) ==
  [id |-> nev + 1, due |-> AddTime(schedule_time, delay), seq |-> seq, push |-> push]

\* What every operation that creates a timed event e has in common.
Creates(e) ==
  /\ UserCode
  /\ nev < MaxEvents
  /\ nev' = nev + 1
  /\ pending' = pending \cup {e}
  /\ UNCHANGED <<lists, flags, phase, schedule_time, running, nint, lost>>

schedule_vthread(delay, push_flag) ==
  LET e == NewEvent(delay, "active", push_flag /\ delay = 0)
  IN  /\ ~sim_at_rosync
      /\ Creates(e)
      /\ IF e.push THEN ScheduleEventPush(e) ELSE ScheduleEvent(e, delay)

\* schedule_inactive and, while compiling, schedule_t0_trigger.
schedule_inactive ==
  LET e == NewEvent(0, "inactive", FALSE)
  IN  ~sim_at_rosync /\ Creates(e) /\ ScheduleEvent(e, 0)

\* The nonblocking assignments: schedule_assign_*, schedule_force_vector,
\* schedule_propagate_*.
schedule_assign(delay) ==
  LET e == NewEvent(delay, "nbassign", FALSE)
  IN  ~sim_at_rosync /\ Creates(e) /\ ScheduleNbassign(e, delay)

schedule_set_vector ==
  LET e == NewEvent(0, "active", FALSE)
  IN  ~sim_at_rosync /\ Creates(e) /\ ScheduleEvent(e, 0)

schedule_vthread_list_ready ==
  LET e == NewEvent(0, "active", FALSE)
  IN  ~sim_at_rosync /\ Creates(e) /\ ScheduleListReady(e)

\* Also the delayed vpi_put_value, which is refused in a read-only callback
\* when its delay is zero.
schedule_generic(delay, sync_flag, ro_flag) ==
  LET seq == IF ~sync_flag THEN "active" ELSE IF ro_flag THEN "rosync" ELSE "rwsync"
      e == NewEvent(delay, seq, FALSE)
  IN  Creates(e) /\ ScheduleEvent(e, delay)

schedule_at_start_of_simtime(delay) ==
  LET e == NewEvent(delay, "start", FALSE)
  IN  Creates(e) /\ ScheduleEvent(e, delay)

schedule_at_end_of_simtime(delay) ==
  LET e == NewEvent(delay, "rwsync", FALSE)
  IN  Creates(e) /\ ScheduleEvent(e, delay)

schedule_del_thr ==
  LET e == NewEvent(0, "del_thr", FALSE)
  IN  ~sim_at_rosync /\ Creates(e) /\ ScheduleEvent(e, 0)

\* Operations on the init, prestart and final lists create no timed event.
Lists(init, prestart, final) ==
  /\ UserCode
  /\ nev < MaxEvents
  /\ nev' = nev + 1
  /\ schedule_init_list' = init
  /\ schedule_prestart_list' = prestart
  /\ schedule_final_list' = final
  /\ UNCHANGED <<sched_list, flags, phase, schedule_time, running, ins, nint,
                 pending, lost>>

schedule_init_event ==
  /\ pc = "compile"
  /\ Lists(Append(schedule_init_list, NewEvent(0, "active", FALSE)),
           schedule_prestart_list, schedule_final_list)

schedule_prestart_event ==
  /\ pc = "compile"
  /\ Lists(schedule_init_list,
           Append(schedule_prestart_list, NewEvent(0, "active", FALSE)),
           schedule_final_list)

schedule_final_event ==
  /\ pc = "compile"
  /\ Lists(schedule_init_list, schedule_prestart_list,
           Append(schedule_final_list, NewEvent(0, "active", FALSE)))

schedule_functor ==
  /\ ~sim_at_rosync
  /\ IF ~sim_started
       THEN Lists(Append(schedule_init_list, NewEvent(0, "active", FALSE)),
                  schedule_prestart_list, schedule_final_list)
       ELSE LET e == NewEvent(0, "active", FALSE)
            IN  Creates(e) /\ ScheduleEvent(e, 0)

Schedule ==
  \/ \E d \in Delays, p \in BOOLEAN : schedule_vthread(d, p)
  \/ schedule_inactive
  \/ \E d \in Delays : schedule_assign(d)
  \/ schedule_set_vector
  \/ schedule_vthread_list_ready
  \/ \E d \in Delays, s, r \in BOOLEAN : schedule_generic(d, s, r)
  \/ \E d \in Delays : schedule_at_start_of_simtime(d)
  \/ \E d \in Delays : schedule_at_end_of_simtime(d)
  \/ schedule_del_thr
  \/ schedule_init_event \/ schedule_prestart_event \/ schedule_final_event
  \/ schedule_functor

\* A request that changes only the flags of the scheduler.
Request(runnable, stopped, step) ==
  /\ nint < MaxInterrupts
  /\ nint' = nint + 1
  /\ schedule_runnable' = runnable
  /\ schedule_stopped_flag' = stopped
  /\ schedule_single_step_flag' = step
  /\ UNCHANGED <<sched_list, lists, phase, schedule_time, running, ins, nev,
                 pending, lost>>

schedule_finish ==
  /\ UserCode
  /\ Request(FALSE, schedule_stopped_flag, schedule_single_step_flag)
  /\ UNCHANGED stop_is_finish

schedule_stop ==
  /\ UserCode
  /\ Request(schedule_runnable, TRUE, schedule_single_step_flag)
  /\ UNCHANGED stop_is_finish

\* The handlers are installed from signals_capture to signals_revert, and
\* interrupt the program between any two of its steps.
SignalsCaptured ==
  pc \in {"main", "stop", "stop_handler", "NextSimTime", "start", "dispatch",
          "rosync", "del_thr", "final"}

signals_handler(sigint) ==
  /\ SignalsCaptured
  /\ Request(schedule_runnable, TRUE, schedule_single_step_flag)
  /\ stop_is_finish' = (stop_is_finish \/ ~sigint)

-----------------------------------------------------------------------------
(***************************************************************************)
(* schedule_simulate.                                                      *)
(***************************************************************************)

\* No call is in progress and the loop is at label l.
At(l) == pc = l /\ running = Nil /\ ins = Nil

Goto(l) ==
  /\ pc' = l
  /\ UNCHANGED <<sched_list, lists, flags, schedule_time, sim_at_rosync,
                 running, ins, error, nev, nint, pending, lost>>

Simulate ==
  At("compile") /\ Goto("EndOfCompile") /\ UNCHANGED <<sim_started, run_finals>>

EndOfCompileDone ==
  At("EndOfCompile") /\ Goto("init") /\ UNCHANGED <<sim_started, run_finals>>

InitDone ==
  /\ At("init") /\ schedule_init_list = << >>
  /\ sim_started' = TRUE
  /\ Goto("StartOfSim") /\ UNCHANGED run_finals

StartOfSimDone ==
  At("StartOfSim") /\ Goto("prestart") /\ UNCHANGED <<sim_started, run_finals>>

PrestartDone ==
  /\ At("prestart") /\ schedule_prestart_list = << >>
  /\ run_finals' = schedule_runnable
  /\ Goto("main") /\ UNCHANGED sim_started

\* Run the event at the head of one of the three lists that carry no time.
RunFromList(l, list) ==
  /\ At(l) /\ list # << >>
  /\ running' = Head(list)
  /\ UNCHANGED <<sched_list, flags, phase, schedule_time, ins, nev, nint,
                 pending, lost>>

RunInit ==
  /\ RunFromList("init", schedule_init_list)
  /\ schedule_init_list' = Tail(schedule_init_list)
  /\ UNCHANGED <<schedule_prestart_list, schedule_final_list>>

RunPrestart ==
  /\ RunFromList("prestart", schedule_prestart_list)
  /\ schedule_prestart_list' = Tail(schedule_prestart_list)
  /\ UNCHANGED <<schedule_init_list, schedule_final_list>>

RunFinal ==
  /\ schedule_runnable
  /\ RunFromList("final", schedule_final_list)
  /\ schedule_final_list' = Tail(schedule_final_list)
  /\ UNCHANGED <<schedule_init_list, schedule_prestart_list>>

\* run_run returns and the loop deletes the event.
Return ==
  /\ running # Nil /\ ins = Nil
  /\ running' = Nil
  /\ pc' = IF pc = "dispatch" THEN "main" ELSE pc
  /\ UNCHANGED <<sched_list, lists, flags, sim_started, sim_at_rosync, run_finals,
                 error, schedule_time, ins, nev, nint, pending, lost>>

Looping == At("main") /\ schedule_runnable /\ sched_list # << >>

\* Mutant of Stop: schedule_stopped_flag is not cleared.
StopKeepsFlag ==
  /\ Looping /\ schedule_stopped_flag
  /\ Goto("stop") /\ UNCHANGED <<sim_started, run_finals>>

Stop ==
  /\ Looping /\ schedule_stopped_flag
  /\ schedule_stopped_flag' = FALSE
  /\ pc' = "stop"
  /\ UNCHANGED <<sched_list, lists, schedule_runnable, schedule_single_step_flag,
                 stop_is_finish, sim_started, sim_at_rosync, run_finals, error,
                 schedule_time, running, ins, nev, nint, pending, lost>>

\* stop_handler acts at once as schedule_finish when stop_is_finish.
StopIsFinish ==
  /\ At("stop") /\ stop_is_finish
  /\ schedule_runnable' = FALSE
  /\ pc' = "main"
  /\ UNCHANGED <<sched_list, lists, schedule_stopped_flag, schedule_single_step_flag,
                 stop_is_finish, sim_started, sim_at_rosync, run_finals, error,
                 schedule_time, running, ins, nev, nint, pending, lost>>

\* Otherwise it reads commands of the user ...
StopInteract ==
  /\ At("stop") /\ ~stop_is_finish
  /\ Goto("stop_handler") /\ UNCHANGED <<sim_started, run_finals>>

\* ... until cont or the end of the input, finish, or step.
StopHandlerReturns(cmd) ==
  /\ At("stop_handler")
  /\ schedule_runnable' = (schedule_runnable /\ cmd # "finish")
  /\ schedule_single_step_flag' = (schedule_single_step_flag \/ cmd = "step")
  /\ pc' = "main"
  /\ UNCHANGED <<sched_list, lists, schedule_stopped_flag, stop_is_finish,
                 sim_started, sim_at_rosync, run_finals, error, schedule_time,
                 running, ins, nev, nint, pending, lost>>

\* Mutant of AdvanceTime: ctim->delay is not cleared.
AdvanceTimeKeepsDelay ==
  /\ Looping /\ ~schedule_stopped_flag /\ sched_list[1].delay > 0
  /\ schedule_time' = AddTime(schedule_time, sched_list[1].delay)
  /\ pc' = "NextSimTime"
  /\ UNCHANGED <<sched_list, lists, flags, sim_started, sim_at_rosync, run_finals,
                 error, running, ins, nev, nint, pending, lost>>

AdvanceTime ==
  /\ Looping /\ ~schedule_stopped_flag /\ sched_list[1].delay > 0
  /\ schedule_time' = AddTime(schedule_time, sched_list[1].delay)
  /\ sched_list' = SetDelay(sched_list, 1, 0)
  /\ pc' = "NextSimTime"
  /\ UNCHANGED <<lists, flags, sim_started, sim_at_rosync, run_finals, error,
                 running, ins, nev, nint, pending, lost>>

NextSimTimeDone ==
  At("NextSimTime") /\ Goto("start") /\ UNCHANGED <<sim_started, run_finals>>

StartDone ==
  /\ At("start") /\ sched_list[1].q["start"] = << >>
  /\ Goto("dispatch") /\ UNCHANGED <<sim_started, run_finals>>

SameTime ==
  /\ Looping /\ ~schedule_stopped_flag /\ sched_list[1].delay = 0
  /\ Goto("dispatch") /\ UNCHANGED <<sim_started, run_finals>>

\* Take the event at the head of region s of the current cell and run it.
RunFromCell(s) ==
  LET q == sched_list[1].q[s]
  IN  /\ q # << >>
      /\ running' = Head(q)
      /\ sched_list' = SetQueue(sched_list, 1, s, Tail(q))
      /\ pending' = pending \ {Head(q)}
      /\ UNCHANGED <<lists, phase, schedule_time, schedule_runnable, stop_is_finish,
                     ins, nev, nint, lost>>

RunStart ==
  /\ At("start") /\ RunFromCell("start")
  /\ UNCHANGED <<schedule_stopped_flag, schedule_single_step_flag>>

\* The regions that the loop moves to the active queue, in their order.
PromoteOrder == <<"inactive", "nbassign", "rwsync">>

\* Mutant of Promote: the queue that is promoted is not cleared.
PromoteKeepsQueue ==
  /\ At("dispatch") /\ sched_list[1].q["active"] = << >>
  /\ \E i \in 1 .. 3 :
       LET s == PromoteOrder[i]
       IN  /\ \A j \in 1 .. i - 1 : sched_list[1].q[PromoteOrder[j]] = << >>
           /\ sched_list[1].q[s] # << >>
           /\ sched_list' = SetQueue(sched_list, 1, "active", sched_list[1].q[s])
  /\ UNCHANGED <<lists, flags, phase, schedule_time, running, ins, nev, nint,
                 pending, lost>>

Promote ==
  /\ At("dispatch") /\ sched_list[1].q["active"] = << >>
  /\ \E i \in 1 .. 3 :
       LET s == PromoteOrder[i]
       IN  /\ \A j \in 1 .. i - 1 : sched_list[1].q[PromoteOrder[j]] = << >>
           /\ sched_list[1].q[s] # << >>
           /\ sched_list' = SetQueue(SetQueue(sched_list, 1, "active", sched_list[1].q[s]),
                                     1, s, << >>)
  /\ UNCHANGED <<lists, flags, phase, schedule_time, running, ins, nev, nint,
                 pending, lost>>

RunActive ==
  /\ At("dispatch") /\ RunFromCell("active")
  /\ schedule_stopped_flag' = (schedule_stopped_flag \/ schedule_single_step_flag)
  /\ schedule_single_step_flag' = FALSE

\* Mutant of RwEvents: the read-write synch region is forgotten.
RwEventsNoRwsync(c) == \E s \in {"active", "inactive", "nbassign"} : c.q[s] # << >>

RwEvents(c) == \E s \in {"active", "inactive", "nbassign", "rwsync"} : c.q[s] # << >>

BeginRosync ==
  /\ At("dispatch") /\ ~RwEvents(sched_list[1])
  /\ sim_at_rosync' = TRUE
  /\ pc' = "rosync"
  /\ UNCHANGED <<sched_list, lists, flags, schedule_time, sim_started, run_finals,
                 error, running, ins, nev, nint, pending, lost>>

RunRosync ==
  /\ At("rosync") /\ RunFromCell("rosync")
  /\ UNCHANGED <<schedule_stopped_flag, schedule_single_step_flag>>

EndRosync ==
  /\ At("rosync") /\ sched_list[1].q["rosync"] = << >>
  /\ sim_at_rosync' = FALSE
  /\ pc' = "del_thr"
  /\ UNCHANGED <<sched_list, lists, flags, schedule_time, sim_started, run_finals,
                 error, running, ins, nev, nint, pending, lost>>

\* A del_thr event deletes its thread and calls no user code.
RunDelThr ==
  LET q == sched_list[1].q["del_thr"]
  IN  /\ At("del_thr") /\ q # << >>
      /\ sched_list' = SetQueue(sched_list, 1, "del_thr", Tail(q))
      /\ pending' = pending \ {Head(q)}
      /\ UNCHANGED <<lists, flags, phase, schedule_time, running, ins, nev, nint, lost>>

\* The end of run_rosync, and the release of the current cell with whatever
\* its queues still hold.
CellEvents(c) == UNION {{c.q[s][i] : i \in 1 .. Len(c.q[s])} : s \in SEQ}

\* Mutant of ReleaseCell: the cell stays in the list.
ReleaseCellStays ==
  /\ At("del_thr") /\ sched_list[1].q["del_thr"] = << >>
  /\ pc' = "main"
  /\ UNCHANGED <<sched_list, lists, flags, schedule_time, sim_started, sim_at_rosync,
                 run_finals, error, running, ins, nev, nint, pending, lost>>

ReleaseCell ==
  /\ At("del_thr") /\ sched_list[1].q["del_thr"] = << >>
  /\ error' = (error \/ RwEvents(sched_list[1]))
  /\ lost' = lost \cup CellEvents(sched_list[1])
  /\ pending' = pending \ CellEvents(sched_list[1])
  /\ sched_list' = Tail(sched_list)
  /\ pc' = "main"
  /\ UNCHANGED <<lists, flags, schedule_time, sim_started, sim_at_rosync, run_finals,
                 running, ins, nev, nint>>

LoopDone ==
  /\ At("main") /\ ~(schedule_runnable /\ sched_list # << >>)
  /\ schedule_runnable' = run_finals
  /\ pc' = "final"
  /\ UNCHANGED <<sched_list, lists, schedule_stopped_flag, schedule_single_step_flag,
                 stop_is_finish, schedule_time, sim_started, sim_at_rosync, run_finals,
                 error, running, ins, nev, nint, pending, lost>>

FinalDone ==
  /\ At("final") /\ ~(schedule_runnable /\ schedule_final_list # << >>)
  /\ Goto("Postsim") /\ UNCHANGED <<sim_started, run_finals>>

PostsimDone ==
  At("Postsim") /\ Goto("done") /\ UNCHANGED <<sim_started, run_finals>>

Loop ==
  \/ Simulate \/ EndOfCompileDone \/ InitDone \/ StartOfSimDone \/ PrestartDone
  \/ RunInit \/ RunPrestart \/ RunFinal \/ Return
  \/ Stop \/ StopIsFinish \/ StopInteract
  \/ \E cmd \in {"cont", "finish", "step"} : StopHandlerReturns(cmd)
  \/ AdvanceTime \/ NextSimTimeDone \/ RunStart \/ StartDone \/ SameTime
  \/ Promote \/ RunActive
  \/ BeginRosync \/ RunRosync \/ EndRosync \/ RunDelThr \/ ReleaseCell
  \/ LoopDone \/ FinalDone \/ PostsimDone

Terminated == pc = "done" /\ UNCHANGED vars

Next ==
  \/ Schedule \/ Insert
  \/ schedule_finish \/ schedule_stop
  \/ \E sigint \in BOOLEAN : signals_handler(sigint)
  \/ Loop \/ Terminated

Spec == Init /\ [][Next]_vars

\* A call in progress goes on, user code returns, and the loop takes its
\* next step: the program is one thread that is never blocked.
FairSpec == Spec /\ WF_vars(Insert) /\ WF_vars(Loop)

-----------------------------------------------------------------------------
(***************************************************************************)
(* Properties.                                                             *)
(***************************************************************************)

\* Every variable has its type.
TypeOK ==
  /\ sched_list \in Seq(Cell)
  /\ schedule_init_list \in Seq(Event)
  /\ schedule_prestart_list \in Seq(Event)
  /\ schedule_final_list \in Seq(Event)
  /\ schedule_runnable \in BOOLEAN /\ schedule_stopped_flag \in BOOLEAN
  /\ schedule_single_step_flag \in BOOLEAN /\ stop_is_finish \in BOOLEAN
  /\ sim_started \in BOOLEAN /\ sim_at_rosync \in BOOLEAN
  /\ run_finals \in BOOLEAN /\ error \in BOOLEAN
  /\ schedule_time \in Time
  /\ pc \in PCs
  /\ running \in Event \cup {Nil}
  /\ ins \in Insertion \cup {Nil}
  /\ nev \in Nat /\ nint \in Nat
  /\ pending \subseteq Event /\ lost \subseteq Event

\* The parts of schedule_simulate that work on the cell of the current time
\* through the local pointer ctim.
InCell == pc \in {"NextSimTime", "start", "dispatch", "rosync", "del_thr"}

\* While the loop works on a cell through ctim, whatever the code it runs
\* inserts, that cell stays the head of the list: "sched_list = ctim->next"
\* drops that cell and no other.
HeadIsCurrent ==
  InCell => sched_list # << >> /\ sched_list[1].delay = 0 /\ sched_list[1].at = schedule_time

\* The delta list: a cell's delay is the distance from the cell before it,
\* the first one's from the current time, and no two cells stand for one time.
DeltaList ==
  /\ sched_list # << >> =>
       sched_list[1].at = AddTime(schedule_time, sched_list[1].delay)
  /\ \A k \in 2 .. Len(sched_list) :
       /\ sched_list[k].delay > 0
       /\ sched_list[k].at = AddTime(sched_list[k - 1].at, sched_list[k].delay)

\* An event of the queue is run at the time it was scheduled for: the time of
\* the schedule_* call plus its delay, modulo the width of the time.
RunsWhenDue ==
  running # Nil /\ InCell => running.due = schedule_time

\* The queues of a cell hold events of its time only.
Timed ==
  \A k \in 1 .. Len(sched_list) : \A s \in SEQ :
    \A i \in 1 .. Len(sched_list[k].q[s]) :
      sched_list[k].q[s][i].due = sched_list[k].at

\* The loop invariant of the walk in schedule_event_: the delay still to go is
\* counted from the cell before ctim, or from the current time at the head.
WalkInvariant ==
  ins # Nil =>
    /\ IF sched_list = << >> THEN ins.ctim = 1 ELSE ins.ctim \in 1 .. Len(sched_list)
    /\ IF ins.ctim = 1
         THEN ins.cur.due = AddTime(schedule_time, ins.delay)
         ELSE /\ ins.delay > 0
              /\ ins.cur.due = AddTime(sched_list[ins.ctim - 1].at, ins.delay)

\* The release of a time step drops no event without the SCHEDULER ERROR
\* message, except for start-of-time-step callbacks: one for the time that
\* is current already is in a queue that nobody looks at again.
NoSilentLoss == error \/ \A e \in lost : e.seq = "start"

\* Two events of one region and time run in the order they were scheduled,
\* whatever the delays they were scheduled with; events pushed to the front
\* run latest first, before everything else that the loop takes from active.
InOrder ==
  [][InCell /\ running = Nil /\ running' # Nil =>
       \A e \in pending \ {running'} :
         e.due = schedule_time =>
           /\ e.seq = running'.seq /\ ~running'.push /\ ~e.push => e.id > running'.id
           /\ e.push /\ pc = "dispatch" => running'.push /\ e.id < running'.id]_vars

\* The simulation ends when events run out: schedule_simulate returns.
Terminates == <>(pc = "done")

\* Every event of the queue is run unless the simulation is finished first or
\* the event is dropped with its time step.
EventuallyRuns ==
  \A i \in 1 .. MaxEvents :
    (\E e \in pending : e.id = i) ~>
      ((\A e \in pending : e.id # i) \/ ~schedule_runnable \/ pc \in {"final", "Postsim", "done"})

=============================================================================
