# A TLA+ model of the vvp simulator

This directory holds a verification project for the Icarus Verilog derivative
in this repository: TLA+ modules translated from the C++ source of the run-time
`vvp/` and of two core structures of the compiler, configurations that model-check them with TLC, and theorems
about them checked by TLAPS. `PROJECT.json` is the index: it lists components,
runs, mutants, the lines each definition stands for, findings, hazards and
theorems.

## The system

The repository is a Verilog compiler and simulator. A design goes through

    ivlpp (preprocessor) -> ivl (parser, elaboration, netlist passes)
      -> tgt-vvp (code generator) -> vvp (simulator) <-> vpi modules

Everything before `vvp` is a sequential translation of trees and text. What is
hard there is that passes rewrite a graph in place while they walk over it; the
two structures this happens to, the ring of nodes of a design and the circles of
links of a nexus, are modelled. `vvp` is where the hard behaviour is: hundreds
of threads, net updates and callbacks are interleaved by one event queue, each
may create, wake, disable or delete the others, and user code (VPI callbacks,
signals, an interactive prompt) enters at several points of the loop.

| Component | State it keeps | Operations | Interacts with |
|---|---|---|---|
| scheduler, `schedule.cc` | list of time cells with seven queues each, init/prestart/final lists, time, run/stop flags | `schedule_*`, `schedule_simulate`, `schedule_finish`, `schedule_stop`, signal handler | calls every other part through `run_run` |
| threads, `vthread.cc` | per thread: pc, parent, children, detached children, nine flags; per scope: its threads | the opcodes that fork, join, detach, disable, wait, delay, call, end | scheduler, wait lists, code generator's protocol |
| events, `event.cc` | wait lists, edge state, deferred events of a store | `%wait`, `%event`, `recv_vec4` | threads, nets |
| contexts, `vthread.cc`, `vvp_net.cc` | read and write context stacks of a thread, free contexts of a scope | `%alloc`, `%free`, `%fork`, `%join`, `%callf` | threads |
| delays, `delay.cc` | list of pending outputs, pulse state, module paths | `recv_*`, `run_run` | scheduler, nets |
| VPI callbacks, `vpi_callback.cc` | lists per object and per reason | register, remove, run | scheduler, nets |
| nets and functors, `vvp_net*.cc`, `logic.cc`, `resolv.cc` | values, force masks, strengths | `recv_*`, `send_*`, `force_*`, `release` | scheduler (functor events), events, VPI |
| islands, `vvp_island.cc`, `island_tran.cc` | ports, branch states, flagged flag | `flag_island`, `run_run` | scheduler, nets |
| user defined primitives, `udp.cc` | rows compiled to masks, input masks, current output | `compile_table`, `recv_vec4_from_inputs`, `run_run` | scheduler, nets |
| functions in expressions, `ufunc.cc` | inputs, the thread of the call, the function's variables | `recv_vec4`, `%exec_ufunc`, `%reap_ufunc` | threads, contexts, nets |
| netlist, `net_design.cc`, `functor.cc`, `cprop.cc`, `net_link.cc`, `link_const.cc` | ring of nodes and the iterator over it; circles of links, cached constants | `add_node`, `del_node`, `functor`, `cprop`; `connect`, `unlink`, `driven_value` | every pass of the compiler |
| containers, `array.cc`, `vvp_darray.cc` | words, queues, bounds | read, write, push, pop | threads, nets |

The rest of the repository is listed in `PROJECT.json` with the reason why it is
not modelled.

### What is hard here

* *Time differences.* The event list stores for each cell the distance to the
  cell before it. An insertion has to split a distance, the walk has to consume
  it, the loop has to zero it, and the 64 bit time wraps.
* *Shortcuts.* Four operations skip the walk and write into the first cell. They
  may do that only if the first cell is the current time.
* *Re-entrancy.* The loop keeps a pointer to the current cell while user code
  inserts into the list. `do_callf_void` and `of_FORK` run a thread inside an
  opcode of another thread and look at it afterwards.
* *Object lifetime.* A thread object is freed by whoever finds that no queue and
  no wait list holds it: its own `%end`, its parent's `%join`, a `%disable` by
  anybody, or `%zombie`.
* *The join protocol.* `%join` may come before or after the child's `%end`;
  children may be disabled in between; detached children report to a different
  set and wake a different wait.
* *Deferred events.* A store that passes through intermediate values holds back
  the events it causes until the functors scheduled on its behalf have run, and
  those schedule more functors.
* *Cancelled but not forgotten.* A delay functor cancels a value in its own list,
  while the scheduler keeps the event that would have sent it.
* *Lists changed under a walk.* Value callbacks, event controls and nodes are
  added and deleted by the code that the walk over their list calls.
* *Layers of control over one value.* Store, assign, force and release overlap on
  parts of one signal.
* *Incremental evaluation.* Resolver trees, islands and cached constants are
  brought up to date by the part that changed, never computed from scratch.
* *Interruption.* `$finish`, `$stop` and signals change the flags of the loop
  between any two events, or in the middle of a function.

`PROJECT.json` lists these at their lines as hazards, with the properties that
would catch each of them going wrong and, where none does yet, the reason.

## Modules

| Module | Models | Checked by |
|---|---|---|
| `Schedule` | `schedule.cc`, as `stop.cc` and `vpi_callback.cc` use it | `MCSchedule` |
| `EventQueue`, `ScheduleRefinement` | the abstract queue, and the mapping that shows `Schedule` implements it | `MCSchedule` |
| `VThread` | the life of threads, `vthread.cc` | `MCVThread` |
| `EventDefer`, `EventCtl` | deferral of events in stores; event controls of non-blocking assignments, `event.cc` | `MCEvents` |
| `Delay`, `ModPath` | delay functors; module paths, `delay.cc` | `MCDelays` |
| `Signal`, `VpiCallback` | a signal under assign, force and release, `vvp_net_sig.cc`; the list of its value callbacks, `vpi_callback.cc` | `MCSignals` |
| `Strength`, `Resolver`, `Udp` | values with strength, `vvp_net.cc`; resolvers, `resolv.cc`; user defined primitives, `udp.cc` | `MCFunctors` |
| `Island` | bidirectional switches, `vvp_island.cc`, `island_tran.cc` (uses `Strength`) | `MCIsland` |
| `Context`, `UFunc` | contexts of automatic scopes, `vthread.cc`; functions in expressions, `ufunc.cc` | `MCCalls` |
| `CProp`, `Nexus` | the ring of nodes under constant propagation, `net_design.cc`, `functor.cc`, `cprop.cc`; circles of links, `net_link.cc`, `link_const.cc` | `MCNetlist` |

The theorems about a component and their proofs are in a module of their own, named
after it: `ScheduleProofs`, `SignalProofs`, `DelayProofs`, `EventDeferProofs`, `ContextProofs`,
`NexusProofs` and, for `VThread`, `VThreadProofs` and `VThreadFamilyProofs`. The second parts of
`SignalProofs`, `EventDeferProofs` and `ContextProofs` are about instances of `VpiCallback`, `EventCtl`
and `UFunc`; see *What is proved*.

### Schedule — the event queue and the main loop

State and code correspond one to one. `sched_list` is the linked list of
`event_time_s`; a cell is `[delay, at, q]`, where `q` maps each of the seven
queues (`SEQ`) to a sequence of events. The code keeps each queue as a circular
list with a pointer to its tail; a sequence is what that list represents. `at`,
`pending`, `lost` and the field `due` of an event are history: they do not
exist in the code and no guard reads them. `schedule_runnable`,
`schedule_stopped_flag`, `schedule_single_step_flag`, `stop_is_finish`,
`sim_started`, `run_finals` and the three lists have their source names. `pc` is
the place in `schedule_simulate`, `running` the event whose `run_run` is on the
stack, `ins` the locals of `schedule_event_` while it walks the list.

* `schedule_vthread`, `schedule_inactive`, `schedule_assign` (the six
  `schedule_assign_*`/`force`/`propagate` operations, which differ in the event
  they carry), `schedule_set_vector`, `schedule_generic`, `schedule_functor`,
  `schedule_at_start_of_simtime`, `schedule_at_end_of_simtime`,
  `schedule_del_thr`, `schedule_vthread_list_ready` and the three list
  operations are enabled wherever the code runs user code: while an event runs,
  in the callbacks before, between and after time steps, at the prompt of the
  stop handler, and while the design is compiled.
* `InsertFirst`, `InsertFront`, `WalkNext`, `InsertBetween`, `InsertHere` and
  `InsertTail` are the branches of `schedule_event_`. The walk is one action per
  cell so that a signal can arrive in the middle of it.
* `Simulate` ... `PostsimDone` are the steps of `schedule_simulate` in its order,
  `BeginRosync` ... `ReleaseCell` those of `run_rosync`.
* `schedule_finish`, `schedule_stop` and `signals_handler` are requests that may
  come at any time the code allows them.

Read-only synch: `vpi_put_value` and `vpi_register_cb` refuse to schedule
some events while `sim_at_rosync` is set (`vpi_priv.cc`); other paths do not ask,
so the model lets user code schedule and the loop report the
`SCHEDULER ERROR`, as the code does.

### VThread — the life of threads

`thread[t]` is the `vthread_s` object `t`, with the source's flags. An identifier
is not used again, so a reference to a deleted thread stands for a dangling
pointer. The program of a thread is abstracted: between two statements the next
one is any member of `Code[scope]`, inside a fork the numbers of `%fork`,
`%join` and `%join/detach` still to execute are what
`show_stmt_fork` and `show_stmt_block_named` of `tgt-vvp/vvp_process.c` emit.
`active`, `inactive` and `later` are the part of the event queue that threads
use, `waiting[e]` the wait list of a named event, and `stack` the nested calls of
`vthread_run`: a function runs on the C++ stack of its caller.

`do_disable` and `vthread_reap` are functions from states of all threads to
states of all threads; the order in which `do_disable` visits the children of a
thread does not change its result, while `of_DISABLE`, whose order does matter,
is a loop of actions with an arbitrary choice (`scope->threads` is a set of
pointers). Every `assert` of the code is evaluated, and a false one sets
`failed`. The other opcodes change the stacks of their own thread only
and are left out. `$finish` ends the simulation and therefore the model's run.

### EventQueue and ScheduleRefinement

`EventQueue` is what the scheduler promises: a set of events, each with a due time
and a region; the regions of the current time are activated one after the other, an
activated event is executed, and the time moves on to the nearest due event when
nothing is left. It knows no cells, distances, walk or queues.
`ScheduleRefinement` maps `Schedule` to it: the set is the union of the queues of
all cells, and the activated events are those promoted into the active queue of
the first cell. `ImplementsQueue` is the abstract specification, checked as a
property of `Schedule`.

### EventDefer

A send is depth-first in the code: `vvp_send_vec4` calls each sink, which may send
again. `todo` is that stack of calls still to make, so that an action is one call
and the brackets of a transaction are entries of the stack. `pool` holds the
transactions with their counts and held events, `queue` the active queue with
the transaction each functor carries, `vvp_event_defer_depth` and
`vvp_current_event_defer` are the globals. `legal[e]` is history: the values that
event control `e` may see, which are those of the net at rest between
statements and stores that are not deferred.

### EventCtl

`link`, `last` and `ecount_` are the linked list of `evctl` objects with the
pointer that is both its end and the cursor of `run_waiting_threads_`; `calls`
are the nested activations of that function. The assertion of `dec_and_run` is a
guard, so its failure would be a deadlock. `due` and `order` are history.

### Delay and ModPath

`list_` is the circular list of pending values from the oldest to the newest,
`generics[t]` the number of `run_run` calls the scheduler holds for time `t`: a
cancelled value leaves its `run_run` behind. `Early` bounds how often the input
changes in a time step before a value due in that step is sent. `in`, `since`,
`were` and `ready` are history. In `ModPath` the
sources have their wake times, conditions and tables of twelve delays; the bits
that change at one time share an entry of `events`.

### Signal and VpiCallback

`Signal` is one vector signal: the functor (`bits4`, `assign_mask_`, the linked
source) and the filter behind it (`force_mask`, `force4`, the linked source of a
force). A part is the set of its bits. `hold`, `ca` and `fo` are history and say,
per bit, what the language gives the signal; `ValueIsRight` compares the two.
In `VpiCallback` an action is a call of user code or one step of the walk; `walks` is
the stack of walks that are under way, each with the `next` and `prev`
it has read. That a callback which is used still exists is a guard.

### Strength, Resolver, Udp, Island

`Strength` has the operators of `vvp_scalar_t`; a strength is a range from `s0` to
`s1` as in the code's eight bits. `RangeOf` is a reference definition that resolves any
number of drivers at once. `Resolver` keeps the tree of the code in one array and
evaluates the branch above the driver that changed. `Island` has one action per
step of a run; while a result is sent, other code may write a port. Its
reference definition adds up the drivers along all paths of the mesh, for the
switches as they are set or (`CanSettle`) as they could be. `Udp` compiles rows to
masks, which are sets of bit positions limited by the width of the machine word,
and its reference definition reads the rows as the language defines them.

### Context and UFunc

`Context` has the read and the write context of each thread, the one link
`stacked` of each context, and the free list of each scope, as the generated code
for nested calls uses them. `UFunc` has the functors, the thread of each and the
argument variables of the function they share, static or in contexts.

### CProp and Nexus

`CProp` has the ring with both links of every node and the two pointers of the
walk; which optimisation applies at a visit is a choice, and addresses are used
again. `Nexus` has `next_`, `nexus_`, `list_` and `driven_` of the code; `joined` is
history, the partition of the links that connects and unlinks have made. `pins` has the
NetSubstitutes of a behaviour: whether pin 0 of one drives a constant depends on the
nexuses of its other pins, which `drivers_constant` asks, and whose guesses it
writes, in the order of the links (`Asks`, `Asked`, `Guess`). `driven_value` passes over it.
A NetSubstitute stays for the whole behaviour; its pins are connected and merged, not
unlinked or destroyed.

### MC modules

Each MC module asks its question of one family of components. It extends one
component, instantiates the others with small constants, and has a variable `part`
(`mesh` for islands) that `Init` chooses and no step changes: a behaviour is about
one instance, and the variables of the others stay as they were. Properties of
instantiated components are named and stated in the MC module.

## What the runs show

| Run | Instance | What it shows |
|---|---|---|
| `schedule_safety` | time modulo 4, delays 0, 1, 3, three events, one interrupt, started without `-s` | time, order and completeness of the queue; it implements `EventQueue` |
| `schedule_live` | two events, with and without `-s`, fairness | the simulation ends, every queued event runs unless finished first |
| `vthread` | three designs: forks of all kinds with one process; two processes that disable each other's scopes; two processes with functions; five threads | family, joins, waits, deletion and calls of threads (629 thousand states) |
| `vthread_join_early` | two processes, four threads, a `join_none` fork that is disabled | violation, see below |
| `events` | two threads, three signals, four functors, four stores; three event controls with counts up to 3, four events | no glitch is seen, the last value is; controls run at their event (381 thousand states) |
| `delays` | one bit with two and with three delays, a real; two bits behind three paths, one bit with `put_delay12` | values arrive, on time, without pulses (796 thousand states) |
| `delay_twice` | as `delays`, two changes of the input before a value due now is sent | violation, see below |
| `signals` | two bits as variable and as net; four callbacks, three changes, walks nested up to three | the value, who is told of it, the list of callbacks (558 thousand states) |
| `functors` | one bit with five drivers, three bits with two drivers of parts; primitives of two inputs with all row characters | resolution is independent of order; primitives follow their rows (430 thousand states) |
| `island` | a line of two switches, one enabled from inside, with drivers of one strength and a force, and with a pull against a strong driver; a cycle of three, two resistive | resolution through switches, end of the run where it can end (211 thousand states) |
| `calls` | four threads, two scopes, three contexts, one disable; two functors with two inputs each | contexts, calls in expressions (156 thousand states) |
| `netlist` | five nodes of six kinds; four links of five kinds, of which three may be a NetSubstitute's | walks, rings, circles and caches under change (413 thousand states) |

*Why the bounds are enough.* Three events are needed for two cells and an
insertion in front of, between, into or behind them, and for two events in one
queue with a third pushed ahead of them; delays 1 and 3 reach a split of a
distance, and modulo 4 makes the second advance wrap. One interrupt is enough
because the flags are cleared or final once it is handled. Five threads reach a
fork of two inside which a block is forked, beside a thread of another
process. Four stores make a bracket of two, one before and one after it; the three signals
have a functor chain that reconverges and one that does not. Five inputs of a delay functor put
two values on their way and cancel both. Two bits are the least with a proper part.
Five drivers make the tree of a resolver two levels deep, which four do not.
Three contexts and two scopes reach a call in the arguments of a call and one that is
recursive. Five nodes hold three part selects, the concatenation that replaces them and
a constant; four links make two circles of two that are merged. One NetSubstitute and one other link
are enough for a nexus that only it drives to cache z, for its inputs to become
constant or vary after they were asked, and for one query to write three guesses. Drivers `pull0` and
`strong1` on the line are the least with which the second switch can turn off its own enable.

*Symmetry* is used in `calls` (threads but the first, contexts, scopes) and in
`netlist` (addresses), whose modules compare these values for equality only; neither run
has temporal properties.

*Properties of the scheduler.* `HeadIsCurrent`, `DeltaList` and `RunsWhenDue` say
that the pointer the loop keeps is right, that the distances are right, and that
an event runs at its time. `NoSilentLoss` says that a cell released with events in it
is reported, `InOrder` that events of a queue run first in first out with pushed
ones ahead of them, `ImplementsQueue` all that `EventQueue` does: no event runs
twice or in the wrong region, and the time never leaves one behind.

*Properties of threads.* `NoAssertFails` covers all assertions of the thread
code. `FlagsAreTrue` is what makes deletion safe: the two flags that `vthread_reap`
trusts agree with the queue and the wait lists. `Family` relates parents and
children, `Balanced` the number of children and the joins still to come,
`WaitsCanEnd` says that a parent that sleeps in `%join` or `%wait/fork` still has
something to wait for, `NoneForgotten` that no thread is leaked or left
asleep, `FramesExist` that no call in progress belongs to a freed thread.

*Properties of the other parts.*

* events: `TransactionsAccounted` (a transaction is open exactly while something
  will close it), `NoGlitchSeen` (an event control fires on settled values only),
  `SeenAtRest` (none of the last values was swallowed), `ControlsRun`.
* delays: `InputOnItsWay` (the input's value is the last pending one and each pending
  value has its wake-up), `NoPulse`, `ChangesOnTime`, `LatestApply`.
* signals: `ValueIsRight`, `ToldTheValue`, `EachIsCalled`, `ListIsSound`.
* functors: `NetIsResolved`, `DriversCounted` and `TableFollowed` compare the incremental
  computation with a reference definition in every reachable state or step.
* island: `IslandIsResolved` at rest, and the liveness property `RunEnds`: a run comes to its end, or to a
  state in which its drivers have several strengths (`OneStrength` is false) and no setting of the switches
  that the island itself enables fits the values the nets would then have (`CanSettle` is false). In such a
  state the code runs on until a callback writes another driver, if one does, see `island_tran.cc:117` below.
* calls: `RightContexts` (reads and writes go to the call the code is in),
  `Accounted` (every context is in one place), `FunctorFollows`, `OwnArguments`.
* netlist: `WalkIsSound`, `FixedPointSawAll`, `CirclesAreNets`; `DrivenIsCurrent` (a cached constant is the
  value of the drivers of now, NetSubstitutes left out as `driven_value` leaves them out, see
  `link_const.cc:161` below; where no NetSubstitute drives, it is the value of the nexus).

*Deadlock* is checked but in `delays` and `calls`, where the bounds on inputs and calls
stop the environment. The end of the simulation, of a pass and of user code is
a stuttering action, so a deadlock elsewhere would be a state where the code has nowhere to
go, or one of the assertions that `EventCtl` and `VpiCallback` have as guards.

*Fairness.* `schedule_live` assumes weak fairness of the steps of the loop, which
include the return of user code, and of the walk: the code is a `while` loop in one OS thread, nothing else
can stop it. User code that never returns or schedules for ever
would block the real simulator too; the bound on events excludes the second.
`island` assumes that a run that has begun, or is flagged, goes on: `run_island` is one call, made by the scheduler.
It is weak fairness of the steps of a run with its enabling condition written out, which
TLC evaluates faster. `MaxReacts` bounds what the fan-out may do within a run.

## Findings

Two runs disagree with what a comment of the code says; `PROJECT.json` quotes the
lines.

1. `vthread_join_early`: `do_disable` lacks the test `i_am_detached` of `of_END`.
   Disabling a named block that runs in a `join_none` fork wakes its parent out of
   the `%join` of another child. The parent goes on with a live child and fails an
   assertion.
2. `delay_twice`: `list_->next` is the oldest pending value where the comment says
   the most recent one. A return of the input to a value that is due in
   this time step but not sent yet is dropped.

### Other disagreements met while modelling

The passing runs choose constants and designs that keep clear of the following
places, in which the code does not do what its comments say. Where a constant in
parentheses is named, setting it so makes TLC show the behaviour.

* `schedule.cc:1392`: a callback for the start of the time step that is current is
  deleted with the cell and never runs.
* `vthread.cc:2901`: a detached thread that is disabled stays in
  `detached_children`; `wait fork`, "suspending the current thread until all the
  detached children have finished" (`vthread.cc:8324`), never returns (the design
  `DetachedM` with `WaitsCanEnd`).
* `vthread.cc:896`: "If this thread is not scheduled, then is it safe to delete it
  now." A function that disables the block it was called from, and a function that was stopped, resumed
  and then returns from a nested block, free threads whose call is still on the C++ stack.
* `event.cc:93`: a transaction that waits for functors of one part delivers the
  value it has captured after a plain store has already delivered a newer one, against "event
  controls see only the value after the complete assignment and its zero-delay
  propagation have settled" (`event.cc:46`).
* `event.cc:125`: the generator evaluates an index of the l-value between the brackets of a
  multi-part assignment (`stmt_assign.c:663`); a `$stop` in a function
  called there lets functors run with `vvp_event_defer_depth` set, which the assertion
  forbids.
* `event.cc:253`: an event control whose assignment fires its own event is met
  again by the nested walk with a count of zero, and the assertion fails
  (`Retriggers`).
* `delay.cc:461`: a real equal to the present output is dropped although
  another value, due in this time step, is still to be sent (`Early` of the part
  `real`).
* `delay.cc:709`: of two `ifnone` paths that have not changed since time 0 only the
  first is a candidate, although the least delay of all is to be used.
* `vpi_callback.cc:913`: a walk inside a walk deletes removed callbacks that the
  outer walk still holds (`Removes` with `MaxDepth` 2).
* `vvp_net_sig.cc:1169`: releasing a force from a variable that is also
  continuously assigned changes its value and tells nobody (`Overlap`, hence
  the part `sent`).
* `vthread.cc:3561`: a force of a constant over a force of a net leaves the link of the
  first in place (`Relink`).
* `vvp_net_sig.cc:336`: a deassign of a part while nothing is assigned fails an
  assertion; for the whole signal it does nothing.
* `resolv.cc:174`: on a `tri0` or `tri1` net with one driver the pull is stored as the
  driver's own value, and `$countdrivers` counts a driver that is z (`NPorts` 1).
* `vvp_net.cc:3943`: a value as strong as one end of an ambiguous range is
  neither swept up nor widens it, so the result depends on the order of the ports
  (`Scalars` with ambiguous values).
* `vvp_island.cc:228`: a callback that releases a net while the island sends its results
  runs the island inside its own run, and ports not sent yet keep their old
  value.
* `island_tran.cc:117`: "check if the enable inputs have been affected by the resolution"
  goes back without a bound. In the line with e = 1, a and b driven `pull0`, c `strong1` and `tranif0 (b, c, a)`, the
  second switch is on while a is 0, then a becomes 1 and turns it off, a falls back to 0, and so on for
  ever; simulated time stands still. `RunEnds` leaves such states out (`OneStrength \/ CanSettle`); without
  this disjunct TLC shows the loop in the instance. In such a run a port that a callback writes meanwhile changes an enable
  that is an import of the island, and the run does not read it again. That a run ends whenever a setting exists is
  checked for one switch enabled from inside; several could turn each other on and off although a setting exists, and are
  not in the instance.
* `link_const.cc:161`: "Given the nexus has constant drivers, this method returns the value that has been
  driven" (`netlist.h:450`). `drivers_constant` counts a NetSubstitute whose inputs are constant as
  a constant driver, `driven_value` does not look at it, and so returns and caches z for a nexus
  that only it drives. `Nexus::connect` (`net_link.cc:77`) takes the z to mean that nothing drives the nexus and keeps
  the guess of the one it is joined with, where there may now be two constant drivers. The model does the same
  (`driven_value`, `Splice`), and `DrivenIsCurrent` says nothing of what NetSubstitutes drive.
* `link_const.cc:107`: the guess of a nexus is not dropped when the inputs of a NetSubstitute that drives it
  change, so VAR may be older than they are. And a NetSubstitute that hangs on its own output makes
  `drivers_constant` call itself without end, unless a pull before it in the list of links has set the guess; `Returns`
  excludes queries of such a nexus.
* `ufunc.cc:148`, `ufunc.cc:180`: an input that changes while the result is sent, or while
  the function is stopped, does not call the function again (`MaxStops` of the
  part `static`).
* `cprop.cc:141`: a flip-flop at the head of the list is deleted without being
  counted and ends the walk, so that the last pass may not have "[seen] every
  surviving constant" (`cprop.cc:460`). `QuietScanSawAll` excludes such a pass.
* `udp.cc:775`: `1 << port_count()` is computed in an `int` while the tables have as
  many bits as an `unsigned long` (`IntBits` 2).

## What is proved

The proof modules hold, beside the runs' small instances, for every value of the
constants that satisfies the named assumptions. Every theorem is an invariant, an
action property or a refinement; each proof finds an inductive invariant, proves
that it holds initially and that each action keeps it, one lemma per action or
group of actions, and derives the property from it.

| Proof module | Theorem | Property | Conditions |
|---|---|---|---|
| `ScheduleProofs` | `TypeCorrect`, `HeadStaysCurrent`, `DeltaListCorrect`, `EventsRunWhenDue` | `TypeOK`, `HeadIsCurrent`, `DeltaList`, `RunsWhenDue` | |
| `ScheduleProofs`, second part | `NothingLostSilently`, `RunsInOrder`, `SchedulerImplementsQueue` | `NoSilentLoss`, `InOrder`, `ImplementsQueue` | |
| `EventDeferProofs` | `DeferralAccounted` | `TransactionsAccounted` | |
| `EventDeferProofs`, second part | `ControlsRunInOrder` | `TypeOK` and `ControlsRun` of `EventCtl` | `Retriggers` is empty |
| `ContextProofs` | `ThreadsUseTheirContexts`, `ContextsNeverLost` | `RightContexts`, `Accounted` | |
| `ContextProofs`, second part | `OneThreadPerFunctor`, `CallsKeepTheirArguments`, `FunctorsFollow` | `OneThread`, `OwnArguments`, `FollowsInput` of `UFunc` | none; automatic; no stops, `HoldsItsOutput` |
| `SignalProofs` | `SignalTypes`, `SignalHasItsValue`, `FanOutHasTheValue` | `TypeOK`, `ValueIsRight`, `SeenIsValue` | none; `~Relink`; a net, or `~Overlap` |
| `SignalProofs`, second part | `CallbacksAreCalled` | `TypeOK`, `EachIsCalled` and `ListIsSound` of `VpiCallback` | `MaxDepth = 1`, or not `Removes` |
| `DelayProofs` | `DelayedInputArrives`, `DelayPassesNoPulse` | `InputOnItsWay`, `NoPulse` | `Gently` |
| `VThreadProofs` | `FlagsTheorem` | `FlagsAreTrue` | |
| `VThreadFamilyProofs` | `FamilyTheorem` | `Family`, `Balanced`, `WaitsCanEnd`, `NoneForgotten` | `DisablesJoined`, no failure so far |
| `VThreadFamilyProofs` | `AssertsTheorem` | these, and `NoAssertFails`, `FramesExist` | `DisablesJoined`, `NoCalls` |
| `NexusProofs` | `CirclesTheorem`, `DrivenTheorem` | `CirclesAreNets`, `DrivenIsCurrent` | |

*The scheduler* (`ScheduleProofs`), for every `TimeMod > 0`, every set of delays, any number
of events and interrupts. The theorems rest on `Invariance`, the inductive invariant

    Inv == TypeOK /\ HeadIsCurrent /\ DeltaList /\ Timed /\ WalkInvariant /\ RunsWhenDue

`RunsWhenDue` alone is not inductive: an event runs on time because it sits in a
cell of its time (`Timed`), whose time is the current one because the distances add up
(`DeltaList`) and the loop works on the head (`HeadIsCurrent`). That an
insertion puts the event into the right cell needs `WalkInvariant`: at each
point of the walk, the distance left from the cell before is what
separates that cell from the time the event is due. Its one arithmetical
fact is `AddTimeSplit`: adding a delay modulo `TimeMod` in two parts is adding it
at once.

*Order and refinement* (second part of `ScheduleProofs`). On top of `Inv`,

    QueueInv == Arranged /\ Ages /\ Walking /\ PendingInList /\ ReadOnly

(`QueueInvariance`): the queues of each cell are sorted by age with pushed events
in front, no cell is empty, and the cells come in the order of their distance from
now (`Arranged`); the event that a walk carries is the newest of all (`Ages`) and the
walk has passed earlier cells only (`Walking`); what was scheduled and not run is in the
list or in the walk (`PendingInList`); from the read-only region on nothing is promoted
(`ReadOnly`). Because of the wrap-around, times can be compared only as distances
from now, and distances change with every advance: the order of the cells is
kept by an advance because each distance shrinks by the same amount. `RunsInOrder` then
compares the event that runs with all of its queue, and
`SchedulerImplementsQueue` maps each step to one of `EventQueue` or to a stutter.

*Deferred events* (`EventDeferProofs`), for every net and program. `TransactionsAccounted` does
not say when a transaction is current. `DeferInv` adds which of the calls in progress
may be last, and that this last call tells whether the simulator is in a store, in a
functor of a transaction or in the end of one (`Control`). It follows that no
assertion of `vvp_event_defer_enter`, `_leave` and `_end` fails.

*Contexts* (`ContextProofs`), for any number of threads, scopes, contexts, calls and
disables. The threads come first (`ThreadInv`): only the innermost call of a thread is beyond
its arguments, the children of a thread are those of its one call or of its fork, and the
threads are a tree, which is stated without induction: every set that has the root and is
closed under children has all threads. `ContextInv` builds on it: the links `stacked`
are the frames of the thread (`Placed`), a thread was made with the context of a call that
still waits for it (`Made`, `Waited`), no two calls share a context, and the lists of a
scope hold what the calls hold (`Lists`, `Books`, `Home`). The test of `do_join`, which
tells the thread of a call from that of a block by comparing contexts, is right because the
context that a thread was made with is of a call that waits and therefore differs
from those of its own calls. A disable returns no context that somebody uses because
only threads below a call have its context, and those end with it.

*Threads* (`VThreadProofs`), for every design: any scopes, statements, events and any finite number
of threads. `FlagsAreTrue` counts how often a thread is in the lists, which no step keeps
by itself. `FlagInv` says where each thread is:

    FlagInv == TypeOK /\ ListsOnce /\ FlagsHold /\ Frames

a thread is at most once in the active queue, the inactive queue, the delayed events and the rest of a
list being run, and in one of them only (`ListsOnce`); `is_scheduled` says that it is in one, `waiting_for_event`
that it is in a wait list, and a thread in a list is neither in a call in progress nor asleep in a
`%join` or `%wait/fork` (`FlagsHold`); the calls in progress are of different threads, which were born (`Frames`). The join protocol enters because
`of_END` and `do_disable` schedule a parent they find asleep: asleep excludes
scheduled, so the parent is in the queue once. What `vthread_reap`, `do_disable` and the deletion of an
object do to the flags is a set of lemmas about the operators (`ReapQuiet`, `TurnOffQuiet`, `DisableEffect`); `FlagsStep` has one lemma
per action, and `FlagsCounted` turns "in one list, once" into the numbers of `FlagsAreTrue`. The theorem does not need
the family of threads to be right: it holds in the designs of the findings too.

*The family of threads* (`VThreadFamilyProofs`), on top of `FlagInv`. Until an assertion fails,

    FamilyInv == ~failed => FamilyOf(thread, Calling, Calls, Tops) /\ DisablingHolds /\ CallsAlone

and `FamilyOf` has four parts. `Tree`: parents and children point to each other (`Linked`), each
thread by itself makes sense (`Sound`: one that has ended has no children left to join, a
detached one with a parent has not ended), and there is no circle of parents (`Founded`, stated without
induction: every set of threads has one whose parent is outside). `Statements`: the joins to come of a
fork statement, and the one its parent sleeps in, are as many as its children, and a
sleeping parent has a child that has not ended. `Waits`: a parent in `%wait/fork` has detached
children. `Cared`: every thread is in a list, or in a call in progress, or asleep in one of
the two, or has ended and has a parent that will join it. The steps that delete differ only in which
threads leave the tree: `Cut` and `UsualCut` say what is left when the threads in a set are cut off
and others lose their detached children, `CutTree` and `CutStatement` that the family stays whole, and
`ReapCut`, `DisableReaps`, `DeadCut` and `AtEndCut` that what the code does is such a cut. `AssertsTheorem` adds `RunInv`:
without function calls only an event calls `vthread_run`, and its thread exists unless the opcode has
just returned false or `%disable` has hit its own thread. Each opcode's assertions then follow from the family
(`JoinAsserts`, `EndAsserts`, `DisableReady`, ...): the child that `%join` reaps is its
own and not detached, and the thread that `of_END` or `do_disable` wakes is not scheduled.

*Signals* (`SignalProofs`), for every width, variables and nets. `ValueIsRight` speaks of the one
value per bit that is seen; `Layers` says where the hidden ones are kept and `Links`
that a linked force covers the whole signal. `FanOutHasTheValue` rests on `Told`, in
which a signal is not forced and assigned at once.

*Callbacks* (second part of `SignalProofs`), for any callbacks, whatever they add and remove. That a
callback is still to be met by a walk is stated without induction: it is in every set that has the
link the walk goes to next and is closed under `next` (`Ahead`). `ListInv` says that the links are one chain
with all that is allocated (`Chain`), that each walk holds either the callback it is in or the place behind
one (`Walkers`), that what a walk owes is ahead of it, or removed, or owed by a walk inside it (`Owed`), and
that what was removed before this change is ahead of the outermost walk (`Reaped`).

*Event controls* (second part of `EventDeferProofs`), for any controls, counts and events. The list and the
walk share `last`, so that a control that an assignment schedules is hung where the walk stands. `CtlInv`
says that the links lead through the controls in the order of scheduling (`Listed`), that there is
one place in this order where the walk is and `last` points (`Cursor`), and that a control waits for as many
events as its count says, one more beyond that place (`Counting`).

*Circles of links* (`NexusProofs`), for any links, kinds and sequence of connects, unlinks, destructors
and queries. `NexusInv` says of each set of connected links (`Net`) that it is a link without a nexus, or one ring
whose last link alone points back to the nexus that points to it, and that what this nexus has
cached is that of its drivers other than NetSubstitutes (`Right`). That the ring is whole is stated without induction: no part of it is closed under
`next_` (`Ring`). Lemmas say what a ring is after a link is put in (`RingExtended`), two rings
are opened and joined (`RingsSpliced`) or a link is taken out (`RingShortened`); `RightInputs` and `RightMerged`
are why `Nexus::connect` may keep the guess when an input comes, and when a net that nothing drives is joined.
`NetsChanged` then needs only the sets a step touches. A query writes the guesses of all the nexuses it asks;
each is right by the links of that nexus alone.

*Delays* (`DelayProofs`), for all values, delays and changes of the delays. A `run_run` left
behind by a cancelled value sends whatever is due, so `DelayInv` has to say what the list
can hold meanwhile: at most the value due now and the one that replaces it (`OnList`).

*Functions in expressions* (second part of `ContextProofs`), whatever the function computes. `QueueInv`
there says that the functors with a thread are those in the queue, each once, and that a
call is in progress for those past `%exec_ufunc`. For an automatic function, no context of
a call in progress is free or shared (`Apart`).

*Conditions.* Those in the table exclude the places where the code does not do what it says,
each of which is listed under findings and disagreements above and shown by TLC:
a force that replaces a linked one (`Relink`), a release over an
assignment (`Overlap`), two changes of the input before a value due now is sent, or one
for a real number (`Gently` is `Early <= 1`, and 0 for `real`), a function that stops, and
an output that feeds its own functor and does not reproduce itself (`HoldsItsOutput`; a
latch does). `DisablesJoined` excludes the designs of the finding `vthread_join_early` and of
`vthread.cc:2901`: those that disable by its name a scope in which a `join_none`, or a `join_any` of
two or more, forks. All designs of the passing run satisfy it. `NoCalls` excludes function calls, and with them
those of `vthread.cc:896`; it is stronger than these need. Two of the three designs of
`MCVThread` have no calls; with the calls of the third, `NoAssertFails` and `FramesExist` are
checked and not proved, while `FamilyTheorem` covers it. The passing runs satisfy them wherever they check the property. The other assumptions
are about types: `TimeAssumption`, `StoppedAssumption`, `DelaysAssumption`, `NilAssumption` and
`BoundsAssumption` of `Schedule` (the bounds are natural numbers), `NetAssumption` and
`NamesAssumption` of `EventDefer` (a fan-out names functors and events, each once; an event
control has one input, as the generated code gives it; functors are not threads),
`ThreadsAssumption` of `Context` (`root` is a thread, the threads are finitely many),
`ThreadsAssumption`, `NilAssumption` and `RootsAssumption` of `VThread` (finitely many threads, no thread or disable
in progress is `Nil`, at least one design, whose root threads are different), those of `Signal` and `Delay` on their constants, `NexusAssumption` (the kinds of links, that each link can have a nexus, that `Nil` is no
address, and that `Wirings` gives each NetSubstitute two links for its inputs), `UFuncAssumptions`, `VpiCallbackAssumptions` and `EventCtlAssumptions`. TLC evaluates all
of them in the runs. `Retriggers` is empty for the reason given at `event.cc:253`, and callbacks are not removed
in walks within walks for that at `vpi_callback.cc:913`; the runs that check these properties keep both conditions.

*What the proofs changed in the model.* `get_delay` and `vvp_scalar` had `CASE` arms whose
guards overlap, where TLC takes the first and the logic any; they are `IF`s now, as in the code.
`vthread_free_context` removed all copies of a context from a list where the code removes one;
`ContextsNeverLost` shows that there is never more than one. `Below` was a recursive function over the
tree of threads and is now the least closed set, which the prover can use; so are `Descendants` and `Ancestors` of
`VThread`, the circle of a link in `Nexus`, and what can be reached in the lists of `VpiCallback` and `EventCtl`. `do_disable` there looked at the parent before the thread and its children were turned off; it
looks afterwards now, as the code does.

*Only model-checked:*

* liveness (`Terminates`, `EventuallyRuns`, `RunEnds`): fairness and `ENABLED` are out of the prover's reach;
* `NetIsResolved`, `DriversCounted`, `TableFollowed`, `IslandIsResolved`: they compare with a
  definition by a fold or a recursive function, and what such a definition computes needs
  induction over data;
* `NoAssertFails` and `FramesExist` of `VThread` in designs with function calls: they do not hold in all of
  them (`vthread.cc:896`), and which functions are harmless is a condition on all calls in progress;
* `SeenAtRest`, `NoGlitchSeen`: these too depend on the program; the transactions they rest on are proved;
* `WalkIsSound` and `FixedPointSawAll` of `CProp`: the handlers there add and delete sequences of nodes with folds;
* `ChangesOnTime` and `LatestApply`: not attempted. What the properties `ToldTheValue`, `EachIsCalled` and
  `ListIsSound` of `MCSignals`, `ControlsRun` of `MCEvents`, `FunctorFollows` and `OwnArguments` of `MCCalls` say of the
  behaviours of one part is proved of `Signal`, `VpiCallback`, `EventCtl` and `UFunc`.

## What is not modelled

* The opcodes that compute on a thread's own stacks, four-state arithmetic and
  the tables of the single gates: data without interleaving, which unit tests reach.
* Events, signals and functors of automatic scopes, which keep one state per
  context; `Context` models how contexts are chosen and not what they hold.
* Real, string and object signals; array words and their callbacks;
  `vvp_fun_intermodpath`; part-select switches (`tranvp`).
* A composition of `VThread` and `Schedule`: `VThread` has its own small queue, which
  orders threads as `InOrder` says. Only a `$stop` in a final block needs more.
* The front end, synthesis, `nodangle` and the other netlist passes, which add and delete
  nodes and links by the operations that `CProp` and `Nexus` have.
* Text processing (preprocessor, parsers, generators, formatting, waveform
  writers), system tasks, drivers and the wrappers of PLI 1.0: none has
  interleavings for a model checker to find. They are most of the repository's lines.

## Plan

What is left to prove: for `VThread`, that no assertion fails in designs whose functions neither stop nor
disable a block around their call; for `CProp` that the walk is sound, once the handlers that treat several nodes are
steps of their own; for `ModPath` that a change comes out on time.
