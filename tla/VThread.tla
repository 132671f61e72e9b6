------------------------------ MODULE VThread ------------------------------
(***************************************************************************)
(* The life of the threads of the vvp runtime, vvp/vthread.cc: %fork,      *)
(* %join, %join/detach, %wait/fork, %disable, %disable/fork,               *)
(* %disable/flow, %callf, %wait, %delay, %end, and who deletes a thread.   *)
(*                                                                         *)
(* thread[t] is the vthread_s object t; a thread identifier is never used  *)
(* again once its object is deleted, so a reference to a deleted thread is *)
(* a dangling pointer.  The part of the program a thread has left is       *)
(* abstracted to the statement it is in: how many %fork, %join and         *)
(* detached threads the compiled statement still holds (forks, joins,      *)
(* detach).  Between statements the next one is any of Code[scope].        *)
(*                                                                         *)
(* The queue is the part of vvp/schedule.cc that threads use (module       *)
(* Schedule): the active queue holds lists of threads linked by wait_next, *)
(* later the threads that are delayed to a later time.  stack holds the    *)
(* nested calls of vthread_run, the innermost first; ret says that the     *)
(* opcode of the innermost thread has returned false.                      *)
(***************************************************************************)
EXTENDS Integers, Sequences, FiniteSets, SequencesExt

CONSTANTS
  Tid,         \* the threads that can ever be created
  Scopes,      \* the scopes of the designs
  Modules,     \* the top modules, each a design of its own
  Roots,       \* a design's sequence of threads of initial and always statements
  Events,      \* the named events
  Code,        \* Code[s]: the statements in the text of scope s
  Nil

VARIABLES thread, active, inactive, later, waiting, stack, ret, disabling, failed

vars == <<thread, active, inactive, later, waiting, stack, ret, disabling, failed>>

\* A statement of the design: what it does, and the scope, the event or the
\* function it names (Nil if none), and the number of branches of a fork.
Statement == [op: {"join", "join_any", "join_none", "callf", "delay", "delay0",
                   "wait", "event", "disable", "flow", "disable_fork", "wait_fork",
                   "jmp", "vpi"},
              arg: Scopes \cup Events \cup {Nil}, n: 0 .. 2]

ASSUME CodeAssumption == Code \in [Scopes -> SUBSET Statement]
ASSUME RootsAssumption ==
  /\ Modules \subseteq Scopes /\ Modules # {} /\ DOMAIN Roots = Modules
  /\ \A m \in Modules : Roots[m] \in Seq(Tid) /\ IsInjective(Roots[m])
ASSUME ThreadsAssumption == IsFiniteSet(Tid) /\ Nil \notin Tid
ASSUME NilAssumption == Nil \notin [scope: Scopes, match: Tid, myself: BOOLEAN]

Thread ==
  [status: {"unborn", "alive", "del_thr", "deleted"},
   parent_scope: Scopes, in_scope: BOOLEAN,   \* is it in parent_scope->threads
   pc: {"code", "null"}, parent: Tid \cup {Nil},
   children: SUBSET Tid, detached_children: SUBSET Tid,
   i_am_joining: BOOLEAN, i_am_detached: BOOLEAN, i_am_waiting: BOOLEAN,
   i_am_in_function: BOOLEAN, is_scheduled: BOOLEAN, i_have_ended: BOOLEAN,
   waiting_for_event: BOOLEAN, delay_delete: BOOLEAN,
   scope: Scopes, forks: Nat, joins: Nat, detach: Nat]

\* vthread_new.
vthread_new(s) ==
  [status |-> "alive", parent_scope |-> s, in_scope |-> TRUE, pc |-> "code",
   parent |-> Nil, children |-> {}, detached_children |-> {},
   i_am_joining |-> FALSE, i_am_detached |-> FALSE, i_am_waiting |-> FALSE,
   i_am_in_function |-> FALSE, is_scheduled |-> FALSE, i_have_ended |-> FALSE,
   waiting_for_event |-> FALSE, delay_delete |-> FALSE,
   scope |-> s, forks |-> 0, joins |-> 0, detach |-> 0]

Unborn ==
  [vthread_new(CHOOSE m \in Modules : TRUE) EXCEPT
     !.status = "unborn", !.in_scope = FALSE, !.pc = "null"]
Deleted == [Unborn EXCEPT !.status = "deleted"]

\* compile_thread schedules the root threads of a design in the order of the
\* source.
Init ==
  /\ \E m \in Modules :
       /\ thread = [t \in Tid |-> IF \E i \in DOMAIN Roots[m] : Roots[m][i] = t
                                    THEN [vthread_new(m) EXCEPT !.is_scheduled = TRUE]
                                    ELSE Unborn]
       /\ active = [i \in DOMAIN Roots[m] |-> <<Roots[m][i]>>]
  /\ inactive = << >> /\ later = {}
  /\ waiting = [e \in Events |-> << >>]
  /\ stack = << >> /\ ret = FALSE /\ disabling = Nil /\ failed = FALSE

-----------------------------------------------------------------------------
(***************************************************************************)
(* Reaping and disabling, as functions of the state th of the threads.     *)
(***************************************************************************)

\* The end of vthread_reap and of_ZOMBIE: the object goes unless an event or a
\* wait list still holds it; it goes at the end of the time step if
\* delay_delete.
Release(r) ==
  IF r.delay_delete THEN [r EXCEPT !.status = "del_thr"] ELSE Deleted

ReleaseIfIdle(r) ==
  IF r.is_scheduled \/ r.waiting_for_event THEN r ELSE Release(r)

\* A thread that is pulled out of the tree of threads and of its scope.
Unlinked(r) == [r EXCEPT !.parent = Nil, !.in_scope = FALSE, !.pc = "null"]

\* A detached thread whose parent goes.
Orphan(r) == [r EXCEPT !.parent = Nil, !.i_am_detached = FALSE]

\* Mutant of vthread_reap: the parent keeps the thread among its children.
ReapKeepsChild(th, t) == [th EXCEPT ![t] = ReleaseIfIdle(Unlinked(@))]

vthread_reap(th, t) ==
  LET p == th[t].parent
  IN  [u \in Tid |->
        CASE u = t -> ReleaseIfIdle(Unlinked(th[t]))
          [] u # t /\ u \in th[t].children -> [th[u] EXCEPT !.parent = p]
          [] u # t /\ u \in th[t].detached_children -> Orphan(th[u])
          [] u # t /\ u = p /\ th[t].i_am_detached ->
               [th[u] EXCEPT !.detached_children = @ \ {t}]
          [] u # t /\ u = p /\ ~th[t].i_am_detached ->
               [th[u] EXCEPT !.children = @ \ {t}]
          [] OTHER -> th[u]]

\* The assertions of vthread_reap.
ReapAsserts(th, t) ==
  /\ \A c \in th[t].children \cup th[t].detached_children : th[c].parent = t
  /\ \A c \in th[t].detached_children : th[c].i_am_detached
  /\ th[t].parent # Nil =>
       t \in IF th[t].i_am_detached THEN th[th[t].parent].detached_children
                                    ELSE th[th[t].parent].children
  /\ ~th[t].is_scheduled /\ ~th[t].waiting_for_event => th[t].children = {}

\* The thread t and the children that do_disable reaches from it: the least set
\* that holds t and, with a thread, its children.
Descendants(th, t) ==
  {u \in Tid : \A S \in SUBSET Tid :
     t \in S /\ (\A v \in S : th[v].children \subseteq S) => u \in S}

\* A thread that is turned off; the loop over its children clears i_am_joining.
Off(r) ==
  [r EXCEPT !.in_scope = FALSE, !.pc = "null", !.i_have_ended = TRUE,
            !.i_am_joining = @ /\ r.children = {}, !.children = {}]

\* The first half of do_disable: t and its descendants are turned off, and the
\* descendants are reaped.
TurnOff(th, t) ==
  LET below == Descendants(th, t) \ {t}
  IN  [u \in Tid |->
        CASE u = t -> Off(th[t])
          [] u \in below -> ReleaseIfIdle(Unlinked(Off(th[u])))
          [] u \notin below \cup {t} /\ (\E v \in below : u \in th[v].detached_children) ->
               Orphan(th[u])
          [] OTHER -> th[u]]

\* Does the end of t wake its parent out of a %join?
WakesParent(th, t) == th[t].parent # Nil /\ th[th[t].parent].i_am_joining

\* The second half of do_disable; do_join reaps t.
do_disable(th, t) ==
  LET off == TurnOff(th, t)
      p == th[t].parent
  IN  IF WakesParent(off, t)
        THEN vthread_reap([off EXCEPT ![p].i_am_joining = FALSE,
                                      ![p].is_scheduled = @ \/ ~off[p].i_have_ended], t)
        ELSE IF p # Nil THEN off ELSE vthread_reap(off, t)

\* schedule_vthread(parent, 0, true), when do_disable wakes the parent of t.
DisableSchedules(th, t) ==
  WakesParent(TurnOff(th, t), t) /\ ~TurnOff(th, t)[th[t].parent].i_have_ended

DisableQueue(th, t) == IF DisableSchedules(th, t) THEN <<<<th[t].parent>>>> \o active ELSE active

\* The assertions of do_disable and of what it calls.
DisableAsserts(th, t) ==
  /\ \A u \in Descendants(th, t) : \A c \in th[u].children :
       th[c].parent = u /\ ~th[c].i_am_detached
  /\ \A u \in Descendants(th, t) \ {t} : \A c \in th[u].detached_children :
       th[c].parent = u /\ th[c].i_am_detached
  /\ DisableSchedules(th, t) => ~th[th[t].parent].is_scheduled
  /\ WakesParent(TurnOff(th, t), t) \/ th[t].parent = Nil => ReapAsserts(TurnOff(th, t), t)

-----------------------------------------------------------------------------
(***************************************************************************)
(* vthread_run.                                                            *)
(***************************************************************************)

Frame == [thr: Tid, rest: Seq(Tid), call: {"event", "callf", "fork"}]

Push(c, call) == <<[thr |-> c, rest |-> << >>, call |-> call]>> \o stack

\* A thread t that vthread_run takes from its list.
Start(t) ==
  /\ thread' = [thread EXCEPT ![t].is_scheduled = FALSE]
  /\ failed' = ~thread[t].is_scheduled

\* The scheduler runs the first event of the active queue.
RunEvent ==
  /\ ~failed /\ stack = << >> /\ active # << >>
  /\ stack' = <<[thr |-> active[1][1], rest |-> Tail(active[1]), call |-> "event"]>>
  /\ active' = Tail(active)
  /\ Start(active[1][1])
  /\ UNCHANGED <<inactive, later, waiting, ret, disabling>>

\* The opcode of the running thread has returned false.
Returning == ~failed /\ ret

RunNext ==
  /\ Returning /\ stack[1].rest # << >>
  /\ stack' = [stack EXCEPT ![1].thr = Head(stack[1].rest), ![1].rest = Tail(@)]
  /\ ret' = FALSE
  /\ Start(Head(stack[1].rest))
  /\ UNCHANGED <<active, inactive, later, waiting, disabling>>

RunDone ==
  /\ Returning /\ stack[1].rest = << >> /\ stack[1].call \in {"event", "fork"}
  /\ stack' = Tail(stack)
  /\ ret' = FALSE
  /\ UNCHANGED <<thread, active, inactive, later, waiting, disabling, failed>>

\* The end of do_callf_void, after vthread_run(child).
CallfReturns ==
  LET child == stack[1].thr
      t == stack[2].thr
  IN  /\ Returning /\ stack[1].rest = << >> /\ stack[1].call = "callf"
      /\ stack' = Tail(stack)
      /\ IF thread[child].i_have_ended
           THEN /\ ret' = FALSE
                /\ thread' = vthread_reap(thread, child)
                /\ failed' = ~(thread[child].parent = t /\ ReapAsserts(thread, child))
           ELSE /\ ret' = TRUE
                /\ thread' = [thread EXCEPT ![t].i_am_joining = TRUE]
                /\ failed' = FALSE
      /\ UNCHANGED <<active, inactive, later, waiting, disabling>>

-----------------------------------------------------------------------------
(***************************************************************************)
(* The opcodes.                                                            *)
(***************************************************************************)

\* vthread_run is about to execute an opcode of the thread t.
Running(t) == ~failed /\ ~ret /\ disabling = Nil /\ stack # << >> /\ stack[1].thr = t

Executes(t) == Running(t) /\ thread[t].pc = "code"

Idle(t) == Executes(t) /\ thread[t].forks + thread[t].joins + thread[t].detach = 0

\* The next statement of t is one of its scope that does op.
Does(t, op, arg, n) ==
  Idle(t) /\ [op |-> op, arg |-> arg, n |-> n] \in Code[thread[t].parent_scope]

\* The scopes and the events that the statements of its scope name.
Named(t) == IF Idle(t) THEN {st.arg : st \in Code[thread[t].parent_scope]} ELSE {}

\* Mutant of of_ZOMBIE: the thread is not deleted.
ZombieStays(t) ==
  /\ Running(t) /\ thread[t].pc = "null"
  /\ ret' = TRUE
  /\ UNCHANGED <<thread, active, inactive, later, waiting, stack, disabling, failed>>

of_ZOMBIE(t) ==
  /\ Running(t) /\ thread[t].pc = "null"
  /\ ret' = TRUE
  /\ thread' = IF thread[t].parent = Nil /\ thread[t].children = {}
                 THEN [thread EXCEPT ![t] = Release(@)] ELSE thread
  /\ UNCHANGED <<active, inactive, later, waiting, stack, disabling, failed>>

\* The identifiers left, the bound on the threads, and the next of them.
Free == {c \in Tid : thread[c].status = "unborn"}
Fresh == CHOOSE c \in Tid : thread[c].status = "unborn"

\* The code of a fork statement, or of the named block or the task call that
\* is compiled as a fork of one branch: show_stmt_fork, show_stmt_block_named.
Enter(t, kind, s, n) ==
  LET any == kind = "join_any" /\ n >= 2
  IN  /\ Does(t, kind, s, n) /\ Cardinality(Free) >= n
      /\ thread' = [thread EXCEPT
           ![t].scope = s,
           ![t].forks = n,
           ![t].joins = IF any THEN 1 ELSE IF kind = "join_none" THEN 0 ELSE n,
           ![t].detach = IF any THEN n - 1 ELSE IF kind = "join_none" THEN n ELSE 0]
      /\ UNCHANGED <<active, inactive, later, waiting, stack, ret, disabling, failed>>

of_FORK(t) ==
  LET c == Fresh
      fn == thread[t].i_am_in_function
      child == [vthread_new(thread[t].scope) EXCEPT
                  !.parent = t, !.i_am_in_function = fn, !.is_scheduled = ~fn]
  IN  /\ Executes(t) /\ thread[t].forks > 0 /\ Free # {}
      /\ thread' = [thread EXCEPT ![c] = child, ![t].children = @ \cup {c}, ![t].forks = @ - 1]
      /\ IF fn THEN stack' = Push(c, "fork") /\ UNCHANGED active
               ELSE active' = <<<<c>>>> \o active /\ UNCHANGED stack
      /\ UNCHANGED <<inactive, later, waiting, ret, disabling, failed>>

EndedChildren(t) == {c \in thread[t].children : thread[c].i_have_ended}

\* Mutant of of_JOIN: the zombie it finds is not reaped.
JoinKeepsZombie(t) ==
  /\ Executes(t) /\ thread[t].forks = 0 /\ thread[t].joins > 0
  /\ thread' = [thread EXCEPT ![t].joins = @ - 1, ![t].i_am_joining = (EndedChildren(t) = {})]
  /\ failed' = (thread[t].i_am_joining \/ thread[t].children = {})
  /\ ret' = (EndedChildren(t) = {})
  /\ UNCHANGED <<active, inactive, later, waiting, stack, disabling>>

of_JOIN(t) ==
  /\ Executes(t) /\ thread[t].forks = 0 /\ thread[t].joins > 0
  /\ LET th == [thread EXCEPT ![t].joins = @ - 1]
         ok == ~thread[t].i_am_joining /\ thread[t].children # {}
     IN  IF EndedChildren(t) # {}
           THEN /\ \E c \in EndedChildren(t) :
                     /\ thread' = vthread_reap(th, c)
                     /\ failed' = ~(ok /\ thread[c].parent = t /\ ReapAsserts(th, c))
                /\ UNCHANGED ret
           ELSE /\ thread' = [th EXCEPT ![t].i_am_joining = TRUE]
                /\ failed' = ~ok
                /\ ret' = TRUE
  /\ UNCHANGED <<active, inactive, later, waiting, stack, disabling>>

\* %join/detach: a child that has ended is reaped, the others are detached.
of_JOIN_DETACH(t) ==
  LET ended == EndedChildren(t)
      alive == thread[t].children \ ended
  IN  /\ Executes(t) /\ thread[t].forks + thread[t].joins = 0 /\ thread[t].detach > 0
      /\ thread' = [u \in Tid |->
           CASE u = t -> [thread[t] EXCEPT !.detach = 0, !.children = {},
                                           !.detached_children = @ \cup alive]
             [] u \in alive -> [thread[u] EXCEPT !.i_am_detached = TRUE]
             [] u \in ended -> ReleaseIfIdle(Unlinked(thread[u]))
             [] \E c \in ended : u \in thread[c].detached_children -> Orphan(thread[u])
             [] OTHER -> thread[u]]
      /\ failed' = ~(/\ Cardinality(thread[t].children) = thread[t].detach
                     /\ \A c \in thread[t].children : thread[c].parent = t
                     /\ \A c \in ended : ReapAsserts(thread, c))
      /\ UNCHANGED <<active, inactive, later, waiting, stack, ret, disabling>>

\* %callf: the function runs at once, inside the opcode.
of_CALLF(t, s) ==
  LET c == Fresh
      child == [vthread_new(s) EXCEPT !.parent = t, !.i_am_in_function = TRUE]
  IN  /\ Does(t, "callf", s, 0) /\ Free # {}
      /\ thread' = [thread EXCEPT ![c] = child, ![t].children = @ \cup {c}]
      /\ stack' = Push(c, "callf")
      /\ failed' = (thread[t].children # {})
      /\ UNCHANGED <<active, inactive, later, waiting, ret, disabling>>

\* schedule_vthread and schedule_inactive, for the running thread itself.
Reschedule(t) ==
  /\ thread' = [thread EXCEPT ![t].is_scheduled = TRUE]
  /\ failed' = thread[t].is_scheduled
  /\ ret' = TRUE
  /\ UNCHANGED <<waiting, stack, disabling>>

of_DELAY(t) ==
  /\ Does(t, "delay", Nil, 0) /\ Reschedule(t)
  /\ later' = later \cup {t}
  /\ UNCHANGED <<active, inactive>>

of_DELAY0(t) ==
  /\ Does(t, "delay0", Nil, 0) /\ Reschedule(t)
  /\ inactive' = Append(inactive, t)
  /\ UNCHANGED <<active, later>>

\* %jmp when the simulation has been stopped, in a loop or between the %fork
\* and the %join of a block.
of_JMP(t) ==
  /\ Executes(t) /\ thread[t].forks + thread[t].detach = 0 /\ thread[t].joins <= 1
  /\ [op |-> "jmp", arg |-> Nil, n |-> 0] \in Code[thread[t].parent_scope]
  /\ Reschedule(t)
  /\ active' = Append(active, <<t>>)
  /\ UNCHANGED <<inactive, later>>

of_WAIT(t, e) ==
  /\ Does(t, "wait", e, 0)
  /\ thread' = [thread EXCEPT ![t].waiting_for_event = TRUE]
  /\ waiting' = [waiting EXCEPT ![e] = <<t>> \o @]
  /\ failed' = (thread[t].i_am_in_function \/ thread[t].waiting_for_event)
  /\ ret' = TRUE
  /\ UNCHANGED <<active, inactive, later, stack, disabling>>

\* Mutant of of_EVENT: the wait list is not cleared.
EventKeepsList(t, e) ==
  LET list == waiting[e]
      woken == {list[i] : i \in 1 .. Len(list)}
  IN  /\ Does(t, "event", e, 0) /\ list # << >>
      /\ thread' = [u \in Tid |->
           IF u \in woken THEN [thread[u] EXCEPT !.waiting_for_event = FALSE,
                                                 !.is_scheduled = TRUE]
                          ELSE thread[u]]
      /\ active' = Append(active, list)
      /\ UNCHANGED <<waiting, inactive, later, stack, ret, disabling, failed>>

\* %event, to the end of vthread_schedule_list.
of_EVENT(t, e) ==
  LET list == waiting[e]
      woken == {list[i] : i \in 1 .. Len(list)}
  IN  /\ Does(t, "event", e, 0) /\ list # << >>
      /\ thread' = [u \in Tid |->
           IF u \in woken THEN [thread[u] EXCEPT !.waiting_for_event = FALSE,
                                                 !.is_scheduled = TRUE]
                          ELSE thread[u]]
      /\ failed' = ~(\A u \in woken : thread[u].waiting_for_event)
      /\ waiting' = [waiting EXCEPT ![e] = << >>]
      /\ active' = Append(active, list)
      /\ UNCHANGED <<inactive, later, stack, ret, disabling>>

\* A VPI call that schedules a synch callback (vthread_delay_delete), or that
\* stops the simulation.  ($finish ends the simulation, and the model.)
of_VPI_CALL(t) ==
  /\ Does(t, "vpi", Nil, 0)
  /\ \/ /\ thread' = [thread EXCEPT ![t].delay_delete = TRUE]
        /\ UNCHANGED <<active, waiting, stack, ret, disabling, failed>>
     \/ Reschedule(t) /\ active' = Append(active, <<t>>)
  /\ UNCHANGED <<inactive, later>>

of_WAIT_FORK(t) ==
  /\ Does(t, "wait_fork", Nil, 0)
  /\ failed' = (\/ thread[t].i_am_in_function \/ thread[t].i_am_joining
                \/ thread[t].i_am_waiting \/ thread[t].children # {})
  /\ IF thread[t].detached_children = {}
       THEN UNCHANGED <<thread, ret>>
       ELSE /\ thread' = [thread EXCEPT ![t].i_am_waiting = TRUE]
            /\ ret' = TRUE
  /\ UNCHANGED <<active, inactive, later, waiting, stack, disabling>>

\* The threads of scope s: scope->threads.
threads(s) == {t \in Tid : thread[t].in_scope /\ thread[t].parent_scope = s}

\* %disable is a loop over scope->threads, in the order of the set.
of_DISABLE(t, s) ==
  /\ Does(t, "disable", s, 0)
  /\ disabling' = [scope |-> s, match |-> t, myself |-> FALSE]
  /\ UNCHANGED <<thread, active, inactive, later, waiting, stack, ret, failed>>

DisableNext ==
  /\ ~failed /\ disabling # Nil
  /\ \E cur \in threads(disabling.scope) :
       /\ thread' = do_disable(thread, cur)
       /\ active' = DisableQueue(thread, cur)
       /\ failed' = ~DisableAsserts(thread, cur)
       /\ disabling' = [disabling EXCEPT
                          !.myself = @ \/ disabling.match \in Descendants(thread, cur)]
  /\ UNCHANGED <<inactive, later, waiting, stack, ret>>

DisableDone ==
  /\ ~failed /\ disabling # Nil /\ threads(disabling.scope) = {}
  /\ ret' = disabling.myself
  /\ disabling' = Nil
  /\ UNCHANGED <<thread, active, inactive, later, waiting, stack, failed>>

\* The thread t, its parent, the parent of that one, and so on.
Ancestors(t) ==
  {u \in Tid : \A S \in SUBSET Tid :
     t \in S /\ (\A v \in S : thread[v].parent \in S \cup {Nil}) => u \in S}

\* %disable/flow: the nearest thread of scope s, from t up.  The compiler
\* draws it only inside s.
of_DISABLE_FLOW(t, s) ==
  /\ Does(t, "flow", s, 0)
  /\ \E cur \in Ancestors(t) :
       /\ thread[cur].parent_scope = s
       /\ \A u \in Ancestors(t) \ Ancestors(cur) : thread[u].parent_scope # s
       /\ thread' = do_disable(thread, cur)
       /\ active' = DisableQueue(thread, cur)
       /\ failed' = ~DisableAsserts(thread, cur)
       /\ ret' = (t \in Descendants(thread, cur))
  /\ UNCHANGED <<inactive, later, waiting, stack, disabling>>

\* %disable/fork disables and reaps the detached children one after another;
\* none of them is the child of another, so their order does not matter.
of_DISABLE_FORK(t) ==
  LET gone == UNION {Descendants(thread, c) : c \in thread[t].detached_children}
  IN  /\ Does(t, "disable_fork", Nil, 0)
      /\ thread' = [u \in Tid |->
           CASE u = t -> [thread[t] EXCEPT !.detached_children = {}]
             [] u \in gone -> ReleaseIfIdle(Unlinked(Off(thread[u])))
             [] u \notin gone \cup {t} /\ (\E v \in gone : u \in thread[v].detached_children) ->
                  Orphan(thread[u])
             [] OTHER -> thread[u]]
      /\ failed' = ~(/\ ~thread[t].i_am_joining /\ thread[t].children = {}
                     /\ t \notin gone
                     /\ \A c \in thread[t].detached_children :
                          thread[c].parent = t /\ DisableAsserts(thread, c))
      /\ UNCHANGED <<active, inactive, later, waiting, stack, ret, disabling>>

\* Mutant of WakesJoin: a detached child wakes its parent out of a %join.
WakesJoinDetached(t) ==
  thread[t].parent # Nil /\ thread[thread[t].parent].i_am_joining

\* %end.
WakesJoin(t) ==
  /\ ~thread[t].i_am_detached /\ thread[t].parent # Nil
  /\ thread[thread[t].parent].i_am_joining

\* Mutant of WakesWaitFork: the child is still in the set when it is tested.
WakesWaitForkLate(t) ==
  /\ thread[t].i_am_detached /\ thread[t].parent # Nil
  /\ thread[thread[t].parent].i_am_waiting
  /\ thread[thread[t].parent].detached_children = {}

WakesWaitFork(t) ==
  /\ thread[t].i_am_detached /\ thread[t].parent # Nil
  /\ thread[thread[t].parent].i_am_waiting
  /\ thread[thread[t].parent].detached_children = {t}

\* Mutant of Reaps: a thread whose parent is still to join it is reaped.
ReapsAlways(t) == TRUE

Reaps(t) == WakesJoin(t) \/ thread[t].i_am_detached \/ thread[t].parent = Nil

\* The threads when t has ended and its detached children are on their own,
Ended(t) ==
  [u \in Tid |->
    CASE u = t -> [thread[t] EXCEPT !.i_have_ended = TRUE, !.pc = "null", !.detached_children = {}]
      [] u \in thread[t].detached_children -> Orphan(thread[u])
      [] OTHER -> thread[u]]

\* when its parent has been woken up,
Woken(t) ==
  LET p == thread[t].parent
  IN  IF WakesJoin(t)
        THEN [Ended(t) EXCEPT ![p].i_am_joining = FALSE, ![p].is_scheduled = TRUE]
      ELSE IF WakesWaitFork(t)
        THEN [Ended(t) EXCEPT ![p].i_am_waiting = FALSE, ![p].is_scheduled = TRUE]
      ELSE Ended(t)

\* and when t, if it is detached, has left its parent.
Alone(t) ==
  LET p == thread[t].parent
  IN  IF thread[t].i_am_detached
        THEN [Woken(t) EXCEPT ![p].detached_children = @ \ {t},
                              ![t].i_am_detached = FALSE, ![t].parent = Nil]
        ELSE Woken(t)

of_END(t) ==
  LET p == thread[t].parent
      wakes == WakesJoin(t) \/ WakesWaitFork(t)
  IN  /\ Idle(t)
      /\ thread' = IF Reaps(t) THEN vthread_reap(Alone(t), t) ELSE Alone(t)
      /\ active' = IF wakes THEN <<<<p>>>> \o active ELSE active
      /\ failed' = ~(/\ ~thread[t].waiting_for_event /\ thread[t].children = {}
                     /\ \A c \in thread[t].detached_children :
                          thread[c].parent = t /\ thread[c].i_am_detached
                     /\ thread[t].i_am_detached =>
                          p # Nil /\ t \in thread[p].detached_children
                     /\ wakes => ~thread[p].is_scheduled
                     /\ Reaps(t) => ReapAsserts(Alone(t), t))
      /\ ret' = TRUE
      /\ UNCHANGED <<inactive, later, waiting, stack, disabling>>

-----------------------------------------------------------------------------
(***************************************************************************)
(* The scheduler between two events.                                       *)
(***************************************************************************)

Inactive ==
  /\ ~failed /\ stack = << >> /\ active = << >> /\ inactive # << >>
  /\ active' = [i \in 1 .. Len(inactive) |-> <<inactive[i]>>]
  /\ inactive' = << >>
  /\ UNCHANGED <<thread, later, waiting, stack, ret, disabling, failed>>

EndOfStep == ~failed /\ stack = << >> /\ active = << >> /\ inactive = << >>

\* run_rosync deletes the threads of the del_thr queue.
RunDelThr ==
  /\ EndOfStep /\ \E t \in Tid : thread[t].status = "del_thr"
  /\ thread' = [t \in Tid |-> IF thread[t].status = "del_thr" THEN Deleted ELSE thread[t]]
  /\ UNCHANGED <<active, inactive, later, waiting, stack, ret, disabling, failed>>

\* The time of some of the delayed threads comes.
AdvanceTime ==
  /\ EndOfStep /\ \A t \in Tid : thread[t].status # "del_thr"
  /\ \E due \in (SUBSET later) \ {{}} : \E q \in SetToSeqs(due) :
       /\ active' = [i \in 1 .. Len(q) |-> <<q[i]>>]
       /\ later' = later \ due
  /\ UNCHANGED <<thread, inactive, waiting, stack, ret, disabling, failed>>

\* The event queue is empty.
Terminated ==
  /\ EndOfStep /\ later = {} /\ \A t \in Tid : thread[t].status # "del_thr"
  /\ UNCHANGED vars

Opcode(t) ==
  \/ of_ZOMBIE(t)
  \/ \E k \in {"join", "join_any", "join_none"}, s \in Named(t) \cap Scopes, n \in 1 .. 2 :
       Enter(t, k, s, n)
  \/ of_FORK(t) \/ of_JOIN(t) \/ of_JOIN_DETACH(t)
  \/ \E s \in Named(t) \cap Scopes : of_CALLF(t, s) \/ of_DISABLE(t, s) \/ of_DISABLE_FLOW(t, s)
  \/ of_DELAY(t) \/ of_DELAY0(t) \/ of_JMP(t)
  \/ \E e \in Named(t) \cap Events : of_WAIT(t, e) \/ of_EVENT(t, e)
  \/ of_VPI_CALL(t) \/ of_WAIT_FORK(t) \/ of_DISABLE_FORK(t) \/ of_END(t)

Next ==
  \/ RunEvent \/ RunNext \/ RunDone \/ CallfReturns
  \/ \E t \in Tid : Opcode(t)
  \/ DisableNext \/ DisableDone
  \/ Inactive \/ RunDelThr \/ AdvanceTime \/ Terminated

Spec == Init /\ [][Next]_vars

-----------------------------------------------------------------------------
(***************************************************************************)
(* Properties.                                                             *)
(***************************************************************************)

\* Every variable has its type.
TypeOK ==
  /\ thread \in [Tid -> Thread]
  /\ active \in Seq(Seq(Tid) \ {<< >>}) /\ inactive \in Seq(Tid) /\ later \subseteq Tid
  /\ waiting \in [Events -> Seq(Tid)]
  /\ stack \in Seq(Frame) /\ ret \in BOOLEAN /\ failed \in BOOLEAN
  /\ disabling \in [scope: Scopes, match: Tid, myself: BOOLEAN] \cup {Nil}
  /\ ret => stack # << >>

\* None of the assertions of the thread code fails.
NoAssertFails == ~failed

\* The places of t in the lists q[i].
Places(q, t) == UNION {{i} \X {j \in DOMAIN q[i] : q[i][j] = t} : i \in DOMAIN q}

\* The lists that the calls of vthread_run still have to run.
Rests == [i \in DOMAIN stack |-> stack[i].rest]

\* How often t occurs in the events of the queue and in the lists being run.
Scheduled(t) ==
  Cardinality(Places(active, t)) + Cardinality({i \in DOMAIN inactive : inactive[i] = t})
  + Cardinality({t} \cap later) + Cardinality(Places(Rests, t))

Waiting(t) == Cardinality(Places(waiting, t))

\* is_scheduled and waiting_for_event tell the truth, whatever forks, joins and
\* disables: a thread with the first sits once in the queue, one with the second
\* once in a wait list, and no queue or list holds another (or a deleted) thread.
FlagsAreTrue ==
  \A t \in Tid :
    /\ Scheduled(t) = IF thread[t].is_scheduled THEN 1 ELSE 0
    /\ Waiting(t) = IF thread[t].waiting_for_event THEN 1 ELSE 0
    /\ ~(thread[t].is_scheduled /\ thread[t].waiting_for_event)

\* t has been reaped, and only an event or a wait list keeps its object.
Reaped(t) == thread[t].status # "alive" \/ (thread[t].pc = "null" /\ thread[t].parent = Nil)

\* Parents and children point to each other, detached or not, and only threads
\* that exist are pointed to.
Family ==
  \A t \in Tid :
    /\ thread[t].parent # Nil =>
         LET p == thread[thread[t].parent]
         IN  /\ p.status = "alive"
             /\ (t \in p.children) = ~thread[t].i_am_detached
             /\ (t \in p.detached_children) = thread[t].i_am_detached
    /\ ~Reaped(t) =>
         \A c \in thread[t].children \cup thread[t].detached_children :
           thread[c].parent = t /\ thread[c].status = "alive"

\* The calls of vthread_run in progress, and the callers they return to, are of
\* threads that still exist.
FramesExist ==
  \A i \in 1 .. Len(stack) :
    (i = 1 /\ stack[1].call # "callf" /\ (ret \/ disabling # Nil))
      \/ thread[stack[i].thr].status = "alive"

\* The children of a thread are the threads its statement has forked and not
\* yet joined or detached: every %join that is passed has reaped one child of
\* this statement, so fork ... join goes on only when all branches are dead.
\* (A function that is being called is a child that no %join stands for.)
Balanced ==
  \A t \in Tid :
    thread[t].pc = "code" /\ (\A i \in 2 .. Len(stack) : stack[i].thr = t => stack[i - 1].call # "callf") =>
      Cardinality(thread[t].children) + thread[t].forks
        = thread[t].joins + thread[t].detach + (IF thread[t].i_am_joining THEN 1 ELSE 0)

\* A thread that waits in a %join waits for a child that is still to end.
JoinCanEnd ==
  \A t \in Tid :
    thread[t].i_am_joining /\ thread[t].pc = "code" =>
      \E c \in thread[t].children : ~thread[c].i_have_ended

\* A thread that waits in a %wait/fork waits for a detached child that is
\* still to end.
WaitForkCanEnd ==
  \A t \in Tid :
    thread[t].i_am_waiting /\ ~thread[t].i_have_ended =>
      \E c \in thread[t].detached_children : ~thread[c].i_have_ended

\* No thread sleeps for something that has happened already: whoever is in a
\* %join or a %wait/fork has a child that is still to end and will wake it.
WaitsCanEnd == JoinCanEnd /\ WaitForkCanEnd

\* Every thread that exists will go on or be deleted: it is in an event or a
\* wait list, running, suspended by a join or a wait/fork, or it is dead and
\* its parent is still to reap it.  In particular no dead thread is leaked.
NoneForgotten ==
  \A t \in Tid :
    thread[t].status = "alive" =>
      \/ thread[t].is_scheduled \/ thread[t].waiting_for_event
      \/ \E i \in 1 .. Len(stack) : stack[i].thr = t
      \/ thread[t].pc = "code" /\ (thread[t].i_am_joining \/ thread[t].i_am_waiting)
      \/ thread[t].pc = "null" /\ thread[t].parent # Nil

=============================================================================
