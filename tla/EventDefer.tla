---------------------------- MODULE EventDefer ------------------------------
(***************************************************************************)
(* The deferral of events in procedural stores, vvp/event.cc: a store that *)
(* can pass through intermediate values opens a transaction, the functors  *)
(* scheduled on its behalf carry the transaction along, and the events it  *)
(* causes are held back until the store and its functors are done.         *)
(*                                                                         *)
(* Sends are depth-first: vvp_send_vec4 calls recv_vec4 of each sink in    *)
(* turn, which may send again.  todo is that call stack, the next call     *)
(* first.  queue is the active queue of the scheduler; other events of a   *)
(* time step do not defer.                                                 *)
(***************************************************************************)
EXTENDS Integers, Sequences, SequencesExt, FiniteSets

CONSTANTS
  Signals, Functors, Events,
  Fanout,      \* the sinks of a net (a signal or functor), in the order of the list
  Gate,        \* a functor's operation
  Edge,        \* the edge an event control watches
  StoreOp,     \* the opcode tgt-vvp picks for a signal: "store" or "event"
  Concats,     \* the l-value lists of assignments to a concatenation
  Threads,
  Values,      \* the values stored
  MaxStores,   \* bound on the stores executed
  Nil

Nets == Signals \cup Functors
Source(e) == CHOOSE n \in Nets : \E i \in DOMAIN Fanout[n] : Fanout[n][i] = e
Inputs(f) == {n \in Nets : \E i \in DOMAIN Fanout[n] : Fanout[n][i] = f}

ASSUME NetAssumption ==
  /\ Fanout \in [Nets -> Seq(Functors \cup Events)]
  /\ \A e \in Events : Cardinality(Inputs(e)) = 1
  /\ \A n \in Nets : IsInjective(Fanout[n])

\* Functors are not threads, and Nil is none of the things it stands for.
ASSUME NamesAssumption ==
  /\ Functors \cap Threads = {} /\ Concats \subseteq Seq(Signals)
  /\ Nil \notin Nat /\ Nil \notin Threads /\ Nil \notin Seq(Signals)

VARIABLES
  bits4,       \* the value of a signal
  input,       \* the inputs a functor has received
  net_,        \* a functor is in the queue
  bits_,       \* the last value an event control has received
  threads_,    \* the threads waiting in an event control
  queue, todo,
  pool,        \* the transactions ever allocated
  free_event_defer, vvp_event_defer_depth, vvp_current_event_defer,
  running,     \* the thread that executes, or Nil
  lvals,       \* per thread, the l-values left in a deferring assignment, or Nil
  sleeping,    \* the threads in a delay
  failed,      \* an assertion of the code was false
  stores, legal

net == <<bits4, input, net_, bits_, threads_>>
defer == <<pool, free_event_defer, vvp_event_defer_depth, vvp_current_event_defer>>
thr == <<running, lvals, sleeping>>
vars == <<net, queue, todo, defer, thr, failed, stores, legal>>

\* What functor f keeps of value v: a part select keeps its bit.
Port(f, v) ==
  CASE Gate[f] = "part0" -> v % 2
    [] Gate[f] = "part1" -> (v \div 2) % 2
    [] OTHER -> v

\* The output of functor f for inputs in: a part select and a buffer copy,
\* the others are vvp_fun_and and vvp_cmp_eeq.
Output(f, in) ==
  CASE Gate[f] = "and" -> IF \A n \in DOMAIN in : in[n] = 1 THEN 1 ELSE 0
    [] Gate[f] = "eeq" -> IF \A n, o \in DOMAIN in : in[n] = in[o] THEN 1 ELSE 0
    [] OTHER -> in[CHOOSE n \in DOMAIN in : TRUE]

\* The arithmetic functors send at once, the others through the queue.
Immediate(f) == Gate[f] = "eeq"

-----------------------------------------------------------------------------
(***************************************************************************)
(* History: the values an event control may legitimately see are those the *)
(* net settles to for the values the signals have between two assignments. *)
(***************************************************************************)

Settled(sig) ==
  LET S[n \in Nets] ==
        IF n \in Signals THEN sig[n]
          ELSE Output(n, [i \in Inputs(n) |-> Port(n, S[i])])
  IN  S

Live == DOMAIN pool \ ToSet(free_event_defer)

\* Nothing is propagating and no transaction is open.
Rest == todo = << >> /\ Live = {} /\ \A f \in Functors : ~net_[f]

\* The signals have the values sig between two assignments.
Boundary(sig) ==
  legal' = [e \in Events |-> (IF Rest THEN {Settled(bits4)[Source(e)]} ELSE legal[e])
                               \cup {Settled(sig)[Source(e)]}]

-----------------------------------------------------------------------------
Recv(to, from, v) == [call |-> "recv", to |-> to, from |-> from, v |-> v]
Send(n, v) == [i \in DOMAIN Fanout[n] |-> Recv(Fanout[n][i], n, v)]
Calling(c) == todo # << >> /\ Head(todo).call = c

Init ==
  /\ bits4 = [s \in Signals |-> 0]
  /\ input = [f \in Functors |-> [n \in Inputs(f) |-> Port(f, Settled(bits4)[n])]]
  /\ net_ = [f \in Functors |-> FALSE]
  /\ bits_ = [e \in Events |-> Settled(bits4)[Source(e)]]
  /\ threads_ = [e \in Events |-> << >>]
  /\ queue = << >> /\ todo = << >>
  /\ pool = << >> /\ free_event_defer = << >>
  /\ vvp_event_defer_depth = 0 /\ vvp_current_event_defer = Nil
  /\ running = Nil /\ lvals = [t \in Threads |-> Nil] /\ sleeping = Threads
  /\ failed = FALSE /\ stores = 0
  /\ legal = [e \in Events |-> {bits_[e]}]

-----------------------------------------------------------------------------
(***************************************************************************)
(* Transactions.                                                           *)
(***************************************************************************)

vvp_event_defer_active == vvp_event_defer_depth # 0 \/ vvp_current_event_defer # Nil

Fresh == [pending_functors |-> 0, source_done |-> FALSE, events |-> << >>]

\* The transaction that active_event_defer returns, which is called only while
\* vvp_event_defer_active: the current one or a new one.
Transacting == IF vvp_current_event_defer # Nil THEN pool[vvp_current_event_defer] ELSE Fresh

\* active_event_defer, whose transaction then becomes tr.
active_event_defer(tr) ==
  IF vvp_current_event_defer # Nil
    THEN /\ pool' = [pool EXCEPT ![vvp_current_event_defer] = tr]
         /\ UNCHANGED <<vvp_current_event_defer, free_event_defer>>
  ELSE IF free_event_defer # << >>
    THEN /\ vvp_current_event_defer' = Head(free_event_defer)
         /\ free_event_defer' = Tail(free_event_defer)
         /\ pool' = [pool EXCEPT ![Head(free_event_defer)] = tr]
    ELSE /\ pool' = Append(pool, tr)
         /\ vvp_current_event_defer' = Len(pool) + 1
         /\ UNCHANGED free_event_defer

vvp_event_defer_capture(tr) == [tr EXCEPT !.pending_functors = @ + 1]

\* Mutant of vvp_event_defer_vec4: a value that is already held back is kept.
DeferVec4KeepsFirst(tr, e, v) ==
  IF \E i \in DOMAIN tr.events : tr.events[i].port = e
    THEN tr
    ELSE [tr EXCEPT !.events = Append(@, [port |-> e, v |-> v])]

\* A later value of the same input replaces the one that is held back.
vvp_event_defer_vec4(tr, e, v) ==
  IF \E i \in DOMAIN tr.events : tr.events[i].port = e
    THEN [tr EXCEPT !.events = [i \in DOMAIN @ |-> IF @[i].port = e THEN [@[i] EXCEPT !.v = v]
                                                   ELSE @[i]]]
    ELSE [tr EXCEPT !.events = Append(@, [port |-> e, v |-> v])]

\* Mutant of finish_event_defer: pending functors are not waited for.
FinishEarly(t, tr, rest) ==
  IF ~tr.source_done THEN rest
  ELSE [i \in DOMAIN tr.events |-> Recv(tr.events[i].port, Nil, tr.events[i].v)]
         \o <<[call |-> "free", tr |-> t]>> \o rest

\* The calls of finish_event_defer for transaction t, now tr, in front of rest.
finish_event_defer(t, tr, rest) ==
  IF ~tr.source_done \/ tr.pending_functors # 0 THEN rest
  ELSE [i \in DOMAIN tr.events |-> Recv(tr.events[i].port, Nil, tr.events[i].v)]
         \o <<[call |-> "free", tr |-> t]>> \o rest

\* The end of finish_event_defer: the transaction goes to the free list.
FreeTransaction ==
  /\ Calling("free")
  /\ LET t == Head(todo).tr IN
       /\ pool' = [pool EXCEPT ![t].events = << >>]
       /\ free_event_defer' = <<t>> \o free_event_defer
  /\ todo' = Tail(todo)
  /\ UNCHANGED <<net, queue, vvp_event_defer_depth, vvp_current_event_defer, thr, failed,
                 stores, legal>>

vvp_event_defer_leave ==
  /\ Calling("leave")
  /\ LET t == Head(todo).tr
         tr == [pool[t] EXCEPT !.pending_functors = @ - 1] IN
       /\ failed' = (failed \/ vvp_current_event_defer # t \/ pool[t].pending_functors = 0)
       /\ pool' = [pool EXCEPT ![t] = tr]
       /\ todo' = finish_event_defer(t, tr, Tail(todo))
  /\ vvp_current_event_defer' = Nil
  /\ UNCHANGED <<net, queue, free_event_defer, vvp_event_defer_depth, thr, stores, legal>>

-----------------------------------------------------------------------------
(***************************************************************************)
(* Functors and event controls.                                            *)
(***************************************************************************)

\* schedule_functor, after the start of the simulation.
schedule_functor(f) ==
  IF vvp_event_defer_active
    THEN /\ active_event_defer(vvp_event_defer_capture(Transacting))
         /\ queue' = Append(queue, [obj |-> f, tr |-> vvp_current_event_defer'])
    ELSE /\ queue' = Append(queue, [obj |-> f, tr |-> Nil])
         /\ UNCHANGED <<pool, free_event_defer, vvp_current_event_defer>>

\* A scheduled functor receives a value.
RecvScheduled ==
  /\ Calling("recv") /\ Head(todo).to \in Functors /\ ~Immediate(Head(todo).to)
  /\ LET f == Head(todo).to
         v == Port(f, Head(todo).v) IN
       /\ input' = [input EXCEPT ![f][Head(todo).from] = v]
       /\ IF input[f][Head(todo).from] = v \/ net_[f]
            THEN UNCHANGED <<net_, queue, pool, free_event_defer, vvp_current_event_defer>>
            ELSE net_' = [net_ EXCEPT ![f] = TRUE] /\ schedule_functor(f)
  /\ todo' = Tail(todo)
  /\ UNCHANGED <<bits4, bits_, threads_, vvp_event_defer_depth, thr, failed, stores, legal>>

\* An arithmetic functor receives a value and sends its result.
RecvImmediate ==
  /\ Calling("recv") /\ Head(todo).to \in Functors /\ Immediate(Head(todo).to)
  /\ LET f == Head(todo).to IN
       /\ input' = [input EXCEPT ![f][Head(todo).from] = Head(todo).v]
       /\ todo' = Send(f, Output(f, input'[f])) \o Tail(todo)
  /\ UNCHANGED <<bits4, net_, bits_, threads_, queue, defer, thr, failed, stores, legal>>

\* run_run of a functor: within its transaction if it carries one.
RunFunctor ==
  /\ todo = << >> /\ running = Nil /\ queue # << >> /\ Head(queue).obj \in Functors
  /\ LET f == Head(queue).obj
         t == Head(queue).tr IN
       /\ net_' = [net_ EXCEPT ![f] = FALSE]
       /\ todo' = Send(f, Output(f, input[f]))
                    \o (IF t = Nil THEN << >> ELSE <<[call |-> "leave", tr |-> t]>>)
       /\ IF t = Nil THEN UNCHANGED <<vvp_current_event_defer, failed>>
          ELSE /\ vvp_current_event_defer' = t
               /\ failed' = (failed \/ vvp_current_event_defer # Nil
                                    \/ vvp_event_defer_depth # 0)
  /\ queue' = Tail(queue)
  /\ UNCHANGED <<bits4, input, bits_, threads_, pool, free_event_defer,
                 vvp_event_defer_depth, thr, stores, legal>>

\* Does event control e fire when its input goes from old to v?
VVP_EDGE(e, old, v) ==
  CASE Edge[e] = "posedge" -> old % 2 = 0 /\ v % 2 = 1
    [] Edge[e] = "negedge" -> old % 2 = 1 /\ v % 2 = 0
    [] OTHER -> old # v

\* Mutant of Defers: only the store itself defers, not its functors.
DefersInStore == vvp_event_defer_depth # 0

Defers == vvp_event_defer_active

RecvDeferred ==
  /\ Calling("recv") /\ Head(todo).to \in Events /\ Defers
  /\ active_event_defer(vvp_event_defer_vec4(Transacting, Head(todo).to, Head(todo).v))
  /\ todo' = Tail(todo)
  /\ UNCHANGED <<net, queue, vvp_event_defer_depth, thr, failed, stores, legal>>

\* recv_vec4 of an event control and run_waiting_threads_.
RecvEvent ==
  /\ Calling("recv") /\ Head(todo).to \in Events /\ ~Defers
  /\ LET e == Head(todo).to IN
       /\ bits_' = [bits_ EXCEPT ![e] = Head(todo).v]
       /\ IF VVP_EDGE(e, bits_[e], Head(todo).v)
            THEN /\ queue' = queue \o [i \in DOMAIN threads_[e] |->
                                         [obj |-> threads_[e][i], tr |-> Nil]]
                 /\ threads_' = [threads_ EXCEPT ![e] = << >>]
            ELSE UNCHANGED <<queue, threads_>>
  /\ todo' = Tail(todo)
  /\ UNCHANGED <<bits4, input, net_, defer, thr, failed, stores, legal>>

-----------------------------------------------------------------------------
(***************************************************************************)
(* Threads: between two statements a thread executes any of the design's.  *)
(***************************************************************************)

Executing == running # Nil /\ todo = << >>
BetweenStatements == Executing /\ lvals[running] = Nil

\* Store v: recv_vec4 of the signal sends if the value changed.
StoreValue(s, v, then) ==
  /\ stores < MaxStores /\ stores' = stores + 1
  /\ bits4' = [bits4 EXCEPT ![s] = v]
  /\ todo' = (IF bits4[s] = v THEN << >> ELSE Send(s, v)) \o then

of_STORE_VEC4(s, v) ==
  /\ BetweenStatements /\ StoreOp[s] = "store"
  /\ StoreValue(s, v, << >>)
  /\ Boundary(bits4')
  /\ UNCHANGED <<input, net_, bits_, threads_, queue, defer, thr, failed>>

\* The store of a signal whose slices reconverge is a transaction.
of_STORE_VEC4_EVENT(s, v) ==
  /\ BetweenStatements /\ StoreOp[s] = "event"
  /\ vvp_event_defer_depth' = vvp_event_defer_depth + 1
  /\ StoreValue(s, v, <<[call |-> "end", tr |-> Nil]>>)
  /\ Boundary(bits4')
  /\ UNCHANGED <<input, net_, bits_, threads_, queue, pool, free_event_defer,
                 vvp_current_event_defer, thr, failed>>

\* An assignment to a concatenation brackets its stores.
of_EVENT_DEFER_BEGIN(ls) ==
  /\ BetweenStatements /\ stores + Len(ls) <= MaxStores
  /\ vvp_event_defer_depth' = vvp_event_defer_depth + 1
  /\ lvals' = [lvals EXCEPT ![running] = ls]
  /\ Boundary(bits4)
  /\ UNCHANGED <<net, queue, todo, pool, free_event_defer, vvp_current_event_defer, running,
                 sleeping, failed, stores>>

StoreLval(v) ==
  /\ Executing /\ lvals[running] \notin {Nil, << >>}
  /\ StoreValue(Head(lvals[running]), v, << >>)
  /\ lvals' = [lvals EXCEPT ![running] = Tail(@)]
  /\ UNCHANGED <<input, net_, bits_, threads_, queue, defer, running, sleeping, failed, legal>>

of_EVENT_DEFER_END ==
  /\ Executing /\ lvals[running] = << >>
  /\ lvals' = [lvals EXCEPT ![running] = Nil]
  /\ todo' = <<[call |-> "end", tr |-> Nil]>>
  /\ legal' = [e \in Events |-> legal[e] \cup {Settled(bits4)[Source(e)]}]
  /\ UNCHANGED <<net, queue, defer, running, sleeping, failed, stores>>

\* vvp_event_defer_end and vvp_event_defer_end_.
vvp_event_defer_end ==
  /\ Calling("end")
  /\ vvp_event_defer_depth' = vvp_event_defer_depth - 1
  /\ failed' = (failed \/ vvp_event_defer_depth = 0)
  /\ LET t == vvp_current_event_defer IN
       IF vvp_event_defer_depth' = 0 /\ t # Nil /\ ~pool[t].source_done
         THEN LET tr == [pool[t] EXCEPT !.source_done = TRUE] IN
                /\ vvp_current_event_defer' = Nil
                /\ pool' = [pool EXCEPT ![t] = tr]
                /\ todo' = finish_event_defer(t, tr, Tail(todo))
         ELSE /\ todo' = Tail(todo)
              /\ UNCHANGED <<pool, vvp_current_event_defer>>
  /\ UNCHANGED <<net, queue, free_event_defer, thr, stores, legal>>

RunThread ==
  /\ todo = << >> /\ running = Nil /\ queue # << >> /\ Head(queue).obj \in Threads
  /\ running' = Head(queue).obj
  /\ queue' = Tail(queue)
  /\ UNCHANGED <<net, todo, defer, lvals, sleeping, failed, stores, legal>>

of_WAIT(e) ==
  /\ BetweenStatements
  /\ threads_' = [threads_ EXCEPT ![e] = <<running>> \o @]
  /\ running' = Nil
  /\ UNCHANGED <<bits4, input, net_, bits_, queue, todo, defer, lvals, sleeping, failed,
                 stores, legal>>

of_DELAY ==
  /\ BetweenStatements
  /\ sleeping' = sleeping \cup {running}
  /\ running' = Nil
  /\ UNCHANGED <<net, queue, todo, defer, lvals, failed, stores, legal>>

\* The active queue has drained and a delay ends.
NextTime(t) ==
  /\ queue = << >> /\ todo = << >> /\ running = Nil
  /\ t \in sleeping /\ stores < MaxStores
  /\ sleeping' = sleeping \ {t}
  /\ queue' = <<[obj |-> t, tr |-> Nil]>>
  /\ UNCHANGED <<net, todo, defer, running, lvals, failed, stores, legal>>

Terminated ==
  /\ queue = << >> /\ todo = << >> /\ running = Nil
  /\ stores = MaxStores \/ sleeping = {}
  /\ UNCHANGED vars

Propagate ==
  \/ FreeTransaction \/ vvp_event_defer_leave \/ vvp_event_defer_end
  \/ RecvScheduled \/ RecvImmediate \/ RecvDeferred \/ RecvEvent \/ RunFunctor

Statement ==
  \/ \E s \in Signals, v \in Values : of_STORE_VEC4(s, v) \/ of_STORE_VEC4_EVENT(s, v)
  \/ \E ls \in Concats : of_EVENT_DEFER_BEGIN(ls)
  \/ \E v \in Values : StoreLval(v)
  \/ of_EVENT_DEFER_END
  \/ \E e \in Events : of_WAIT(e)
  \/ of_DELAY

Next ==
  \/ Propagate \/ RunThread \/ Statement
  \/ \E t \in Threads : NextTime(t)
  \/ Terminated

Spec == Init /\ [][Next]_vars

-----------------------------------------------------------------------------
(***************************************************************************)
(* Properties.                                                             *)
(***************************************************************************)

Transaction == [pending_functors: Nat, source_done: BOOLEAN,
                events: Seq([port: Events, v: Nat])]

\* Every variable has its type.
TypeOK ==
  /\ bits4 \in [Signals -> Nat]
  /\ \A f \in Functors : input[f] \in [Inputs(f) -> Nat]
  /\ net_ \in [Functors -> BOOLEAN]
  /\ bits_ \in [Events -> Nat]
  /\ threads_ \in [Events -> Seq(Threads)]
  /\ pool \in Seq(Transaction)
  /\ free_event_defer \in Seq(DOMAIN pool)
  /\ vvp_event_defer_depth \in Nat
  /\ vvp_current_event_defer \in DOMAIN pool \cup {Nil}
  /\ queue \in Seq([obj: Functors \cup Threads, tr: DOMAIN pool \cup {Nil}])
  /\ running \in Threads \cup {Nil}
  /\ failed \in BOOLEAN

\* The assertions of vvp_event_defer_enter, _leave and _end hold.  A
\* transaction counts exactly the functors in the queue, or running, that
\* carry it; only a transaction that is not on the free list is referred to;
\* and one that waits for nothing is being finished, so that no event is held
\* back for ever.
TransactionsAccounted ==
  /\ ~failed
  /\ \A t \in DOMAIN pool :
    LET carriers == {i \in DOMAIN queue : queue[i].tr = t}
        leaves == {i \in DOMAIN todo : todo[i].call = "leave" /\ todo[i].tr = t}
        frees == {i \in DOMAIN todo : todo[i].call = "free" /\ todo[i].tr = t}
    IN  IF t \in Live
          THEN /\ pool[t].pending_functors = Cardinality(carriers) + Cardinality(leaves)
               /\ Cardinality(frees) <= 1
               /\ vvp_current_event_defer # t /\ carriers = {} => frees # {}
               /\ frees # {} => pool[t].pending_functors = 0
          ELSE carriers = {} /\ leaves = {} /\ frees = {} /\ vvp_current_event_defer # t

\* An event control sees only values its net settles to, for values the
\* signals have between two assignments since nothing was propagating: never
\* a value in the middle of an assignment or of its propagation.
NoGlitchSeen == [][\A e \in Events : bits_'[e] # bits_[e] => bits_'[e] \in legal[e]]_vars

\* Once propagation has come to rest, every event control has received the
\* value its net has; otherwise the next edge is missed or imagined.
SeenAtRest == Rest /\ running = Nil => \A e \in Events : bits_[e] = Settled(bits4)[Source(e)]

=============================================================================
