------------------------------- MODULE UFunc --------------------------------
(***************************************************************************)
(* Functions called by continuous assignments, the .ufunc functors of      *)
(* vvp/ufunc.cc and the phantom code                                       *)
(*     %exec_ufunc; %reap_ufunc; %end                                      *)
(* that each change of an input starts in a thread of its own.             *)
(*                                                                         *)
(* All functors call one function. Its port variables are static, or, if   *)
(* the function is automatic, belong to the context of the call. The       *)
(* function may execute a $stop, the only way a function is suspended.     *)
(***************************************************************************)
EXTENDS Integers, Sequences, FiniteSets, SequencesExt

CONSTANTS
  Cores,        \* the ufunc_core functors
  Ports,        \* the inputs of the function
  Values,       \* the values of inputs and outputs
  X,            \* the unknown value, one of Values
  Result(_, _), \* what the function of a functor computes from its ports
  Feeds,        \* for each functor the <<functor, port>>s its output drives
  is_automatic, \* the function has contexts
  Contexts,     \* the contexts the function's scope can have
  Static,       \* the one instance of the variables of a static function
  MaxChanges,   \* bound on the input changes and triggers
  MaxStops,     \* bound on the $stops
  Nil

\* What the constants must be.
UFuncAssumptions ==
  /\ IsFiniteSet(Cores) /\ Feeds \in [Cores -> SUBSET (Cores \X Ports)]
  /\ X \in Values /\ \A c \in Cores : \A in \in [Ports -> Values] : Result(c, in) \in Values
  /\ is_automatic \in BOOLEAN /\ MaxChanges \in Nat /\ MaxStops \in Nat
  /\ Nil \notin Values /\ Nil \notin Contexts /\ Nil # Static

\* An output that drives inputs of its own functor does not change what the
\* function computes: thread_ is still set when the result arrives there, so
\* that no further call would be made.
HoldsItsOutput ==
  \A c \in Cores : \A in \in [Ports -> Values] :
    Result(c, [p \in Ports |-> IF <<c, p>> \in Feeds[c] THEN Result(c, in) ELSE in[p]])
      = Result(c, in)

VARIABLES
  port_values_, \* what each input functor has saved
  thread_,      \* for each functor, whether it has a thread
  active,       \* the queue: threads at an opcode, or functions to resume
  variables,    \* the port variables of each instance of the function
  context,      \* for each call in progress the instance it works on
  free_contexts,
  result,       \* the value on the stack of the functor's thread
  out,          \* the value last sent by each functor
  changes, stops,
  called        \* history: the inputs at the %exec_ufunc of each call

vars == <<port_values_, thread_, active, variables, context, free_contexts,
          result, out, changes, stops, called>>

Instances == IF is_automatic THEN Contexts ELSE {Static}
Inputs == [Ports -> Values]
External == Cores \X Ports \ UNION {Feeds[c] : c \in Cores}
Entry(c, pc) == [core |-> c, pc |-> pc]

Init ==
  /\ port_values_ = [c \in Cores |-> [p \in Ports |-> Nil]]
  /\ thread_ = [c \in Cores |-> FALSE]
  /\ active = << >>
  /\ variables = [i \in Instances |-> [p \in Ports |-> X]]
  /\ context = [c \in Cores |-> Nil]
  /\ free_contexts = Contexts
  /\ result = [c \in Cores |-> X] /\ out = [c \in Cores |-> X]
  /\ changes = 0 /\ stops = 0
  /\ called = [c \in Cores |-> [p \in Ports |-> X]]

\* assign_bits_to_ports: an input that has not had a value yet counts as x.
Known(values) == [p \in Ports |-> IF values[p] = Nil THEN X ELSE values[p]]

\* The functors of S are told of a change: those that have no thread get one,
\* behind the rest of the queue. The functors of ended lose theirs afterwards.
invoke_thread_(S, queue, ended) ==
  /\ \E order \in SetToSeqs({c \in S : ~thread_[c]}) :
       active' = queue \o [i \in DOMAIN order |-> Entry(order[i], "exec")]
  /\ thread_' = [c \in Cores |-> c \notin ended /\ (thread_[c] \/ c \in S)]

\* Mutant of dispatch_vec4_from_input_: only one of the inputs starts a call.
DispatchOnePort(c, p, v) ==
  /\ changes < MaxChanges /\ <<c, p>> \in External
  /\ port_values_' = [port_values_ EXCEPT ![c][p] = v]
  /\ invoke_thread_(IF p = CHOOSE q \in Ports : TRUE THEN {c} ELSE {}, active, {})
  /\ changes' = changes + 1
  /\ UNCHANGED <<variables, context, free_contexts, result, out, stops, called>>

\* dispatch_vec4_from_input_: something else drives an input of functor c.
dispatch_vec4_from_input_(c, p, v) ==
  /\ changes < MaxChanges /\ <<c, p>> \in External
  /\ port_values_' = [port_values_ EXCEPT ![c][p] = v]
  /\ invoke_thread_({c}, active, {})
  /\ changes' = changes + 1
  /\ UNCHANGED <<variables, context, free_contexts, result, out, stops, called>>

\* recv_vec4: the trigger event of functor c.
recv_vec4(c) ==
  /\ changes < MaxChanges
  /\ invoke_thread_({c}, active, {})
  /\ changes' = changes + 1
  /\ UNCHANGED <<port_values_, variables, context, free_contexts, result, out, stops, called>>

AtHead(c, pc) == active # << >> /\ active[1] = Entry(c, pc)

\* The result is sent through the net while thread_ is still set: an output
\* that drives an input of its own functor is saved there and starts no call.
finish_thread(c, v) ==
  /\ out' = [out EXCEPT ![c] = v]
  /\ port_values_' = [d \in Cores |-> [p \in Ports |->
                        IF <<d, p>> \in Feeds[c] THEN v ELSE port_values_[d][p]]]
  /\ invoke_thread_({d[1] : d \in Feeds[c]}, Tail(active), {c})

\* %exec_ufunc: the inputs are copied to the port variables of instance i and
\* the function is run inside the opcode.
Exec(c, i) ==
  /\ AtHead(c, "exec")
  /\ is_automatic => i \in free_contexts
  /\ variables' = [variables EXCEPT ![i] = Known(port_values_[c])]
  /\ called' = [called EXCEPT ![c] = Known(port_values_[c])]
  /\ UNCHANGED changes

\* The function ends at once, and %reap_ufunc frees its context again.
ExecReturns(c, i) ==
  /\ Exec(c, i)
  /\ finish_thread(c, Result(c, variables'[i]))
  /\ UNCHANGED <<context, free_contexts, result, stops>>

\* Mutant of ExecStops: the context of the call stays in the free list.
ExecStopsFree(c, i) ==
  /\ Exec(c, i)
  /\ stops < MaxStops /\ stops' = stops + 1
  /\ context' = [context EXCEPT ![c] = i]
  /\ active' = Append(Tail(active), Entry(c, "function"))
  /\ UNCHANGED <<port_values_, thread_, free_contexts, result, out>>

\* The function executes a $stop before it reads its ports; its thread goes to
\* the end of the queue and the thread of the functor waits in a join.
ExecStops(c, i) ==
  /\ Exec(c, i)
  /\ stops < MaxStops /\ stops' = stops + 1
  /\ context' = [context EXCEPT ![c] = i]
  /\ free_contexts' = free_contexts \ {i}
  /\ active' = Append(Tail(active), Entry(c, "function"))
  /\ UNCHANGED <<port_values_, thread_, result, out>>

\* The function is resumed and ends; of_END puts its caller in front.
FunctionEnds(c) ==
  /\ AtHead(c, "function")
  /\ result' = [result EXCEPT ![c] = Result(c, variables[context[c]])]
  /\ active' = <<Entry(c, "reap")>> \o Tail(active)
  /\ UNCHANGED <<port_values_, thread_, variables, context, free_contexts, out, changes, stops, called>>

\* %reap_ufunc of a call that was suspended.
of_REAP_UFUNC(c) ==
  /\ AtHead(c, "reap")
  /\ finish_thread(c, result[c])
  /\ free_contexts' = IF is_automatic THEN free_contexts \cup {context[c]} ELSE free_contexts
  /\ context' = [context EXCEPT ![c] = Nil]
  /\ UNCHANGED <<variables, result, changes, stops, called>>

\* What the scheduler runs next.
Run ==
  \E c \in Cores :
    \/ \E i \in Instances : ExecReturns(c, i) \/ ExecStops(c, i)
    \/ FunctionEnds(c)
    \/ of_REAP_UFUNC(c)

Next ==
  \/ Run
  \/ \E c \in Cores : recv_vec4(c)
  \/ \E c \in Cores, p \in Ports, v \in Values : dispatch_vec4_from_input_(c, p, v)

Spec == Init /\ [][Next]_vars
-----------------------------------------------------------------------------
TypeOK ==
  /\ port_values_ \in [Cores -> [Ports -> Values \cup {Nil}]]
  /\ thread_ \in [Cores -> BOOLEAN]
  /\ active \in Seq([core : Cores, pc : {"exec", "function", "reap"}])
  /\ variables \in [Instances -> Inputs]
  /\ context \in [Cores -> Instances \cup {Nil}]
  /\ free_contexts \subseteq Contexts
  /\ result \in [Cores -> Values] /\ out \in [Cores -> Values]
  /\ changes \in 0..MaxChanges /\ stops \in 0..MaxStops
  /\ called \in [Cores -> Inputs]

\* A functor that has a thread is in the queue once, and no other is: its
\* thread is neither started twice nor forgotten (invoke_thread_).
OneThread ==
  \A c \in Cores :
    Cardinality({i \in DOMAIN active : active[i].core = c}) = IF thread_[c] THEN 1 ELSE 0

\* A functor that has been called and has no call in progress shows what the
\* function computes from its inputs, however the changes of several inputs
\* and of functors that drive each other coincide (recv_vec4_from_inputs).
FollowsInput ==
  \A c \in Cores :
    ~thread_[c] /\ (\E p \in Ports : port_values_[c][p] # Nil)
      => out[c] = Result(c, Known(port_values_[c]))

\* A call that is resumed after a $stop finds its ports as %exec_ufunc has
\* left them, whatever calls of the function came in between.
OwnArguments ==
  \A c \in Cores : context[c] # Nil => variables[context[c]] = called[c]

=============================================================================
