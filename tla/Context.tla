------------------------------ MODULE Context -------------------------------
(***************************************************************************)
(* The storage of automatic tasks and functions: the contexts that %alloc  *)
(* and %free take from and give to a scope, and the read and the write     *)
(* context of a thread that %alloc, %fork, %callf, do_join and %free move  *)
(* (vvp/vthread.cc).                                                       *)
(*                                                                         *)
(* A call of an automatic task is %alloc, the stores of the arguments into *)
(* the write context, %fork, %join, the loads of the results from the read *)
(* context, %free (tgt-vvp/draw_ufunc.c, elaborate.cc). The arguments may  *)
(* themselves be calls. A context has one link, stacked, that is in turn   *)
(* the link of a write and of a read stack.                                *)
(***************************************************************************)
EXTENDS Integers, FiniteSets, SequencesExt

CONSTANTS
  Threads,     \* the structures of threads, used again when reaped
  root,        \* the thread of an initial or always statement
  Scopes,      \* automatic tasks and functions
  Contexts,
  MaxCalls,    \* bound on the calls of a thread that are in progress
  MaxAllocs,   \* bound on the calls in all
  Disables,    \* bound on the disable statements
  Nil

ASSUME ThreadsAssumption ==
  root \in Threads /\ Nil \notin Threads \cup Contexts /\ IsFiniteSet(Threads)
ASSUME BoundsAssumption == {MaxCalls, MaxAllocs, Disables} \subseteq Nat

VARIABLES
  alive,              \* the threads that exist
  parent, ended, joining,
  joins,              \* the %join a fork statement has still to execute
  frames,             \* the calls a thread has in progress, the innermost last
  wt_context, rd_context,
  stacked,            \* vvp_get_stacked_context
  live_contexts, free_contexts,  \* of each scope, the first of the list first
  made,               \* the contexts vvp_allocate_context has made
  allocs, disables,
  own,                \* history: the context a thread was made with
  leaked              \* history: the contexts of the calls that were disabled

threads == <<alive, parent, ended, joining, joins>>
pools == <<live_contexts, free_contexts, made>>
vars == <<threads, frames, wt_context, rd_context, stacked, pools, allocs, disables, own, leaked>>

\* A call: the task, and how far it is. ctx is history.
Frame(s, c) == [scope |-> s, ctx |-> c, stage |-> "args"]

Init ==
  /\ alive = {root} /\ parent = [t \in Threads |-> Nil]
  /\ ended = [t \in Threads |-> FALSE] /\ joining = [t \in Threads |-> FALSE]
  /\ joins = [t \in Threads |-> 0] /\ frames = [t \in Threads |-> << >>]
  /\ wt_context = [t \in Threads |-> Nil] /\ rd_context = [t \in Threads |-> Nil]
  /\ stacked = [c \in Contexts |-> Nil]
  /\ live_contexts = [s \in Scopes |-> << >>] /\ free_contexts = [s \in Scopes |-> << >>]
  /\ made = {} /\ allocs = 0 /\ disables = 0
  /\ own = [t \in Threads |-> Nil] /\ leaked = {}

Running(t) == t \in alive /\ ~ended[t] /\ ~joining[t]
children(t) == {c \in alive : parent[c] = t}
Innermost(t) == frames[t][Len(frames[t])]

\* The thread is in the body of its task or block, or evaluates an argument.
InBody(t) == Running(t) /\ frames[t] = << >> /\ joins[t] = 0
InArgs(t) == Running(t) /\ frames[t] # << >> /\ Innermost(t).stage = "args"

(***************************************************************************)
(* %alloc and %free.                                                       *)
(***************************************************************************)
\* Mutant of vthread_alloc_context: the free context stays free.
AllocStaysFree(s, c) ==
  /\ IF free_contexts[s] # << >>
     THEN c = free_contexts[s][1] /\ UNCHANGED made
     ELSE c \notin made /\ made' = made \cup {c}
  /\ live_contexts' = [live_contexts EXCEPT ![s] = <<c>> \o @]
  /\ UNCHANGED free_contexts

\* vthread_alloc_context takes the first free context or makes one.
vthread_alloc_context(s, c) ==
  /\ IF free_contexts[s] # << >>
     THEN /\ c = free_contexts[s][1] /\ UNCHANGED made
          /\ free_contexts' = [free_contexts EXCEPT ![s] = Tail(@)]
     ELSE /\ c \notin made /\ made' = made \cup {c}
          /\ UNCHANGED free_contexts
  /\ live_contexts' = [live_contexts EXCEPT ![s] = <<c>> \o @]

\* %alloc: the context goes on the write stack. One context is as good as
\* another, so the first of those never made stands for them.
alloc(t, s) ==
  /\ InBody(t) \/ InArgs(t)
  /\ Len(frames[t]) < MaxCalls /\ allocs < MaxAllocs /\ allocs' = allocs + 1
  /\ \E c \in Contexts :
       /\ vthread_alloc_context(s, c)
       /\ stacked' = [stacked EXCEPT ![c] = wt_context[t]]
       /\ wt_context' = [wt_context EXCEPT ![t] = c]
       /\ frames' = [frames EXCEPT ![t] = Append(@, Frame(s, c))]
  /\ UNCHANGED <<threads, rd_context, disables, own, leaked>>

\* vthread_free_context: the context leaves the list of live contexts, where
\* it is looked for, and becomes the first free one.
vthread_free_context(c, s) ==
  /\ live_contexts' = [live_contexts EXCEPT ![s] = RemoveFirst(@, c)]
  /\ free_contexts' = [free_contexts EXCEPT ![s] = <<c>> \o @]
  /\ UNCHANGED made

\* %free of the innermost call, after its results were loaded.
free(t) ==
  /\ Running(t) /\ frames[t] # << >> /\ Innermost(t).stage = "returned"
  /\ vthread_free_context(rd_context[t], Innermost(t).scope)
  /\ rd_context' = [rd_context EXCEPT ![t] = stacked[rd_context[t]]]
  /\ frames' = [frames EXCEPT ![t] = SubSeq(@, 1, Len(@) - 1)]
  /\ UNCHANGED <<threads, wt_context, stacked, allocs, disables, own, leaked>>

(***************************************************************************)
(* %fork, %join and %end.                                                  *)
(***************************************************************************)
\* %fork of kids by t in an automatic scope, or in the scope of t.
Fork(t, kids) ==
  /\ alive' = alive \cup kids
  /\ parent' = [c \in Threads |-> IF c \in kids THEN t ELSE parent[c]]
  /\ ended' = [c \in Threads |-> c \notin kids /\ ended[c]]
  /\ wt_context' = [c \in Threads |-> IF c \in kids THEN wt_context[t] ELSE wt_context[c]]
  /\ rd_context' = [c \in Threads |-> IF c \in kids THEN wt_context[t] ELSE rd_context[c]]
  /\ own' = [c \in Threads |-> IF c \in kids THEN wt_context[t] ELSE own[c]]

\* %fork and %join, or %callf, of the innermost call: the caller waits.
call(t) ==
  /\ InArgs(t)
  /\ \E c \in Threads \ alive : Fork(t, {c})
  /\ joining' = [joining EXCEPT ![t] = TRUE]
  /\ frames' = [frames EXCEPT ![t][Len(frames[t])].stage = "called"]
  /\ UNCHANGED <<joins, stacked, pools, allocs, disables, leaked>>

\* A fork ... join of two statements, or a named block, in the body: the
\* threads share the context of the body.
fork(t, n) ==
  /\ InBody(t)
  /\ \E kids \in SUBSET (Threads \ alive) : Cardinality(kids) = n /\ Fork(t, kids)
  /\ joining' = [joining EXCEPT ![t] = TRUE]
  /\ joins' = [joins EXCEPT ![t] = n]
  /\ UNCHANGED <<frames, stacked, pools, allocs, disables, leaked>>

\* do_join's test for the thread of a task or function, not of a block.
IsTopLevel(t, child) == wt_context[child] # Nil /\ wt_context[t] # rd_context[t]

\* Mutant of MoveContext: the link is not turned round.
MoveKeepsLink(t, child) ==
  IF IsTopLevel(t, child)
  THEN LET c == wt_context[t] IN
       /\ wt_context' = [wt_context EXCEPT ![t] = stacked[c]]
       /\ rd_context' = [rd_context EXCEPT ![t] = c]
       /\ UNCHANGED stacked
  ELSE UNCHANGED <<wt_context, rd_context, stacked>>

\* do_join: the child's context moves from the write to the read stack of t.
MoveContext(t, child) ==
  IF IsTopLevel(t, child)
  THEN LET c == wt_context[t] IN
       /\ wt_context' = [wt_context EXCEPT ![t] = stacked[c]]
       /\ stacked' = [stacked EXCEPT ![c] = rd_context[t]]
       /\ rd_context' = [rd_context EXCEPT ![t] = c]
  ELSE UNCHANGED <<wt_context, rd_context, stacked>>

\* What do_join leaves of the fork or call it belongs to.
Joined(t) ==
  /\ joins' = IF joins[t] > 0 THEN [joins EXCEPT ![t] = @ - 1] ELSE joins
  /\ frames' = IF joins[t] > 0 THEN frames
               ELSE [frames EXCEPT ![t][Len(frames[t])].stage = "returned"]

\* The rest of do_join: the thread and its frames are gone.
Reap(gone) ==
  /\ alive' = alive \ gone
  /\ parent' = [c \in Threads |-> IF c \in gone THEN Nil ELSE parent[c]]

\* %join of a second thread of a fork, that has ended or not.
join(t) ==
  /\ Running(t) /\ joins[t] > 0
  /\ LET zombies == {c \in children(t) : ended[c]} IN
     \/ \E c \in zombies :
          /\ MoveContext(t, c) /\ Joined(t) /\ Reap({c})
          /\ UNCHANGED <<ended, joining>>
     \/ /\ zombies = {}
        /\ joining' = [joining EXCEPT ![t] = TRUE]
        /\ UNCHANGED <<alive, parent, ended, joins, frames, wt_context, rd_context, stacked>>
  /\ UNCHANGED <<pools, allocs, disables, own, leaked>>

\* The parent of t, if it waits in a %join, is woken and has joined t.
WakeParent(t, gone) ==
  LET p == parent[t] IN
  IF joining[p]
  THEN /\ joining' = [c \in Threads |-> c # p /\ c \notin gone /\ joining[c]]
       /\ MoveContext(p, t) /\ Joined(p) /\ Reap(gone)
       /\ ended' = [c \in Threads |-> c \notin gone /\ ended[c]]
  ELSE /\ Reap(gone \ {t})
       /\ ended' = [c \in Threads |-> c = t \/ (c \notin gone /\ ended[c])]
       /\ joining' = [c \in Threads |-> c \notin gone /\ joining[c]]
       /\ UNCHANGED <<joins, frames, wt_context, rd_context, stacked>>

\* %end of a task or of a thread of a fork.
end(t) ==
  /\ InBody(t) /\ t # root
  /\ WakeParent(t, {t})
  /\ UNCHANGED <<pools, allocs, disables, own, leaked>>

\* A set of threads that has the children of its members.
Closed(S) == \A c \in alive : parent[c] \in S => c \in S

\* t and all below it: %disable reaches them whatever they do.
Below(t) == {c \in Threads : \A S \in SUBSET Threads : t \in S /\ Closed(S) => c \in S}

Calls(S) == UNION {{frames[t][i].ctx : i \in 1..Len(frames[t])} : t \in S}

\* do_disable of t: no %free is executed for the calls of the threads below.
disable(t) ==
  /\ disables < Disables /\ disables' = disables + 1
  /\ t \in alive \ {root} /\ ~ended[t]
  /\ leaked' = leaked \cup Calls(Below(t))
  /\ LET p == parent[t]
         rest == [c \in Threads |-> IF c \in Below(t) THEN << >> ELSE frames[c]]
     IN
     IF joining[p]
     THEN /\ joining' = [c \in Threads |-> c # p /\ c \notin Below(t) /\ joining[c]]
          /\ MoveContext(p, t) /\ Reap(Below(t))
          /\ ended' = [c \in Threads |-> c \notin Below(t) /\ ended[c]]
          /\ joins' = [c \in Threads |-> IF c \in Below(t) THEN 0
                                         ELSE IF c = p /\ joins[p] > 0 THEN joins[p] - 1 ELSE joins[c]]
          /\ frames' = IF joins[p] > 0 THEN rest
                       ELSE [rest EXCEPT ![p][Len(rest[p])].stage = "returned"]
     ELSE /\ Reap(Below(t) \ {t})
          /\ ended' = [c \in Threads |-> c = t \/ (c \notin Below(t) /\ ended[c])]
          /\ joining' = [c \in Threads |-> c \notin Below(t) /\ joining[c]]
          /\ joins' = [c \in Threads |-> IF c \in Below(t) THEN 0 ELSE joins[c]]
          /\ frames' = rest
          /\ UNCHANGED <<wt_context, rd_context, stacked>>
  /\ UNCHANGED <<pools, allocs, own>>

Next ==
  \/ \E t \in Threads, s \in Scopes : alloc(t, s)
  \/ \E t \in Threads : free(t)
  \/ \E t \in Threads : call(t)
  \/ \E t \in Threads, n \in {1, 2} : fork(t, n)
  \/ \E t \in Threads : join(t)
  \/ \E t \in Threads : end(t)
  \/ \E t \in Threads : disable(t)

Spec == Init /\ [][Next]_vars
-----------------------------------------------------------------------------
OrNil(S) == S \cup {Nil}

TypeOK ==
  /\ root \in alive /\ alive \subseteq Threads
  /\ parent \in [Threads -> OrNil(Threads)]
  /\ ended \in [Threads -> BOOLEAN] /\ joining \in [Threads -> BOOLEAN]
  /\ joins \in [Threads -> 0..2]
  /\ wt_context \in [Threads -> OrNil(Contexts)] /\ rd_context \in [Threads -> OrNil(Contexts)]
  /\ stacked \in [Contexts -> OrNil(Contexts)]

Live == {t \in alive : ~ended[t]}

\* The context of the last call of t that is at one of these stages, and the
\* context of the body of t without one.
LastAt(t, stages) ==
  LET at == {i \in 1..Len(frames[t]) : frames[t][i].stage \in stages}
  IN  IF at = {} THEN own[t] ELSE frames[t][Max(at)].ctx

\* A thread stores where it must and loads what it must: the write context is
\* the one of the innermost call that has not returned, the read context the
\* one of the call whose results are loaded, both the one of the body
\* otherwise. However calls are nested, forked and disabled, do_join tells
\* the thread of a call from the thread of a block.
RightContexts ==
  \A t \in Live :
    /\ wt_context[t] = LastAt(t, {"args", "called"})
    /\ rd_context[t] = IF frames[t] # << >> /\ Innermost(t).stage = "returned"
                       THEN Innermost(t).ctx ELSE own[t]

\* No context that a thread or one of its calls uses is free, and two calls
\* in progress have different contexts.  Each context a scope ever had is
\* either live or free, once, and the live ones are those of the calls in
\* progress and of the calls that a disable ended: %free always finds its
\* context in the scope it names.
Accounted ==
  /\ \A s \in Scopes :
       Range(free_contexts[s]) \cap
         (Calls(Live) \cup {wt_context[t] : t \in Live} \cup {rd_context[t] : t \in Live}) = {}
  /\ \A t, u \in Live : \A i \in 1..Len(frames[t]), j \in 1..Len(frames[u]) :
       frames[t][i].ctx = frames[u][j].ctx => t = u /\ i = j
  /\ \A s \in Scopes : IsInjective(live_contexts[s] \o free_contexts[s])
  /\ UNION {Range(live_contexts[s]) : s \in Scopes} = Calls(alive) \cup leaked
  /\ \A t \in Live : \A i \in 1..Len(frames[t]) :
       frames[t][i].ctx \in Range(live_contexts[frames[t][i].scope])
=============================================================================
