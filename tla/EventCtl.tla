------------------------------ MODULE EventCtl ------------------------------
(***************************************************************************)
(* The waiting list and the non-blocking event controls of one event       *)
(* functor, struct waitable_hooks_s of vvp/event.cc.                       *)
(*                                                                         *)
(* event_ctls is a linked list of evctl objects, the assignments of        *)
(* "a <= repeat (n) @(e) v"; last points to the link the next one is       *)
(* stored in, and run_waiting_threads_ uses the same member as its cursor. *)
(* A link is event_ctls or the next field of an evctl.                     *)
(* The assertion of dec_and_run, that the count has not run out, is the    *)
(* guard of its two cases: where it fails the model has no next step.      *)
(***************************************************************************)
EXTENDS Integers, Sequences, FiniteSets

CONSTANTS
  Ctls,        \* the evctl objects, an object is not allocated twice
  Counts,      \* the repeat counts used
  Retriggers,  \* the evctls whose assignment makes the event fire
  Threads,
  MaxFires,    \* bound on the events
  event_ctls,  \* the first link
  Nil

\* What the constants must be.
EventCtlAssumptions ==
  /\ Counts \subseteq Nat \ {0} /\ Retriggers \subseteq Ctls
  /\ event_ctls \notin Ctls /\ Nil \notin Ctls

VARIABLES
  link,        \* the value of each link: event_ctls and the next fields
  ecount_,
  ctls,        \* the evctls that exist
  last,
  calls,       \* the run_waiting_threads_ in progress, the innermost first
  threads,     \* the threads waiting for the event
  scheduled,   \* the threads it has woken, until they run
  fires,
  due,         \* history: the number of the event an evctl is to run at
  order        \* history: the evctls in the order they were scheduled

vars == <<link, ecount_, ctls, last, calls, threads, scheduled, fires, due, order>>

Links == {event_ctls} \cup Ctls
Call(cur, pc) == [cur |-> cur, pc |-> pc]

Init ==
  /\ link = [l \in Links |-> Nil]
  /\ ecount_ = [c \in Ctls |-> 0]
  /\ ctls = {} /\ last = event_ctls /\ calls = << >>
  /\ threads = {} /\ scheduled = {}
  /\ fires = 0
  /\ due = [c \in Ctls |-> 0] /\ order = << >>

\* A thread schedules assignment c for the n-th event from now.
schedule_evctl(c, n) ==
  /\ calls = << >> /\ c \notin ctls /\ due[c] = 0
  /\ link' = [link EXCEPT ![last] = c, ![c] = Nil]
  /\ last' = c
  /\ ecount_' = [ecount_ EXCEPT ![c] = n]
  /\ ctls' = ctls \cup {c}
  /\ due' = [due EXCEPT ![c] = fires + n]
  /\ order' = Append(order, c)
  /\ UNCHANGED <<calls, threads, scheduled, fires>>

\* of_WAIT: a thread that runs waits for the event.
of_WAIT(t) ==
  /\ calls = << >> /\ t \notin threads \cup scheduled
  /\ threads' = threads \cup {t}
  /\ UNCHANGED <<link, ecount_, ctls, last, calls, scheduled, fires, due, order>>

\* The scheduler runs a woken thread, which goes on to something else.
Resume(t) ==
  /\ calls = << >> /\ t \in scheduled
  /\ scheduled' = scheduled \ {t}
  /\ UNCHANGED <<link, ecount_, ctls, last, calls, threads, fires, due, order>>

\* The event fires: run_waiting_threads_ is entered.
Enter(rest) ==
  /\ fires' = fires + 1
  /\ last' = event_ctls
  /\ calls' = <<Call(link[event_ctls], "loop")>> \o rest

Fire ==
  /\ calls = << >> /\ fires < MaxFires
  /\ Enter(<< >>)
  /\ UNCHANGED <<link, ecount_, ctls, threads, scheduled, due, order>>

cur == calls[1].cur
InLoop == calls # << >> /\ calls[1].pc = "loop"

\* Mutant of StillCounting: the count is not taken down.
CountsNever ==
  /\ InLoop /\ cur # Nil /\ ecount_[cur] > 1
  /\ last' = cur
  /\ calls' = [calls EXCEPT ![1].cur = link[cur]]
  /\ UNCHANGED <<link, ecount_, ctls, threads, scheduled, fires, due, order>>

\* dec_and_run where the count does not reach zero: the cursor moves on.
StillCounting ==
  /\ InLoop /\ cur # Nil /\ ecount_[cur] > 1
  /\ ecount_' = [ecount_ EXCEPT ![cur] = @ - 1]
  /\ last' = cur
  /\ calls' = [calls EXCEPT ![1].cur = link[cur]]
  /\ UNCHANGED <<link, ctls, threads, scheduled, fires, due, order>>

\* dec_and_run where it does: run_run assigns, and the assignment may fire
\* the event again before it returns.
RunCtl ==
  /\ InLoop /\ cur # Nil /\ ecount_[cur] = 1
  /\ ecount_' = [ecount_ EXCEPT ![cur] = 0]
  /\ LET after == [calls EXCEPT ![1].pc = "ran"] IN
       IF cur \in Retriggers THEN Enter(after) ELSE calls' = after /\ UNCHANGED <<fires, last>>
  /\ UNCHANGED <<link, ctls, threads, scheduled, due, order>>

\* run_run has returned: the evctl is unlinked through last and deleted.
DeleteCtl ==
  /\ calls # << >> /\ calls[1].pc = "ran"
  /\ ctls' = ctls \ {cur}
  /\ link' = [link EXCEPT ![last] = link[cur]]
  /\ calls' = [calls EXCEPT ![1] = Call(link[cur], "loop")]
  /\ UNCHANGED <<ecount_, last, threads, scheduled, fires, due, order>>

\* The end of the list: all waiting threads are scheduled.
Wake ==
  /\ InLoop /\ cur = Nil
  /\ scheduled' = scheduled \cup threads
  /\ threads' = {}
  /\ calls' = Tail(calls)
  /\ UNCHANGED <<link, ecount_, ctls, last, fires, due, order>>

Idle == calls = << >> /\ fires = MaxFires /\ UNCHANGED vars

Next ==
  \/ \E c \in Ctls, n \in Counts : schedule_evctl(c, n)
  \/ \E t \in Threads : of_WAIT(t) \/ Resume(t)
  \/ Fire \/ StillCounting \/ RunCtl \/ DeleteCtl \/ Wake \/ Idle

Spec == Init /\ [][Next]_vars

-----------------------------------------------------------------------------
(***************************************************************************)
(* Properties.                                                             *)
(***************************************************************************)

\* Every variable has its type, and links lead to evctls that exist.
TypeOK ==
  /\ link \in [Links -> Ctls \cup {Nil}]
  /\ ecount_ \in [Ctls -> Nat]
  /\ ctls \subseteq Ctls /\ last \in Links
  /\ \A i \in DOMAIN calls : calls[i].cur \in Ctls \cup {Nil} /\ calls[i].pc \in {"loop", "ran"}
  /\ threads \subseteq Threads /\ scheduled \subseteq Threads
  /\ fires \in Nat

\* The list that starts at link l: the least set with the evctl that l leads to
\* and, with an evctl, the one behind it.
ListFrom(l) ==
  {c \in Ctls : \A S \in SUBSET Ctls :
     (\A m \in {l} \cup S : link[m] \in S \cup {Nil}) => c \in S}

\* Between events, last is the end of the list, wherever deletions have moved
\* it, and the list holds the evctls that exist and no others: an assignment
\* scheduled next is found again.
LastIsEnd ==
  calls = << >> =>
    /\ link[last] = Nil
    /\ last \in {event_ctls} \cup ctls
    /\ ListFrom(event_ctls) = ctls

\* An evctl runs at the event it was scheduled for, neither earlier nor later.
RunsAtItsEvent ==
  /\ \A c \in Ctls \ ctls : due[c] <= fires
  /\ calls = << >> => \A c \in ctls : due[c] = fires + ecount_[c] /\ ecount_[c] > 0

\* Of the evctls of one event the one scheduled first assigns first.
InOrder ==
  \A i, j \in DOMAIN order :
    i < j /\ due[order[i]] = due[order[j]] /\ order[j] \notin ctls => order[i] \notin ctls

\* After each event the list holds the controls that exist and last is its end,
\* wherever the walk has left it, and each control has run at the event it was
\* scheduled for, in the order of scheduling.
ControlsRun == LastIsEnd /\ RunsAtItsEvent /\ InOrder
=============================================================================
