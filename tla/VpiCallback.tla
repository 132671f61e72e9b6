---------------------------- MODULE VpiCallback -----------------------------
(***************************************************************************)
(* The value change callbacks of one signal: vvp_vpi_callback of           *)
(* vvp/vpi_callback.cc. __vpiNamedEvent::run_vpi_callbacks of              *)
(* vvp/vpi_event.cc is the same walk.                                      *)
(*                                                                         *)
(* The callbacks are in a linked list that a change of the signal walks.   *)
(* vpi_remove_cb only clears cb_rtn: the walk unlinks and deletes what it  *)
(* finds cleared. A callback runs user code in the middle of the walk. It  *)
(* may add callbacks, remove any of them and, by vpi_put_value, change the *)
(* signal again, which walks the same list from within the first walk.     *)
(* That c is alive where it is used, and the assertion on prev, are guards *)
(* of the walk: where they do not hold the model has no next step.         *)
(***************************************************************************)
EXTENDS Integers, Sequences, FiniteSets

CONSTANTS
  Cbs,          \* callbacks of the whole signal
  PartCbs,      \* callbacks of a part select of the signal
  MaxChanges,   \* bound on the changes of the signal
  MaxDepth,     \* bound on the walks within walks
  Removes,      \* whether callbacks are removed
  Nil

\* What the constants must be.
VpiCallbackAssumptions ==
  /\ Cbs \cap PartCbs = {} /\ Nil \notin Cbs \cup PartCbs
  /\ MaxChanges \in Nat /\ MaxDepth \in Nat \ {0} /\ Removes \in BOOLEAN

All == Cbs \cup PartCbs

\* The signal has two bits; the part select is the first of them.
Bits == {0, 1}
Values == Bits \X Bits
Part(v) == v[1]

VARIABLES
  vpi_callbacks_,  \* the first callback of the list
  next,            \* of each callback
  alive,           \* the callbacks that are allocated
  made,            \* those that ever were; an address is not used again
  cb_rtn,          \* whether the callback still has a function to call
  value_bits_,     \* of a callback of a part: the part when it was last called
  value,           \* of the signal
  walks,           \* the run_vpi_callbacks_slow_ in progress, the innermost last
  changes,
  removed          \* history: how many changes there had been when cb_rtn was cleared

list == <<vpi_callbacks_, next, alive, made, cb_rtn>>
vars == <<list, value_bits_, value, walks, changes, removed>>

\* A walk: its local variables, whether it is in the user's function, and the
\* callbacks that are to be called (history).
Walk(nxt, owed) == [cur |-> Nil, prev |-> Nil, next |-> nxt, calling |-> FALSE, owed |-> owed]

Init ==
  /\ vpi_callbacks_ = Nil /\ next = [c \in All |-> Nil]
  /\ alive = {} /\ made = {} /\ cb_rtn = [c \in All |-> FALSE]
  /\ value_bits_ = [c \in PartCbs |-> 0] /\ value = <<0, 0>>
  /\ walks = << >> /\ changes = 0
  /\ removed = [c \in All |-> 0]

Top == walks[Len(walks)]
SetTop(w) == walks' = [walks EXCEPT ![Len(walks)] = w]

\* User code runs outside a walk or in a callback.
InUserCode == walks # << >> => Top.calling

(***************************************************************************)
(* What user code does.                                                    *)
(***************************************************************************)
\* vpi_register_cb: make_value_change, add_vpi_callback and, for a part, the
\* constructor of value_part_callback.
vpi_register_cb(c) ==
  /\ InUserCode /\ c \notin made
  /\ alive' = alive \cup {c} /\ made' = made \cup {c}
  /\ cb_rtn' = [cb_rtn EXCEPT ![c] = TRUE]
  /\ next' = [next EXCEPT ![c] = vpi_callbacks_]
  /\ vpi_callbacks_' = c
  /\ value_bits_' = IF c \in PartCbs THEN [value_bits_ EXCEPT ![c] = Part(value)] ELSE value_bits_
  /\ UNCHANGED <<value, walks, changes, removed>>

\* vpi_remove_cb, once for a callback. A callback may remove itself.
vpi_remove_cb(c) ==
  /\ Removes /\ InUserCode
  /\ c \in alive /\ cb_rtn[c]
  /\ cb_rtn' = [cb_rtn EXCEPT ![c] = FALSE]
  /\ removed' = [removed EXCEPT ![c] = changes]
  /\ UNCHANGED <<vpi_callbacks_, next, alive, made, value_bits_, value, walks, changes>>

\* Whether test_value_callback_ready is true of c when the signal is v.
ready(c, v) == c \in PartCbs => value_bits_[c] # Part(v)

\* The signal changes: by the simulation when no callback runs, by
\* vpi_put_value from a callback. run_vpi_callbacks walks a list that is not
\* empty.
change(v) ==
  /\ InUserCode /\ changes < MaxChanges /\ Len(walks) < MaxDepth
  /\ v # value
  /\ value' = v /\ changes' = changes + 1
  /\ walks' = IF vpi_callbacks_ = Nil THEN walks
              ELSE Append(walks, Walk(vpi_callbacks_, {c \in alive : cb_rtn[c] /\ ready(c, v)}))
  /\ UNCHANGED <<list, value_bits_, removed>>

\* The user's function returns: the walk goes on with prev = cur.
return ==
  /\ walks # << >> /\ Top.calling
  /\ SetTop([Top EXCEPT !.calling = FALSE, !.prev = Top.cur])
  /\ UNCHANGED <<list, value_bits_, value, changes, removed>>

(***************************************************************************)
(* The walk of run_vpi_callbacks_slow_.                                    *)
(***************************************************************************)
Walking == walks # << >> /\ ~Top.calling

\* A callback that has a function and is ready: callback_execute.
call ==
  LET c == Top.next IN
  /\ Walking /\ c \in alive /\ cb_rtn[c] /\ ready(c, value)
  /\ value_bits_' = IF c \in PartCbs THEN [value_bits_ EXCEPT ![c] = Part(value)] ELSE value_bits_
  /\ SetTop([Top EXCEPT !.cur = c, !.next = next[c], !.calling = TRUE, !.owed = @ \ {c}])
  /\ UNCHANGED <<list, value, changes, removed>>

\* A callback that has a function and is not ready is passed over.
pass ==
  LET c == Top.next IN
  /\ Walking /\ c \in alive /\ cb_rtn[c] /\ ~ready(c, value)
  /\ SetTop([Top EXCEPT !.cur = c, !.next = next[c], !.prev = c])
  /\ UNCHANGED <<list, value_bits_, value, changes, removed>>

\* The two branches that take c out of the list.
Unlink(c) ==
  IF Top.prev = Nil
  THEN /\ vpi_callbacks_' = next[c]
       /\ next' = [next EXCEPT ![c] = Nil]
  ELSE /\ next' = [next EXCEPT ![Top.prev] = next[c], ![c] = Nil]
       /\ UNCHANGED vpi_callbacks_

\* What the branch for a callback with prev needs: prev is still there, and
\* assert(prev->next == cur).
CanUnlink(c) == Top.prev # Nil => Top.prev \in alive /\ next[Top.prev] = c

\* Mutant of reap: what was removed stays.
ReapNothing ==
  LET c == Top.next IN
  /\ Walking /\ c \in alive /\ ~cb_rtn[c] /\ CanUnlink(c)
  /\ SetTop([Top EXCEPT !.cur = c, !.next = next[c], !.prev = c])
  /\ UNCHANGED <<list, value_bits_, value, changes, removed>>

\* Mutant of reap: the walk reads cur->next after it was cleared.
ReapReadsLate ==
  LET c == Top.next IN
  /\ Walking /\ c \in alive /\ ~cb_rtn[c] /\ CanUnlink(c)
  /\ Unlink(c)
  /\ alive' = alive \ {c}
  /\ SetTop([Top EXCEPT !.cur = c, !.next = next'[c]])
  /\ UNCHANGED <<made, cb_rtn, value_bits_, value, changes, removed>>

\* A callback without a function is unlinked and deleted.
reap ==
  LET c == Top.next IN
  /\ Walking /\ c \in alive /\ ~cb_rtn[c] /\ CanUnlink(c)
  /\ Unlink(c)
  /\ alive' = alive \ {c}
  /\ SetTop([Top EXCEPT !.cur = c, !.next = next[c]])
  /\ UNCHANGED <<made, cb_rtn, value_bits_, value, changes, removed>>

\* The end of the list.
leave ==
  /\ Walking /\ Top.next = Nil
  /\ walks' = SubSeq(walks, 1, Len(walks) - 1)
  /\ UNCHANGED <<list, value_bits_, value, changes, removed>>

\* No walk is in progress and user code has nothing more to do.
Done == walks = << >> /\ UNCHANGED vars

Next ==
  \/ \E c \in All : vpi_register_cb(c)
  \/ \E c \in All : vpi_remove_cb(c)
  \/ \E v \in Values : change(v)
  \/ return \/ call \/ pass \/ reap \/ leave \/ Done
Spec == Init /\ [][Next]_vars
-----------------------------------------------------------------------------
TypeOK ==
  /\ vpi_callbacks_ \in All \cup {Nil} /\ next \in [All -> All \cup {Nil}]
  /\ alive \subseteq made /\ made \subseteq All
  /\ cb_rtn \in [All -> BOOLEAN]
  /\ value_bits_ \in [PartCbs -> Bits] /\ value \in Values
  /\ Len(walks) <= MaxDepth
  /\ changes \in 0..MaxChanges

\* S is closed under next.
Closed(S) == \A c \in S : next[c] \in S \cup {Nil}

\* What the list holds from c on: the least closed set with c in it.
From(c) == {d \in All : \A S \in SUBSET All : c \in S \cup {Nil} /\ Closed(S) => d \in S}

\* The list holds exactly the callbacks that are allocated: none is lost by a
\* removal in the middle of a walk, and none that was deleted is still in it.
ListIsWhole == From(vpi_callbacks_) = alive

\* The walk never comes to a callback that was deleted, and its assertion
\* that prev is still before cur holds: what it holds in its local variables
\* stays valid while user code adds and removes callbacks.
NoStaleCallback ==
  \A i \in 1..Len(walks) :
    LET w == walks[i] IN
    /\ w.next \in alive \cup {Nil}
    /\ w.calling => w.cur \in alive
    /\ ~w.calling => w.prev = Nil \/ (w.prev \in alive /\ next[w.prev] = w.next)

\* A change calls every callback that is there when it comes, unless the
\* callback is removed before its turn or has nothing new to report.
EachIsCalled ==
  \A i \in 1..Len(walks) : walks[i].next = Nil /\ ~walks[i].calling =>
    \A c \in walks[i].owed : ~cb_rtn[c] \/ (c \in PartCbs /\ ~ready(c, value))

\* "This causes the callback to quietly reap itself": a callback that was
\* removed before a change is deleted once that change has been dealt with.
ReapedByNextChange ==
  walks = << >> => \A c \in alive : ~cb_rtn[c] => removed[c] = changes

\* The list holds exactly what is allocated, what the walk holds of it stays
\* valid while user code runs, and what was removed is gone after the next
\* change.
ListIsSound == ListIsWhole /\ NoStaleCallback /\ ReapedByNextChange

=============================================================================
