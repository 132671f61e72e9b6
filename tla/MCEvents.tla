------------------------------ MODULE MCEvents ------------------------------
(***************************************************************************)
(* Stores whose events are deferred, and the event controls one event      *)
(* functor holds.  part says which of the two a behaviour is about; the    *)
(* variables of the other stay as they are initially.                      *)
(***************************************************************************)
EXTENDS EventDefer

CONSTANTS c1, c2, c3, event_ctls

VARIABLES part, link, ecount_, ctls, last, calls, threads, scheduled, fires, due, order

\* x[0] == x[1] through two part selects, as event_aware_store_op looks for,
\* and y == z assigned as {y, z}; a thread can watch both comparisons.
SlicesFanout ==
  [x |-> <<"p0", "p1">>, p0 |-> <<"f">>, p1 |-> <<"f">>, f |-> <<"ef">>,
   y |-> <<"g", "ey">>, z |-> <<"g">>, g |-> <<"eg">>]
SlicesGate == [p0 |-> "part0", p1 |-> "part1", f |-> "eeq", g |-> "eeq"]
SlicesEdge == [ef |-> "posedge", eg |-> "negedge", ey |-> "anyedge"]
SlicesStore == [x |-> "event", y |-> "store", z |-> "store"]
SlicesConcats == {<<"y", "z">>}

\* Three event controls and two threads wait for four events.
Ctl == INSTANCE EventCtl WITH
  Ctls <- {c1, c2, c3}, Counts <- 1..3, Retriggers <- {}, MaxFires <- 4

ASSUME CtlAssumption == Ctl!EventCtlAssumptions

ctlVars == <<link, ecount_, ctls, last, calls, threads, scheduled, fires, due, order>>
mcVars == <<part, vars, ctlVars>>

MCInit == part \in {"store", "control"} /\ Init /\ Ctl!Init

MCNext ==
  /\ UNCHANGED part
  /\ \/ part = "store" /\ Next /\ UNCHANGED ctlVars
     \/ part = "control" /\ Ctl!Next /\ UNCHANGED vars

MCSpec == MCInit /\ [][MCNext]_mcVars
-----------------------------------------------------------------------------
\* Of the event controls: after each event the list holds the controls that
\* exist and last is its end, wherever the walk has left it, and each control
\* has run at the event it was scheduled for, in the order of scheduling.
ControlsRun == Ctl!ControlsRun
=============================================================================
