----------------------------- MODULE MCSignals ------------------------------
(***************************************************************************)
(* A signal of two bits and the list of its value-change callbacks.  part  *)
(* says what a behaviour is about: "reg", a variable; "sent", a variable   *)
(* that is not assigned and forced at once; "net", a net with one or two   *)
(* driven bits; "walk", callbacks that add and remove callbacks; "put",    *)
(* callbacks that change the signal from within a walk.                    *)
(***************************************************************************)
EXTENDS Signal

CONSTANTS A, B, P, Q

VARIABLES part,
  vpi_callbacks_, next, alive, made, cb_rtn, value_bits_, value, walks, changes, removed

Sent == INSTANCE Signal WITH Overlap <- FALSE
Net == INSTANCE Signal WITH Variable <- FALSE, Overlap <- FALSE

List == INSTANCE VpiCallback WITH
  Cbs <- {A, B}, PartCbs <- {P, Q}, MaxChanges <- 3, MaxDepth <- 1, Removes <- TRUE
Nested == INSTANCE VpiCallback WITH
  Cbs <- {A}, PartCbs <- {P, Q}, MaxChanges <- 3, MaxDepth <- 3, Removes <- FALSE

ASSUME ListAssumption == List!VpiCallbackAssumptions /\ Nested!VpiCallbackAssumptions

listVars == <<vpi_callbacks_, next, alive, made, cb_rtn, value_bits_, value, walks, changes, removed>>
mcVars == <<part, vars, listVars>>

\* The signal of a behaviour about its callbacks, before anything happens.
Quiet == Init /\ src = [i \in Bits |-> 0]

MCInit ==
  \/ part = "reg" /\ Init /\ List!Init
  \/ part = "sent" /\ Sent!Init /\ List!Init
  \/ part = "net" /\ Net!Init /\ List!Init
  \/ part = "walk" /\ Quiet /\ List!Init
  \/ part = "put" /\ Quiet /\ Nested!Init

MCNext ==
  /\ UNCHANGED part
  /\ \/ part = "reg" /\ Next /\ UNCHANGED listVars
     \/ part = "sent" /\ Sent!Next /\ UNCHANGED listVars
     \/ part = "net" /\ Net!Next /\ UNCHANGED listVars
     \/ part = "walk" /\ List!Next /\ UNCHANGED vars
     \/ part = "put" /\ Nested!Next /\ UNCHANGED vars

MCSpec == MCInit /\ [][MCNext]_mcVars
-----------------------------------------------------------------------------
\* What the fan-out and the callbacks were last told is the value, of a net
\* and of a variable that is not assigned while it is forced.
ToldTheValue == part # "reg" => SeenIsValue

\* Of the callbacks: a change calls each that is there when it comes and has
\* something new to report, whatever is added, removed or changed meanwhile.
EachIsCalled == IF part = "put" THEN Nested!EachIsCalled ELSE List!EachIsCalled

\* Of the callbacks: the list holds exactly those that are allocated, what
\* the walk holds of it stays valid while user code runs, and what was removed
\* is gone after the next change.
ListIsSound == IF part = "put" THEN Nested!ListIsSound ELSE List!ListIsSound
=============================================================================
