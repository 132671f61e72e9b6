------------------------------ MODULE MCIsland ------------------------------
(***************************************************************************)
(* Islands of one-bit nets: Line, with a switch that an outside net        *)
(* enables and one that a net of the island enables, with drivers of one   *)
(* strength and, in Feedback, of two; and Triangle, a cycle of switches,   *)
(* two of them resistive.                                                  *)
(***************************************************************************)
EXTENDS Island

VARIABLE mesh

Tran(a, b) == [a |-> a, b |-> b, en |-> Nil, high |-> TRUE, resistive |-> FALSE]
TranIf(a, b, en, high) == [a |-> a, b |-> b, en |-> en, high |-> high, resistive |-> FALSE]
RTran(a, b) == [a |-> a, b |-> b, en |-> Nil, high |-> TRUE, resistive |-> TRUE]
RTranIf(a, b, en, high) == [a |-> a, b |-> b, en |-> en, high |-> high, resistive |-> TRUE]

Strong01 == {vvp_scalar("0", 6, 6), vvp_scalar("1", 6, 6)}
Strong01z == Strong01 \cup {HiZ}

Line == <<TranIf("a", "b", "e", TRUE), TranIf("b", "c", "a", FALSE)>>
Feedback == INSTANCE Island WITH
  Forceable <- {}, Inputs <- {vvp_scalar("0", 5, 5), vvp_scalar("1", 6, 6)}
Triangle == INSTANCE Island WITH
  Mesh <- <<Tran("a", "b"), RTran("b", "c"), RTranIf("c", "a", "e", TRUE)>>,
  Forceable <- {}, Inputs <- Strong01z

mcVars == <<mesh, vars>>

MCInit == (mesh \in {"line", "feedback"} /\ Init) \/ (mesh = "triangle" /\ Triangle!Init)

MCStep == (mesh # "triangle" /\ Step) \/ (mesh = "triangle" /\ Triangle!Step)
MCNext ==
  /\ UNCHANGED mesh
  /\ \/ MCStep
     \/ mesh = "line" /\ Change
     \/ mesh = "feedback" /\ Feedback!Change
     \/ mesh = "triangle" /\ Triangle!Change

\* The scheduler runs what it has, and a run is one call: weak fairness of the
\* steps of a run, with the condition that enables them written out.
MCSpec == MCInit /\ [][MCNext]_mcVars /\ ([]<>~Pending \/ []<><<MCStep>>_mcVars)
-----------------------------------------------------------------------------
\* Of all islands: at rest the net of each port has the value that all the
\* drivers that reach it leave, and each switch the state its enable has now.
IslandIsResolved ==
  IF mesh = "triangle" THEN Triangle!MeshIsResolved /\ Triangle!EnablesAreCurrent
  ELSE MeshIsResolved /\ EnablesAreCurrent
=============================================================================
