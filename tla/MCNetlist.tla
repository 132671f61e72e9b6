----------------------------- MODULE MCNetlist ------------------------------
(***************************************************************************)
(* The structures of the netlist that the compiler rewrites in place. part *)
(* says what a behaviour is about: "nodes", constant propagation over the  *)
(* list of nodes of a design; "links", the circles of links of a nexus.    *)
(***************************************************************************)
EXTENDS Nexus, TLC

\* No NetSubstitute, or one.
OneSubstitute ==
  LET triples == {t \in Links \X Links \X Links : Cardinality({t[1], t[2], t[3]}) = 3}
  IN  {<<>>} \cup {[l \in {t[1]} |-> <<t[2], t[3]>>] : t \in triples}

CONSTANTS Nodes, NodeKinds, MaxStart, MaxPads

VARIABLES part, des, phase, count, constants, visited, uncounted

C == INSTANCE CProp WITH Kinds <- NodeKinds

ASSUME NodesAssumption == C!CPropAssumptions

nodeVars == <<des, phase, count, constants, visited, uncounted>>
mcVars == <<part, vars, nodeVars>>

\* Links that are not connected, of a behaviour about the nodes.
Quiet == Init /\ DOMAIN pins = {} /\ \A l \in Links : kind[l] = "input"
NoNodes ==
  /\ des = Nil /\ phase = Nil /\ count = Nil /\ constants = Nil
  /\ visited = Nil /\ uncounted = Nil

MCInit ==
  \/ part = "nodes" /\ Quiet /\ C!Init
  \/ part = "links" /\ Init /\ NoNodes

MCNext ==
  /\ UNCHANGED part
  /\ \/ part = "nodes" /\ C!Next /\ UNCHANGED vars
     \/ part = "links" /\ Next /\ UNCHANGED nodeVars

MCSpec == MCInit /\ [][MCNext]_mcVars

\* The instance gives nodes, links and nexuses the same addresses, so that one
\* group of permutations serves both parts.
Symmetry == Permutations(Links)
-----------------------------------------------------------------------------
\* Of the nodes: whatever the handlers of functor_nodes add and delete while
\* the walk is under way, the nodes are one ring, the walk stands on a node of
\* it and goes on to one, and no constant that is gone is deleted again.
WalkIsSound == part = "nodes" => C!OneRing /\ C!NoDangling /\ C!ConstantsAreLive

\* Of the nodes: a pass of cprop that counted nothing and deleted nothing has
\* visited every node, so that its end is a fixed point of the handlers.
FixedPointSawAll == part = "nodes" => C!QuietScanSawAll
=============================================================================
