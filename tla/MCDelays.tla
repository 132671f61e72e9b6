------------------------------ MODULE MCDelays ------------------------------
(***************************************************************************)
(* The functors that delay a value: the delay functor for a bit with two   *)
(* delays, for a bit with three and for a real number, and module paths.   *)
(* part says which of them a behaviour is about; the variables of the      *)
(* other one stay as they were made.  They share the time and the number   *)
(* of inputs.                                                              *)
(***************************************************************************)
EXTENDS Delay, TLC

CONSTANTS Parts, srcA, srcB, srcC, MaxPathTime, MaxPathInputs, Nil

VARIABLES part,
  delay_, wake_time_, condition_flag_, old_value_, input_vec4_, output_vec4_, pending, events,
  path_generics, changes, puts, due

\* The fall is slow and the rise is fast, a transition to x takes the least.
SlowFall == [rise |-> 1, fall |-> 3, decay |-> 2]
\* A rise with no delay at all.
ZeroRise == [rise |-> 0, fall |-> 2, decay |-> 2]

Three == INSTANCE Delay WITH
  Values <- {"0", "x", "z"}, Delays <- {0, 3}, FirstDelays <- ZeroRise, IgnoreDecay <- FALSE,
  MaxInputs <- 4, MaxSets <- 1
Real == INSTANCE Delay WITH
  Kind <- "real", Values <- {0, 1, 2}, FirstValue <- 0, IgnoreDecay <- FALSE, Early <- 0,
  MaxInputs <- 4

\* The delays of the paths: a rise of 3, a fall of 1, 2 for the rest; 2 for
\* every change; none at all.
PathEdges == {e \in Values \X Values : e[1] # e[2]}
Slow == [e \in PathEdges |-> CASE e[2] = "1" -> 3 [] e[2] = "0" -> 1 [] OTHER -> 2]
Even == [e \in PathEdges |-> 2]
None == [e \in PathEdges |-> 0]
Table == (srcA :> Slow) @@ (srcB :> Even) @@ (srcC :> None)

\* A plain path from srcA, one from the positive edges of srcB, an ifnone path
\* from srcC. Two bits without put_delay12, or one bit with it and negative edges.
Path == INSTANCE ModPath WITH
  Bits <- {0, 1}, Bit4 <- Values, SrcList <- <<srcA, srcB>>, IfnoneList <- <<srcC>>,
  PosEdge <- {srcB}, NegEdge <- {}, Tables <- {}, FirstTable <- Table,
  MaxTime <- MaxPathTime, MaxChanges <- 2, MaxInputs <- MaxPathInputs, MaxPuts <- 0,
  ready <- due, generics <- path_generics
Put == INSTANCE ModPath WITH
  Bits <- {0}, Bit4 <- Values, SrcList <- <<srcA, srcB>>, IfnoneList <- <<srcC>>,
  PosEdge <- {}, NegEdge <- {srcB}, Tables <- {None}, FirstTable <- Table,
  MaxTime <- MaxPathTime, MaxChanges <- 2, MaxInputs <- MaxPathInputs, MaxPuts <- 1,
  ready <- due, generics <- path_generics

ASSUME PathAssumption == Path!ModPathAssumptions /\ Put!ModPathAssumptions

delayVars == <<delays, cur, initial_, list_, generics, sets, history>>
pathVars == <<delay_, wake_time_, condition_flag_, old_value_, input_vec4_, output_vec4_, pending,
              events, path_generics, changes, puts, due>>
mcVars == <<part, vars, pathVars>>

MCInit ==
  /\ part \in Parts
  /\ CASE part = "three" -> Three!Init /\ Path!Init
       [] part = "real" -> Real!Init /\ Path!Init
       [] part = "put" -> Init /\ Put!Init
       [] OTHER -> Init /\ Path!Init

MCNext ==
  /\ UNCHANGED part
  /\ \/ part = "two" /\ Next /\ UNCHANGED pathVars
     \/ part = "three" /\ Three!Next /\ UNCHANGED pathVars
     \/ part = "real" /\ Real!Next /\ UNCHANGED pathVars
     \/ part = "path" /\ Path!Next /\ UNCHANGED delayVars
     \/ part = "put" /\ Put!Next /\ UNCHANGED delayVars

MCSpec == MCInit /\ [][MCNext]_mcVars
-----------------------------------------------------------------------------
\* Of the module paths: a bit of the output changes to the value of the input
\* exactly when the delay of its last change is over, whatever bits share its
\* event and whatever was cancelled (vvp_fun_modpath).
ChangesOnTime == Path!ChangesOnTime

\* Of the module paths: the two loops over the sources choose the latest
\* enabled ones, or the ifnone sources when none is enabled or they are later.
LatestApply == Path!LatestApply
=============================================================================
