------------------------------ MODULE MCCalls -------------------------------
(***************************************************************************)
(* Calls of automatic tasks by threads, and of functions by continuous     *)
(* assignments.  part says what a behaviour is about: "tasks"; "static",   *)
(* functors of a static function that drive each other, one of them        *)
(* itself; "automatic", functors of an automatic function that stops.      *)
(***************************************************************************)
EXTENDS Context, TLC

VARIABLES part, port_values_, thread_, active, variables, context, ufunc_free, result, out,
  changes, stops, called

\* Threads but the first, contexts and scopes are interchangeable.
Symmetry == Permutations(Threads \ {root}) \cup Permutations(Contexts) \cup Permutations(Scopes)

\* The unknown value.
X == 3

\* Functor 1 is a latch that holds its own output, and drives functor 2.
LatchFeeds == <<{<<1, 2>>, <<2, 1>>}, {}>>
LatchResult(c, in) ==
  CASE c = 1 -> IF in[1] = X THEN in[2] ELSE in[1]
    [] c # 1 /\ 0 \in Range(in) -> 0
    [] OTHER -> IF X \in Range(in) THEN X ELSE 1

Latch == INSTANCE UFunc WITH
  Cores <- {1, 2}, Ports <- {1, 2}, Values <- {0, 1, X}, Result <- LatchResult,
  Feeds <- LatchFeeds, is_automatic <- FALSE, Contexts <- {}, Static <- "static",
  MaxChanges <- 6, MaxStops <- 0, free_contexts <- ufunc_free
Stopped == INSTANCE UFunc WITH
  Cores <- {1, 2}, Ports <- {1, 2}, Values <- {0, X}, Result <- LatchResult,
  Feeds <- <<{}, {}>>, is_automatic <- TRUE, Contexts <- {"first", "second"},
  Static <- "static", MaxChanges <- 4, MaxStops <- 2, free_contexts <- ufunc_free

ASSUME UFuncAssumption ==
  Latch!UFuncAssumptions /\ Latch!HoldsItsOutput /\ Stopped!UFuncAssumptions

ufuncVars == <<port_values_, thread_, active, variables, context, ufunc_free, result, out,
               changes, stops, called>>
mcVars == <<part, vars, ufuncVars>>

MCInit ==
  /\ part \in {"tasks", "static", "automatic"}
  /\ Init
  /\ IF part = "automatic" THEN Stopped!Init ELSE Latch!Init

MCNext ==
  /\ UNCHANGED part
  /\ \/ part = "tasks" /\ Next /\ UNCHANGED ufuncVars
     \/ part = "static" /\ Latch!Next /\ UNCHANGED vars
     \/ part = "automatic" /\ Stopped!Next /\ UNCHANGED vars

MCSpec == MCInit /\ [][MCNext]_mcVars
-----------------------------------------------------------------------------
\* Of the functors of a static function that does not stop: each has its
\* thread in the queue once or not at all, and where it has none its output is
\* what the function computes from its inputs.
FunctorFollows == part = "static" => Latch!OneThread /\ Latch!FollowsInput

\* Of the functors of an automatic function that stops: no thread is started
\* twice or forgotten, and a call that is resumed finds its arguments as they
\* were, whatever calls came in between.
OwnArguments == part = "automatic" => Stopped!OneThread /\ Stopped!OwnArguments
=============================================================================
