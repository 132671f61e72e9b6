----------------------------- MODULE MCFunctors -----------------------------
(***************************************************************************)
(* The functors that compute a net's value from several inputs: resolvers  *)
(* and user defined primitives.  part says what a behaviour is about:      *)
(* "tree", a net of one bit with five drivers, which give the tree two     *)
(* levels of branches; "vector", a net of three bits with two drivers of   *)
(* parts; "seq" and "comb", primitives of two inputs.                      *)
(***************************************************************************)
EXTENDS Resolver

VARIABLES part, table, levels, edges, current_, cur_out_, pending, out

\* The values of drivers with the same strength for zero and one.
Even == {HiZ, vvp_scalar("0", 6, 6), vvp_scalar("1", 6, 6), vvp_scalar("x", 6, 6),
         vvp_scalar("0", 5, 5), vvp_scalar("1", 5, 5)}

Vector == INSTANCE Resolver WITH
  NPorts <- 2, Width <- 3, Kinds <- {"tri", "tri0", "triand", "trior"},
  Scalars <- {HiZ, vvp_scalar("1", 5, 5)}, Plain <- {"0", "1"}

EdgeChars == {"n", "p", "*", "B", "f", "F", "M", "N", "P", "q", "Q", "r", "R", "%", "+", "_"}
LevelChars == {"0", "1", "x", "b", "l", "h", "?"}
Row(cur, a, b, o) == [cur |-> cur, in |-> [p \in {0, 1} |-> IF p = 0 THEN a ELSE b], out |-> o]

\* Every edge on the first of two ports, every level, and some rows with the
\* edge on the second port; each alone, or with a row that it may overlap.
SequentialRows ==
       {Row(cur, a, b, o) : cur \in {"0", "?"}, a \in EdgeChars \cup LevelChars,
                            b \in {"b", "h"}, o \in {"0", "1", "x", "-"}}
  \cup {Row(cur, a, b, o) : cur \in {"1", "l"}, a \in {"?", "0"},
                            b \in {"r", "n", "*"}, o \in {"1", "-"}}
SequentialTables ==
  {{r} : r \in SequentialRows}
  \cup {{r, Row("?", "1", "0", "-")} : r \in SequentialRows}

CombinationalTables ==
  LET rows == {Row("?", a, b, o) : a \in LevelChars, b \in LevelChars, o \in {"0", "1", "x"}}
  IN {{r, s} : r \in {t \in rows : t.out = "1"}, s \in rows}

Seq2 == INSTANCE Udp WITH
  port_count <- 2, Tables <- SequentialTables, Sequential <- TRUE,
  IntBits <- 4, LongBits <- 6, MaxPending <- 2
Comb2 == INSTANCE Udp WITH
  port_count <- 2, Tables <- CombinationalTables, Sequential <- FALSE,
  IntBits <- 4, LongBits <- 6, MaxPending <- 2

ASSUME UdpAssumption == Seq2!UdpAssumptions /\ Comb2!UdpAssumptions

udpVars == <<table, levels, edges, current_, cur_out_, pending, out>>
mcVars == <<part, vars, udpVars>>

NoUdp ==
  /\ table = Nil /\ levels = Nil /\ edges = Nil /\ current_ = Nil /\ cur_out_ = Nil
  /\ pending = Nil /\ out = Nil
NoNet == Init /\ kind = "tri1"

MCInit ==
  \/ part = "tree" /\ Init /\ NoUdp
  \/ part = "vector" /\ Vector!Init /\ NoUdp
  \/ part = "seq" /\ NoNet /\ Seq2!Init
  \/ part = "comb" /\ NoNet /\ Comb2!Init

MCNext ==
  /\ UNCHANGED part
  /\ \/ part = "tree" /\ Next /\ UNCHANGED udpVars
     \/ part = "vector" /\ Vector!Next /\ UNCHANGED udpVars
     \/ part = "seq" /\ Seq2!Next /\ UNCHANGED vars
     \/ part = "comb" /\ Comb2!Next /\ UNCHANGED vars

MCSpec == MCInit /\ [][MCNext]_mcVars
-----------------------------------------------------------------------------
\* Of both resolvers: whatever the order in which the drivers changed, and
\* although one branch of the tree is evaluated at a time, the net has the
\* value that all the drivers together, and its pull, give each bit.
NetIsResolved == IF part = "vector" THEN Vector!OutputIsRight ELSE OutputIsRight

\* Of both resolvers: the leaves of the tree are what the drivers last sent,
\* so that $countdrivers counts the drivers of each value.
DriversCounted == IF part = "vector" THEN Vector!CountsDrivers ELSE CountsDrivers

\* Of the primitives: each change of an input gives the output the table has
\* for it, computed from the masks the rows were compiled to, and an instance
\* that is not in the queue has sent its present output.
TableFollowed ==
  [][/\ part = "seq" => Seq2!OutputFromTable
     /\ part = "comb" => Comb2!OutputFromTable
     /\ part \in {"seq", "comb"} => Seq2!SentIsOutput]_mcVars
=============================================================================
