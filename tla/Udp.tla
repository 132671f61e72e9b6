-------------------------------- MODULE Udp ---------------------------------
(***************************************************************************)
(* User defined primitives, vvp/udp.cc. The rows of a primitive are        *)
(* compiled to bit masks, one bit for each port and, if the primitive is   *)
(* sequential, one more for the current output; an instance keeps its      *)
(* inputs in such masks and matches them against the rows.                 *)
(*                                                                         *)
(* A mask is the set of the positions of its bits; ports are numbered from *)
(* 0. A row is a record: cur, the current output, in, the inputs, and out. *)
(***************************************************************************)
EXTENDS Integers, FiniteSets

CONSTANTS
  port_count,   \* the number of inputs
  Tables,       \* the tables of rows an instance may have
  Sequential,   \* whether the tables are of sequential primitives
  IntBits,      \* the bits of an int
  LongBits,     \* the bits of an unsigned long
  MaxPending    \* bound on the run_run events in the queue

\* What the constants must be; the masks limit the ports, to one less for a
\* sequential primitive.
UdpAssumptions ==
  /\ IntBits \in Nat \ {0} /\ LongBits \in Nat /\ IntBits < LongBits
  /\ port_count \in 1..(IF Sequential THEN LongBits - 1 ELSE LongBits)

Ports == 0..(port_count - 1)
Bits == {"0", "1", "x"}
LevelChars == {"0", "1", "x", "b", "l", "h", "?"}

VARIABLES
  table,
  levels,       \* the compiled rows of levels, a set for each output
  edges,        \* the compiled rows with an edge, a set for each output
  current_,     \* the masks of the inputs, a mask for each value
  cur_out_,
  pending,      \* run_run events of the instance in the queue
  out           \* the value the instance has sent

compiled == <<table, levels, edges>>
vars == <<table, levels, edges, current_, cur_out_, pending, out>>

\* The values a level character stands for: or_based_on_char and the first
\* cases of edge_based_on_char.
Levels(c) ==
  CASE c = "b" -> {"0", "1"} [] c = "l" -> {"0", "x"} [] c = "h" -> {"x", "1"}
    [] c = "?" -> Bits [] OTHER -> {c}

\* edge_based_on_char: the values an edge comes from and those it goes to.
Edge(from, to) == [from |-> from, to |-> to]
CharEdge(c) ==
  CASE c = "B" -> Edge({"x"}, {"0", "1"})
    [] c = "f" -> Edge({"1"}, {"0"})
    [] c = "F" -> Edge({"x"}, {"0"})
    [] c = "M" -> Edge({"1"}, {"x"})
    [] c = "N" -> Edge({"1"}, {"0", "x"})
    [] c = "P" -> Edge({"0"}, {"x", "1"})
    [] c = "q" -> Edge({"0", "1"}, {"x"})
    [] c = "Q" -> Edge({"0"}, {"x"})
    [] c = "r" -> Edge({"0"}, {"1"})
    [] c = "R" -> Edge({"x"}, {"1"})
    [] c = "%" -> Edge({"0", "1"}, {"x"})
    [] c = "+" -> Edge({"0", "x"}, {"1"})
    [] c = "_" -> Edge({"x", "1"}, {"0"})

\* Mutant of Expand: the edges out of x are forgotten.
ExpandKnown(c) ==
  CASE c = "n" -> {"N"} [] c = "p" -> {"P"} [] c = "*" -> {"P", "N"} [] OTHER -> {c}

\* compile_table makes two or three rows of one with such an edge.
Expand(c) ==
  CASE c = "n" -> {"N", "_"} [] c = "p" -> {"P", "+"} [] c = "*" -> {"P", "N", "B"}
    [] OTHER -> {c}

IsLevelRow(row) == \A p \in Ports : row.in[p] \in LevelChars
EdgePort(row) == CHOOSE p \in Ports : row.in[p] \notin LevelChars

\* The masks of a row whose position p may have the values of allowed[p].
Masks(allowed) == [v \in Bits |-> {p \in DOMAIN allowed : v \in allowed[p]}]

\* A level row: the current output of a sequential one is the last position.
LevelMasks(row) ==
  IF Sequential
    THEN Masks([p \in 0..port_count |->
                  IF p = port_count THEN Levels(row.cur) ELSE Levels(row.in[p])])
    ELSE Masks([p \in Ports |-> Levels(row.in[p])])

\* The rows a row with an edge is expanded to.
EdgeMasks(row) ==
  LET e == EdgePort(row) IN
  {[edge_position |-> e, edge_mask |-> CharEdge(c).from,
    masks |-> Masks([p \in 0..port_count |->
                IF p = port_count THEN Levels(row.cur)
                ELSE IF p = e THEN CharEdge(c).to ELSE Levels(row.in[p])])]
   : c \in Expand(row.in[e])}

\* compile_table: the rows by their kind and their output; those with an edge
\* and the output x are dropped, for x is the output without a row.
compile_table ==
  /\ levels = [o \in Bits \cup {"-"} |->
                 {LevelMasks(row) : row \in {r \in table : IsLevelRow(r) /\ r.out = o}}]
  /\ edges = [o \in {"0", "1", "-"} |->
                UNION {EdgeMasks(row) : row \in {r \in table : ~IsLevelRow(r) /\ r.out = o}}]

Matches(cur, masks) == \A v \in Bits : cur[v] \subseteq masks[v]

\* 1 << n in an int and widened to a mask: the sign bit is extended, and a
\* shift by IntBits or more, which is undefined, wraps or gives zero.
IntShift(n) ==
  LET bit(i) == IF i = IntBits - 1 THEN (IntBits - 1)..(LongBits - 1) ELSE {i} IN
  IF n < IntBits THEN {bit(n)} ELSE {bit(n % IntBits), {}}

\* The output that a "-" row keeps, read back from the masks; "none" stands
\* for the assertion behind the three tests,
\* after which there is no next step.
Kept(cur, one) ==
  IF cur["0"] \cap one # {} THEN "0"
  ELSE IF cur["1"] \cap one # {} THEN "1"
  ELSE IF cur["x"] \cap one # {} THEN "x" ELSE "none"

\* test_levels_: the output, or z if no row matches.
test_levels_(cur, one) ==
  LET Fits(o) == \E r \in levels[o] : Matches(cur, r) IN
  IF Fits("0") THEN "0"
  ELSE IF Fits("1") THEN "1"
  ELSE IF ~Sequential THEN "x"                     \* test_levels
  ELSE IF Fits("x") THEN "x"
  ELSE IF Fits("-") THEN Kept(cur, one)
  ELSE "z"

\* test_edges_: the edge of the one port that has changed.
test_edges_(cur, prev, one) ==
  LET edge == CHOOSE p \in Ports : \E v \in Bits : (p \in cur[v]) # (p \in prev[v])
      source == {v \in Bits : edge \in prev[v]}
      Fits(o) == \E r \in edges[o] : /\ r.edge_position = edge
                                     /\ source \subseteq r.edge_mask
                                     /\ Matches(cur, r.masks)
  IN IF Fits("0") THEN "0"
     ELSE IF Fits("1") THEN "1"
     ELSE IF Fits("-") THEN Kept(cur, one) ELSE "x"

calculate_output(cur, prev, one) ==
  IF ~Sequential THEN test_levels_(cur, one)
  ELSE IF cur = prev THEN cur_out_
  ELSE LET with == [cur EXCEPT ![cur_out_] = @ \cup {port_count}]
           lev == test_levels_(with, one)
       IN IF lev = "z" THEN test_edges_(with, prev, one) ELSE lev

\* vvp_udp_fun_core: the inputs are x and the initial value is to be sent.
Init ==
  /\ table \in Tables /\ compile_table
  /\ current_ = [v \in Bits |-> IF v = "x" THEN Ports ELSE {}]
  /\ cur_out_ \in IF Sequential THEN Bits ELSE {"x"}
  /\ pending = 1 /\ out = "none"

Received(p, v) == [w \in Bits |-> IF w = v THEN current_[w] \cup {p} ELSE current_[w] \ {p}]

\* recv_vec4_from_inputs: port p receives v, where z counts as x.
recv_vec4_from_inputs(p, v) ==
  /\ pending < MaxPending
  /\ \E one \in IntShift(port_count) :
       LET result == calculate_output(Received(p, v), current_, one) IN
       /\ result # "none" /\ cur_out_' = result
       /\ pending' = pending + (IF cur_out_' = cur_out_ THEN 0 ELSE 1)
  /\ current_' = Received(p, v)
  /\ UNCHANGED <<compiled, out>>

\* run_run: the output of this moment is sent.
run_run ==
  /\ pending > 0
  /\ pending' = pending - 1 /\ out' = cur_out_
  /\ UNCHANGED <<compiled, current_, cur_out_>>

Next == run_run \/ \E p \in Ports, v \in Bits : recv_vec4_from_inputs(p, v)

Spec == Init /\ [][Next]_vars

-----------------------------------------------------------------------------
TypeOK ==
  /\ table \in Tables
  /\ current_ \in [Bits -> SUBSET Ports]
  /\ \A p \in Ports : \E v \in Bits : {w \in Bits : p \in current_[w]} = {v}
  /\ cur_out_ \in Bits /\ out \in Bits \cup {"none"}
  /\ pending \in 0..MaxPending

\* An instance that is not in the queue has sent its present output, however
\* many changes of its inputs one event has stood for (run_run).
SentIsOutput == pending = 0 => out = cur_out_

\* What the table says, read from the characters of its rows: the changes an
\* edge character names, as the Verilog source writes them.
Changes(c) ==
  LET all == {e \in Bits \X Bits : e[1] # e[2]}
      From(S) == {e \in all : e[1] \in S}
      To(S) == {e \in all : e[2] \in S}
  IN CASE c = "*" -> all
       [] c = "n" -> {<<"1", "0">>, <<"1", "x">>, <<"x", "0">>}
       [] c = "p" -> {<<"0", "1">>, <<"0", "x">>, <<"x", "1">>}
       [] c = "_" -> To({"0"}) [] c = "+" -> To({"1"}) [] c \in {"%", "q"} -> To({"x"})
       [] c = "P" -> From({"0"}) [] c = "N" -> From({"1"}) [] c = "B" -> From({"x"})
       [] c = "r" -> {<<"0", "1">>} [] c = "f" -> {<<"1", "0">>}
       [] c = "R" -> {<<"x", "1">>} [] c = "F" -> {<<"x", "0">>}
       [] c = "Q" -> {<<"0", "x">>} [] c = "M" -> {<<"1", "x">>}

Input(masks, p) == CHOOSE v \in Bits : p \in masks[v]
LevelFits(row, now) ==
  /\ IsLevelRow(row)
  /\ \A p \in Ports : now[p] \in Levels(row.in[p])
  /\ Sequential => cur_out_ \in Levels(row.cur)
EdgeFits(row, before, now) ==
  /\ ~IsLevelRow(row)
  /\ \A p \in Ports \ {EdgePort(row)} : before[p] = now[p] /\ now[p] \in Levels(row.in[p])
  /\ <<before[EdgePort(row)], now[EdgePort(row)]>> \in Changes(row.in[EdgePort(row)])
  /\ cur_out_ \in Levels(row.cur)

\* The outputs of the rows that fit: those of levels come before those of
\* edges, "-" keeps the output, and where no row fits the output is x.
TableOutputs(before, now) ==
  LET level == {r \in table : LevelFits(r, now)}
      edge == {r \in table : EdgeFits(r, before, now)}
      Outputs(rows) == {IF r.out = "-" THEN cur_out_ ELSE r.out : r \in rows}
  IN IF Sequential /\ before = now THEN {cur_out_}
     ELSE IF level # {} THEN Outputs(level)
     ELSE IF edge # {} THEN Outputs(edge) ELSE {"x"}

\* Each change of an input gives the output the table has for it
\* (calculate_output, test_levels_, test_edges_), from masks that each row was
\* compiled to and that the instance keeps from one change to the next.
OutputFromTable ==
  current_' # current_ \/ cur_out_' # cur_out_ =>
    cur_out_' \in TableOutputs([p \in Ports |-> Input(current_, p)],
                               [p \in Ports |-> Input(current_', p)])
=============================================================================
