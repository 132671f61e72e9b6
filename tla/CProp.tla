------------------------------- MODULE CProp --------------------------------
(***************************************************************************)
(* Constant propagation over the nodes of a design: the circular list of   *)
(* nodes of class Design (net_design.cc), the walk of functor_nodes        *)
(* (functor.cc) that handlers add nodes to and delete nodes from, and the  *)
(* passes of cprop (cprop.cc) that repeat the walk to a fixed point.       *)
(*                                                                         *)
(* A node is an address, which may be used again once it is deleted.       *)
(* Whether an optimisation applies to a node is a choice at each visit.    *)
(***************************************************************************)
EXTENDS Integers, Sequences, FiniteSets, SequencesExt

CONSTANTS
  Nodes,     \* the addresses of nodes
  Kinds,     \* the kinds of nodes a design starts with
  MaxStart,  \* bound on the nodes it starts with
  MaxPads,   \* bound on the constants that fill the gaps of a concatenation
  Nil

AllKinds == {"const", "concat", "ff", "mux", "part_select", "other"}

\* What the constants must be.
CPropAssumptions == Kinds \subseteq AllKinds

VARIABLES
  des,        \* the list of nodes, the iterator over it and the node kinds
  phase,      \* "scan" begins a pass, "visit" calls a handler, "clean", "done"
  count,      \* the optimisations of this pass
  constants,  \* the constants this pass has seen
  visited,    \* history: the nodes of the list this pass has visited
  uncounted   \* history: this pass has deleted a node without counting it

vars == <<des, phase, count, constants, visited, uncounted>>

Live(d) == {n \in Nodes : d.kind[n] # Nil}

Empty == [nodes_ |-> Nil,
          node_next_ |-> [n \in Nodes |-> Nil], node_prev_ |-> [n \in Nodes |-> Nil],
          cur |-> Nil, nxt |-> Nil,     \* nodes_functor_cur_ and _nxt_
          kind |-> [n \in Nodes |-> Nil]]

\* A new node goes behind nodes_ and becomes nodes_.
add_node(d, n, k) ==
  LET first == IF d.nodes_ = Nil THEN n ELSE d.node_next_[d.nodes_]
      last  == IF d.nodes_ = Nil THEN n ELSE d.nodes_ IN
  [d EXCEPT !.node_next_ = [@ EXCEPT ![n] = first, ![last] = IF last = n THEN first ELSE n],
            !.node_prev_ = [@ EXCEPT ![n] = last, ![first] = IF first = n THEN last ELSE n],
            !.nodes_ = n, !.kind[n] = k]

\* Mutant of del_node: the iterator is not told.
DelUnseen(d, n) ==
  [d EXCEPT !.nodes_ = IF @ # n THEN @ ELSE IF d.node_prev_[n] = n THEN Nil ELSE d.node_prev_[n],
            !.node_prev_ = [@ EXCEPT ![d.node_next_[n]] = d.node_prev_[n]],
            !.node_next_ = [@ EXCEPT ![d.node_prev_[n]] = d.node_next_[n]],
            !.kind[n] = Nil]

\* The destructor of a node takes it from the list and out of the iterator.
del_node(d, n) ==
  [d EXCEPT !.nxt = IF @ # n THEN @ ELSE IF d.node_next_[n] = n THEN Nil ELSE d.node_next_[n],
            !.cur = IF @ = n THEN Nil ELSE @,
            !.nodes_ = IF @ # n THEN @ ELSE IF d.node_prev_[n] = n THEN Nil ELSE d.node_prev_[n],
            !.node_prev_ = [@ EXCEPT ![d.node_next_[n]] = d.node_prev_[n]],
            !.node_next_ = [@ EXCEPT ![d.node_prev_[n]] = d.node_next_[n]],
            !.kind[n] = Nil]

AddAll(d, seq, k) == FoldLeft(LAMBDA e, n : add_node(e, n, k), d, seq)
DelAll(d, seq) == FoldLeft(LAMBDA e, n : del_node(e, n), d, seq)

\* Elaboration has added some nodes, in any order of kinds, at some addresses.
Init ==
  /\ \E n \in 1..MaxStart : \E kinds \in [1..n -> Kinds] :
       des = LET at == SetToSeq(Nodes) IN
             FoldLeft(LAMBDA d, i : add_node(d, at[i], kinds[i]), Empty, [i \in 1..n |-> i])
  /\ phase = "scan" /\ count = 0 /\ constants = << >>
  /\ visited = {} /\ uncounted = FALSE

\* Mutant of BeginScan: the walk begins behind nodes_.
BeginAtNext ==
  /\ phase = "scan"
  /\ count' = 0 /\ constants' = << >> /\ visited' = {} /\ uncounted' = FALSE
  /\ phase' = IF des.nodes_ = Nil THEN "clean" ELSE "visit"
  /\ des' = IF des.nodes_ = Nil THEN des
            ELSE LET first == des.node_next_[des.nodes_] IN
                 [des EXCEPT !.cur = first, !.nxt = des.node_next_[first]]

\* A pass of cprop begins, and functor_nodes with it.
BeginScan ==
  /\ phase = "scan"
  /\ count' = 0 /\ constants' = << >> /\ visited' = {} /\ uncounted' = FALSE
  /\ phase' = IF des.nodes_ = Nil THEN "clean" ELSE "visit"
  /\ des' = IF des.nodes_ = Nil THEN des
            ELSE [des EXCEPT !.cur = des.nodes_, !.nxt = des.node_next_[des.nodes_]]

\* A handler has left design d: the walk goes to nxt, or ends when the handler
\* has deleted the last node or when it comes round to what is nodes_ now.
\* The pass is repeated if it has counted an optimisation.
Advance(d, counted) ==
  LET ends == d.nxt \in {Nil, d.nodes_} IN
  /\ count' = count + counted
  /\ visited' = (visited \cup {des.cur}) \cap Live(d)
  /\ des' = IF ends THEN [d EXCEPT !.cur = Nil, !.nxt = Nil]
            ELSE [d EXCEPT !.cur = d.nxt, !.nxt = d.node_next_[d.nxt]]
  /\ phase' = IF ~ends THEN "visit" ELSE IF count' > 0 THEN "scan" ELSE "clean"

At(kind) == phase = "visit" /\ des.kind[des.cur] = kind
Free == Nodes \ Live(des)

\* A constant is noted for delete_dangling_const.
lpm_const ==
  /\ At("const")
  /\ constants' = Append(constants, des.cur)
  /\ Advance(des, 0)
  /\ UNCHANGED uncounted

\* A concatenation of constants is replaced by a constant.
lpm_concat ==
  /\ At("concat")
  /\ \E n \in Free : Advance(del_node(add_node(des, n, "const"), des.cur), 1)
  /\ UNCHANGED <<constants, uncounted>>

\* A flip-flop that feeds itself is deleted; this is not counted.
lpm_ff ==
  /\ At("ff")
  /\ Advance(del_node(des, des.cur), 0)
  /\ uncounted' = TRUE
  /\ UNCHANGED constants

\* A multiplexer with a constant select is replaced by a buffer.
lpm_mux ==
  /\ At("mux")
  /\ \E n \in Free : Advance(add_node(del_node(des, des.cur), n, "other"), 1)
  /\ UNCHANGED <<constants, uncounted>>

\* The part selects that drive one net become a concatenation, its gaps filled
\* with new constants; all of them are deleted.
lpm_part_select ==
  /\ At("part_select")
  /\ \E rest \in SUBSET {n \in Live(des) \ {des.cur} : des.kind[n] = "part_select"} :
     \E parts \in SetToSeqs(rest \cup {des.cur}), n \in Free :
     \E padset \in SUBSET (Free \ {n}) : \E pads \in SetToSeqs(padset) :
       /\ Len(pads) <= MaxPads
       /\ Advance(DelAll(AddAll(add_node(des, n, "concat"), pads, "const"), parts), 1)
  /\ UNCHANGED <<constants, uncounted>>

\* A node that no optimisation applies to.
Skip ==
  /\ phase = "visit" /\ des.kind[des.cur] # "const"
  /\ Advance(des, 0)
  /\ UNCHANGED <<constants, uncounted>>

\* A constant of the list that nothing reads is deleted, another one is kept.
delete_dangling_const ==
  /\ phase = "clean" /\ constants # << >>
  /\ constants' = Tail(constants)
  /\ des' \in {des, del_node(des, Head(constants))}
  /\ UNCHANGED <<phase, count, visited, uncounted>>

EndCprop ==
  /\ phase = "clean" /\ constants = << >>
  /\ phase' = "done"
  /\ UNCHANGED <<des, count, constants, visited, uncounted>>

Done == phase = "done" /\ UNCHANGED vars

Next ==
  \/ BeginScan
  \/ lpm_const \/ lpm_concat \/ lpm_ff \/ lpm_mux \/ lpm_part_select \/ Skip
  \/ delete_dangling_const \/ EndCprop \/ Done

Spec == Init /\ [][Next]_vars
-----------------------------------------------------------------------------
TypeOK ==
  /\ des.node_next_ \in [Nodes -> Nodes \cup {Nil}]
  /\ des.node_prev_ \in [Nodes -> Nodes \cup {Nil}]
  /\ des.kind \in [Nodes -> AllKinds \cup {Nil}]
  /\ phase \in {"scan", "visit", "clean", "done"}
  /\ phase # "visit" => des.cur = Nil /\ des.nxt = Nil
  /\ count \in Nat /\ constants \in Seq(Nodes)
  /\ visited \subseteq Nodes /\ uncounted \in BOOLEAN

\* The nodes of the design form one ring that both links agree on and that
\* nodes_ is on, whatever the handlers add and delete (add_node, del_node).
OneRing ==
  LET Reach[k \in 0..Cardinality(Nodes)] ==
        IF k = 0 THEN {des.nodes_} ELSE Reach[k-1] \cup {des.node_next_[n] : n \in Reach[k-1]}
  IN IF Live(des) = {} THEN des.nodes_ = Nil
     ELSE /\ des.nodes_ \in Live(des)
          /\ \A n \in Live(des) : /\ des.node_next_[n] \in Live(des)
                                  /\ des.node_prev_[des.node_next_[n]] = n
          /\ Reach[Cardinality(Nodes)] = Live(des)

\* The walk stands on a node of the design and goes on to one, although its
\* handlers delete the current, the next or any other node (functor_nodes).
NoDangling ==
  phase = "visit" => des.cur \in Live(des) /\ des.nxt \in Live(des)

\* The list of constants handed to delete_dangling_const names each constant
\* once and none that is gone: none is deleted twice (cprop).
ConstantsAreLive ==
  phase = "clean" =>
    /\ IsInjective(constants)
    /\ \A i \in DOMAIN constants : des.kind[constants[i]] = "const"

\* A scan that has changed nothing has seen every node of the design.
QuietScanSawAll == phase = "clean" /\ ~uncounted => Live(des) \subseteq visited

=============================================================================
