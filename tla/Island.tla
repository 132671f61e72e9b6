------------------------------- MODULE Island -------------------------------
(***************************************************************************)
(* An island of bidirectional switches, vvp_island_tran, of one-bit nets.  *)
(* Drivers outside the island write the ports; the island is flagged and   *)
(* later run by the scheduler, or run at once when VPI releases a net.  A  *)
(* run tests the enables of the branches, pushes the values through the    *)
(* mesh, sends the results out, and starts over while the results change   *)
(* an enable.                                                              *)
(*                                                                         *)
(* Sending a result calls the fan-out and the VPI callbacks of the net     *)
(* before the run goes on: they may write ports, and release a net.        *)
(***************************************************************************)
EXTENDS Strength, Sequences, SequencesExt, FiniteSets

CONSTANTS
  Ports,      \* the ports of the island, imports included
  Mesh,       \* the branches in the order in which they were added
  Forceable,  \* the ports whose net may be forced
  Inputs,     \* the values that drivers send
  MaxReacts,  \* bound on the changes that the fan-out makes in one run
  Nil         \* a vector of size zero; no enable

VARIABLES
  invalue, outvalue, value,  \* of each port; value is scratch of a run
  forced,                    \* the force of the net's filter, or Nil
  state,                     \* the enable state of each branch
  flagged,                   \* flagged_, with its event in the scheduler
  runs,                      \* the runs of the island that are under way
  reacts                     \* changes made by the fan-out in this run

ports == <<invalue, outvalue, forced>>
vars == <<invalue, outvalue, value, forced, state, flagged, runs, reacts>>

Branches == DOMAIN Mesh
States == {"disabled", "enabled", "unknown"}

\* The branch list has the newest branch first.
InOrder == Reverse([k \in 1 .. Len(Mesh) |-> k])

\* Branch ends: <<b, 0>> is side a of branch b and <<b, 1>> side b.
Ends == Branches \X {0, 1}
PortOf(e) == IF e[2] = 0 THEN Mesh[e[1]].a ELSE Mesh[e[1]].b
Other(e) == <<e[1], 1 - e[2]>>

\* add_branch: the ends at port p as the circular list has them: the first,
\* and after it the others, newest first.
AddOrder == [k \in 1 .. 2 * Len(Mesh) |-> <<(k + 1) \div 2, (k + 1) % 2>>]
Ring(p) ==
  LET s == SelectSeq(AddOrder, LAMBDA e : PortOf(e) = p)
  IN  IF s = <<>> THEN s ELSE <<Head(s)>> \o Reverse(Tail(s))

\* island_collect_node: the list from the end e once around.
island_collect_node(e) ==
  LET r == Ring(PortOf(e))
      k == CHOOSE i \in DOMAIN r : r[i] = e
  IN  SubSeq(r, k, Len(r)) \o SubSeq(r, 1, k - 1)

\* The value that drives port p, through the force filter of its net.
island_get_value(in, p) ==
  IF in[p] # Nil /\ forced[p] # Nil THEN forced[p] ELSE in[p]

-----------------------------------------------------------------------------
StateFor(b, bit) ==
  CASE bit = (IF Mesh[b].high THEN "1" ELSE "0") -> "enabled"
    [] bit = (IF Mesh[b].high THEN "0" ELSE "1") -> "disabled"
    [] OTHER -> "unknown"

\* The enable is read from the resolved value of its port if there is one.
run_test_enabled(b) ==
  LET en == Mesh[b].en
  IN  CASE en = Nil -> "enabled"
        [] en # Nil /\ outvalue[en] # Nil -> StateFor(b, value4(outvalue[en]))
        [] en # Nil /\ outvalue[en] = Nil /\ invalue[en] # Nil ->
             StateFor(b, value4(invalue[en]))
        [] OTHER -> "unknown"

\* After the results went out, only enables that the island drives.
rerun_test_enabled(b) ==
  LET en == Mesh[b].en
  IN  IF en = Nil \/ outvalue[en] = Nil
      THEN state[b]
      ELSE StateFor(b, value4(outvalue[en]))

vvp_switch_strength_map ==
  [r \in BOOLEAN |-> IF r THEN <<0, 1, 1, 2, 2, 3, 5, 5>> ELSE <<0, 1, 2, 3, 4, 5, 6, 6>>]

\* The value b as a switch in state st passes it on.
Through(b, st, resistive) ==
  LET map == vvp_switch_strength_map[resistive]
      c == vvp_scalar(value4(b), map[b.s0 + 1], map[b.s1 + 1])
  IN  CASE st = "unknown" /\ value4(c) = "0" -> vvp_scalar("x", c.s0, 0)
        [] st = "unknown" /\ value4(c) = "1" -> vvp_scalar("x", 0, c.s1)
        [] OTHER -> c

resolve_ambiguous(a, b, st, resistive) == resolve(a, Through(b, st, resistive))

\* push_value_through_branches from the ends es of one port: the values of
\* all ports, val, after the value of that port went through each end and on
\* as far as it changes anything.
RECURSIVE push_value_through_branches(_, _, _)
push_value_through_branches(val, st, es) ==
  IF es = <<>>
  THEN val
  ELSE LET cur == Head(es)
           b == cur[1]
           dst == PortOf(Other(cur))
           old == IF val[dst] = Nil THEN island_get_value(invalue, dst) ELSE val[dst]
           new == resolve_ambiguous(old, val[PortOf(cur)], st[b], Mesh[b].resistive)
           pushed == [val EXCEPT ![dst] = new]
           rest(v) == push_value_through_branches(v, st, Tail(es))
       IN  IF st[b] = "disabled" \/ old = Nil
           THEN rest(val)
           ELSE IF new = val[dst]
                THEN rest(pushed)
                ELSE rest(push_value_through_branches(pushed, st,
                            island_collect_node(Other(cur))))

\* One side of run_resolution: a port not yet visited starts from its input.
ResolveEnd(val, st, e) ==
  LET in == island_get_value(invalue, PortOf(e))
  IN  IF val[PortOf(e)] # Nil \/ in = Nil
      THEN val
      ELSE push_value_through_branches([val EXCEPT ![PortOf(e)] = in], st,
                                       island_collect_node(e))

run_resolution(val, st, b) == ResolveEnd(ResolveEnd(val, st, <<b, 0>>), st, <<b, 1>>)

\* The order in which run_output visits the branch ends.
OutOrder == FlattenSeq([k \in 1 .. Len(Mesh) |->
                          << <<InOrder[k], 0>>, <<InOrder[k], 1>> >>])

ResolveAll(st) == FoldLeft(LAMBDA val, b : run_resolution(val, st, b), value, InOrder)

-----------------------------------------------------------------------------
\* A run that is about to begin.
Begun == [at |-> 0, sending |-> FALSE]

Init ==
  /\ invalue = [p \in Ports |-> Nil]
  /\ outvalue = [p \in Ports |-> Nil]
  /\ value = [p \in Ports |-> Nil]
  /\ forced = [p \in Ports |-> Nil]
  /\ state = [b \in Branches |-> IF Mesh[b].en = Nil THEN "enabled" ELSE "disabled"]
  /\ flagged = FALSE
  /\ runs = <<>>
  /\ reacts = 0

Running == runs # <<>>

\* Code outside the island runs between events, or inside of a send.
Outside ==
  \/ ~Running /\ UNCHANGED reacts
  \/ /\ Running
     /\ Last(runs).sending
     /\ reacts < MaxReacts
     /\ reacts' = reacts + 1

\* The scheduler runs the island that was flagged.
run_run ==
  /\ ~Running /\ flagged
  /\ flagged' = FALSE
  /\ reacts' = 0
  /\ runs' = <<Begun>>
  /\ UNCHANGED <<ports, value, state>>

Set(k, f) == runs' = [runs EXCEPT ![Len(runs)] = [at |-> k, sending |-> f]]

\* run_island, up to the first output.
run_island ==
  /\ Running /\ Last(runs).at = 0
  /\ LET st == [b \in Branches |-> run_test_enabled(b)]
     IN  state' = st /\ value' = ResolveAll(st)
  /\ Set(1, FALSE)
  /\ UNCHANGED <<ports, flagged, reacts>>

\* run_output, for one end: island_send_value up to the calls of the fan-out.
island_send_value ==
  /\ Running /\ ~Last(runs).sending /\ Last(runs).at \in 1 .. Len(OutOrder)
  /\ LET k == Last(runs).at
         p == PortOf(OutOrder[k])
     IN  \/ /\ value[p] # Nil /\ outvalue[p] # value[p]
            /\ outvalue' = [outvalue EXCEPT ![p] = value[p]]
            /\ Set(k, TRUE)
            /\ UNCHANGED value
         \/ /\ value[p] = Nil \/ outvalue[p] = value[p]
            /\ value' = [value EXCEPT ![p] = Nil]
            /\ Set(k + 1, FALSE)
            /\ UNCHANGED outvalue
  /\ UNCHANGED <<invalue, forced, state, flagged, reacts>>

\* The send is over, and run_output goes on to the next end.
run_output ==
  /\ Running /\ Last(runs).sending
  /\ LET k == Last(runs).at
     IN  value' = [value EXCEPT ![PortOf(OutOrder[k])] = Nil] /\ Set(k + 1, FALSE)
  /\ UNCHANGED <<ports, state, flagged, reacts>>

\* Mutant of rerun: an unknown enable is reason to run again.
RerunWhileUnknown ==
  /\ Running /\ Last(runs).at > Len(OutOrder)
  /\ LET st == [b \in Branches |-> rerun_test_enabled(b)]
     IN  /\ state' = st
         /\ IF st = state /\ \A b \in Branches : st[b] # "unknown"
            THEN runs' = Front(runs) /\ UNCHANGED value
            ELSE Set(1, FALSE) /\ value' = ResolveAll(st)
  /\ UNCHANGED <<ports, flagged, reacts>>

\* All results are out: done, or rerun.
rerun ==
  /\ Running /\ Last(runs).at > Len(OutOrder)
  /\ LET st == [b \in Branches |-> rerun_test_enabled(b)]
     IN  /\ state' = st
         /\ IF st = state
            THEN runs' = Front(runs) /\ UNCHANGED value
            ELSE Set(1, FALSE) /\ value' = ResolveAll(st)
  /\ UNCHANGED <<ports, flagged, reacts>>

\* Mutant of recv_vec8: a run that is under way is taken to be enough.
RecvUnflagged(p, bit) ==
  /\ Outside
  /\ invalue' = [invalue EXCEPT ![p] = bit]
  /\ flagged' = (flagged \/ (~Running /\ invalue[p] # bit))
  /\ UNCHANGED <<outvalue, value, forced, state, runs>>

\* recv_vec8; recv_vec4 is the same with strong values.
recv_vec8(p, bit) ==
  /\ Outside
  /\ invalue' = [invalue EXCEPT ![p] = bit]
  /\ flagged' = (flagged \/ invalue[p] # bit)
  /\ UNCHANGED <<outvalue, value, forced, state, runs>>

\* recv_vec8_pv, recv_vec4_pv: the island is flagged whatever the value.
recv_vec8_pv(p, bit) ==
  /\ Outside
  /\ invalue' = [invalue EXCEPT ![p] = bit]
  /\ flagged' = TRUE
  /\ UNCHANGED <<outvalue, value, forced, state, runs>>

\* vvp_net_t::force_vec4, by a thread or through VPI.
force_vec4(p, bit) ==
  /\ Outside
  /\ forced' = [forced EXCEPT ![p] = bit]
  /\ flagged' = TRUE
  /\ UNCHANGED <<invalue, outvalue, value, state, runs>>

\* %release: force_flag(false).  Threads do not run inside of a send.
do_release_vec(p) ==
  /\ ~Running
  /\ forced' = [forced EXCEPT ![p] = Nil]
  /\ flagged' = TRUE
  /\ UNCHANGED <<invalue, outvalue, value, state, runs, reacts>>

\* vpiReleaseFlag: force_flag(true) runs the island at once.
ReleaseNow(p) ==
  /\ forced' = [forced EXCEPT ![p] = Nil]
  /\ runs' = Append(runs, Begun)
  /\ UNCHANGED <<invalue, outvalue, value, state, flagged>>

signal_put_value(p) == ~Running /\ reacts' = 0 /\ ReleaseNow(p)

Step == run_run \/ run_island \/ island_send_value \/ run_output \/ rerun

Change ==
  \/ \E p \in Ports, v \in Inputs : recv_vec8(p, v) \/ recv_vec8_pv(p, v)
  \/ \E p \in Forceable, v \in Inputs : force_vec4(p, v)
  \/ \E p \in Forceable : do_release_vec(p) \/ signal_put_value(p)

Next == Step \/ Change

Spec == Init /\ [][Next]_vars

\* A run is under way, or flagged and in the scheduler's queue.
Pending == Running \/ flagged

-----------------------------------------------------------------------------
Value == Scalar \cup {Nil}

TypeOK ==
  /\ invalue \in [Ports -> Inputs \cup {Nil}]
  /\ outvalue \in [Ports -> Value] /\ value \in [Ports -> Value]
  /\ forced \in [Ports -> Inputs \cup {Nil}]
  /\ state \in [Branches -> States]
  /\ flagged \in BOOLEAN
  /\ Len(runs) <= 2 /\ reacts \in 0 .. MaxReacts
  /\ \A k \in DOMAIN runs : /\ runs[k].at \in 0 .. Len(OutOrder) + 1
                             /\ runs[k].sending \in BOOLEAN

AtRest == ~Running /\ ~flagged

\* The ports that are ends of branches and have received a value.
Driven == {p \in Ports : invalue[p] # Nil /\ Ring(p) # <<>>}

\* The paths in the mesh from port p, without a branch that is disabled in st
\* or a port that has no value, that visit no port twice; n branches at most.
Paths(st, p, n) ==
  LET Route(q) == <<p>> \o [k \in DOMAIN q |-> PortOf(Other(q[k]))]
      Open(q) == {e \in Ends : /\ PortOf(e) = Last(Route(q)) /\ st[e[1]] # "disabled"
                               /\ PortOf(Other(e)) \in Driven \ Range(Route(q))}
      P[k \in 0 .. n] ==
        IF k = 0
        THEN {<<>>}
        ELSE P[k - 1] \cup UNION {{Append(q, e) : e \in Open(q)} : q \in P[k - 1]}
  IN  P[n]

\* What the driver of port p contributes to the end of each path.
Arriving(st, p, q) ==
  FoldLeft(LAMBDA v, e : Through(v, st[e[1]], Mesh[e[1]].resistive),
           island_get_value(invalue, p), q)

Contributions(st, d) ==
  {Arriving(st, p, q) : <<p, q>> \in
     {<<p, q>> \in UNION {{p} \X Paths(st, p, Cardinality(Ports) - 1) : p \in Driven} :
        (IF q = <<>> THEN p ELSE PortOf(Other(Last(q)))) = d}}

\* vvp_island_tran::run_island: when the island is at rest, the net of each
\* port has the value that all the drivers that reach it through enabled and
\* unknown switches leave, with the strength the switches let through.
MeshIsResolved ==
  AtRest =>
    \A d \in Driven :
      /\ outvalue[d] # Nil
      /\ <<Level0(outvalue[d]), Level1(outvalue[d])>> = RangeOf(Contributions(state, d) \cup {HiZ})

\* The value of the net at port p, or of its driver for an import.
NetValue(p) ==
  CASE outvalue[p] # Nil -> value4(outvalue[p])
    [] outvalue[p] = Nil /\ invalue[p] # Nil -> value4(invalue[p])
    [] OTHER -> "z"

\* run_test_enabled, rerun_test_enabled: when the island is at rest, each
\* switch is in the state that its enable has now, although the enable may
\* be a net of the island itself.
EnablesAreCurrent ==
  AtRest /\ (\E p \in Ports : outvalue[p] # Nil) =>
    \A b \in Branches :
      state[b] = IF Mesh[b].en = Nil THEN "enabled" ELSE StateFor(b, NetValue(Mesh[b].en))

\* Drivers and forces have one strength, and the switches do not weaken it.
OneStrength ==
  /\ \A b \in Branches : ~Mesh[b].resistive
  /\ \E strength \in 1 .. 7 : \A p \in Ports :
       LET v == island_get_value(invalue, p)
       IN  v = Nil \/ v = HiZ \/ (v.s0 = strength /\ v.s1 = strength)

\* What the enable of branch b, a net of the island, reads if the switches are
\* set to st.
EnableUnder(st, b) ==
  LET range == RangeOf(Contributions(st, Mesh[b].en) \cup {HiZ})
  IN  CASE range[1] > 0 -> "1"
        [] range[2] < 0 -> "0"
        [] OTHER -> "x"

\* The switches that the nets of the island enable can be set, on or off, so
\* that each fits its enable; a run leaves the others as it found them.
CanSettle ==
  \E st \in [Branches -> States] : \A b \in Branches :
    IF Mesh[b].en = Nil \/ outvalue[Mesh[b].en] = Nil THEN st[b] = state[b]
    ELSE st[b] # "unknown" /\ st[b] = StateFor(b, EnableUnder(st, b))

\* run_island: a run that has begun comes to its end, unless weaker drivers let
\* a switch turn off its own enable, so that no setting of the switches fits the
\* nets: the code sets no bound to the reruns.
RunEnds == Running ~> ~Running \/ ~(OneStrength \/ CanSettle)
=============================================================================
