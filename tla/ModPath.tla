------------------------------ MODULE ModPath -------------------------------
(***************************************************************************)
(* The delays of module paths: vvp_fun_modpath, the output of the paths,   *)
(* and vvp_fun_modpath_src and vvp_fun_modpath_edge, their sources         *)
(* (vvp/delay.cc, vvp/delay.h).                                            *)
(*                                                                         *)
(* A source remembers when its input last changed and whether its          *)
(* condition holds. When the logic behind the paths changes the functor's  *)
(* input, the functor chooses the sources whose delays apply and schedules *)
(* every bit that changed. The bits that are to change at one time share   *)
(* one vvp_fun_modpath_event, found by its time in the map events.         *)
(***************************************************************************)
EXTENDS Integers, FiniteSets, SequencesExt

CONSTANTS
  Bits,        \* the indices of the vector
  Bit4,        \* the values of a bit that are used
  SrcList,     \* src_list_, the conditional and the plain paths
  IfnoneList,  \* ifnone_list_
  PosEdge,     \* the sources of edge paths with posedge_
  NegEdge,     \* and those with negedge_
  Tables,      \* the tables of 12 delays put_delay12 may write
  FirstTable,  \* the delays of each source when it is made
  MaxTime,     \* bound on the time
  MaxChanges,  \* bound on the changes of the sources
  MaxInputs,   \* bound on the changes of the functor's input
  MaxPuts,     \* bound on the calls of put_delay12
  Nil

Sources == Range(SrcList) \cup Range(IfnoneList)
EdgeSources == PosEdge \cup NegEdge
Times == 0..MaxTime

\* delay_edge_t: a change from one value of a bit to another.
Edges == {e \in Bit4 \X Bit4 : e[1] # e[2]}

\* What the constants must be.
ModPathAssumptions ==
  /\ IsFiniteSet(Bits) /\ Bit4 \subseteq {"0", "1", "z", "x"} /\ "x" \in Bit4
  /\ IsInjective(SrcList \o IfnoneList) /\ EdgeSources \subseteq Sources
  /\ Tables \subseteq [Edges -> Nat] /\ FirstTable \in [Sources -> [Edges -> Nat]]
  /\ {MaxTime, MaxChanges, MaxInputs, MaxPuts} \subseteq Nat

VARIABLES
  delay_, wake_time_, condition_flag_,
  old_value_,     \* of the sources of edge paths
  input_vec4_, output_vec4_,
  pending,        \* for each bit the time of its event, or Nil
  events,         \* the vvp_fun_modpath_event of each time in the map
  generics,       \* the events the scheduler holds for each time
  now,
  changes, inputs, puts,
  ready           \* history: when the delay of a bit's last change is over

sources == <<delay_, wake_time_, condition_flag_, old_value_>>
bounds == <<changes, inputs, puts>>
vars == <<sources, input_vec4_, output_vec4_, pending, events, generics, now, bounds, ready>>

Init ==
  /\ delay_ = FirstTable
  /\ wake_time_ = [s \in Sources |-> 0]
  /\ condition_flag_ = [s \in Sources |-> TRUE]
  /\ old_value_ = [s \in EdgeSources |-> "x"]
  /\ input_vec4_ = [b \in Bits |-> "x"] /\ output_vec4_ = [b \in Bits |-> "x"]
  /\ pending = [b \in Bits |-> Nil]
  /\ events = << >> /\ generics = [t \in Times |-> 0] /\ now = 0
  /\ changes = 0 /\ inputs = 0 /\ puts = 0
  /\ ready = [b \in Bits |-> 0]

(***************************************************************************)
(* The sources.                                                            *)
(***************************************************************************)
\* edge(from, to) > 0 and edge(from, to) < 0.
IsPosEdge(from, to) == from # to /\ (from = "0" \/ to = "1")
IsNegEdge(from, to) == from # to /\ (from = "1" \/ to = "0")

\* test_vec4 of an edge path: the change to bit wakes the source.
TestEdge(s, bit) ==
  \/ IsPosEdge(old_value_[s], bit) /\ s \in PosEdge
  \/ IsNegEdge(old_value_[s], bit) /\ s \in NegEdge

SourceStep ==
  /\ changes < MaxChanges /\ changes' = changes + 1
  /\ UNCHANGED <<input_vec4_, output_vec4_, pending, events, generics, now, inputs, puts, ready>>

\* vvp_fun_modpath_src::recv_vec4, port 0.
recv_source(s) ==
  /\ s \notin EdgeSources
  /\ wake_time_' = [wake_time_ EXCEPT ![s] = now]
  /\ UNCHANGED <<delay_, condition_flag_, old_value_>>
  /\ SourceStep

recv_edge_source(s, bit) ==
  /\ s \in EdgeSources
  /\ old_value_' = [old_value_ EXCEPT ![s] = bit]
  /\ wake_time_' = IF TestEdge(s, bit) THEN [wake_time_ EXCEPT ![s] = now] ELSE wake_time_
  /\ UNCHANGED <<delay_, condition_flag_>>
  /\ SourceStep

\* vvp_fun_modpath_src::recv_vec4, port 1: the condition is a bit, true if 1.
\* The source of an ifnone path has no condition.
recv_condition(s, flag) ==
  /\ flag # condition_flag_[s]
  /\ condition_flag_' = [condition_flag_ EXCEPT ![s] = flag]
  /\ UNCHANGED <<delay_, wake_time_, old_value_>>
  /\ SourceStep

\* put_delay12, by vpi_put_delays and the annotation of SDF files.
put_delay12(s, table) ==
  /\ puts < MaxPuts /\ puts' = puts + 1
  /\ delay_' = [delay_ EXCEPT ![s] = table]
  /\ UNCHANGED <<wake_time_, condition_flag_, old_value_, input_vec4_, output_vec4_, pending,
                 events, generics, now, changes, inputs, ready>>

(***************************************************************************)
(* The choice of the delays.                                               *)
(***************************************************************************)
\* One turn of the loop over src_list_: the candidates are the enabled
\* sources with the latest wake time.
AddSource(found, s) ==
  IF ~condition_flag_[s] THEN found
  ELSE IF found.list = {} \/ wake_time_[s] > found.wake
       THEN [list |-> {s}, wake |-> wake_time_[s]]
  ELSE IF wake_time_[s] = found.wake
       THEN [list |-> found.list \cup {s}, wake |-> found.wake]
  ELSE found

NoSource == [list |-> {}, wake |-> 0]
FromSources == FoldLeft(AddSource, NoSource, SrcList)

\* Mutant of AddIfnone: an ifnone source as late as the others is added.
AddIfnoneAlways(found, s) ==
  IF found.list = {} \/ wake_time_[s] > found.wake
  THEN [list |-> {s}, wake |-> wake_time_[s]]
  ELSE IF wake_time_[s] = found.wake
       THEN [list |-> found.list \cup {s}, wake |-> found.wake]
  ELSE found

\* One turn of the loop over ifnone_list_. FromSources.wake is
\* candidate_wake_time, found.wake is ifnone_wake_time.
AddIfnone(found, s) ==
  IF found.list = {} \/ wake_time_[s] > found.wake
  THEN [list |-> {s}, wake |-> wake_time_[s]]
  ELSE IF wake_time_[s] = found.wake /\ found.wake > FromSources.wake
       THEN [list |-> found.list \cup {s}, wake |-> found.wake]
  ELSE found

candidate_list == FoldLeft(AddIfnone, FromSources, IfnoneList).list

\* Mutant of OutAt: the delay starts when the output of the logic changes.
OutAtFromNow(s, e) == delay_[s][e]

\* When a change e of the output that comes of source s is to be seen, from now.
OutAt(s, e) ==
  LET at == wake_time_[s] + delay_[s][e] IN IF at <= now THEN 0 ELSE at - now

\* out_at for e: the least of the candidates, nothing without a candidate.
UseDelay(from, e) ==
  LET at == {OutAt(s, e) : s \in from}
  IN  IF at = {} THEN 0 ELSE CHOOSE d \in at : \A other \in at : d <= other

(***************************************************************************)
(* The functor.                                                            *)
(***************************************************************************)
\* The sources whose delays apply, as a set: the latest of those that are
\* enabled; the latest ifnone sources instead if none is enabled, or if they
\* are later than all that are.
LatestOf(S) == {s \in S : \A o \in S : wake_time_[o] <= wake_time_[s]}
Applicable ==
  LET enabled == LatestOf({s \in Range(SrcList) : condition_flag_[s]})
      ifnone == LatestOf(Range(IfnoneList))
      later == \A s \in enabled, i \in ifnone : wake_time_[s] < wake_time_[i]
  IN  IF later /\ ifnone # {} THEN ifnone ELSE enabled

\* When a change e that comes now is to be seen: the least of the delays that
\* apply, counted from the change of the source, is over.
Ready(e) ==
  CHOOSE t \in Times :
    /\ t >= now
    /\ \A s \in Applicable : t > now => t <= wake_time_[s] + delay_[s][e]
    /\ \/ Applicable = {} /\ t = now
       \/ \E s \in Applicable : wake_time_[s] + delay_[s][e] <= t

\* cancel_bit_ for each of bits: their events forget them.
CancelBits(evs, bits) ==
  [t \in DOMAIN evs |-> [b \in DOMAIN evs[t] \ {c \in bits : pending[c] = t} |-> evs[t][b]]]

\* schedule_bit_ for each of bits: at[b] is the time, val[b] the value. The
\* event of a time is made once; an event is the values of its active bits.
ScheduleBits(evs, bits, at, val) ==
  [t \in DOMAIN evs \cup {at[b] : b \in bits} |->
     LET old == IF t \in DOMAIN evs THEN evs[t] ELSE << >>
         new == {b \in bits : at[b] = t}
     IN  [b \in DOMAIN old \cup new |-> IF b \in new THEN val[b] ELSE old[b]]]

ChangedBits(bit) == {b \in Bits : input_vec4_[b] # bit[b]}

\* vvp_fun_modpath::recv_vec4: what was scheduled of the bits that change is
\* cancelled, and those that the output does not have yet are scheduled.
recv_vec4(bit) ==
  LET changed == ChangedBits(bit)
      from == candidate_list
      at == [b \in changed |-> now + UseDelay(from, <<input_vec4_[b], bit[b]>>)]
      late == {b \in changed : output_vec4_[b] # bit[b]}
      made == {at[b] : b \in late} \ DOMAIN events
  IN
  /\ inputs < MaxInputs /\ inputs' = inputs + 1
  /\ bit # input_vec4_
  /\ \A b \in changed : at[b] \in Times
  /\ events' = ScheduleBits(CancelBits(events, changed), late, at, bit)
  /\ pending' = [b \in Bits |-> IF b \in late THEN at[b]
                                ELSE IF b \in changed THEN Nil ELSE pending[b]]
  /\ generics' = [t \in Times |-> generics[t] + IF t \in made THEN 1 ELSE 0]
  /\ input_vec4_' = bit
  /\ ready' = [b \in Bits |-> IF b \in changed THEN Ready(<<input_vec4_[b], bit[b]>>) ELSE ready[b]]
  /\ UNCHANGED <<sources, output_vec4_, now, changes, puts>>

\* The bits an event sends: active, and not scheduled again elsewhere.
Sent(t) == {b \in DOMAIN events[t] : pending[b] = t}

\* run_event_ on the event of this time, with its assertion that the event is
\* in the map.
run_event_ ==
  /\ generics[now] > 0 /\ now \in DOMAIN events
  /\ generics' = [generics EXCEPT ![now] = @ - 1]
  /\ events' = [t \in DOMAIN events \ {now} |-> events[t]]
  /\ pending' = [b \in Bits |-> IF b \in Sent(now) THEN Nil ELSE pending[b]]
  /\ output_vec4_' = [b \in Bits |-> IF b \in Sent(now) THEN events[now][b] ELSE output_vec4_[b]]
  /\ UNCHANGED <<sources, input_vec4_, now, bounds, ready>>

Advance ==
  /\ generics[now] = 0 /\ now + 1 \in Times
  /\ now' = now + 1
  /\ UNCHANGED <<sources, input_vec4_, output_vec4_, pending, events, generics, bounds, ready>>

Next ==
  \/ \E s \in Sources : recv_source(s)
  \/ \E s \in Sources, bit \in Bit4 : recv_edge_source(s, bit)
  \/ \E s \in Range(SrcList), flag \in BOOLEAN : recv_condition(s, flag)
  \/ \E s \in Sources, table \in Tables : put_delay12(s, table)
  \/ \E bit \in [Bits -> Bit4] : recv_vec4(bit)
  \/ run_event_
  \/ Advance

Spec == Init /\ [][Next]_vars
-----------------------------------------------------------------------------
TypeOK ==
  /\ delay_ \in [Sources -> [Edges -> Nat]]
  /\ wake_time_ \in [Sources -> 0..now]
  /\ condition_flag_ \in [Sources -> BOOLEAN] /\ old_value_ \in [EdgeSources -> Bit4]
  /\ input_vec4_ \in [Bits -> Bit4] /\ output_vec4_ \in [Bits -> Bit4]
  /\ pending \in [Bits -> Times \cup {Nil}]
  /\ DOMAIN events \subseteq Times
  /\ \A t \in DOMAIN events : DOMAIN events[t] \subseteq Bits /\ Range(events[t]) \subseteq Bit4
  /\ generics \in [Times -> Nat] /\ now \in Times
  /\ ready \in [Bits -> Times]

\* A bit of the output changes when the delay of the last change of the input
\* is over, not before and not after, and to the value of the input.
ChangesOnTime ==
  [][\A b \in DOMAIN output_vec4_ : output_vec4_'[b] # output_vec4_[b] =>
       output_vec4_'[b] = input_vec4_[b] /\ ready[b] = now]_vars

\* The two loops choose the sources whose delays apply: the latest enabled
\* ones, and the ifnone sources when none is enabled or they are later.
LatestApply == candidate_list = Applicable

=============================================================================
