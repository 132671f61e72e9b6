------------------------------- MODULE Delay --------------------------------
(***************************************************************************)
(* The delay functor of continuous assignments and gates, vvp_fun_delay,   *)
(* and the delays it uses, vvp_delay_t (vvp/delay.cc, vvp/delay.h).        *)
(*                                                                         *)
(* The functor keeps the values it still has to send in list_ and asks the *)
(* scheduler for one run_run per value. A value that is cancelled leaves   *)
(* list_ but its run_run stays in the scheduler: nothing tells one run_run *)
(* from another, so the first that finds a value that is due sends it.     *)
(*                                                                         *)
(* The value is one bit, or one real number when Kind = "real". list_ is   *)
(* the sequence from the oldest value to the newest: list_->next of the    *)
(* circular list is list_[1], and list_ itself points to the last one.     *)
(***************************************************************************)
EXTENDS Integers, Sequences, FiniteSets

CONSTANTS
  Kind,        \* "vec4" or "real"; recv_vec8 differs from recv_vec4 in types only
  Values,      \* of the input: bits for vec4, any values for real
  FirstValue,  \* of the output: x for vec4, 0.0 for real
  Delays,      \* the delays the delay inputs may be given
  FirstDelays, \* the delays of the .delay statement
  IgnoreDecay, \* whether the statement has a rise and a fall delay only
  Early,       \* the changes of the input before a value due now is sent
  MaxInputs,   \* bound on the changes of the input
  MaxSets,     \* bound on the changes of the delays
  MaxTime      \* bound on the time

ASSUME KindAssumption == Kind \in {"vec4", "real"}
ASSUME ValuesAssumption ==
  FirstValue \in Values /\ (Kind = "vec4" => Values \subseteq {"0", "1", "x", "z"})
ASSUME DelaysAssumption ==
  Delays \subseteq Nat /\ FirstDelays \in [{"rise", "fall", "decay"} -> Nat]
ASSUME IgnoreDecayAssumption == IgnoreDecay \in BOOLEAN
ASSUME BoundsAssumption == Early \in Nat /\ MaxInputs \in Nat /\ MaxSets \in Nat /\ MaxTime \in Nat

VARIABLES
  rise_, fall_, decay_, min_delay_,
  cur,         \* cur_vec4_ or cur_real_, the value of the output
  initial_,
  list_,
  generics,    \* the run_run the scheduler holds: their number for a time
  now,         \* schedule_simtime()
  inputs, sets,
  in,          \* history: the value of the input, FirstValue before the first
  since,       \* history: when the input last changed
  were,        \* history: the values it had until then and earlier at that time
  ready        \* history: when the delay of that change is over

delays == <<rise_, fall_, decay_, min_delay_>>
history == <<in, since, were, ready>>
vars == <<delays, cur, initial_, list_, generics, now, inputs, sets, history>>

Times == 0..MaxTime

Least(a, b) == IF b < a THEN b ELSE a

\* calculate_min_delay_: the decay_ and the min_delay_ that go with given delays.
calculate_min_delay_(rise, fall, decay) ==
  LET least == Least(rise, fall)
  IN  IF IgnoreDecay THEN [decay |-> least, min |-> least]
      ELSE [decay |-> decay, min |-> Least(least, decay)]

\* The constructor, and set_ignore_decay for a statement with two delays.
Init ==
  /\ rise_ = FirstDelays.rise /\ fall_ = FirstDelays.fall
  /\ LET c == calculate_min_delay_(FirstDelays.rise, FirstDelays.fall, FirstDelays.decay)
     IN  decay_ = c.decay /\ min_delay_ = c.min
  /\ cur = FirstValue /\ initial_ = TRUE
  /\ list_ = << >> /\ generics = [t \in Times |-> 0] /\ now = 0
  /\ inputs = 0 /\ sets = 0
  /\ in = FirstValue /\ since = 0 /\ were = {} /\ ready = 0

get_delay(from, to) ==
  IF from = to THEN 0
  ELSE CASE to = "1" -> rise_
         [] to = "0" -> fall_
         [] to = "z" -> decay_
         [] to = "x" -> min_delay_

get_min_delay == min_delay_

Due(e) == e.sim_time <= now

(***************************************************************************)
(* The delay inputs, ports 1, 2 and 3.                                     *)
(***************************************************************************)
\* What set_rise, set_fall and set_decay do to decay_ and min_delay_ after
\* one of the delays has become val.
SetMin(val, rise, fall, decay) ==
  LET c == IF val < min_delay_
           THEN [decay |-> IF IgnoreDecay THEN val ELSE decay, min |-> val]
           ELSE calculate_min_delay_(rise, fall, decay)
  IN  decay_' = c.decay /\ min_delay_' = c.min

SetUnchanged ==
  /\ sets < MaxSets /\ sets' = sets + 1
  /\ UNCHANGED <<cur, initial_, list_, generics, now, inputs, history>>

set_rise(val) ==
  /\ rise_' = val /\ UNCHANGED fall_
  /\ SetMin(val, val, fall_, decay_)
  /\ SetUnchanged

set_fall(val) ==
  /\ fall_' = val /\ UNCHANGED rise_
  /\ SetMin(val, rise_, val, decay_)
  /\ SetUnchanged

\* There is no third delay input when the decay is ignored.
set_decay(val) ==
  /\ ~IgnoreDecay
  /\ UNCHANGED <<rise_, fall_>>
  /\ SetMin(val, rise_, fall_, val)
  /\ SetUnchanged

(***************************************************************************)
(* The value input, port 0.                                                *)
(***************************************************************************)
\* The value the delay is measured from: what the output is, or is about to be.
Reference ==
  IF ~initial_ /\ list_ # << >> /\ list_[1].sim_time = now THEN list_[1].val ELSE cur

\* The delay from the value of the output to bit.
use_delay(bit) == IF Kind = "vec4" THEN get_delay(Reference, bit) ELSE get_min_delay

\* Mutant of clean_pulse_events_: what is scheduled stays scheduled.
CleanNothing(list) == list

\* clean_pulse_events_ with one argument: the values that are not yet due
\* leave the front of the list.
clean_pulse_events_(list) ==
  LET late == {i \in 1..Len(list) : Due(list[i])}
      keep == IF late = {} THEN Len(list) + 1
              ELSE CHOOSE i \in late : \A j \in late : i <= j
  IN  SubSeq(list, keep, Len(list))

\* Mutant of Skips: a value is skipped when it is what the output has.
SkipsCurrent(bit) == list_ # << >> /\ cur = bit

\* clean_pulse_events_ with a value: it is already on its way.
Skips(bit) == list_ # << >> /\ list_[1].val = bit

enqueue_(list, e) == Append(list, e)

\* schedule_generic(this, d, false): one more run_run, d from now.
schedule_generic(d) == generics' = [generics EXCEPT ![now + d] = @ + 1]

\* The input becomes bit: what a history of the input records of it.
Record(bit) ==
  IF bit = in THEN UNCHANGED history
  ELSE /\ in' = bit /\ since' = now /\ ready' = now + use_delay(bit)
       /\ were' = IF since = now THEN were \cup {in} ELSE {in}

\* A value of real that the output already has is dropped, list_ or not.
Dropped(bit) == Kind = "real" /\ cur = bit

\* The value was not skipped: the list is cleaned, and bit is dropped, sent
\* at once or put at the end of the list.
Receive(bit) ==
  LET d == use_delay(bit)
      list == clean_pulse_events_(list_)
  IN
  \/ /\ Dropped(bit) /\ list_' = list
     /\ UNCHANGED <<cur, initial_, generics>>
  \/ /\ ~Dropped(bit) /\ d = 0 /\ list = << >>
     /\ cur' = bit /\ initial_' = FALSE /\ list_' = list
     /\ UNCHANGED generics
  \/ /\ ~Dropped(bit) /\ (d # 0 \/ list # << >>)
     /\ list_' = enqueue_(list, [val |-> bit, sim_time |-> now + d])
     /\ schedule_generic(d)
     /\ UNCHANGED <<cur, initial_>>

\* recv_vec4 and recv_real at port 0. Early bounds how often the input
\* changes while a value that is due is not yet sent: another event of the
\* same time may come before the run_run in the queue.
recv(bit) ==
  /\ inputs < MaxInputs /\ inputs' = inputs + 1
  /\ (list_ # << >> /\ Due(list_[1])) => Len(list_) <= Early
  /\ now + use_delay(bit) \in Times
  /\ Record(bit)
  /\ IF Skips(bit) THEN UNCHANGED <<cur, initial_, list_, generics>> ELSE Receive(bit)
  /\ UNCHANGED <<delays, now, sets>>

(***************************************************************************)
(* The scheduler's side.                                                   *)
(***************************************************************************)
\* The guard of run_run.
RunDue == list_ # << >> /\ Due(list_[1])

\* The scheduler takes one of the run_run of this time.
run_run ==
  /\ generics[now] > 0
  /\ generics' = [generics EXCEPT ![now] = @ - 1]
  /\ IF RunDue
     THEN cur' = list_[1].val /\ list_' = Tail(list_) /\ initial_' = FALSE
     ELSE UNCHANGED <<cur, list_, initial_>>
  /\ UNCHANGED <<delays, now, inputs, sets, history>>

\* Time passes when the scheduler has nothing left for this time.
Advance ==
  /\ generics[now] = 0 /\ now + 1 \in Times
  /\ now' = now + 1
  /\ UNCHANGED <<delays, cur, initial_, list_, generics, inputs, sets, history>>

Next ==
  \/ \E val \in Delays : set_rise(val)
  \/ \E val \in Delays : set_fall(val)
  \/ \E val \in Delays : set_decay(val)
  \/ \E bit \in Values : recv(bit)
  \/ run_run
  \/ Advance

Spec == Init /\ [][Next]_vars
-----------------------------------------------------------------------------
TypeOK ==
  /\ {rise_, fall_, decay_, min_delay_} \subseteq Nat
  /\ cur \in Values /\ in \in Values /\ were \subseteq Values
  /\ initial_ \in BOOLEAN
  /\ list_ \in Seq([val : Values, sim_time : Nat])
  /\ generics \in [Times -> Nat]
  /\ now \in Times /\ since \in 0..now /\ ready \in Times
  /\ inputs \in 0..MaxInputs /\ sets \in 0..MaxSets

\* The delay of a transition to x is the least of the delays whatever the
\* order in which they were changed (calculate_min_delay_ and the short cut
\* of set_rise, set_fall and set_decay).
MinIsLeast ==
  /\ \A d \in {rise_, fall_, decay_} : min_delay_ <= d
  /\ min_delay_ \in {rise_, fall_, decay_}

\* Every value in list_ will be sent at its time: the list is in the order of
\* time, nothing in it is overdue, and for each time there are as many
\* run_run as values, whatever was cancelled and whatever the delays were.
EachIsWoken ==
  /\ \A i \in 1..Len(list_) : list_[i].sim_time >= now
  /\ \A i, j \in 1..Len(list_) : i < j => list_[i].sim_time <= list_[j].sim_time
  /\ \A i \in 1..Len(list_) :
       LET t == list_[i].sim_time
       IN  Cardinality({j \in 1..Len(list_) : list_[j].sim_time = t}) <= generics[t]

\* The last value on its way is the value of the input, and with nothing on
\* its way the output has it.
FollowsInput ==
  IF list_ = << >> THEN cur = in ELSE list_[Len(list_)].val = in

\* What the input is now will be the output: it is the last value on its way,
\* and each value on its way has the run_run that sends it, although the
\* scheduler keeps those of the values that were cancelled and the delays,
\* with the least one kept beside them, are changed meanwhile.
InputOnItsWay == FollowsInput /\ EachIsWoken /\ MinIsLeast

\* No pulse gets through and no value is early: the output only becomes what
\* the input is, when the delay of that is over, or what the input was until
\* this very moment, whatever run_run a cancelled value has left behind.
NoPulse ==
  [][cur' # cur => IF cur' = in' THEN now >= ready'
                   ELSE since = now /\ cur' \in were]_vars
=============================================================================
