----------------------------- MODULE DelayProofs ----------------------------
(***************************************************************************)
(* A delay functor sends what its input is, in time, and no pulse, for all *)
(* values, delays and changes of the delays, and any number of inputs.     *)
(*                                                                         *)
(* The run_run that a cancelled value leaves behind is what makes this     *)
(* hard: a run_run sends whatever is due, so the properties are about what *)
(* the list can hold while one is left.  OnList says that: at most the     *)
(* value that is due now and the one that replaces it.  It holds while the *)
(* input changes at most once before a value that is due has been sent,    *)
(* and for real numbers not even once (Gently); the runs show what happens *)
(* otherwise.                                                              *)
(***************************************************************************)
EXTENDS Delay, FiniteSetTheorems, TLAPS

\* How often the input may change before a value that is due is sent.
Gently == Early <= 1 /\ (Kind = "real" => Early = 0)

Entry == [val : Values, sim_time : Nat]

OnList ==
  /\ Len(list_) <= 2
  /\ \A i \in 1..Len(list_) : list_[i].sim_time \in Times
  /\ list_ # << >> => list_[Len(list_)].sim_time = ready
  /\ Len(list_) = 2 => /\ list_[1].sim_time = now /\ since = now
                       /\ list_[1].val # in /\ list_[1].val \in were

DelayInv == TypeOK /\ InputOnItsWay /\ OnList

-----------------------------------------------------------------------------
(***************************************************************************)
(* The list.                                                               *)
(***************************************************************************)

\* EachIsWoken for a list of at most two entries, without counting.
WokenShort(l, g, t) ==
  /\ \A i \in 1..Len(l) : l[i].sim_time >= t /\ g[l[i].sim_time] >= 1
  /\ Len(l) = 2 => l[1].sim_time <= l[2].sim_time
  /\ Len(l) = 2 /\ l[1].sim_time = l[2].sim_time => g[l[1].sim_time] >= 2

\* The entries of l for time t.
At(l, t) == {j \in 1..Len(l) : l[j].sim_time = t}

LEMMA CountAt ==
  ASSUME NEW l \in Seq(Entry), Len(l) <= 2, NEW i \in 1..Len(l)
  PROVE  Cardinality(At(l, l[i].sim_time))
           = IF Len(l) = 2 /\ l[1].sim_time = l[2].sim_time THEN 2 ELSE 1
<1>1. Len(l) \in {1, 2} /\ i \in {1, 2}
  OBVIOUS
<1>2. CASE Len(l) = 2 /\ l[1].sim_time = l[2].sim_time
  <2>1. At(l, l[i].sim_time) = {1} \cup {2}
    BY <1>1, <1>2 DEF At
  <2>2. Cardinality({1} \cup {2}) = 2
    <3>1. IsFiniteSet({1}) /\ Cardinality({1}) = 1
      BY FS_Singleton, Zenon
    <3>2. Cardinality({1} \cup {2}) = IF 2 \in {1} THEN Cardinality({1}) ELSE Cardinality({1}) + 1
      BY <3>1, FS_AddElement, Zenon
    <3>3. 2 \notin {1} /\ 1 + 1 = 2
      OBVIOUS
    <3>4. QED
      BY <3>1, <3>2, <3>3, Zenon
  <2>3. QED
    BY <1>2, <2>1, <2>2
<1>3. CASE ~(Len(l) = 2 /\ l[1].sim_time = l[2].sim_time)
  <2>1. At(l, l[i].sim_time) = {i}
    <3>1. CASE Len(l) = 1
      BY <1>1, <3>1 DEF At
    <3>2. CASE Len(l) = 2
      <4>1. l[1].sim_time # l[2].sim_time
        BY <1>3, <3>2
      <4>2. 1..Len(l) = {1, 2}
        BY <3>2
      <4>3. \A j \in {1, 2} : l[j].sim_time = l[i].sim_time => j = i
        BY <1>1, <4>1
      <4>4. QED
        BY <4>2, <4>3 DEF At
    <3>3. QED
      BY <1>1, <3>1, <3>2
  <2>2. QED
    BY <1>3, <2>1, FS_Singleton
<1>4. QED
  BY <1>2, <1>3

LEMMA ShortIsWoken ==
  ASSUME NEW l \in Seq(Entry), Len(l) <= 2, NEW g \in [Times -> Nat], NEW t \in Nat,
         \A i \in 1..Len(l) : l[i].sim_time \in Times
  PROVE  (/\ \A i \in 1..Len(l) : l[i].sim_time >= t
          /\ \A i, j \in 1..Len(l) : i < j => l[i].sim_time <= l[j].sim_time
          /\ \A i \in 1..Len(l) : Cardinality(At(l, l[i].sim_time)) <= g[l[i].sim_time])
         <=> WokenShort(l, g, t)
<1>1. \A i \in 1..Len(l) : l[i].sim_time \in Nat /\ g[l[i].sim_time] \in Nat
  <2> SUFFICES ASSUME NEW i \in 1..Len(l)
               PROVE  l[i].sim_time \in Nat /\ g[l[i].sim_time] \in Nat
    OBVIOUS
  <2>1. l[i] \in Entry
    OBVIOUS
  <2>2. l[i].sim_time \in Nat
    BY <2>1 DEF Entry
  <2>3. PICK u : u = l[i].sim_time
    OBVIOUS
  <2>4. u \in Times
    BY <2>3
  <2>5. QED
    BY <2>2, <2>3, <2>4
<1>2. \A i \in 1..Len(l) : Cardinality(At(l, l[i].sim_time))
                             = IF Len(l) = 2 /\ l[1].sim_time = l[2].sim_time THEN 2 ELSE 1
  BY CountAt
<1>3. Len(l) = 0 \/ Len(l) = 1 \/ Len(l) = 2
  <2> DEFINE n == Len(l)
  <2>1. n \in Nat /\ n <= 2
    OBVIOUS
  <2> HIDE DEF n
  <2>2. n = 0 \/ n = 1 \/ n = 2
    BY <2>1
  <2>3. QED
    BY <2>2 DEF n
<1>4. CASE Len(l) = 0
  BY <1>4 DEF WokenShort
<1>5. CASE Len(l) = 1
  BY <1>1, <1>2, <1>5 DEF WokenShort
<1>6. CASE Len(l) = 2
  <2>1. 1..Len(l) = {1, 2}
    BY <1>6
  <2>2. QED
    BY <1>1, <1>2, <1>6, <2>1 DEF WokenShort
<1>7. QED
  BY <1>3, <1>4, <1>5, <1>6

LEMMA WokenIsShort ==
  ASSUME TypeOK, OnList
  PROVE  EachIsWoken <=> WokenShort(list_, generics, now)
<1>1. /\ list_ \in Seq(Entry) /\ Len(list_) <= 2 /\ generics \in [Times -> Nat] /\ now \in Nat
      /\ \A i \in 1..Len(list_) : list_[i].sim_time \in Times
  BY BoundsAssumption DEF TypeOK, OnList, Entry, Times
<1>2. QED
  BY <1>1, ShortIsWoken DEF EachIsWoken, At

LEMMA WokenIsShortNext ==
  ASSUME TypeOK', OnList'
  PROVE  EachIsWoken' <=> WokenShort(list_', generics', now')
<1>1. /\ list_' \in Seq(Entry) /\ Len(list_') <= 2 /\ generics' \in [Times -> Nat] /\ now' \in Nat
      /\ \A i \in 1..Len(list_') : list_'[i].sim_time \in Times
  <2>1. list_' \in Seq(Entry) /\ generics' \in [Times -> Nat] /\ now' \in Nat
    BY BoundsAssumption DEF TypeOK, Entry, Times
  <2>2. Len(list_') <= 2 /\ \A i \in 1..Len(list_') : list_'[i].sim_time \in Times
    BY DEF OnList
  <2>3. QED
    BY <2>1, <2>2
<1>2. QED
  BY <1>1, ShortIsWoken DEF EachIsWoken, At

\* clean_pulse_events_ keeps everything or nothing: the list is in the order
\* of time, and nothing in it is overdue.
LEMMA CleanIsAllOrNothing ==
  ASSUME DelayInv
  PROVE  clean_pulse_events_(list_)
           = IF list_ # << >> /\ list_[1].sim_time = now THEN list_ ELSE << >>
<1> DEFINE late == {i \in 1..Len(list_) : Due(list_[i])}
           keep == IF late = {} THEN Len(list_) + 1
                   ELSE CHOOSE i \in late : \A j \in late : i <= j
<1>1. clean_pulse_events_(list_) = SubSeq(list_, keep, Len(list_))
  BY DEF clean_pulse_events_
<1>2. list_ \in Seq(Entry) /\ now \in Nat /\ EachIsWoken
  BY BoundsAssumption DEF DelayInv, TypeOK, Entry, Times, InputOnItsWay
<1>3. \A i \in 1..Len(list_) : list_[i].sim_time \in Nat /\ list_[i].sim_time >= now
  <2>1. \A i \in 1..Len(list_) : list_[i] \in Entry
    BY <1>2
  <2>2. QED
    BY <1>2, <2>1 DEF EachIsWoken, Entry
<1>4. CASE list_ # << >> /\ list_[1].sim_time = now
  <2>1. 1 \in late /\ late \subseteq Nat \ {0}
    BY <1>2, <1>4 DEF Due
  <2>2. keep = 1
    <3> HIDE DEF late
    <3>1. PICK k \in late : \A j \in late : k <= j
      BY <2>1
    <3>2. late # {}
      BY <2>1
    <3>3. keep \in late /\ \A j \in late : keep <= j
      BY <3>1, <3>2
    <3> HIDE DEF keep
    <3>4. QED
      BY <2>1, <3>3
  <2> HIDE DEF keep
  <2>3. SubSeq(list_, 1, Len(list_)) = list_
    BY <1>2
  <2>4. QED
    BY <1>1, <1>4, <2>2, <2>3
<1>5. CASE ~(list_ # << >> /\ list_[1].sim_time = now)
  <2>1. late = {}
    <3> SUFFICES ASSUME NEW i \in 1..Len(list_), Due(list_[i]) PROVE FALSE
      OBVIOUS
    <3>1. list_[1].sim_time <= list_[i].sim_time
      BY <1>2, <1>3 DEF EachIsWoken
    <3>2. QED
      BY <1>2, <1>3, <1>5, <3>1 DEF Due
  <2>2. keep = Len(list_) + 1
    BY <2>1
  <2> HIDE DEF keep, late
  <2>3. SubSeq(list_, Len(list_) + 1, Len(list_)) = << >>
    BY <1>2
  <2>4. QED
    BY <1>1, <1>5, <2>2, <2>3
<1>6. QED
  BY <1>4, <1>5

-----------------------------------------------------------------------------
(***************************************************************************)
(* The delays.                                                             *)
(***************************************************************************)

LEMMA LeastOfThree ==
  ASSUME NEW r \in Nat, NEW f \in Nat, NEW d \in Nat
  PROVE  LET c == calculate_min_delay_(r, f, d) IN
         /\ c.decay \in Nat /\ c.min \in Nat
         /\ \A e \in {r, f, c.decay} : c.min <= e
         /\ c.min \in {r, f, c.decay}
BY DEF calculate_min_delay_, Least

\* The short cut of set_rise, set_fall and set_decay finds the least as well.
LEMMA SetIsLeast ==
  ASSUME TypeOK, MinIsLeast, NEW val \in Nat,
         \/ rise_' = val /\ fall_' = fall_ /\ SetMin(val, val, fall_, decay_)
         \/ fall_' = val /\ rise_' = rise_ /\ SetMin(val, rise_, val, decay_)
         \/ ~IgnoreDecay /\ rise_' = rise_ /\ fall_' = fall_ /\ SetMin(val, rise_, fall_, val)
  PROVE  MinIsLeast' /\ {rise_', fall_', decay_', min_delay_'} \subseteq Nat
<1>1. rise_ \in Nat /\ fall_ \in Nat /\ decay_ \in Nat /\ min_delay_ \in Nat
  BY DEF TypeOK
<1>2. min_delay_ <= rise_ /\ min_delay_ <= fall_ /\ min_delay_ <= decay_
  BY DEF MinIsLeast
<1>3. ASSUME NEW r \in Nat, NEW f \in Nat, NEW d \in Nat, SetMin(val, r, f, d),
             rise_' = r, fall_' = f, min_delay_ <= d \/ d = val \/ IgnoreDecay,
             val \in {r, f, d}, val < min_delay_ => val <= r /\ val <= f,
             IgnoreDecay => val \in {r, f}
      PROVE  MinIsLeast' /\ {rise_', fall_', decay_', min_delay_'} \subseteq Nat
  <2>1. CASE val < min_delay_
    <3>1. decay_' = (IF IgnoreDecay THEN val ELSE d) /\ min_delay_' = val
      BY <1>3, <2>1 DEF SetMin
    <3>2. QED
      BY <1>1, <1>3, <2>1, <3>1 DEF MinIsLeast
  <2>2. CASE ~(val < min_delay_)
    <3> DEFINE c == calculate_min_delay_(r, f, d)
    <3>1. decay_' = c.decay /\ min_delay_' = c.min
      BY <1>3, <2>2 DEF SetMin
    <3>2. /\ c.decay \in Nat /\ c.min \in Nat
          /\ \A e \in {r, f, c.decay} : c.min <= e
          /\ c.min \in {r, f, c.decay}
      BY <1>3, LeastOfThree
    <3> HIDE DEF c
    <3>3. QED
      BY <1>3, <3>1, <3>2 DEF MinIsLeast
  <2>3. QED
    BY <2>1, <2>2
<1>4. CASE rise_' = val /\ fall_' = fall_ /\ SetMin(val, val, fall_, decay_)
  BY <1>1, <1>2, <1>3, <1>4
<1>5. CASE fall_' = val /\ rise_' = rise_ /\ SetMin(val, rise_, val, decay_)
  BY <1>1, <1>2, <1>3, <1>5
<1>6. CASE ~IgnoreDecay /\ rise_' = rise_ /\ fall_' = fall_ /\ SetMin(val, rise_, fall_, val)
  BY <1>1, <1>2, <1>3, <1>6
<1>7. QED
  BY <1>4, <1>5, <1>6

\* There is a delay for every change, and none for no change.
LEMMA DelayType ==
  ASSUME TypeOK, NEW bit \in Values
  PROVE  use_delay(bit) \in Nat /\ (Kind = "vec4" /\ Reference = bit => use_delay(bit) = 0)
<1>1. rise_ \in Nat /\ fall_ \in Nat /\ decay_ \in Nat /\ min_delay_ \in Nat
  BY DEF TypeOK
<1>2. CASE Kind = "vec4"
  <2>1. bit \in {"0", "1", "x", "z"}
    BY <1>2, ValuesAssumption
  <2> DEFINE ref == Reference
  <2> HIDE DEF ref
  <2>2. get_delay(ref, bit) \in Nat /\ (ref = bit => get_delay(ref, bit) = 0)
    BY <1>1, <2>1 DEF get_delay
  <2>3. QED
    BY <1>2, <2>2 DEF use_delay, ref
<1>3. CASE Kind = "real"
  BY <1>1, <1>3 DEF use_delay, get_min_delay
<1>4. QED
  BY <1>2, <1>3, KindAssumption

-----------------------------------------------------------------------------
(***************************************************************************)
(* The steps.                                                              *)
(***************************************************************************)

LEMMA DelayInit == Init => DelayInv
<1> SUFFICES ASSUME Init PROVE DelayInv
  OBVIOUS
<1> DEFINE c == calculate_min_delay_(FirstDelays.rise, FirstDelays.fall, FirstDelays.decay)
<1>1. FirstDelays.rise \in Nat /\ FirstDelays.fall \in Nat /\ FirstDelays.decay \in Nat
  BY DelaysAssumption
<1>2. /\ c.decay \in Nat /\ c.min \in Nat
      /\ \A e \in {FirstDelays.rise, FirstDelays.fall, c.decay} : c.min <= e
      /\ c.min \in {FirstDelays.rise, FirstDelays.fall, c.decay}
  BY <1>1, LeastOfThree
<1>3. rise_ = FirstDelays.rise /\ fall_ = FirstDelays.fall /\ decay_ = c.decay /\ min_delay_ = c.min
  BY DEF Init
<1> HIDE DEF c
<1>4. 0 \in Times /\ 0 \in 0..MaxInputs /\ 0 \in 0..MaxSets /\ 0 \in 0..0
  BY BoundsAssumption DEF Times
<1>5. list_ \in Seq(Entry) /\ generics \in [Times -> Nat] /\ list_ = << >> /\ Len(list_) = 0
  BY DEF Init
<1>6. TypeOK
  BY <1>1, <1>2, <1>3, <1>4, <1>5, ValuesAssumption DEF Init, TypeOK, Entry
<1>7. MinIsLeast
  BY <1>2, <1>3 DEF MinIsLeast
<1>8. OnList /\ EachIsWoken /\ FollowsInput
  BY <1>5 DEF Init, OnList, EachIsWoken, FollowsInput
<1>9. QED
  BY <1>6, <1>7, <1>8 DEF DelayInv, InputOnItsWay

\* A delay input changes: nothing else does.
LEMMA SetStep ==
  ASSUME DelayInv, NEW val \in Delays, set_rise(val) \/ set_fall(val) \/ set_decay(val)
  PROVE  DelayInv'
<1>1. val \in Nat /\ TypeOK /\ MinIsLeast
  BY DelaysAssumption DEF DelayInv, InputOnItsWay
<1>2. MinIsLeast' /\ {rise_', fall_', decay_', min_delay_'} \subseteq Nat
  BY <1>1, SetIsLeast DEF set_rise, set_fall, set_decay
<1>3. SetUnchanged
  BY DEF set_rise, set_fall, set_decay
<1>4. sets' \in 0..MaxSets
  BY <1>1, <1>3, BoundsAssumption DEF SetUnchanged, TypeOK
<1>5. UNCHANGED <<cur, initial_, list_, generics, now, inputs, in, since, were, ready>>
  BY <1>3 DEF SetUnchanged, history
<1>6. TypeOK'
  BY <1>1, <1>2, <1>4, <1>5 DEF TypeOK
<1>7. OnList' /\ EachIsWoken' /\ FollowsInput'
  BY <1>5 DEF DelayInv, InputOnItsWay, OnList, EachIsWoken, FollowsInput
<1>8. QED
  BY <1>2, <1>6, <1>7 DEF DelayInv, InputOnItsWay

\* While the input may change there is at most one value on its way, and the
\* last one has been sent otherwise.  A value that is skipped is the value the
\* input already has.
LEMMA BeforeInput ==
  ASSUME Gently, DelayInv, NEW bit \in Values, recv(bit)
  PROVE  /\ Len(list_) <= 1
         /\ list_ # << >> => Len(list_) = 1 /\ list_[1].val = in /\ list_[1].sim_time = ready
         /\ list_ = << >> => cur = in
         /\ Kind = "real" => clean_pulse_events_(list_) = << >>
         /\ clean_pulse_events_(list_) = << >> \/ (clean_pulse_events_(list_) = list_
                                                     /\ Len(list_) = 1 /\ list_[1].sim_time = now)
<1>1. list_ \in Seq(Entry) /\ now \in Nat /\ Early \in Nat
  BY BoundsAssumption DEF DelayInv, TypeOK, Entry, Times
<1>2. Len(list_) <= 2 /\ (Len(list_) = 2 => list_[1].sim_time = now)
  BY DEF DelayInv, OnList
<1>3. (list_ # << >> /\ Due(list_[1])) => Len(list_) <= Early
  BY DEF recv
<1>4. list_ # << >> /\ list_[1].sim_time = now => Len(list_) <= 1 /\ Kind # "real"
  BY <1>1, <1>3 DEF Due, Gently
<1>5. Len(list_) <= 1 /\ (list_ # << >> => Len(list_) = 1)
  <2> DEFINE n == Len(list_)
  <2>1. n \in Nat /\ n <= 2 /\ (n = 0 <=> list_ = << >>)
    BY <1>1, <1>2
  <2>2. n # 2
    BY <1>1, <1>2, <1>4
  <2> HIDE DEF n
  <2>3. n <= 1 /\ (list_ # << >> => n = 1)
    BY <2>1, <2>2
  <2>4. QED
    BY <2>3 DEF n
<1>6. list_ # << >> => Len(list_) = 1 /\ list_[1].val = in /\ list_[1].sim_time = ready
  <2> SUFFICES ASSUME list_ # << >>
               PROVE  Len(list_) = 1 /\ list_[1].val = in /\ list_[1].sim_time = ready
    OBVIOUS
  <2>1. Len(list_) = 1
    BY <1>5
  <2>2. list_[Len(list_)].val = in
    BY DEF DelayInv, InputOnItsWay, FollowsInput
  <2>3. list_[Len(list_)].sim_time = ready
    BY DEF DelayInv, OnList
  <2>4. QED
    BY <2>1, <2>2, <2>3
<1>7. list_ = << >> => cur = in
  BY DEF DelayInv, InputOnItsWay, FollowsInput
<1>8. clean_pulse_events_(list_)
        = IF list_ # << >> /\ list_[1].sim_time = now THEN list_ ELSE << >>
  BY CleanIsAllOrNothing
<1>9. QED
  BY <1>4, <1>5, <1>6, <1>7, <1>8

\* The input has the value already: nothing happens.
LEMMA SameInput ==
  ASSUME Gently, DelayInv, NEW bit \in Values, recv(bit), bit = in
  PROVE  UNCHANGED <<delays, cur, list_, generics, now, sets, history>> /\ initial_' \in BOOLEAN
<1>1. UNCHANGED <<delays, now, sets, history>> /\ initial_ \in BOOLEAN
  BY DEF recv, Record, DelayInv, TypeOK
<1>2. CASE list_ # << >>
  <2>1. Skips(bit)
    BY <1>2, BeforeInput DEF Skips
  <2>2. QED
    BY <1>1, <2>1 DEF recv
<1>3. CASE list_ = << >>
  <2>1. cur = bit /\ ~Skips(bit) /\ clean_pulse_events_(list_) = << >>
    BY <1>3, BeforeInput DEF Skips
  <2>2. Receive(bit)
    BY <2>1 DEF recv
  <2>3. Dropped(bit) \/ use_delay(bit) = 0
    <3>1. Kind = "vec4" => Reference = bit
      BY <1>3, <2>1 DEF Reference
    <3>2. QED
      BY <2>1, <3>1, DelayType, KindAssumption DEF Dropped, DelayInv
  <2>4. QED
    BY <1>1, <1>3, <2>1, <2>2, <2>3 DEF Receive
<1>4. QED
  BY <1>2, <1>3

\* What becomes of the list and the output when the input changes: it is on
\* its way, alone or after the value that is due now, or it is sent at once.
Changed(bit, d) ==
  \/ /\ list_' = << >> /\ generics' = generics /\ cur' = bit /\ (cur' # cur => d = 0)
  \/ /\ list_' = <<[val |-> bit, sim_time |-> now + d]>> /\ cur' = cur
     /\ generics' = [generics EXCEPT ![now + d] = @ + 1]
  \/ /\ Len(list_) = 1 /\ list_[1].sim_time = now /\ list_[1].val = in
     /\ list_' = Append(list_, [val |-> bit, sim_time |-> now + d]) /\ cur' = cur
     /\ generics' = [generics EXCEPT ![now + d] = @ + 1]

LEMMA NewInput ==
  ASSUME Gently, DelayInv, NEW bit \in Values, recv(bit), bit # in
  PROVE  /\ Changed(bit, use_delay(bit)) /\ initial_' \in BOOLEAN
         /\ in' = bit /\ since' = now /\ ready' = now + use_delay(bit)
         /\ in \in were' /\ were' \subseteq Values
         /\ UNCHANGED <<delays, now, sets>>
<1> DEFINE d == use_delay(bit)
           list == clean_pulse_events_(list_)
<1>1. ~Skips(bit)
  BY BeforeInput DEF Skips
<1>2. Receive(bit) /\ Record(bit) /\ UNCHANGED <<delays, now, sets>>
  BY <1>1 DEF recv
<1>3. initial_ \in BOOLEAN /\ in \in Values /\ were \subseteq Values
  BY DEF DelayInv, TypeOK
<1>4. /\ in' = bit /\ since' = now /\ ready' = now + d
      /\ in \in were' /\ were' \subseteq Values
  BY <1>2, <1>3 DEF Record
<1>5. /\ Kind = "real" => list = << >>
      /\ list = << >> \/ (list = list_ /\ Len(list_) = 1 /\ list_[1].sim_time = now
                            /\ list_[1].val = in)
  BY BeforeInput
<1>6. \/ Dropped(bit) /\ list_' = list /\ UNCHANGED <<cur, initial_, generics>>
      \/ /\ d = 0 /\ list = << >>
         /\ cur' = bit /\ initial_' = FALSE /\ list_' = list /\ UNCHANGED generics
      \/ /\ list_' = Append(list, [val |-> bit, sim_time |-> now + d])
         /\ generics' = [generics EXCEPT ![now + d] = @ + 1]
         /\ UNCHANGED <<cur, initial_>>
  BY <1>2 DEF Receive, enqueue_, schedule_generic
<1>7. Append(<< >>, [val |-> bit, sim_time |-> now + d]) = <<[val |-> bit, sim_time |-> now + d]>>
  OBVIOUS
<1> HIDE DEF d, list
<1>8. Changed(bit, d) /\ initial_' \in BOOLEAN
  <2>1. CASE Dropped(bit) /\ list_' = list /\ UNCHANGED <<cur, initial_, generics>>
    BY <1>3, <1>5, <2>1 DEF Dropped, Changed
  <2>2. CASE /\ d = 0 /\ list = << >>
             /\ cur' = bit /\ initial_' = FALSE /\ list_' = list /\ UNCHANGED generics
    BY <2>2 DEF Changed
  <2>3. CASE /\ list_' = Append(list, [val |-> bit, sim_time |-> now + d])
             /\ generics' = [generics EXCEPT ![now + d] = @ + 1]
             /\ UNCHANGED <<cur, initial_>>
    <3>1. CASE list = << >>
      BY <1>3, <1>7, <2>3, <3>1 DEF Changed
    <3>2. CASE list # << >>
      BY <1>3, <1>5, <2>3, <3>2 DEF Changed
    <3>3. QED
      BY <3>1, <3>2
  <2>4. QED
    BY <1>6, <2>1, <2>2, <2>3
<1>9. QED
  BY <1>2, <1>4, <1>8 DEF d

LEMMA RecvStep ==
  ASSUME Gently, DelayInv, NEW bit \in Values, recv(bit)
  PROVE  DelayInv'
<1> DEFINE d == use_delay(bit)
           e == [val |-> bit, sim_time |-> now + d]
<1>1. /\ TypeOK /\ OnList /\ MinIsLeast /\ WokenShort(list_, generics, now)
      /\ list_ \in Seq(Entry) /\ generics \in [Times -> Nat] /\ now \in Nat /\ now \in Times
  BY BoundsAssumption, WokenIsShort DEF DelayInv, InputOnItsWay, TypeOK, Entry, Times
<1>2. inputs' \in 0..MaxInputs /\ UNCHANGED delays
  BY <1>1, BoundsAssumption DEF recv, TypeOK
<1>3. MinIsLeast' /\ {rise_', fall_', decay_', min_delay_'} \subseteq Nat
  BY <1>1, <1>2 DEF MinIsLeast, delays, TypeOK
<1>4. d \in Nat /\ now + d \in Times
  BY <1>1, DelayType DEF recv
<1>5. CASE bit = in
  <2>1. /\ UNCHANGED <<delays, cur, list_, generics, now, sets, history>>
        /\ initial_' \in BOOLEAN
    BY <1>5, SameInput
  <2>2. TypeOK'
    BY <1>1, <1>2, <1>3, <2>1 DEF TypeOK, history
  <2>3. OnList' /\ EachIsWoken' /\ FollowsInput'
    BY <2>1 DEF DelayInv, InputOnItsWay, OnList, EachIsWoken, FollowsInput, history
  <2>4. QED
    BY <1>3, <2>2, <2>3 DEF DelayInv, InputOnItsWay
<1>6. CASE bit # in
  <2>1. /\ Changed(bit, d) /\ initial_' \in BOOLEAN
        /\ in' = bit /\ since' = now /\ ready' = now + d
        /\ in \in were' /\ were' \subseteq Values /\ UNCHANGED <<now, sets>>
    BY <1>6, NewInput
  <2>2. e \in Entry /\ e.val = bit /\ e.sim_time = now + d
    BY <1>1, <1>4 DEF Entry
  <2> HIDE DEF d, e
  <2>3. since' \in 0..now' /\ ready' \in Times
    BY <1>1, <1>4, <2>1
  <2>4. ASSUME cur' \in Values, list_' \in Seq(Entry), generics' \in [Times -> Nat] PROVE TypeOK'
    BY <1>1, <1>2, <1>3, <2>1, <2>3, <2>4 DEF TypeOK, Entry
  <2>5. CASE list_' = << >> /\ generics' = generics /\ cur' = bit
    <3>1. Len(list_') = 0 /\ list_' \in Seq(Entry)
      BY <2>5
    <3>2. TypeOK'
      BY <1>1, <2>4, <2>5, <3>1
    <3>3. OnList' /\ EachIsWoken' /\ FollowsInput'
      BY <2>1, <2>5, <3>1 DEF OnList, EachIsWoken, FollowsInput
    <3>4. QED
      BY <1>3, <3>2, <3>3 DEF DelayInv, InputOnItsWay
  <2>6. CASE /\ list_' = <<e>> /\ cur' = cur
             /\ generics' = [generics EXCEPT ![now + d] = @ + 1]
    <3>1. Len(list_') = 1 /\ list_'[1] = e /\ list_' \in Seq(Entry)
      BY <2>2, <2>6
    <3>2. /\ generics' \in [Times -> Nat] /\ generics'[now + d] = generics[now + d] + 1
          /\ generics[now + d] \in Nat
      BY <1>1, <1>4, <2>6
    <3>3. TypeOK'
      BY <1>1, <2>4, <2>6, <3>1, <3>2 DEF TypeOK
    <3>4. OnList' /\ FollowsInput'
      BY <1>4, <2>1, <2>2, <3>1 DEF OnList, FollowsInput
    <3>5. WokenShort(list_', generics', now')
      BY <1>1, <1>4, <2>1, <2>2, <3>1, <3>2 DEF WokenShort
    <3>6. QED
      BY <1>3, <3>3, <3>4, <3>5, WokenIsShortNext DEF DelayInv, InputOnItsWay
  <2>7. CASE /\ Len(list_) = 1 /\ list_[1].sim_time = now /\ list_[1].val = in
             /\ list_' = Append(list_, e) /\ cur' = cur
             /\ generics' = [generics EXCEPT ![now + d] = @ + 1]
    <3>1. Len(list_') = 2 /\ list_'[1] = list_[1] /\ list_'[2] = e /\ list_' \in Seq(Entry)
      <4>1. /\ Append(list_, e) \in Seq(Entry) /\ Len(Append(list_, e)) = Len(list_) + 1
            /\ Append(list_, e)[Len(list_) + 1] = e
            /\ \A i \in 1..Len(list_) : Append(list_, e)[i] = list_[i]
        BY <1>1, <2>2
      <4>2. Len(list_) = 1 /\ Len(list_) + 1 = 2 /\ 1 \in 1..Len(list_) /\ list_' = Append(list_, e)
        BY <2>7
      <4>3. QED
        BY <4>1, <4>2
    <3>2. /\ generics' \in [Times -> Nat] /\ generics'[now + d] = generics[now + d] + 1
          /\ \A u \in Times : generics'[u] >= generics[u] /\ generics[u] \in Nat
                                /\ generics'[u] \in Nat
      BY <1>1, <1>4, <2>7
    <3>3. generics[now] >= 1
      BY <1>1, <2>7 DEF WokenShort
    <3>4. TypeOK'
      BY <1>1, <2>4, <2>7, <3>1, <3>2 DEF TypeOK
    <3>5. 1..Len(list_') = {1, 2}
      BY <3>1
    <3>6. OnList'
      BY <1>1, <1>4, <1>6, <2>1, <2>2, <2>7, <3>1, <3>5 DEF OnList
    <3>7. FollowsInput'
      <4>1. list_' # << >>
        BY <3>1, SMTT(30)
      <4>2. QED
        BY <2>1, <2>2, <3>1, <4>1 DEF FollowsInput
    <3>8. WokenShort(list_', generics', now')
      <4>1. generics'[now] >= 1 /\ generics'[now + d] >= 1 /\ (d = 0 => generics'[now] >= 2)
        BY <1>1, <1>4, <3>2, <3>3
      <4>2. QED
        BY <1>1, <1>4, <2>1, <2>2, <2>7, <3>1, <3>5, <4>1 DEF WokenShort
    <3>9. QED
      BY <1>3, <3>4, <3>6, <3>7, <3>8, WokenIsShortNext DEF DelayInv, InputOnItsWay
  <2>8. QED
    BY <2>1, <2>5, <2>6, <2>7 DEF Changed, e
<1>7. QED
  BY <1>5, <1>6

\* A run_run sends what is due, and finds enough left for the rest.
LEMMA RunStep == ASSUME DelayInv, run_run PROVE DelayInv'
<1>1. /\ TypeOK /\ OnList /\ MinIsLeast /\ FollowsInput /\ WokenShort(list_, generics, now)
      /\ list_ \in Seq(Entry) /\ generics \in [Times -> Nat] /\ now \in Nat /\ now \in Times
  BY BoundsAssumption, WokenIsShort DEF DelayInv, InputOnItsWay, TypeOK, Entry, Times
<1>2. /\ UNCHANGED <<delays, now, inputs, sets, history>>
      /\ generics[now] > 0 /\ generics' = [generics EXCEPT ![now] = @ - 1]
  BY DEF run_run
<1>3. /\ generics' \in [Times -> Nat] /\ generics'[now] = generics[now] - 1
      /\ \A u \in Times : u # now => generics'[u] = generics[u]
      /\ \A u \in Times : generics[u] \in Nat /\ generics'[u] \in Nat
  BY <1>1, <1>2
<1>4. MinIsLeast'
  BY <1>1, <1>2 DEF MinIsLeast, delays
<1>5. ASSUME cur' \in Values, initial_' \in BOOLEAN, list_' \in Seq(Entry) PROVE TypeOK'
  BY <1>1, <1>2, <1>3, <1>5 DEF TypeOK, delays, history, Entry
<1>6. \A i \in 1..Len(list_) : list_[i] \in Entry /\ list_[i].sim_time \in Nat /\ list_[i].val \in Values
  <2>1. \A i \in 1..Len(list_) : list_[i] \in Entry
    BY <1>1
  <2>2. QED
    BY <2>1 DEF Entry
<1>7. ASSUME ~RunDue PROVE DelayInv'
  <2>1. UNCHANGED <<cur, list_, initial_>>
    BY <1>7 DEF run_run
  <2>2. TypeOK'
    BY <1>1, <1>5, <2>1 DEF TypeOK
  <2>3. OnList' /\ FollowsInput'
    BY <1>1, <1>2, <2>1 DEF OnList, FollowsInput, history
  <2>4. \A i \in 1..Len(list_) : list_[i].sim_time # now
    <3> SUFFICES ASSUME NEW i \in 1..Len(list_), list_[i].sim_time = now PROVE FALSE
      OBVIOUS
    <3>1. 1 \in 1..Len(list_) /\ list_ # << >>
      BY <1>1
    <3>2. list_[1].sim_time > now
      BY <1>1, <1>6, <1>7, <3>1 DEF RunDue, Due
    <3>3. Len(list_) # 2
      BY <1>1, <1>6, <3>1, <3>2 DEF OnList
    <3>4. Len(list_) = 1 /\ i = 1
      <4> DEFINE n == Len(list_)
      <4>1. n \in Nat /\ n <= 2 /\ n # 2 /\ i \in 1..n
        BY <1>1, <3>3 DEF OnList
      <4> HIDE DEF n
      <4>2. n = 1 /\ i = 1
        BY <4>1
      <4>3. QED
        BY <4>2 DEF n
    <3>5. QED
      BY <1>1, <3>2, <3>4
  <2>5. WokenShort(list_', generics', now')
    <3>1. \A i \in 1..Len(list_) : generics'[list_[i].sim_time] = generics[list_[i].sim_time]
      BY <1>1, <1>3, <2>4 DEF OnList
    <3>2. Len(list_) = 2 => 1 \in 1..Len(list_)
      BY <1>1
    <3>3. QED
      BY <1>1, <1>2, <2>1, <3>1, <3>2 DEF WokenShort
  <2>6. QED
    BY <1>4, <2>2, <2>3, <2>5, WokenIsShortNext DEF DelayInv, InputOnItsWay
<1>8. ASSUME RunDue PROVE DelayInv'
  <2>1. cur' = list_[1].val /\ list_' = Tail(list_) /\ initial_' = FALSE
    BY <1>8 DEF run_run
  <2>2. list_ # << >> /\ Len(list_) > 0 /\ 1 \in 1..Len(list_)
    BY <1>1, <1>8 DEF RunDue
  <2>3. list_' \in Seq(Entry) /\ Len(list_') = Len(list_) - 1
        /\ \A i \in 1..Len(list_') : list_'[i] = list_[i + 1]
    BY <1>1, <2>1, <2>2
  <2>4. TypeOK'
    BY <1>5, <1>6, <2>1, <2>2, <2>3
  <2>5. list_[1].sim_time = now
    BY <1>1, <1>6, <1>8, <2>2 DEF RunDue, Due, WokenShort
  <2>6. CASE Len(list_) = 1
    <3>1. list_' = << >> /\ Len(list_') = 0
      BY <2>3, <2>6
    <3>2. OnList' /\ EachIsWoken' /\ FollowsInput'
      <4>1. cur' = in'
        BY <1>1, <1>2, <2>1, <2>2, <2>6 DEF FollowsInput, history
      <4>2. QED
        BY <3>1, <4>1 DEF OnList, EachIsWoken, FollowsInput
    <3>3. QED
      BY <1>4, <2>4, <3>2 DEF DelayInv, InputOnItsWay
  <2>7. CASE Len(list_) = 2
    <3>1. Len(list_') = 1 /\ list_'[1] = list_[2] /\ 2 \in 1..Len(list_) /\ list_' # << >>
      <4>1. Len(list_') = 1 /\ 1 \in 1..Len(list_') /\ 2 \in 1..Len(list_)
        BY <2>3, <2>7
      <4>2. list_'[1] = list_[1 + 1] /\ 1 + 1 = 2
        BY <2>3, <4>1
      <4>3. list_' # << >>
        BY <4>1
      <4>4. QED
        BY <4>1, <4>2, <4>3
    <3>2. OnList'
      BY <1>1, <1>2, <2>2, <2>7, <3>1 DEF OnList, history
    <3>3. FollowsInput'
      BY <1>1, <1>2, <2>2, <2>7, <3>1 DEF FollowsInput, history
    <3>4. WokenShort(list_', generics', now')
      <4>1. list_[2].sim_time >= now /\ list_[2].sim_time \in Times
        BY <1>1, <3>1 DEF WokenShort, OnList
      <4>2. generics'[list_[2].sim_time] >= 1
        <5>1. CASE list_[2].sim_time = now
          BY <1>1, <1>3, <2>5, <2>7, <5>1 DEF WokenShort
        <5>2. CASE list_[2].sim_time # now
          BY <1>1, <1>3, <3>1, <4>1, <5>2 DEF WokenShort
        <5>3. QED
          BY <5>1, <5>2
      <4>3. QED
        BY <1>2, <3>1, <4>1, <4>2 DEF WokenShort
    <3>5. QED
      BY <1>4, <2>4, <3>2, <3>3, <3>4, WokenIsShortNext DEF DelayInv, InputOnItsWay
  <2>8. Len(list_) = 1 \/ Len(list_) = 2
    <3> DEFINE n == Len(list_)
    <3>1. n \in Nat /\ n <= 2 /\ n > 0
      BY <1>1, <2>2 DEF OnList
    <3> HIDE DEF n
    <3>2. n = 1 \/ n = 2
      BY <3>1
    <3>3. QED
      BY <3>2 DEF n
  <2>9. QED
    BY <2>6, <2>7, <2>8
<1>9. QED
  BY <1>7, <1>8

\* Time passes only when nothing on its way is for now.
LEMMA AdvanceStep == ASSUME DelayInv, Advance PROVE DelayInv'
<1>1. /\ TypeOK /\ OnList /\ MinIsLeast /\ FollowsInput /\ WokenShort(list_, generics, now)
      /\ list_ \in Seq(Entry) /\ generics \in [Times -> Nat] /\ now \in Nat /\ now \in Times
  BY BoundsAssumption, WokenIsShort DEF DelayInv, InputOnItsWay, TypeOK, Entry, Times
<1>2. /\ UNCHANGED <<delays, cur, initial_, list_, generics, inputs, sets, history>>
      /\ now' = now + 1 /\ now' \in Times /\ generics[now] = 0
  BY DEF Advance
<1>3. since' \in 0..now'
  BY <1>1, <1>2 DEF TypeOK, history
<1>4. TypeOK'
  BY <1>1, <1>2, <1>3 DEF TypeOK, delays, history
<1>5. \A i \in 1..Len(list_) : list_[i].sim_time \in Nat /\ list_[i].sim_time >= now + 1
  <2>1. \A i \in 1..Len(list_) : list_[i] \in Entry
    BY <1>1
  <2>2. \A i \in 1..Len(list_) : list_[i].sim_time \in Nat
    BY <2>1 DEF Entry
  <2>3. QED
    BY <1>1, <1>2, <2>2 DEF WokenShort
<1>6. Len(list_) # 2
  BY <1>1, <1>5 DEF OnList
<1>7. OnList' /\ FollowsInput' /\ MinIsLeast'
  BY <1>1, <1>2, <1>6 DEF OnList, FollowsInput, MinIsLeast, history, delays
<1>8. WokenShort(list_', generics', now')
  BY <1>1, <1>2, <1>5 DEF WokenShort
<1>9. QED
  BY <1>4, <1>7, <1>8, WokenIsShortNext DEF DelayInv, InputOnItsWay

LEMMA DelayStep == ASSUME Gently PROVE DelayInv /\ [Next]_vars => DelayInv'
<1> SUFFICES ASSUME DelayInv, [Next]_vars PROVE DelayInv'
  OBVIOUS
<1>1. CASE UNCHANGED vars
  BY <1>1 DEF vars, delays, history, DelayInv, TypeOK, OnList, InputOnItsWay, FollowsInput,
              EachIsWoken, MinIsLeast
<1>2. QED
  BY <1>1, SetStep, RecvStep, RunStep, AdvanceStep DEF Next

\* What the input is will be the output, at its time, whatever was cancelled
\* and however the delays were changed (vvp_fun_delay, vvp_delay_t).
THEOREM DelayedInputArrives == ASSUME Gently PROVE Spec => []InputOnItsWay
<1>1. DelayInv => InputOnItsWay
  BY DEF DelayInv
<1>2. QED
  BY <1>1, DelayInit, DelayStep, PTL DEF Spec

\* No pulse gets through, and no value is early.
THEOREM DelayPassesNoPulse == ASSUME Gently PROVE Spec => NoPulse
<1> DEFINE Passes == cur' # cur => IF cur' = in' THEN now >= ready'
                                   ELSE since = now /\ cur' \in were
<1>1. DelayInv /\ [Next]_vars => [Passes]_vars
  <2> SUFFICES ASSUME DelayInv, Next, cur' # cur
               PROVE  IF cur' = in' THEN now >= ready' ELSE since = now /\ cur' \in were
    BY DEF vars
  <2>1. TypeOK /\ now \in Nat /\ list_ \in Seq(Entry)
    BY BoundsAssumption DEF DelayInv, TypeOK, Times, Entry
  <2>2. ASSUME NEW bit \in Values, recv(bit)
        PROVE  cur' = in' /\ now >= ready'
    <3>1. bit # in
      BY <2>2, SameInput
    <3>2. Changed(bit, use_delay(bit)) /\ in' = bit /\ ready' = now + use_delay(bit)
      BY <2>2, <3>1, NewInput
    <3>3. cur' = bit /\ use_delay(bit) = 0
      BY <3>2 DEF Changed
    <3>4. QED
      BY <2>1, <3>2, <3>3
  <2>3. CASE run_run
    <3>1. RunDue /\ cur' = list_[1].val /\ UNCHANGED <<in, ready>>
      BY <2>3 DEF run_run, history
    <3>2. list_ # << >> /\ list_[1].sim_time <= now /\ Len(list_) \in Nat /\ Len(list_) > 0
      BY <2>1, <3>1 DEF RunDue, Due
    <3>3. CASE Len(list_) = 2
      BY <3>1, <3>3 DEF DelayInv, OnList
    <3>4. CASE Len(list_) = 1
      BY <2>1, <3>1, <3>2, <3>4 DEF DelayInv, InputOnItsWay, FollowsInput, OnList
    <3>5. Len(list_) = 1 \/ Len(list_) = 2
      <4> DEFINE n == Len(list_)
      <4>1. n \in Nat /\ n <= 2 /\ n > 0
        BY <3>2 DEF DelayInv, OnList
      <4> HIDE DEF n
      <4>2. n = 1 \/ n = 2
        BY <4>1
      <4>3. QED
        BY <4>2 DEF n
    <3>6. QED
      BY <3>3, <3>4, <3>5
  <2>4. QED
    BY <2>2, <2>3 DEF Next, set_rise, set_fall, set_decay, SetUnchanged, Advance
<1>2. QED
  BY <1>1, DelayInit, DelayStep, PTL DEF Spec, NoPulse
=============================================================================
