--------------------------- MODULE ScheduleProofs ---------------------------
(***************************************************************************)
(* Theorems about Schedule, for every width of the time, every set of      *)
(* delays and any number of events: first the list of time cells, then the *)
(* order in which events run, what a time step may drop and the refinement *)
(* of EventQueue.                                                          *)
(***************************************************************************)
EXTENDS ScheduleRefinement, SequenceTheorems, TLAPS

(***************************************************************************)
(* Lemmas about the operators of Schedule.                                 *)
(***************************************************************************)

\* The sum of two times is a time.
LEMMA AddTimeType == ASSUME NEW t \in Time, NEW d \in Time PROVE AddTime(t, d) \in Time
  BY TimeAssumption DEF Time, AddTime

\* Adding a delay in two parts is adding it at once.
LEMMA AddTimeSplit ==
  ASSUME NEW t \in Time, NEW d \in Time, NEW c \in Time, c < d
  PROVE  d - c \in Time /\ d - c > 0 /\ AddTime(AddTime(t, c), d - c) = AddTime(t, d)
  BY TimeAssumption DEF Time, AddTime

\* Adding nothing.
LEMMA AddTimeZero == ASSUME NEW t \in Time PROVE AddTime(t, 0) = t /\ 0 \in Time
  BY TimeAssumption DEF Time, AddTime

\* new is sl but for the queue s of its cell k, which is q.
QueueSet(new, sl, k, s, q) ==
  /\ new \in Seq(Cell) /\ Len(new) = Len(sl)
  /\ \A j \in 1 .. Len(sl) :
       /\ new[j].delay = sl[j].delay /\ new[j].at = sl[j].at
       /\ \A t \in SEQ : new[j].q[t] = IF j = k /\ t = s THEN q ELSE sl[j].q[t]

\* new is sl but for the delay of its cell k, which is d.
DelaySet(new, sl, k, d) ==
  /\ new \in Seq(Cell) /\ Len(new) = Len(sl)
  /\ \A j \in 1 .. Len(sl) :
       /\ new[j].delay = IF j = k THEN d ELSE sl[j].delay
       /\ new[j].at = sl[j].at /\ new[j].q = sl[j].q

\* new is x followed by y.
Concatenated(new, x, y) ==
  /\ new \in Seq(Cell) /\ Len(new) = Len(x) + Len(y)
  /\ \A j \in 1 .. Len(x) + Len(y) : new[j] = IF j <= Len(x) THEN x[j] ELSE y[j - Len(x)]

\* new is sl with c put before its cell k.
CellInserted(new, sl, k, c) ==
  /\ new \in Seq(Cell) /\ Len(new) = Len(sl) + 1
  /\ \A j \in 1 .. Len(sl) + 1 :
       new[j] = IF j < k THEN sl[j] ELSE IF j = k THEN c ELSE sl[j - 1]

\* Replacing a queue changes that queue only.
LEMMA SetQueueProperties ==
  ASSUME NEW sl \in Seq(Cell), NEW k \in 1 .. Len(sl), NEW s \in SEQ, NEW q \in Seq(Event)
  PROVE  QueueSet(SetQueue(sl, k, s, q), sl, k, s, q)
<1> DEFINE c == [sl[k] EXCEPT !.q[s] = q]
<1>1. sl[k] \in Cell
  OBVIOUS
<1>2. c \in Cell /\ c.delay = sl[k].delay /\ c.at = sl[k].at
      /\ \A t \in SEQ : c.q[t] = IF t = s THEN q ELSE sl[k].q[t]
  BY <1>1 DEF Cell
<1>3. SetQueue(sl, k, s, q) = [sl EXCEPT ![k] = c]
  BY DEF SetQueue
<1> HIDE DEF c
<1>4. QED
  BY <1>1, <1>2, <1>3 DEF QueueSet

\* Replacing a delay changes that delay only.
LEMMA SetDelayProperties ==
  ASSUME NEW sl \in Seq(Cell), NEW k \in 1 .. Len(sl), NEW d \in Time
  PROVE  DelaySet(SetDelay(sl, k, d), sl, k, d)
<1> DEFINE c == [sl[k] EXCEPT !.delay = d]
<1>1. sl[k] \in Cell
  OBVIOUS
<1>2. c \in Cell /\ c.delay = d /\ c.at = sl[k].at /\ c.q = sl[k].q
  BY <1>1 DEF Cell
<1>3. SetDelay(sl, k, d) = [sl EXCEPT ![k] = c]
  BY DEF SetDelay
<1> HIDE DEF c
<1>4. QED
  BY <1>1, <1>2, <1>3 DEF DelaySet

\* A new cell holds one event, at the time the event is due.
LEMMA NewCellProperties ==
  ASSUME NEW d \in Time, NEW e \in Event
  PROVE  /\ NewCell(d, e) \in Cell
         /\ NewCell(d, e).delay = d
         /\ NewCell(d, e).at = e.due
         /\ \A t \in SEQ : NewCell(d, e).q[t] = IF t = e.seq THEN <<e>> ELSE << >>
<1>1. e.seq \in SEQ /\ e.due \in Time /\ <<e>> \in Seq(Event)
  BY DEF Event
<1>2. NoEvents \in [SEQ -> Seq(Event)] /\ \A t \in SEQ : NoEvents[t] = << >>
  BY DEF NoEvents
<1>3. QED
  BY <1>1, <1>2 DEF NewCell, Cell


\* What a concatenation of lists of cells holds.
LEMMA ConcatCells ==
  ASSUME NEW x \in Seq(Cell), NEW y \in Seq(Cell)
  PROVE  Concatenated(x \o y, x, y)
<1>1. x \o y \in Seq(Cell)
  OBVIOUS
<1>2. Len(x \o y) = Len(x) + Len(y)
  OBVIOUS
<1>3. ASSUME NEW j \in 1 .. Len(x) + Len(y)
      PROVE  (x \o y)[j] = IF j <= Len(x) THEN x[j] ELSE y[j - Len(x)]
  OBVIOUS
<1>4. QED
  BY <1>1, <1>2, <1>3 DEF Concatenated

\* Inserting a cell shifts the cells behind it.
LEMMA InsertCell ==
  ASSUME NEW sl \in Seq(Cell), NEW k \in 1 .. Len(sl), NEW c \in Cell
  PROVE  CellInserted(InsertAt(sl, k, c), sl, k, c)
<1> DEFINE a == SubSeq(sl, 1, k - 1)
           b == SubSeq(sl, k, Len(sl))
<1>1. a \in Seq(Cell) /\ Len(a) = k - 1 /\ \A j \in 1 .. k - 1 : a[j] = sl[j]
  BY SubSeqProperties
<1>2. b \in Seq(Cell) /\ Len(b) = Len(sl) - k + 1
      /\ \A j \in 1 .. Len(sl) - k + 1 : b[j] = sl[k + j - 1]
  BY SubSeqProperties
<1> DEFINE one == <<c>>
           front == a \o one
<1>3. one \in Seq(Cell) /\ Len(one) = 1 /\ one[1] = c
  OBVIOUS
<1>4. InsertAt(sl, k, c) = front \o b
  BY DEF InsertAt
<1> HIDE DEF a, b, one
<1>5. front \in Seq(Cell) /\ Len(front) = k
      /\ \A j \in 1 .. k : front[j] = IF j < k THEN sl[j] ELSE c
  <2>1. Concatenated(front, a, one)
    BY <1>1, <1>3, ConcatCells
  <2> HIDE DEF front
  <2>2. QED
    BY <1>1, <1>3, <2>1 DEF Concatenated
<1> HIDE DEF front
<1> DEFINE new == front \o b
<1>c. Concatenated(new, front, b)
  BY <1>2, <1>5, ConcatCells
<1> HIDE DEF new
<1>6. /\ new \in Seq(Cell) /\ Len(new) = Len(front) + Len(b)
      /\ \A j \in 1 .. Len(front) + Len(b) :
           new[j] = IF j <= Len(front) THEN front[j] ELSE b[j - Len(front)]
  BY <1>c DEF Concatenated
<1>7. Len(new) = Len(sl) + 1
  BY <1>2, <1>5, <1>6
<1>8. ASSUME NEW j \in 1 .. Len(sl) + 1
      PROVE  new[j] = IF j < k THEN sl[j] ELSE IF j = k THEN c ELSE sl[j - 1]
  <2>1. CASE j <= k
    BY <1>2, <1>5, <1>6, <2>1
  <2>2. CASE j > k
    <3>1. j - k \in 1 .. Len(sl) - k + 1 /\ k + (j - k) - 1 = j - 1
      BY <2>2
    <3>2. new[j] = b[j - k]
      BY <1>2, <1>5, <1>6, <2>2
    <3>3. b[j - k] = sl[j - 1]
      BY <1>2, <3>1
    <3>4. ~(j < k) /\ j # k
      BY <2>2
    <3>5. QED
      BY <3>2, <3>3, <3>4
  <2>3. QED
    BY <2>1, <2>2
<1>9. InsertAt(sl, k, c) = new
  BY <1>4 DEF new
<1>10. QED
  BY <1>6, <1>7, <1>8, <1>9 DEF CellInserted

-----------------------------------------------------------------------------
(***************************************************************************)
(* The inductive invariant.                                                *)
(***************************************************************************)
Inv == TypeOK /\ HeadIsCurrent /\ DeltaList /\ Timed /\ WalkInvariant /\ RunsWhenDue


\* The list, the time and the walk are as they were: what is left to show of
\* the invariant are the types, the current cell and the running event.
LEMMA Framed ==
  ASSUME Inv, UNCHANGED <<sched_list, schedule_time, ins>>,
         TypeOK', HeadIsCurrent', RunsWhenDue'
  PROVE  Inv'
  BY DEF Inv, DeltaList, Timed, WalkInvariant

\* A step that replaces a queue of the current cell by events of its time.
LEMMA QueueReplaced ==
  ASSUME Inv, ins = Nil, sched_list # << >>,
         NEW s \in SEQ, NEW q \in Seq(Event),
         \A i \in 1 .. Len(q) : q[i].due = sched_list[1].at,
         sched_list' = SetQueue(sched_list, 1, s, q),
         UNCHANGED <<schedule_time, ins>>,
         TypeOK', InCell' => InCell, RunsWhenDue'
  PROVE  Inv'
<1>1. sched_list \in Seq(Cell) /\ 1 \in 1 .. Len(sched_list)
  BY DEF Inv, TypeOK
<1>2. /\ Len(sched_list') = Len(sched_list)
      /\ \A j \in 1 .. Len(sched_list) :
           /\ sched_list'[j].delay = sched_list[j].delay
           /\ sched_list'[j].at = sched_list[j].at
           /\ \A t \in SEQ : sched_list'[j].q[t] =
                               IF j = 1 /\ t = s THEN q ELSE sched_list[j].q[t]
  <2>1. QueueSet(sched_list', sched_list, 1, s, q)
    BY <1>1, SetQueueProperties
  <2>2. QED
    BY <2>1 DEF QueueSet
<1>3. HeadIsCurrent'
  BY <1>1, <1>2 DEF Inv, HeadIsCurrent
<1>4. DeltaList'
  <2>1. sched_list'[1].at = AddTime(schedule_time', sched_list'[1].delay)
    BY <1>1, <1>2 DEF Inv, DeltaList
  <2>2. ASSUME NEW k \in 2 .. Len(sched_list')
        PROVE  /\ sched_list'[k].delay > 0
               /\ sched_list'[k].at = AddTime(sched_list'[k - 1].at, sched_list'[k].delay)
    <3>1. k \in 2 .. Len(sched_list) /\ k \in 1 .. Len(sched_list)
          /\ k - 1 \in 1 .. Len(sched_list)
      BY <1>1, <1>2
    <3>2. QED
      BY <1>2, <3>1 DEF Inv, DeltaList
  <2>3. QED
    BY <2>1, <2>2 DEF DeltaList
<1>5. Timed'
  <2>1. ASSUME NEW k \in 1 .. Len(sched_list'), NEW t \in SEQ,
               NEW i \in 1 .. Len(sched_list'[k].q[t])
        PROVE  sched_list'[k].q[t][i].due = sched_list'[k].at
    <3>1. k \in 1 .. Len(sched_list) /\ sched_list'[k].at = sched_list[k].at
          /\ sched_list'[k].q[t] = IF k = 1 /\ t = s THEN q ELSE sched_list[k].q[t]
      BY <1>2
    <3>2. CASE k = 1 /\ t = s
      BY <2>1, <3>1, <3>2
    <3>3. CASE ~(k = 1 /\ t = s)
      BY <2>1, <3>1, <3>3 DEF Inv, Timed
    <3>4. QED
      BY <3>2, <3>3
  <2>2. QED
    BY <2>1 DEF Timed
<1>6. WalkInvariant'
  BY DEF WalkInvariant
<1>7. QED
  BY <1>3, <1>4, <1>5, <1>6 DEF Inv

\* A new event carries the time it is due.
LEMMA NewEventType ==
  ASSUME TypeOK, NEW d \in Time, NEW s \in SEQ, NEW p \in BOOLEAN
  PROVE  /\ NewEvent(d, s, p) \in Event
         /\ NewEvent(d, s, p).due = AddTime(schedule_time, d)
         /\ NewEvent(d, s, p).seq = s /\ NewEvent(d, s, p).push = p
  BY AddTimeType DEF TypeOK, NewEvent, Event

\* Starting a walk.
LEMMA WalkStarted ==
  ASSUME Inv, NEW d \in Time, NEW e \in Event, e.due = AddTime(schedule_time, d),
         Creates(e), ScheduleEvent(e, d)
  PROVE  Inv'
<1> USE DEF Creates, ScheduleEvent, lists, flags, phase
<1>1. ins' \in Insertion /\ ins' # Nil /\ ins'.ctim = 1 /\ ins'.delay = d /\ ins'.cur = e
  BY NilAssumption DEF Insertion
<1>2. TypeOK'
  BY <1>1 DEF Inv, TypeOK
<1>3. HeadIsCurrent' /\ DeltaList' /\ Timed' /\ RunsWhenDue'
  BY DEF Inv, HeadIsCurrent, InCell, DeltaList, Timed, RunsWhenDue
<1>4. WalkInvariant'
  BY <1>1 DEF Inv, TypeOK, WalkInvariant
<1>5. QED
  BY <1>2, <1>3, <1>4 DEF Inv

\* A queue with an event added at either end.
AddedTo(q, old, e) == q = Append(old, e) \/ q = <<e>> \o old

\* A queue of events of one time stays one when an event of this time is
\* added at either end.
LEMMA AddedIsDue ==
  ASSUME NEW old \in Seq(Event), NEW e \in Event, NEW t, e.due = t,
         \A i \in 1 .. Len(old) : old[i].due = t,
         NEW q, AddedTo(q, old, e)
  PROVE  \A i \in 1 .. Len(q) : q[i].due = t
<1> DEFINE n == Len(old)
<1>1. n \in Nat
  OBVIOUS
<1>2. CASE q = Append(old, e)
  <2>1. Len(q) = n + 1 /\ q[n + 1] = e /\ \A i \in 1 .. n : q[i] = old[i]
    BY <1>2, AppendProperties
  <2> HIDE DEF n
  <2>2. \A i \in 1 .. n + 1 : i \in 1 .. n \/ i = n + 1
    BY <1>1
  <2>3. QED
    BY <2>1, <2>2 DEF n
<1>3. CASE q = <<e>> \o old
  <2>1. <<e>> \in Seq(Event) /\ Len(<<e>>) = 1 /\ <<e>>[1] = e
    OBVIOUS
  <2>2. /\ Len(q) = 1 + n
        /\ \A i \in 1 .. 1 + n : q[i] = IF i <= 1 THEN <<e>>[i] ELSE old[i - 1]
    BY <1>3, <2>1, ConcatProperties
  <2> HIDE DEF n
  <2>3. \A i \in 1 .. 1 + n : i = 1 \/ (~(i <= 1) /\ i - 1 \in 1 .. n)
    BY <1>1
  <2>4. QED
    BY <2>1, <2>2, <2>3 DEF n
<1>4. QED
  BY <1>2, <1>3 DEF AddedTo

\* Appending to, or pushing on, a queue of the current cell.
LEMMA AddedToCurrent ==
  ASSUME Inv, NEW e \in Event, e.due = schedule_time, Creates(e), CurrentCell,
         NEW q \in Seq(Event),
         AddedTo(q, sched_list[1].q[e.seq], e),
         sched_list' = SetQueue(sched_list, 1, e.seq, q),
         UNCHANGED ins
  PROVE  Inv'
<1>c. sched_list # << >> /\ sched_list[1].delay = 0
  BY DEF CurrentCell
<1>f. /\ ins = Nil
      /\ UNCHANGED <<lists, flags, phase, schedule_time, running, nint, lost>>
      /\ nev' = nev + 1 /\ pending' = pending \cup {e}
  BY DEF Creates, UserCode
<1>1. sched_list \in Seq(Cell) /\ 1 \in 1 .. Len(sched_list) /\ e.seq \in SEQ
      /\ sched_list # << >>
  BY <1>c DEF Inv, TypeOK, Event
<1>2. sched_list[1].at = schedule_time
  BY <1>c, AddTimeZero DEF Inv, TypeOK, DeltaList
<1>3. /\ sched_list[1].q[e.seq] \in Seq(Event)
      /\ \A i \in 1 .. Len(sched_list[1].q[e.seq]) :
           sched_list[1].q[e.seq][i].due = sched_list[1].at
  <2>1. sched_list[1] \in Cell
    BY <1>1
  <2>2. QED
    BY <1>1, <2>1 DEF Inv, Timed, Cell
<1>4. \A i \in 1 .. Len(q) : q[i].due = sched_list[1].at
  <2>1. PICK old, t : old = sched_list[1].q[e.seq] /\ t = schedule_time
    OBVIOUS
  <2>2. old \in Seq(Event) /\ \A i \in 1 .. Len(old) : old[i].due = t
    BY <1>2, <1>3, <2>1
  <2>3. AddedTo(q, old, e) /\ e.due = t
    BY <2>1
  <2>4. \A i \in 1 .. Len(q) : q[i].due = t
    BY <2>2, <2>3, AddedIsDue
  <2>5. QED
    BY <1>2, <2>1, <2>4
<1>5. TypeOK'
  <2>1. QueueSet(sched_list', sched_list, 1, e.seq, q)
    BY <1>1, SetQueueProperties
  <2>2. sched_list' \in Seq(Cell)
    BY <2>1 DEF QueueSet
  <2>3. QED
    BY <1>f, <2>2, SMTT(30) DEF Inv, TypeOK, lists, flags, phase
<1>6. RunsWhenDue' /\ (InCell' => InCell)
  BY <1>f DEF Inv, RunsWhenDue, InCell, phase
<1>7. QED
  BY <1>1, <1>4, <1>5, <1>6, <1>f, QueueReplaced


-----------------------------------------------------------------------------
(***************************************************************************)
(* Every operation of user code preserves the invariant.                   *)
(***************************************************************************)

\* An operation that appends to an init, prestart or final list.
LEMMA ListsStep ==
  ASSUME Inv, NEW a \in Seq(Event), NEW b \in Seq(Event), NEW c \in Seq(Event),
         Lists(a, b, c)
  PROVE  Inv'
<1> USE DEF Lists, flags, phase
<1>1. TypeOK'
  BY DEF Inv, TypeOK
<1>2. HeadIsCurrent' /\ RunsWhenDue'
  BY DEF Inv, HeadIsCurrent, RunsWhenDue, InCell
<1>3. QED
  BY <1>1, <1>2, Framed

\* Each of the schedule_* operations.
LEMMA ScheduleStep == ASSUME Inv, Schedule PROVE Inv'
<1> USE DEF Inv
<1>t. TypeOK /\ 0 \in Time /\ Delays \subseteq Time /\ schedule_time \in Time
      /\ AddTime(schedule_time, 0) = schedule_time
  BY AddTimeZero, DelaysAssumption DEF TypeOK, Time
<1>n. \A d \in Time, s \in SEQ, p \in BOOLEAN :
        /\ NewEvent(d, s, p) \in Event
        /\ NewEvent(d, s, p).due = AddTime(schedule_time, d)
        /\ NewEvent(d, s, p).seq = s /\ NewEvent(d, s, p).push = p
  BY <1>t, NewEventType
<1>s. {"start", "active", "inactive", "nbassign", "rwsync", "rosync", "del_thr"} \subseteq SEQ
  BY DEF SEQ
<1>c. CurrentCell => \A s \in SEQ : sched_list[1].q[s] \in Seq(Event)
  <2>1. CurrentCell => sched_list[1] \in Cell
    BY <1>t DEF CurrentCell, TypeOK
  <2>2. QED
    BY <2>1 DEF Cell
<1>a. ASSUME NEW e \in Event, e.due = schedule_time, Creates(e), CurrentCell,
             sched_list' = AtTail(sched_list, 1, e), UNCHANGED ins
      PROVE  Inv'
  <2>1. e.seq \in SEQ
    BY DEF Event
  <2>2. Append(sched_list[1].q[e.seq], e) \in Seq(Event)
    BY <1>a, <1>c, <2>1
  <2>3. PICK q : q = Append(sched_list[1].q[e.seq], e)
    OBVIOUS
  <2>4. sched_list' = SetQueue(sched_list, 1, e.seq, q) /\ q \in Seq(Event)
    BY <1>a, <2>2, <2>3 DEF AtTail
  <2>5. AddedTo(q, sched_list[1].q[e.seq], e)
    BY <2>3 DEF AddedTo
  <2>6. QED
    BY <1>a, <2>4, <2>5, AddedToCurrent
<1>1. ASSUME NEW d \in Delays, NEW p \in BOOLEAN, schedule_vthread(d, p) PROVE Inv'
  <2> DEFINE e == NewEvent(d, "active", p /\ d = 0)
  <2>0. (p /\ d = 0) \in BOOLEAN /\ d \in Time /\ "active" \in SEQ
    BY <1>s, <1>t
  <2>1. e \in Event /\ e.due = AddTime(schedule_time, d) /\ e.seq = "active"
        /\ (e.push => d = 0) /\ d \in Time
    <3>1. e.push = (p /\ d = 0)
      BY <1>t, <2>0, NewEventType
    <3>2. QED
      BY <1>t, <2>0, <3>1, NewEventType
  <2>2. Creates(e) /\ IF e.push THEN ScheduleEventPush(e) ELSE ScheduleEvent(e, d)
    BY <1>1 DEF schedule_vthread
  <2> HIDE DEF e
  <2>3. CASE ScheduleEvent(e, d)
    BY <2>1, <2>2, <2>3, WalkStarted
  <2>4. CASE e.push /\ ScheduleEventPush(e)
    <3>1. e.due = AddTime(schedule_time, 0) /\ e.due = schedule_time
      BY <1>t, <2>1, <2>4
    <3>2. CASE CurrentCell
      <4>1. <<e>> \o sched_list[1].q[e.seq] \in Seq(Event)
        BY <1>c, <1>s, <2>1, <3>2
      <4>2. sched_list' = SetQueue(sched_list, 1, e.seq, <<e>> \o sched_list[1].q[e.seq])
            /\ UNCHANGED ins
        BY <2>1, <2>4, <3>2 DEF ScheduleEventPush
      <4>3. PICK q : q = <<e>> \o sched_list[1].q[e.seq]
        OBVIOUS
      <4>4. AddedTo(q, sched_list[1].q[e.seq], e)
        BY <4>3 DEF AddedTo
      <4>5. QED
        BY <2>1, <2>2, <3>1, <3>2, <4>1, <4>2, <4>3, <4>4, AddedToCurrent
    <3>3. CASE ~CurrentCell
      BY <1>t, <2>1, <2>2, <2>4, <3>1, <3>3, WalkStarted DEF ScheduleEventPush
    <3>4. QED
      BY <3>2, <3>3
  <2>5. QED
    BY <2>2, <2>3, <2>4
<1>2. CASE schedule_inactive
  BY <1>2, <1>n, <1>s, <1>t, WalkStarted DEF schedule_inactive
<1>3. ASSUME NEW d \in Delays, schedule_assign(d) PROVE Inv'
  <2> DEFINE e == NewEvent(d, "nbassign", FALSE)
  <2>1. e \in Event /\ e.due = AddTime(schedule_time, d) /\ d \in Time
    BY <1>n, <1>s, <1>t
  <2>2. Creates(e) /\ ScheduleNbassign(e, d)
    BY <1>3 DEF schedule_assign
  <2> HIDE DEF e
  <2>3. CASE d = 0 /\ CurrentCell
    BY <1>a, <1>t, <2>1, <2>2, <2>3 DEF ScheduleNbassign
  <2>4. CASE ~(d = 0 /\ CurrentCell)
    BY <2>1, <2>2, <2>4, WalkStarted DEF ScheduleNbassign
  <2>5. QED
    BY <2>3, <2>4
<1>4. CASE schedule_set_vector
  BY <1>4, <1>n, <1>s, <1>t, WalkStarted DEF schedule_set_vector
<1>5. CASE schedule_vthread_list_ready
  <2> DEFINE e == NewEvent(0, "active", FALSE)
  <2>1. e \in Event /\ e.due = AddTime(schedule_time, 0) /\ e.due = schedule_time
    BY <1>n, <1>s, <1>t
  <2>2. Creates(e) /\ ScheduleListReady(e)
    BY <1>5 DEF schedule_vthread_list_ready
  <2> HIDE DEF e
  <2>3. CASE CurrentCell
    BY <1>a, <2>1, <2>2, <2>3 DEF ScheduleListReady
  <2>4. CASE ~CurrentCell
    BY <1>t, <2>1, <2>2, <2>4, WalkStarted DEF ScheduleListReady
  <2>5. QED
    BY <2>3, <2>4
<1>6. ASSUME NEW d \in Delays, NEW sf \in BOOLEAN, NEW ro \in BOOLEAN,
             schedule_generic(d, sf, ro)
      PROVE  Inv'
  <2> DEFINE q == IF ~sf THEN "active" ELSE IF ro THEN "rosync" ELSE "rwsync"
  <2>1. q \in SEQ /\ d \in Time
    BY <1>s, <1>t
  <2>2. Creates(NewEvent(d, q, FALSE)) /\ ScheduleEvent(NewEvent(d, q, FALSE), d)
    BY <1>6 DEF schedule_generic
  <2> HIDE DEF q
  <2>3. QED
    BY <1>n, <2>1, <2>2, WalkStarted
<1>7. ASSUME NEW d \in Delays,
             schedule_at_start_of_simtime(d) \/ schedule_at_end_of_simtime(d)
      PROVE  Inv'
  <2>1. CASE schedule_at_start_of_simtime(d)
    <3>1. Creates(NewEvent(d, "start", FALSE)) /\ ScheduleEvent(NewEvent(d, "start", FALSE), d)
      BY <2>1 DEF schedule_at_start_of_simtime
    <3>2. d \in Time /\ "start" \in SEQ /\ FALSE \in BOOLEAN
      BY <1>s, <1>t
    <3>3. QED
      BY <1>n, <3>1, <3>2, WalkStarted
  <2>2. CASE schedule_at_end_of_simtime(d)
    <3>1. Creates(NewEvent(d, "rwsync", FALSE)) /\ ScheduleEvent(NewEvent(d, "rwsync", FALSE), d)
      BY <2>2 DEF schedule_at_end_of_simtime
    <3>2. d \in Time /\ "rwsync" \in SEQ /\ FALSE \in BOOLEAN
      BY <1>s, <1>t
    <3>3. QED
      BY <1>n, <3>1, <3>2, WalkStarted
  <2>3. QED
    BY <1>7, <2>1, <2>2
<1>8. CASE schedule_del_thr
  BY <1>8, <1>n, <1>s, <1>t, WalkStarted DEF schedule_del_thr
<1>l. \A e \in Event :
        /\ schedule_init_list \in Seq(Event) /\ Append(schedule_init_list, e) \in Seq(Event)
        /\ schedule_prestart_list \in Seq(Event)
        /\ Append(schedule_prestart_list, e) \in Seq(Event)
        /\ schedule_final_list \in Seq(Event) /\ Append(schedule_final_list, e) \in Seq(Event)
  BY <1>t DEF TypeOK
<1>9. CASE schedule_init_event \/ schedule_prestart_event \/ schedule_final_event
  <2>1. NewEvent(0, "active", FALSE) \in Event
    BY <1>n, <1>s, <1>t
  <2>2. QED
    BY <1>9, <1>l, <2>1, ListsStep
    DEF schedule_init_event, schedule_prestart_event, schedule_final_event
<1>10. CASE schedule_functor
  <2>1. NewEvent(0, "active", FALSE) \in Event
        /\ NewEvent(0, "active", FALSE).due = AddTime(schedule_time, 0)
    BY <1>n, <1>s, <1>t
  <2>2. CASE sim_started
    BY <1>10, <1>t, <2>1, <2>2, WalkStarted DEF schedule_functor
  <2>3. CASE ~sim_started
    BY <1>10, <1>l, <2>1, <2>3, ListsStep DEF schedule_functor
  <2>4. QED
    BY <2>2, <2>3
<1>11. QED
  BY <1>1, <1>2, <1>3, <1>4, <1>5, <1>6, <1>7, <1>8, <1>9, <1>10 DEF Schedule


-----------------------------------------------------------------------------
(***************************************************************************)
(* Every step of schedule_event_ preserves the invariant.                  *)
(***************************************************************************)

\* What an insertion that ends has to establish about the new list.
LEMMA InsertedStep ==
  ASSUME Inv, NEW sl, Inserted(sl), sl \in Seq(Cell), HeadIsCurrent', DeltaList', Timed'
  PROVE  Inv'
<1> USE DEF Inserted, lists, flags, phase
<1>1. TypeOK'
  BY DEF Inv, TypeOK
<1>2. WalkInvariant' /\ RunsWhenDue'
  BY DEF Inv, WalkInvariant, RunsWhenDue, InCell
<1>3. QED
  BY <1>1, <1>2 DEF Inv

\* Each step of schedule_event_.
LEMMA InsertStep == ASSUME Inv, ins # Nil, Insert PROVE Inv'
<1>i. /\ sched_list \in Seq(Cell) /\ schedule_time \in Time
      /\ ins \in Insertion /\ ins.cur \in Event /\ ins.delay \in Time /\ ins.ctim \in Nat
      /\ ins.cur.due \in Time /\ ins.cur.seq \in SEQ
      /\ \A k \in 1 .. Len(sched_list) :
           /\ sched_list[k] \in Cell
           /\ sched_list[k].delay \in Time /\ sched_list[k].at \in Time
           /\ \A s \in SEQ : sched_list[k].q[s] \in Seq(Event)
  <2>1. sched_list \in Seq(Cell) /\ schedule_time \in Time /\ ins \in Insertion
    BY DEF Inv, TypeOK
  <2>2. \A k \in 1 .. Len(sched_list) : sched_list[k] \in Cell
    BY <2>1
  <2>3. QED
    BY <2>1, <2>2 DEF Insertion, Event, Cell
<1>n. Time \subseteq Int /\ Len(sched_list) \in Nat
  BY <1>i, TimeAssumption DEF Time
<1>w. /\ IF sched_list = << >> THEN ins.ctim = 1 ELSE ins.ctim \in 1 .. Len(sched_list)
      /\ IF ins.ctim = 1
           THEN ins.cur.due = AddTime(schedule_time, ins.delay)
           ELSE ins.delay > 0 /\ ins.cur.due = AddTime(sched_list[ins.ctim - 1].at, ins.delay)
  BY DEF Inv, WalkInvariant
<1>d. /\ sched_list # << >> =>
           sched_list[1].at = AddTime(schedule_time, sched_list[1].delay)
      /\ \A k \in 2 .. Len(sched_list) :
           /\ sched_list[k].delay > 0
           /\ sched_list[k].at = AddTime(sched_list[k - 1].at, sched_list[k].delay)
  BY DEF Inv, DeltaList
<1>q. \A k \in 1 .. Len(sched_list) : \A s \in SEQ :
        \A i \in 1 .. Len(sched_list[k].q[s]) : sched_list[k].q[s][i].due = sched_list[k].at
  BY DEF Inv, Timed
<1>h. InCell => sched_list # << >> /\ sched_list[1].delay = 0
                /\ sched_list[1].at = schedule_time
  BY DEF Inv, HeadIsCurrent
<1>u. ASSUME NEW sl, Inserted(sl)
      PROVE  sched_list' = sl /\ schedule_time' = schedule_time /\ InCell' = InCell
  BY <1>u DEF Inserted, phase, InCell
<1> DEFINE new(d) == NewCell(d, ins.cur)
<1>c. ASSUME NEW d \in Time
      PROVE  /\ new(d) \in Cell /\ new(d).delay = d /\ new(d).at = ins.cur.due
             /\ \A s \in SEQ : \A i \in 1 .. Len(new(d).q[s]) :
                  new(d).q[s][i].due = ins.cur.due
  <2>1. \A s \in SEQ : new(d).q[s] = IF s = ins.cur.seq THEN <<ins.cur>> ELSE << >>
    BY <1>i, NewCellProperties
  <2>2. ASSUME NEW s \in SEQ, NEW i \in 1 .. Len(new(d).q[s])
        PROVE  new(d).q[s][i].due = ins.cur.due
    <3>1. CASE s = ins.cur.seq
      BY <2>1, <2>2, <3>1
    <3>2. CASE s # ins.cur.seq
      BY <2>1, <2>2, <3>2
    <3>3. QED
      BY <3>1, <3>2
  <2>3. QED
    BY <1>i, <2>2, NewCellProperties
<1> HIDE DEF new

<1>1. CASE InsertFirst
  <2> DEFINE sl == <<new(ins.delay)>>
  <2>1. Inserted(sl) /\ sched_list = << >>
    BY <1>1 DEF InsertFirst, new
  <2>2. sl \in Seq(Cell) /\ Len(sl) = 1 /\ sl[1] = new(ins.delay)
    BY <1>c, <1>i
  <2>3. ~InCell /\ ins.ctim = 1
    BY <1>h, <1>w, <2>1
  <2>4. HeadIsCurrent'
    BY <1>u, <2>1, <2>3 DEF HeadIsCurrent
  <2>5. DeltaList'
    BY <1>c, <1>i, <1>u, <1>w, <2>1, <2>2, <2>3 DEF DeltaList
  <2>6. Timed'
    BY <1>c, <1>i, <1>u, <2>1, <2>2 DEF Timed
  <2>7. QED
    BY <2>1, <2>2, <2>4, <2>5, <2>6, InsertedStep

<1>2. CASE InsertFront
  <2> DEFINE r == sched_list[1].delay - ins.delay
             old == SetDelay(sched_list, 1, r)
             sl == <<new(ins.delay)>> \o old
  <2>1. Inserted(sl) /\ sched_list # << >> /\ ins.ctim = 1
        /\ sched_list[1].delay > ins.delay
    BY <1>2 DEF InsertFront, new
  <2>2. 1 \in 1 .. Len(sched_list) /\ r \in Time /\ r > 0
        /\ AddTime(ins.cur.due, r) = sched_list[1].at
    <3>1. 1 \in 1 .. Len(sched_list)
      BY <1>i, <2>1
    <3>2. ins.delay \in Time /\ sched_list[1].delay \in Time /\ ins.delay < sched_list[1].delay
      BY <1>i, <1>n, <2>1, <3>1
    <3>3. r \in Time /\ r > 0 /\ AddTime(AddTime(schedule_time, ins.delay), r)
                                = AddTime(schedule_time, sched_list[1].delay)
      BY <1>i, <3>2, AddTimeSplit
    <3>4. QED
      BY <1>d, <1>w, <2>1, <3>1, <3>3
  <2> HIDE DEF r
  <2>3. /\ old \in Seq(Cell) /\ Len(old) = Len(sched_list)
        /\ \A j \in 1 .. Len(sched_list) :
             /\ old[j].delay = IF j = 1 THEN r ELSE sched_list[j].delay
             /\ old[j].at = sched_list[j].at /\ old[j].q = sched_list[j].q
    <3>1. sched_list \in Seq(Cell) /\ 1 \in 1 .. Len(sched_list) /\ r \in Time
      BY <1>i, <2>2
    <3>2. DelaySet(old, sched_list, 1, r)
      BY <3>1, SetDelayProperties
    <3> HIDE DEF old
    <3>3. QED
      BY <3>2 DEF DelaySet
  <2> HIDE DEF old
  <2>4. /\ sl \in Seq(Cell) /\ Len(sl) = Len(sched_list) + 1 /\ sl[1] = new(ins.delay)
        /\ \A j \in 2 .. Len(sched_list) + 1 : sl[j] = old[j - 1]
    <3> DEFINE one == <<new(ins.delay)>>
    <3>1. one \in Seq(Cell) /\ Len(one) = 1 /\ one[1] = new(ins.delay)
      BY <1>c, <1>i
    <3>2. one \in Seq(Cell) /\ old \in Seq(Cell)
      BY <2>3, <3>1
    <3> HIDE DEF one
    <3>3. Concatenated(one \o old, one, old)
      BY <3>2, ConcatCells
    <3>s. sl = one \o old
      BY DEF one
    <3> HIDE DEF sl
    <3>4. Len(sched_list) \in Nat
      BY <1>i
    <3>5. /\ sl \in Seq(Cell) /\ Len(sl) = Len(one) + Len(old)
          /\ \A j \in 1 .. Len(one) + Len(old) :
               sl[j] = IF j <= Len(one) THEN one[j] ELSE old[j - Len(one)]
      BY <3>3, <3>s DEF Concatenated
    <3>6. Len(sl) = Len(sched_list) + 1 /\ sl[1] = new(ins.delay)
      BY <2>3, <3>1, <3>4, <3>5
    <3>7. ASSUME NEW j \in 2 .. Len(sched_list) + 1 PROVE sl[j] = old[j - 1]
      BY <2>3, <3>1, <3>4, <3>5
    <3>8. QED
      BY <3>5, <3>6, <3>7
  <2> HIDE DEF sl
  <2>5. HeadIsCurrent'
    <3>1. ins.delay >= 0 /\ sched_list[1].delay # 0
      BY <1>i, <2>1, <2>2, TimeAssumption DEF Time
    <3>2. QED
      BY <1>h, <1>u, <2>1, <3>1 DEF HeadIsCurrent
  <2>6. DeltaList'
    <3>1. sched_list'[1].at = AddTime(schedule_time', sched_list'[1].delay)
      BY <1>c, <1>i, <1>u, <1>w, <2>1, <2>4
    <3>2. ASSUME NEW k \in 2 .. Len(sched_list')
          PROVE  /\ sched_list'[k].delay > 0
                 /\ sched_list'[k].at = AddTime(sched_list'[k - 1].at, sched_list'[k].delay)
      <4>1. k \in 2 .. Len(sched_list) + 1 /\ sched_list' = sl
        BY <1>u, <2>1, <2>4
      <4>2. CASE k = 2
        <5>1. sl[2] = old[1] /\ sl[2 - 1] = new(ins.delay)
          BY <2>4, <4>1, <4>2
        <5>2. old[1].delay = r /\ old[1].at = sched_list[1].at
          BY <2>2, <2>3
        <5>3. new(ins.delay).at = ins.cur.due
          BY <1>c, <1>i
        <5>4. QED
          BY <2>2, <4>1, <4>2, <5>1, <5>2, <5>3
      <4>3. CASE k > 2
        <5>1. k - 1 \in 2 .. Len(sched_list) /\ k - 1 \in 1 .. Len(sched_list)
              /\ k - 2 \in 1 .. Len(sched_list) /\ (k - 1) - 1 = k - 2
              /\ k - 1 \in 2 .. Len(sched_list) + 1 /\ k - 1 # 1
          BY <1>n, <4>1, <4>3
        <5>2. sl[k] = old[k - 1] /\ sl[k - 1] = old[k - 2]
          BY <2>4, <4>1, <5>1
        <5>3. /\ old[k - 1].delay = sched_list[k - 1].delay
              /\ old[k - 1].at = sched_list[k - 1].at /\ old[k - 2].at = sched_list[k - 2].at
          BY <2>3, <5>1
        <5>4. sched_list[k - 1].delay > 0
              /\ sched_list[k - 1].at = AddTime(sched_list[k - 2].at, sched_list[k - 1].delay)
          BY <1>d, <5>1
        <5>5. QED
          BY <4>1, <5>2, <5>3, <5>4
      <4>4. QED
        BY <1>n, <4>1, <4>2, <4>3
    <3>3. QED
      BY <3>1, <3>2 DEF DeltaList
  <2>7. Timed'
    <3>1. ASSUME NEW k \in 1 .. Len(sched_list'), NEW s \in SEQ,
                 NEW i \in 1 .. Len(sched_list'[k].q[s])
          PROVE  sched_list'[k].q[s][i].due = sched_list'[k].at
      <4>1. sched_list' = sl /\ k \in 1 .. Len(sched_list) + 1
        BY <1>u, <2>1, <2>4
      <4>2. CASE k = 1
        BY <1>c, <1>i, <2>4, <3>1, <4>1, <4>2
      <4>3. CASE k # 1
        <5>1. k - 1 \in 1 .. Len(sched_list) /\ k \in 2 .. Len(sched_list) + 1
          BY <1>n, <4>1, <4>3
        <5>2. sched_list'[k].q = sched_list[k - 1].q /\ sched_list'[k].at = sched_list[k - 1].at
          BY <2>3, <2>4, <4>1, <5>1
        <5>3. QED
          BY <1>q, <3>1, <5>1, <5>2
      <4>4. QED
        BY <4>2, <4>3
    <3>2. QED
      BY <3>1 DEF Timed
  <2>8. QED
    BY <2>1, <2>4, <2>5, <2>6, <2>7, InsertedStep

<1>3. CASE WalkNext
  <2> DEFINE c == ins.ctim
  <2>1. /\ c < Len(sched_list) /\ sched_list[c].delay < ins.delay
        /\ ins' = [ins EXCEPT !.delay = @ - sched_list[c].delay, !.ctim = @ + 1]
        /\ UNCHANGED <<sched_list, lists, flags, phase, schedule_time, running,
                       nev, nint, pending, lost>>
    BY <1>3 DEF WalkNext
  <2>2. c \in 1 .. Len(sched_list) /\ sched_list # << >> /\ c + 1 \in 2 .. Len(sched_list)
    BY <1>i, <1>n, <1>w, <2>1
  <2> HIDE DEF c
  <2>3. ins.delay - sched_list[c].delay \in Time /\ ins.delay - sched_list[c].delay > 0
    <3>1. ins.delay \in Time /\ sched_list[c].delay \in Time /\ schedule_time \in Time
      BY <1>i, <2>2
    <3>2. QED
      BY <2>1, <3>1, AddTimeSplit
  <2>4. ins' \in Insertion /\ ins' # Nil /\ ins'.cur = ins.cur /\ ins'.ctim = c + 1
        /\ ins'.delay = ins.delay - sched_list[c].delay
    <3>1. c \in Nat /\ c = ins.ctim /\ c + 1 \in Nat
      BY <1>i DEF c
    <3>2. QED
      BY <1>i, <2>1, <2>3, <3>1, NilAssumption DEF Insertion
  <2>5. ins.cur.due = AddTime(sched_list[c].at, ins.delay - sched_list[c].delay)
    <3>0. ASSUME NEW t \in Time
          PROVE  AddTime(AddTime(t, sched_list[c].delay), ins.delay - sched_list[c].delay)
                   = AddTime(t, ins.delay)
      <4>1. ins.delay \in Time /\ sched_list[c].delay \in Time
        BY <1>i, <2>2
      <4>2. QED
        BY <2>1, <4>1, AddTimeSplit
    <3>1. CASE c = 1
      <4>1. ins.cur.due = AddTime(schedule_time, ins.delay)
            /\ sched_list[c].at = AddTime(schedule_time, sched_list[c].delay)
        BY <1>d, <1>w, <2>2, <3>1 DEF c
      <4>2. QED
        BY <1>i, <3>0, <4>1
    <3>2. CASE c # 1
      <4>1. c \in 2 .. Len(sched_list) /\ c - 1 \in 1 .. Len(sched_list)
        BY <1>n, <2>2, <3>2
      <4>2. ins.cur.due = AddTime(sched_list[c - 1].at, ins.delay)
        BY <1>w, <3>2 DEF c
      <4>3. sched_list[c].at = AddTime(sched_list[c - 1].at, sched_list[c].delay)
            /\ sched_list[c - 1].at \in Time
        BY <1>d, <1>i, <4>1
      <4>4. QED
        BY <3>0, <4>2, <4>3
    <3>3. QED
      BY <3>1, <3>2
  <2>6. TypeOK'
    BY <2>1, <2>4 DEF Inv, TypeOK, lists, flags, phase
  <2>7. HeadIsCurrent' /\ DeltaList' /\ Timed' /\ RunsWhenDue'
    BY <2>1 DEF Inv, HeadIsCurrent, DeltaList, Timed, RunsWhenDue, InCell, phase
  <2>8. WalkInvariant'
    <3>1. sched_list' = sched_list /\ c + 1 # 1 /\ (c + 1) - 1 = c
          /\ c + 1 \in 1 .. Len(sched_list)
      BY <1>n, <2>1, <2>2
    <3>2. QED
      BY <2>2, <2>3, <2>4, <2>5, <3>1 DEF WalkInvariant
  <2>9. QED
    BY <2>6, <2>7, <2>8 DEF Inv

<1>4. CASE InsertBetween
  <2> DEFINE c == ins.ctim
             r == sched_list[c].delay - ins.delay
             old == SetDelay(sched_list, c, r)
             sl == InsertAt(old, c, new(ins.delay))
  <2>1. Inserted(sl) /\ sched_list # << >> /\ c > 1 /\ sched_list[c].delay > ins.delay
    BY <1>4 DEF InsertBetween, new
  <2>2. c \in 1 .. Len(sched_list) /\ c \in 2 .. Len(sched_list)
        /\ c - 1 \in 1 .. Len(sched_list)
    BY <1>i, <1>n, <1>w, <2>1
  <2>3. ins.delay > 0 /\ ins.cur.due = AddTime(sched_list[c - 1].at, ins.delay)
    BY <1>i, <1>w, <2>1
  <2> HIDE DEF c
  <2>4. r \in Time /\ r > 0 /\ AddTime(ins.cur.due, r) = sched_list[c].at
    <3>1. ins.delay \in Time /\ sched_list[c].delay \in Time /\ sched_list[c - 1].at \in Time
          /\ ins.delay < sched_list[c].delay
      BY <1>i, <1>n, <2>1, <2>2
    <3>2. r \in Time /\ r > 0 /\ AddTime(AddTime(sched_list[c - 1].at, ins.delay), r)
                                = AddTime(sched_list[c - 1].at, sched_list[c].delay)
      BY <3>1, AddTimeSplit
    <3>3. QED
      BY <1>d, <2>2, <2>3, <3>2
  <2> HIDE DEF r
  <2>5. /\ old \in Seq(Cell) /\ Len(old) = Len(sched_list)
        /\ \A j \in 1 .. Len(sched_list) :
             /\ old[j].delay = IF j = c THEN r ELSE sched_list[j].delay
             /\ old[j].at = sched_list[j].at /\ old[j].q = sched_list[j].q
    <3>1. sched_list \in Seq(Cell) /\ c \in 1 .. Len(sched_list) /\ r \in Time
      BY <1>i, <2>2, <2>4
    <3>2. DelaySet(old, sched_list, c, r)
      BY <3>1, SetDelayProperties
    <3> HIDE DEF old
    <3>3. QED
      BY <3>2 DEF DelaySet
  <2> HIDE DEF old
  <2>6. /\ sl \in Seq(Cell) /\ Len(sl) = Len(sched_list) + 1
        /\ \A j \in 1 .. Len(sched_list) + 1 :
             sl[j] = IF j < c THEN old[j] ELSE IF j = c THEN new(ins.delay) ELSE old[j - 1]
    <3>1. old \in Seq(Cell) /\ Len(old) = Len(sched_list) /\ c \in 1 .. Len(old)
          /\ new(ins.delay) \in Cell
      BY <1>c, <1>i, <2>2, <2>5
    <3>2. CellInserted(sl, old, c, new(ins.delay))
      BY <3>1, InsertCell, Zenon
    <3> HIDE DEF sl
    <3>3. QED
      BY <3>1, <3>2 DEF CellInserted
  <2> HIDE DEF sl
  <2>7. sched_list' = sl /\ schedule_time' = schedule_time /\ InCell' = InCell
    BY <1>u, <2>1
  <2>8. sl[1] = old[1] /\ old[1].delay = sched_list[1].delay
        /\ old[1].at = sched_list[1].at /\ sl # << >>
    BY <1>n, <2>2, <2>5, <2>6
  <2>9. HeadIsCurrent'
    BY <1>h, <2>7, <2>8 DEF HeadIsCurrent
  <2>10. DeltaList'
    <3>1. sl[1].at = AddTime(schedule_time, sl[1].delay)
      BY <1>d, <2>1, <2>8
    <3>2. ASSUME NEW k \in 2 .. Len(sl)
          PROVE  sl[k].delay > 0 /\ sl[k].at = AddTime(sl[k - 1].at, sl[k].delay)
      <4>1. k \in 1 .. Len(sched_list) + 1 /\ k - 1 \in 1 .. Len(sched_list) + 1
            /\ k - 1 \in 1 .. Len(sched_list)
        BY <1>n, <2>6
      <4>2. CASE k < c
        <5>1. k \in 2 .. Len(sched_list) /\ k \in 1 .. Len(sched_list) /\ k # c
              /\ k - 1 # c /\ k - 1 < c
          BY <1>n, <2>2, <4>1, <4>2
        <5>2. sl[k] = old[k] /\ sl[k - 1] = old[k - 1]
          BY <2>6, <4>1, <4>2, <5>1
        <5>3. /\ old[k].delay = sched_list[k].delay /\ old[k].at = sched_list[k].at
              /\ old[k - 1].at = sched_list[k - 1].at
          BY <2>5, <4>1, <5>1
        <5>4. QED
          BY <1>d, <5>1, <5>2, <5>3
      <4>3. CASE k = c
        <5>1. k - 1 < c /\ k - 1 # c
          BY <4>1, <4>3, <2>2
        <5>2. sl[k] = new(ins.delay) /\ sl[k - 1] = old[k - 1]
          BY <2>6, <4>1, <4>3, <5>1
        <5>3. QED
          <6>1. sl[k].delay = ins.delay /\ sl[k].at = ins.cur.due
            BY <1>c, <1>i, <5>2
          <6>2. sl[k - 1].at = sched_list[c - 1].at
            BY <2>5, <4>1, <4>3, <5>2
          <6>3. QED
            BY <2>3, <6>1, <6>2
      <4>4. CASE k = c + 1
        <5>1. k - 1 = c /\ ~(k < c) /\ k # c /\ ~(k - 1 < c)
          BY <2>2, <4>4
        <5>2. sl[k] = old[c] /\ sl[k - 1] = new(ins.delay)
          BY <2>6, <4>1, <5>1
        <5>3. old[c].delay = r /\ old[c].at = sched_list[c].at
          BY <2>2, <2>5
        <5>4. new(ins.delay).at = ins.cur.due
          BY <1>c, <1>i
        <5>5. sl[k].delay = r /\ sl[k].at = sched_list[c].at /\ sl[k - 1].at = ins.cur.due
          BY <5>2, <5>3, <5>4
        <5>6. QED
          BY <2>4, <5>5
      <4>5. CASE k > c + 1
        <5>1. /\ ~(k < c) /\ k # c /\ ~(k - 1 < c) /\ k - 1 # c
              /\ k - 2 \in 1 .. Len(sched_list) /\ k - 1 \in 2 .. Len(sched_list)
              /\ (k - 1) - 1 = k - 2
          BY <1>n, <2>2, <4>1, <4>5
        <5>2. sl[k] = old[k - 1] /\ sl[k - 1] = old[k - 2]
          BY <2>6, <4>1, <5>1
        <5>3. /\ old[k - 1].delay = sched_list[k - 1].delay
              /\ old[k - 1].at = sched_list[k - 1].at /\ old[k - 2].at = sched_list[k - 2].at
          BY <2>5, <4>1, <5>1
        <5>4. QED
          BY <1>d, <5>1, <5>2, <5>3
      <4>6. QED
        BY <2>2, <4>1, <4>2, <4>3, <4>4, <4>5
    <3>3. QED
      BY <2>7, <3>1, <3>2 DEF DeltaList
  <2>11. Timed'
    <3>1. ASSUME NEW k \in 1 .. Len(sl), NEW s \in SEQ, NEW i \in 1 .. Len(sl[k].q[s])
          PROVE  sl[k].q[s][i].due = sl[k].at
      <4>1. k \in 1 .. Len(sched_list) + 1
        BY <2>6
      <4>2. CASE k < c
        <5>1. k \in 1 .. Len(sched_list) /\ sl[k] = old[k]
          BY <1>n, <2>2, <2>6, <4>1, <4>2
        <5>2. QED
          BY <1>q, <2>5, <3>1, <5>1
      <4>3. CASE k = c
        BY <1>c, <1>i, <2>6, <3>1, <4>1, <4>3
      <4>4. CASE k > c
        <5>1. k - 1 \in 1 .. Len(sched_list) /\ sl[k] = old[k - 1]
          BY <1>n, <2>2, <2>6, <4>1, <4>4
        <5>2. QED
          BY <1>q, <2>5, <3>1, <5>1, SMTT(30)
      <4>5. QED
        BY <2>2, <4>1, <4>2, <4>3, <4>4
    <3>2. QED
      BY <2>7, <3>1 DEF Timed
  <2>12. QED
    BY <2>1, <2>6, <2>9, <2>10, <2>11, InsertedStep

<1>5. CASE InsertHere
  <2> DEFINE c == ins.ctim
             q == Append(sched_list[c].q[ins.cur.seq], ins.cur)
             sl == SetQueue(sched_list, c, ins.cur.seq, q)
  <2>1. Inserted(sl) /\ sched_list # << >> /\ sched_list[c].delay = ins.delay
    BY <1>5 DEF InsertHere, AtTail
  <2>2. c \in 1 .. Len(sched_list)
    BY <1>w, <2>1
  <2>3. ins.cur.due = sched_list[c].at
    <3>1. CASE c = 1
      BY <1>d, <1>w, <2>1, <3>1
    <3>2. CASE c # 1
      <4>1. c \in 2 .. Len(sched_list)
        BY <1>n, <2>2, <3>2
      <4>2. QED
        BY <1>d, <1>w, <2>1, <3>2, <4>1
    <3>3. QED
      BY <3>1, <3>2
  <2> HIDE DEF c
  <2>4. q \in Seq(Event) /\ \A i \in 1 .. Len(q) : q[i].due = sched_list[c].at
    <3> DEFINE o == sched_list[c].q[ins.cur.seq]
    <3>1. o \in Seq(Event) /\ \A i \in 1 .. Len(o) : o[i].due = sched_list[c].at
      BY <1>i, <1>q, <2>2
    <3>2. q = Append(o, ins.cur)
      OBVIOUS
    <3> HIDE DEF o, q
    <3>3. QED
      BY <1>i, <2>3, <3>1, <3>2
  <2> HIDE DEF q
  <2>5. /\ sl \in Seq(Cell) /\ Len(sl) = Len(sched_list)
        /\ \A j \in 1 .. Len(sched_list) :
             /\ sl[j].delay = sched_list[j].delay /\ sl[j].at = sched_list[j].at
             /\ \A t \in SEQ : sl[j].q[t] =
                  IF j = c /\ t = ins.cur.seq THEN q ELSE sched_list[j].q[t]
    <3>1. sched_list \in Seq(Cell) /\ c \in 1 .. Len(sched_list) /\ ins.cur.seq \in SEQ
          /\ q \in Seq(Event)
      BY <1>i, <2>2, <2>4
    <3>2. QueueSet(sl, sched_list, c, ins.cur.seq, q)
      BY <3>1, SetQueueProperties
    <3> HIDE DEF sl
    <3>3. QED
      BY <3>2 DEF QueueSet
  <2> HIDE DEF sl
  <2>6. sched_list' = sl /\ schedule_time' = schedule_time /\ InCell' = InCell
        /\ 1 \in 1 .. Len(sched_list) /\ sl # << >>
    BY <1>n, <1>u, <2>1, <2>2, <2>5
  <2>7. HeadIsCurrent'
    BY <1>h, <2>5, <2>6 DEF HeadIsCurrent
  <2>8. DeltaList'
    <3>1. sl[1].at = AddTime(schedule_time, sl[1].delay)
      BY <1>d, <2>1, <2>5, <2>6
    <3>2. ASSUME NEW k \in 2 .. Len(sl)
          PROVE  sl[k].delay > 0 /\ sl[k].at = AddTime(sl[k - 1].at, sl[k].delay)
      <4>1. k \in 2 .. Len(sched_list) /\ k \in 1 .. Len(sched_list)
            /\ k - 1 \in 1 .. Len(sched_list)
        BY <1>n, <2>5
      <4>2. QED
        BY <1>d, <2>5, <4>1
    <3>3. QED
      BY <2>6, <3>1, <3>2 DEF DeltaList
  <2>9. Timed'
    <3>1. ASSUME NEW k \in 1 .. Len(sl), NEW s \in SEQ, NEW i \in 1 .. Len(sl[k].q[s])
          PROVE  sl[k].q[s][i].due = sl[k].at
      <4>1. k \in 1 .. Len(sched_list) /\ sl[k].at = sched_list[k].at
        BY <2>5
      <4>2. CASE k = c /\ s = ins.cur.seq
        <5>1. sl[k].q[s] = q
          BY <2>5, <4>1, <4>2
        <5>2. QED
          BY <2>4, <3>1, <4>1, <4>2, <5>1
      <4>3. CASE ~(k = c /\ s = ins.cur.seq)
        <5>1. sl[k].q[s] = sched_list[k].q[s]
          BY <2>5, <4>1, <4>3
        <5>2. QED
          BY <1>q, <3>1, <4>1, <5>1
      <4>4. QED
        BY <4>2, <4>3
    <3>2. QED
      BY <2>6, <3>1 DEF Timed
  <2>10. QED
    BY <2>1, <2>5, <2>7, <2>8, <2>9, InsertedStep

<1>6. CASE InsertTail
  <2> DEFINE c == ins.ctim
             r == ins.delay - sched_list[c].delay
             sl == Append(sched_list, new(r))
  <2>1. Inserted(sl) /\ sched_list # << >> /\ c = Len(sched_list)
        /\ sched_list[c].delay < ins.delay
    BY <1>6 DEF InsertTail, new
  <2>2. c \in 1 .. Len(sched_list)
    BY <1>w, <2>1
  <2>3. r \in Time /\ r > 0 /\ ins.cur.due = AddTime(sched_list[c].at, r)
    <3>0. ASSUME NEW t \in Time
          PROVE  r \in Time /\ r > 0
                 /\ AddTime(AddTime(t, sched_list[c].delay), r) = AddTime(t, ins.delay)
      <4>1. ins.delay \in Time /\ sched_list[c].delay \in Time
        BY <1>i, <2>2
      <4>2. QED
        BY <2>1, <4>1, AddTimeSplit
    <3>1. CASE c = 1
      <4>1. ins.cur.due = AddTime(schedule_time, ins.delay)
            /\ sched_list[c].at = AddTime(schedule_time, sched_list[c].delay)
        BY <1>d, <1>w, <2>1, <3>1
      <4> HIDE DEF c, r
      <4>2. QED
        BY <1>i, <3>0, <4>1
    <3>2. CASE c # 1
      <4>1. c \in 2 .. Len(sched_list) /\ c - 1 \in 1 .. Len(sched_list)
        BY <1>n, <2>2, <3>2
      <4>2. ins.cur.due = AddTime(sched_list[c - 1].at, ins.delay)
        BY <1>w, <3>2
      <4> HIDE DEF c, r
      <4>3. sched_list[c].at = AddTime(sched_list[c - 1].at, sched_list[c].delay)
            /\ sched_list[c - 1].at \in Time
        BY <1>d, <1>i, <4>1
      <4>4. QED
        BY <3>0, <4>2, <4>3
    <3>3. QED
      BY <3>1, <3>2
  <2> HIDE DEF c, r
  <2>4. /\ sl \in Seq(Cell) /\ Len(sl) = Len(sched_list) + 1 /\ sl[Len(sched_list) + 1] = new(r)
        /\ \A j \in 1 .. Len(sched_list) : sl[j] = sched_list[j]
    BY <1>c, <1>i, <2>3
  <2> HIDE DEF sl
  <2>5. sched_list' = sl /\ schedule_time' = schedule_time /\ InCell' = InCell
        /\ 1 \in 1 .. Len(sched_list) /\ sl # << >>
    BY <1>n, <1>u, <2>1, <2>2, <2>4
  <2>6. HeadIsCurrent'
    BY <1>h, <2>4, <2>5 DEF HeadIsCurrent
  <2>7. DeltaList'
    <3>1. sl[1].at = AddTime(schedule_time, sl[1].delay)
      BY <1>d, <2>1, <2>4, <2>5
    <3>2. ASSUME NEW k \in 2 .. Len(sl)
          PROVE  sl[k].delay > 0 /\ sl[k].at = AddTime(sl[k - 1].at, sl[k].delay)
      <4>1. k \in 2 .. Len(sched_list) + 1 /\ k - 1 \in 1 .. Len(sched_list)
        BY <1>n, <2>4
      <4>2. CASE k = Len(sched_list) + 1
        <5>1. k - 1 = c
          BY <1>n, <2>1, <4>2
        <5>2. QED
          BY <1>c, <2>2, <2>3, <2>4, <4>2, <5>1
      <4>3. CASE k # Len(sched_list) + 1
        <5>1. k \in 2 .. Len(sched_list) /\ k \in 1 .. Len(sched_list)
          BY <1>n, <4>1, <4>3
        <5>2. QED
          BY <1>d, <2>4, <4>1, <5>1
      <4>4. QED
        BY <4>2, <4>3
    <3>3. QED
      BY <2>5, <3>1, <3>2 DEF DeltaList
  <2>8. Timed'
    <3>1. ASSUME NEW k \in 1 .. Len(sl), NEW s \in SEQ, NEW i \in 1 .. Len(sl[k].q[s])
          PROVE  sl[k].q[s][i].due = sl[k].at
      <4>1. CASE k = Len(sched_list) + 1
        BY <1>c, <2>3, <2>4, <3>1, <4>1
      <4>2. CASE k # Len(sched_list) + 1
        <5>1. k \in 1 .. Len(sched_list)
          BY <1>n, <2>4, <4>2
        <5>2. QED
          BY <1>q, <2>4, <3>1, <5>1
      <4>3. QED
        BY <4>1, <4>2
    <3>2. QED
      BY <2>5, <3>1 DEF Timed
  <2>9. QED
    BY <2>1, <2>4, <2>6, <2>7, <2>8, InsertedStep
<1>7. QED
  BY <1>1, <1>2, <1>3, <1>4, <1>5, <1>6 DEF Insert


-----------------------------------------------------------------------------
(***************************************************************************)
(* Every step of schedule_simulate, and every request, preserves it.       *)
(***************************************************************************)

\* Requests and signals change flags only.
LEMMA RequestStep ==
  ASSUME Inv, schedule_finish \/ schedule_stop \/ \E b \in BOOLEAN : signals_handler(b)
  PROVE  Inv'
<1> USE DEF schedule_finish, schedule_stop, signals_handler, Request, lists, phase
<1>0. /\ stop_is_finish' \in BOOLEAN /\ schedule_runnable' \in BOOLEAN
      /\ schedule_stopped_flag' \in BOOLEAN /\ schedule_single_step_flag' \in BOOLEAN
  BY Zenon DEF Inv, TypeOK
<1>n. nint' \in Nat
  BY DEF Inv, TypeOK
<1>u. UNCHANGED <<sched_list, lists, phase, schedule_time, running, ins, nev, pending, lost>>
  BY Zenon
<1>1. TypeOK'
  BY <1>0, <1>n, <1>u, Zenon DEF Inv, TypeOK
<1>2. HeadIsCurrent' /\ RunsWhenDue' /\ UNCHANGED <<sched_list, schedule_time, ins>>
  BY DEF Inv, HeadIsCurrent, RunsWhenDue, InCell
<1>3. QED
  BY <1>1, <1>2, Framed

\* A step of the loop that only changes where it is.
LEMMA GotoStep ==
  ASSUME Inv, NEW l \in PCs, Goto(l), running = Nil, sim_started' \in BOOLEAN,
         run_finals' \in BOOLEAN,
         l \in {"start", "dispatch"} => sched_list # << >> /\ sched_list[1].delay = 0,
         l \notin {"NextSimTime", "rosync", "del_thr"}
  PROVE  Inv'
<1> USE DEF Goto, lists, flags
<1>1. TypeOK'
  BY DEF Inv, TypeOK
<1>2. sched_list # << >> /\ sched_list[1].delay = 0 => sched_list[1].at = schedule_time
  BY AddTimeZero DEF Inv, TypeOK, DeltaList
<1>3. HeadIsCurrent'
  BY <1>2 DEF HeadIsCurrent, InCell
<1>4. RunsWhenDue'
  BY DEF RunsWhenDue
<1>5. QED
  BY <1>1, <1>3, <1>4, Framed

\* The loop takes an event from a queue of the current cell.
LEMMA RunFromCellStep ==
  ASSUME Inv, NEW s \in SEQ, RunFromCell(s), InCell, ins = Nil,
         schedule_stopped_flag' \in BOOLEAN, schedule_single_step_flag' \in BOOLEAN
  PROVE  Inv'
<1> DEFINE q == sched_list[1].q[s]
<1>1. /\ q # << >> /\ running' = Head(q) /\ sched_list' = SetQueue(sched_list, 1, s, Tail(q))
      /\ pending' = pending \ {Head(q)}
      /\ UNCHANGED <<lists, phase, schedule_time, schedule_runnable, stop_is_finish,
                     ins, nev, nint, lost>>
  BY DEF RunFromCell
<1>2. sched_list # << >> /\ sched_list[1].at = schedule_time
  BY DEF Inv, HeadIsCurrent
<1>3. sched_list \in Seq(Cell) /\ 1 \in 1 .. Len(sched_list) /\ sched_list[1] \in Cell
  BY <1>2 DEF Inv, TypeOK
<1>4. q \in Seq(Event) /\ \A i \in 1 .. Len(q) : q[i].due = sched_list[1].at
  BY <1>3 DEF Inv, Timed, Cell
<1> HIDE DEF q
<1>5. /\ Head(q) \in Event /\ Head(q).due = sched_list[1].at
      /\ Tail(q) \in Seq(Event) /\ \A i \in 1 .. Len(Tail(q)) : Tail(q)[i].due = sched_list[1].at
  <2>1. Len(q) \in Nat \ {0} /\ Head(q) = q[1] /\ Tail(q) \in Seq(Event)
        /\ Len(Tail(q)) = Len(q) - 1 /\ \A i \in 1 .. Len(Tail(q)) : Tail(q)[i] = q[i + 1]
    BY <1>1, <1>4
  <2>2. \A i \in 1 .. Len(Tail(q)) : i + 1 \in 1 .. Len(q)
    BY <2>1
  <2>3. QED
    BY <1>4, <2>1, <2>2
<1>6. TypeOK'
  <2>q. QueueSet(sched_list', sched_list, 1, s, Tail(q))
    BY <1>1, <1>3, <1>5, SetQueueProperties
  <2>1. sched_list' \in Seq(Cell)
    BY <2>q DEF QueueSet
  <2>2. QED
    BY <1>1, <1>5, <2>1 DEF Inv, TypeOK, lists, phase
<1>7. RunsWhenDue' /\ (InCell' => InCell)
  BY <1>1, <1>2, <1>5 DEF RunsWhenDue
<1>8. QED
  BY <1>1, <1>2, <1>5, <1>6, <1>7, QueueReplaced

\* Each step of schedule_simulate.
LEMMA LoopStep == ASSUME Inv, Loop PROVE Inv'
<1> USE DEF At
<1>p. /\ \A b \in BOOLEAN : b \in BOOLEAN
      /\ schedule_runnable \in BOOLEAN /\ sim_started \in BOOLEAN /\ run_finals \in BOOLEAN
      /\ schedule_stopped_flag \in BOOLEAN /\ schedule_single_step_flag \in BOOLEAN
  BY DEF Inv, TypeOK
<1>h. InCell => sched_list # << >> /\ sched_list[1].delay = 0
                /\ sched_list[1].at = schedule_time
  BY DEF Inv, HeadIsCurrent
<1>1. CASE Simulate \/ EndOfCompileDone \/ InitDone \/ StartOfSimDone \/ PrestartDone
           \/ FinalDone \/ PostsimDone \/ StopInteract
  BY <1>1, <1>p, GotoStep
  DEF Simulate, EndOfCompileDone, InitDone, StartOfSimDone, PrestartDone, FinalDone,
      PostsimDone, StopInteract, PCs
<1>2. CASE NextSimTimeDone \/ StartDone \/ SameTime
  <2>1. CASE NextSimTimeDone \/ StartDone
    BY <1>p, <1>h, <2>1, GotoStep DEF NextSimTimeDone, StartDone, PCs, InCell
  <2>2. CASE SameTime
    BY <1>p, <2>2, GotoStep DEF SameTime, Looping, PCs
  <2>3. QED
    BY <1>2, <2>1, <2>2
<1>3. CASE RunInit \/ RunPrestart \/ RunFinal
  <2> USE DEF RunInit, RunPrestart, RunFinal, RunFromList, flags, phase
  <2>1. /\ \A q \in Seq(Event) : q # << >> => Head(q) \in Event /\ Tail(q) \in Seq(Event)
        /\ schedule_init_list \in Seq(Event) /\ schedule_prestart_list \in Seq(Event)
        /\ schedule_final_list \in Seq(Event)
    BY DEF Inv, TypeOK
  <2>2. running' \in Event /\ schedule_init_list' \in Seq(Event)
        /\ schedule_prestart_list' \in Seq(Event) /\ schedule_final_list' \in Seq(Event)
    BY <1>3, <2>1
  <2>3. TypeOK'
    BY <1>3, <2>2 DEF Inv, TypeOK
  <2>4. ~InCell /\ ~InCell' /\ UNCHANGED <<sched_list, schedule_time, ins>>
    BY <1>3 DEF InCell
  <2>5. QED
    BY <2>3, <2>4, Framed DEF HeadIsCurrent, RunsWhenDue
<1>4. CASE Return
  <2> USE DEF Return, lists, flags, phase
  <2>1. TypeOK'
    BY <1>4 DEF Inv, TypeOK, PCs
  <2>2. HeadIsCurrent' /\ RunsWhenDue'
    BY <1>4 DEF Inv, HeadIsCurrent, RunsWhenDue, InCell
  <2>3. QED
    BY <1>4, <2>1, <2>2, Framed
<1>5. CASE StopIsFinish \/ Stop \/ LoopDone
           \/ \E cmd \in {"cont", "finish", "step"} : StopHandlerReturns(cmd)
  <2> USE DEF StopIsFinish, Stop, LoopDone, StopHandlerReturns, Looping, lists, flags, phase
  <2>t. TypeOK
    BY DEF Inv
  <2>1. TypeOK'
    <3>1. CASE StopIsFinish \/ Stop
      BY <2>t, <3>1 DEF TypeOK, PCs
    <3>2. CASE LoopDone
      BY <2>t, <3>2 DEF TypeOK, PCs
    <3>3. ASSUME NEW cmd \in {"cont", "finish", "step"}, StopHandlerReturns(cmd)
          PROVE  TypeOK'
      BY <2>t, <3>3 DEF TypeOK, PCs
    <3>4. QED
      BY <1>5, <3>1, <3>2, <3>3
  <2>2. ~InCell' /\ UNCHANGED <<sched_list, schedule_time, ins>>
    BY <1>5 DEF InCell
  <2>3. QED
    BY <2>1, <2>2, Framed DEF HeadIsCurrent, RunsWhenDue
<1>6. CASE BeginRosync \/ EndRosync
  <2> USE DEF BeginRosync, EndRosync, lists, flags
  <2>t. TypeOK
    BY DEF Inv
  <2>1. TypeOK'
    <3>1. CASE BeginRosync
      BY <2>t, <3>1 DEF TypeOK, PCs
    <3>2. CASE EndRosync
      BY <2>t, <3>2 DEF TypeOK, PCs
    <3>3. QED
      BY <1>6, <3>1, <3>2
  <2>2. InCell /\ running' = Nil /\ UNCHANGED <<sched_list, schedule_time, ins>>
    BY <1>6 DEF InCell
  <2>3. QED
    BY <1>h, <2>1, <2>2, Framed DEF HeadIsCurrent, RunsWhenDue
<1>7. CASE RunStart \/ RunActive \/ RunRosync
  <2>1. InCell /\ ins = Nil /\ {"start", "active", "rosync"} \subseteq SEQ
        /\ schedule_stopped_flag' \in BOOLEAN /\ schedule_single_step_flag' \in BOOLEAN
    BY <1>7, <1>p DEF RunStart, RunActive, RunRosync, InCell, SEQ
  <2>2. QED
    BY <1>7, <2>1, RunFromCellStep DEF RunStart, RunActive, RunRosync
<1>8. CASE AdvanceTime
  <2>1. /\ sched_list # << >> /\ running' = Nil /\ ins = Nil
        /\ schedule_time' = AddTime(schedule_time, sched_list[1].delay)
        /\ sched_list' = SetDelay(sched_list, 1, 0) /\ ins' = ins
    BY <1>8 DEF AdvanceTime, Looping
  <2>2. sched_list \in Seq(Cell) /\ 1 \in 1 .. Len(sched_list) /\ sched_list[1] \in Cell
        /\ 0 \in Time /\ schedule_time \in Time
    BY <2>1, AddTimeZero DEF Inv, TypeOK
  <2>3. /\ sched_list' \in Seq(Cell) /\ Len(sched_list') = Len(sched_list)
        /\ \A j \in 1 .. Len(sched_list) :
             /\ sched_list'[j].delay = IF j = 1 THEN 0 ELSE sched_list[j].delay
             /\ sched_list'[j].at = sched_list[j].at /\ sched_list'[j].q = sched_list[j].q
    <3>1. DelaySet(sched_list', sched_list, 1, 0)
      BY <2>1, <2>2, SetDelayProperties
    <3>2. QED
      BY <3>1 DEF DelaySet
  <2>4. schedule_time' = sched_list[1].at /\ schedule_time' \in Time
    <3>1. sched_list[1].at \in Time
      BY <2>2 DEF Cell
    <3>2. QED
      BY <2>1, <3>1 DEF Inv, DeltaList
  <2>5. TypeOK'
    BY <1>8, <2>3, <2>4 DEF AdvanceTime, Inv, TypeOK, PCs, lists, flags
  <2>6. HeadIsCurrent'
    BY <2>2, <2>3, <2>4 DEF HeadIsCurrent
  <2>7. DeltaList'
    <3>1. sched_list'[1].at = AddTime(schedule_time', sched_list'[1].delay)
      BY <2>2, <2>3, <2>4, AddTimeZero
    <3>2. ASSUME NEW k \in 2 .. Len(sched_list')
          PROVE  /\ sched_list'[k].delay > 0
                 /\ sched_list'[k].at = AddTime(sched_list'[k - 1].at, sched_list'[k].delay)
      <4>1. k \in 2 .. Len(sched_list) /\ k \in 1 .. Len(sched_list) /\ k # 1
            /\ k - 1 \in 1 .. Len(sched_list)
        BY <2>2, <2>3
      <4>2. QED
        BY <2>3, <4>1 DEF Inv, DeltaList
    <3>3. QED
      BY <3>1, <3>2 DEF DeltaList
  <2>8. Timed'
    BY <2>3 DEF Inv, Timed
  <2>9. WalkInvariant' /\ RunsWhenDue'
    BY <2>1 DEF WalkInvariant, RunsWhenDue
  <2>10. QED
    BY <2>5, <2>6, <2>7, <2>8, <2>9 DEF Inv
<1>9. CASE RunDelThr
  <2> DEFINE q == sched_list[1].q["del_thr"]
  <2>1. /\ InCell /\ ins = Nil /\ running = Nil /\ q # << >>
        /\ sched_list' = SetQueue(sched_list, 1, "del_thr", Tail(q))
        /\ UNCHANGED <<lists, flags, phase, schedule_time, running, ins, nev, nint, lost>>
        /\ pending' \subseteq pending
    BY <1>9 DEF RunDelThr, InCell
  <2>2. sched_list \in Seq(Cell) /\ 1 \in 1 .. Len(sched_list) /\ sched_list[1] \in Cell
        /\ "del_thr" \in SEQ /\ sched_list # << >>
    BY <1>h, <2>1 DEF Inv, TypeOK, SEQ
  <2>3. q \in Seq(Event) /\ \A i \in 1 .. Len(q) : q[i].due = sched_list[1].at
    BY <2>2 DEF Inv, Timed, Cell
  <2> HIDE DEF q
  <2>4. Tail(q) \in Seq(Event) /\ \A i \in 1 .. Len(Tail(q)) : Tail(q)[i].due = sched_list[1].at
    <3>1. Len(q) \in Nat \ {0} /\ Tail(q) \in Seq(Event)
          /\ Len(Tail(q)) = Len(q) - 1 /\ \A i \in 1 .. Len(Tail(q)) : Tail(q)[i] = q[i + 1]
      BY <2>1, <2>3
    <3>2. \A i \in 1 .. Len(Tail(q)) : i + 1 \in 1 .. Len(q)
      BY <3>1
    <3>3. QED
      BY <2>3, <3>1, <3>2
  <2>5. TypeOK'
    <3>q. QueueSet(sched_list', sched_list, 1, "del_thr", Tail(q))
      BY <2>1, <2>2, <2>4, SetQueueProperties
    <3>1. sched_list' \in Seq(Cell)
      BY <3>q DEF QueueSet
    <3>2. QED
      BY <2>1, <3>1 DEF Inv, TypeOK, lists, flags, phase
  <2>6. RunsWhenDue'
    BY <2>1 DEF RunsWhenDue
  <2>7. QED
    BY <2>1, <2>2, <2>4, <2>5, <2>6, QueueReplaced
<1>10. CASE Promote
  <2>1. PICK i \in 1 .. 3 :
          /\ sched_list[1].q[PromoteOrder[i]] # << >>
          /\ sched_list' = SetQueue(SetQueue(sched_list, 1, "active",
                                             sched_list[1].q[PromoteOrder[i]]),
                                    1, PromoteOrder[i], << >>)
    BY <1>10 DEF Promote
  <2> DEFINE s == PromoteOrder[i]
             q == sched_list[1].q[s]
             mid == SetQueue(sched_list, 1, "active", q)
  <2>2. /\ InCell /\ ins = Nil /\ running = Nil /\ sched_list # << >>
        /\ UNCHANGED <<lists, flags, phase, schedule_time, running, ins, nev, nint,
                       pending, lost>>
    BY <1>10, <1>h DEF Promote, InCell
  <2>3. s \in SEQ /\ s # "active" /\ "active" \in SEQ
    BY DEF PromoteOrder, SEQ
  <2>4. sched_list \in Seq(Cell) /\ 1 \in 1 .. Len(sched_list) /\ sched_list[1] \in Cell
    BY <2>2 DEF Inv, TypeOK
  <2>5. q \in Seq(Event) /\ \A m \in 1 .. Len(q) : q[m].due = sched_list[1].at
    BY <2>3, <2>4 DEF Inv, Timed, Cell
  <2>6. sched_list' = SetQueue(mid, 1, s, << >>)
    BY <2>1
  <2> HIDE DEF s, q
  <2>7. /\ mid \in Seq(Cell) /\ Len(mid) = Len(sched_list)
        /\ \A j \in 1 .. Len(sched_list) :
             /\ mid[j].delay = sched_list[j].delay /\ mid[j].at = sched_list[j].at
             /\ \A t \in SEQ : mid[j].q[t] =
                  IF j = 1 /\ t = "active" THEN q ELSE sched_list[j].q[t]
    <3>1. QueueSet(mid, sched_list, 1, "active", q)
      BY <2>3, <2>4, <2>5, SetQueueProperties
    <3> HIDE DEF mid
    <3>2. QED
      BY <3>1 DEF QueueSet
  <2> HIDE DEF mid
  <2>8. << >> \in Seq(Event) /\ 1 \in 1 .. Len(mid) /\ Len(mid) = Len(sched_list)
    BY <2>4, <2>7
  <2>9. /\ sched_list' \in Seq(Cell) /\ Len(sched_list') = Len(mid)
        /\ \A j \in 1 .. Len(mid) :
             /\ sched_list'[j].delay = mid[j].delay /\ sched_list'[j].at = mid[j].at
             /\ \A t \in SEQ : sched_list'[j].q[t] =
                  IF j = 1 /\ t = s THEN << >> ELSE mid[j].q[t]
    <3> DEFINE none == << >>
    <3>1. none \in Seq(Event) /\ sched_list' = SetQueue(mid, 1, s, none)
          /\ mid \in Seq(Cell) /\ 1 \in 1 .. Len(mid) /\ s \in SEQ
      BY <2>3, <2>6, <2>7, <2>8
    <3> HIDE DEF none
    <3>2. QueueSet(sched_list', mid, 1, s, none)
      BY <3>1, SetQueueProperties
    <3>3. QED
      BY <3>2 DEF QueueSet, none
  <2>10. TypeOK'
    BY <2>2, <2>9 DEF Inv, TypeOK, lists, flags, phase
  <2>11. HeadIsCurrent'
    BY <1>h, <2>2, <2>4, <2>7, <2>8, <2>9 DEF HeadIsCurrent
  <2>12. DeltaList'
    <3>1. sched_list'[1].at = AddTime(schedule_time', sched_list'[1].delay)
      BY <2>2, <2>4, <2>7, <2>8, <2>9 DEF Inv, DeltaList
    <3>2. ASSUME NEW k \in 2 .. Len(sched_list')
          PROVE  /\ sched_list'[k].delay > 0
                 /\ sched_list'[k].at = AddTime(sched_list'[k - 1].at, sched_list'[k].delay)
      <4>1. k \in 2 .. Len(sched_list) /\ k \in 1 .. Len(sched_list)
            /\ k - 1 \in 1 .. Len(sched_list)
        BY <2>4, <2>8, <2>9
      <4>2. /\ sched_list'[k].delay = sched_list[k].delay
            /\ sched_list'[k].at = sched_list[k].at
            /\ sched_list'[k - 1].at = sched_list[k - 1].at
        BY <2>7, <2>8, <2>9, <4>1
      <4>3. QED
        BY <4>1, <4>2 DEF Inv, DeltaList
    <3>3. QED
      BY <3>1, <3>2 DEF DeltaList
  <2>13. Timed'
    <3>1. ASSUME NEW k \in 1 .. Len(sched_list'), NEW t \in SEQ,
                 NEW m \in 1 .. Len(sched_list'[k].q[t])
          PROVE  sched_list'[k].q[t][m].due = sched_list'[k].at
      <4>1. k \in 1 .. Len(sched_list) /\ sched_list'[k].at = sched_list[k].at
        BY <2>7, <2>8, <2>9
      <4>2. CASE k = 1 /\ t = s
        <5>1. sched_list'[k].q[t] = << >>
          BY <2>8, <2>9, <4>1, <4>2
        <5>2. QED
          BY <3>1, <5>1
      <4>3. CASE k = 1 /\ t = "active"
        <5>1. sched_list'[k].q[t] = q
          BY <2>3, <2>7, <2>8, <2>9, <4>1, <4>3
        <5>2. QED
          BY <2>5, <3>1, <4>1, <4>3, <5>1
      <4>4. CASE ~(k = 1 /\ t = s) /\ ~(k = 1 /\ t = "active")
        <5>1. sched_list'[k].q[t] = sched_list[k].q[t]
          BY <2>7, <2>8, <2>9, <4>1, <4>4
        <5>2. QED
          BY <3>1, <4>1, <5>1 DEF Inv, Timed
      <4>5. QED
        BY <4>2, <4>3, <4>4
    <3>2. QED
      BY <3>1 DEF Timed
  <2>14. WalkInvariant' /\ RunsWhenDue'
    BY <2>2 DEF WalkInvariant, RunsWhenDue
  <2>15. QED
    BY <2>10, <2>11, <2>12, <2>13, <2>14 DEF Inv
<1>11. CASE ReleaseCell
  <2>1. /\ InCell /\ ~InCell' /\ ins = Nil /\ running = Nil
        /\ sched_list' = Tail(sched_list) /\ ins' = ins /\ running' = running
        /\ schedule_time' = schedule_time
    BY <1>11 DEF ReleaseCell, InCell
  <2>2. sched_list \in Seq(Cell) /\ sched_list # << >> /\ sched_list[1] \in Cell
        /\ sched_list[1].at = schedule_time
    BY <1>h, <2>1 DEF Inv, TypeOK
  <2>3. /\ sched_list' \in Seq(Cell) /\ Len(sched_list') = Len(sched_list) - 1
        /\ \A j \in 1 .. Len(sched_list') : sched_list'[j] = sched_list[j + 1]
        /\ Len(sched_list) \in Nat
    BY <2>1, <2>2
  <2>4. CellEvents(sched_list[1]) \subseteq Event
    BY <2>2 DEF CellEvents, Cell
  <2>5. TypeOK'
    BY <1>11, <2>3, <2>4 DEF ReleaseCell, RwEvents, Inv, TypeOK, PCs, lists, flags
  <2>6. DeltaList'
    <3>1. ASSUME sched_list' # << >>
          PROVE  sched_list'[1].at = AddTime(schedule_time', sched_list'[1].delay)
      <4>1. 1 \in 1 .. Len(sched_list') /\ 2 \in 2 .. Len(sched_list)
        BY <2>3, <3>1
      <4>2. sched_list'[1] = sched_list[2]
        BY <2>3, <4>1
      <4>3. sched_list[2].at = AddTime(sched_list[2 - 1].at, sched_list[2].delay)
        BY <4>1 DEF Inv, DeltaList
      <4>4. 2 - 1 = 1
        OBVIOUS
      <4>5. QED
        BY <2>1, <2>2, <4>2, <4>3, <4>4
    <3>2. ASSUME NEW k \in 2 .. Len(sched_list')
          PROVE  /\ sched_list'[k].delay > 0
                 /\ sched_list'[k].at = AddTime(sched_list'[k - 1].at, sched_list'[k].delay)
      <4>1. k + 1 \in 2 .. Len(sched_list) /\ (k + 1) - 1 = k /\ (k - 1) + 1 = k
            /\ k \in 1 .. Len(sched_list') /\ k - 1 \in 1 .. Len(sched_list')
        BY <2>3
      <4>2. sched_list'[k] = sched_list[k + 1] /\ sched_list'[k - 1] = sched_list[k]
        BY <2>3, <4>1
      <4>3. QED
        BY <4>1, <4>2 DEF Inv, DeltaList
    <3>3. QED
      BY <3>1, <3>2 DEF DeltaList
  <2>7. Timed'
    <3>1. \A k \in 1 .. Len(sched_list') : k + 1 \in 1 .. Len(sched_list)
      BY <2>3
    <3>2. QED
      BY <2>3, <3>1 DEF Inv, Timed
  <2>8. HeadIsCurrent' /\ WalkInvariant' /\ RunsWhenDue'
    BY <2>1 DEF HeadIsCurrent, WalkInvariant, RunsWhenDue
  <2>9. QED
    BY <2>5, <2>6, <2>7, <2>8 DEF Inv
<1>12. QED
  BY <1>1, <1>2, <1>3, <1>4, <1>5, <1>6, <1>7, <1>8, <1>9, <1>10, <1>11 DEF Loop

-----------------------------------------------------------------------------
\* The invariant holds throughout every run of the scheduler.
THEOREM Invariance == Spec => []Inv
<1>1. Init => Inv
  <2>1. 0 \in Time
    BY TimeAssumption DEF Time
  <2>2. Init => TypeOK
    <3> SUFFICES ASSUME Init PROVE TypeOK
      OBVIOUS
    <3>1. << >> \in Seq(Cell) /\ << >> \in Seq(Event) /\ 0 \in Nat /\ "compile" \in PCs
      BY DEF PCs
    <3>2. QED
      BY <2>1, <3>1, StoppedAssumption, Zenon DEF Init, TypeOK
  <2>3. Init => HeadIsCurrent /\ DeltaList /\ Timed /\ WalkInvariant /\ RunsWhenDue
    BY DEF Init, HeadIsCurrent, InCell, DeltaList, Timed, WalkInvariant, RunsWhenDue
  <2>4. QED
    BY <2>2, <2>3 DEF Inv
<1>2. Inv /\ [Next]_vars => Inv'
  <2> SUFFICES ASSUME Inv, [Next]_vars PROVE Inv'
    OBVIOUS
  <2>1. CASE Schedule
    BY <2>1, ScheduleStep
  <2>2. CASE Insert
    <3>1. ins # Nil
      BY <2>2 DEF Insert, InsertFirst, InsertFront, WalkNext, InsertBetween, InsertHere,
                  InsertTail
    <3>2. QED
      BY <2>2, <3>1, InsertStep
  <2>3. CASE schedule_finish \/ schedule_stop \/ \E b \in BOOLEAN : signals_handler(b)
    BY <2>3, RequestStep
  <2>4. CASE Loop
    BY <2>4, LoopStep
  <2>5. CASE UNCHANGED vars
    BY <2>5, Framed
    DEF vars, lists, flags, phase, Inv, TypeOK, HeadIsCurrent, RunsWhenDue, InCell
  <2>6. QED
    BY <2>1, <2>2, <2>3, <2>4, <2>5 DEF Next, Terminated
<1>3. QED
  BY <1>1, <1>2, PTL DEF Spec

\* Every variable of the scheduler keeps its type.
THEOREM TypeCorrect == Spec => []TypeOK
<1>1. Inv => TypeOK
  BY DEF Inv
<1>2. QED
  BY <1>1, Invariance, PTL

\* The cell the loop works on through ctim stays the head of the list.
THEOREM HeadStaysCurrent == Spec => []HeadIsCurrent
<1>1. Inv => HeadIsCurrent
  BY DEF Inv
<1>2. QED
  BY <1>1, Invariance, PTL

\* schedule_event_ and the loop keep the list of time differences right.
THEOREM DeltaListCorrect == Spec => []DeltaList
<1>1. Inv => DeltaList
  BY DEF Inv
<1>2. QED
  BY <1>1, Invariance, PTL

\* Every event of the queue is run at the time it was scheduled for.
THEOREM EventsRunWhenDue == Spec => []RunsWhenDue
<1>1. Inv => RunsWhenDue
  BY DEF Inv
<1>2. QED
  BY <1>1, Invariance, PTL

-----------------------------------------------------------------------------
(***************************************************************************)
(* The order of events and the refinement.  The list of cells is described *)
(* by predicates on lists; a step of the program changes the list in one   *)
(* of six ways, each with a lemma of its own.                              *)
(***************************************************************************)

(***************************************************************************)
(* Times.                                                                  *)
(***************************************************************************)

\* How far ahead of now the time t is.
Ahead(now, t) == IF t >= now THEN t - now ELSE t - now + TimeMod

\* A time that is a delay ahead, and the time itself.
LEMMA AheadOfNow ==
  ASSUME NEW now \in Time, NEW d \in Time
  PROVE  /\ Ahead(now, AddTime(now, d)) = d
         /\ \A t \in Time : Ahead(now, t) \in Time /\ (Ahead(now, t) = 0 <=> t = now)
  BY TimeAssumption DEF Time, AddTime, Ahead

\* Delays add up as long as they do not go round.
LEMMA AheadAdds ==
  ASSUME NEW now \in Time, NEW a \in Time, NEW d \in Time
  PROVE  /\ Ahead(now, AddTime(a, d)) > Ahead(now, a) =>
              Ahead(now, AddTime(a, d)) = Ahead(now, a) + d
         /\ Ahead(now, a) + d < TimeMod =>
              Ahead(now, AddTime(a, d)) = Ahead(now, a) + d
  BY TimeAssumption DEF Time, AddTime, Ahead

\* Distances from a later time.
LEMMA AheadFromLater ==
  ASSUME NEW now \in Time, NEW a \in Time, NEW b \in Time, Ahead(now, a) <= Ahead(now, b)
  PROVE  Ahead(a, b) = Ahead(now, b) - Ahead(now, a)
  BY TimeAssumption DEF Time, Ahead

-----------------------------------------------------------------------------
(***************************************************************************)
(* Queues and cells.                                                       *)
(***************************************************************************)

\* The events of a queue.
Elems(q) == {q[i] : i \in 1 .. Len(q)}

\* Events that were pushed come first, the latest first; the others follow in
\* the order they were scheduled.
Sorted(q) ==
  \A i, j \in 1 .. Len(q) : i < j =>
    /\ ~q[i].push /\ ~q[j].push => q[i].id < q[j].id
    /\ q[j].push => q[i].push /\ q[i].id > q[j].id

\* What the operations on queues do to their events.
LEMMA EmptyQueue == Elems(<< >>) = {} /\ Sorted(<< >>)
  BY DEF Elems, Sorted

\* A queue of one event.
LEMMA SingleQueue == ASSUME NEW e \in Event PROVE Elems(<<e>>) = {e} /\ Sorted(<<e>>)
  BY DEF Elems, Sorted

\* Appending the newest event.
LEMMA AppendedQueue ==
  ASSUME NEW q \in Seq(Event), NEW e \in Event, Sorted(q), ~e.push,
         \A f \in Elems(q) : f.id < e.id
  PROVE  Elems(Append(q, e)) = Elems(q) \cup {e} /\ Sorted(Append(q, e))
<1> DEFINE a == Append(q, e)
<1>1. /\ Len(a) = Len(q) + 1 /\ Len(q) \in Nat
      /\ \A i \in 1 .. Len(q) : a[i] = q[i] /\ a[Len(q) + 1] = e
      /\ a[Len(q) + 1] = e
  OBVIOUS
<1>2. Elems(a) = Elems(q) \cup {e}
  <2> HIDE DEF a
  <2>1. \A i \in 1 .. Len(a) : i \in 1 .. Len(q) \/ i = Len(q) + 1
    BY <1>1
  <2>2. Len(q) + 1 \in 1 .. Len(a) /\ \A i \in 1 .. Len(q) : i \in 1 .. Len(a)
    BY <1>1
  <2>3. QED
    BY <1>1, <2>1, <2>2 DEF Elems
<1>3. Sorted(a)
  <2> HIDE DEF a
  <2>1. ASSUME NEW i \in 1 .. Len(a), NEW j \in 1 .. Len(a), i < j
        PROVE  /\ ~a[i].push /\ ~a[j].push => a[i].id < a[j].id
               /\ a[j].push => a[i].push /\ a[i].id > a[j].id
    <3>1. i \in 1 .. Len(q) /\ (j \in 1 .. Len(q) \/ j = Len(q) + 1)
      BY <1>1, <2>1
    <3>2. a[i] = q[i] /\ q[i] \in Elems(q)
      BY <1>1, <3>1 DEF Elems
    <3>3. CASE j \in 1 .. Len(q)
      BY <1>1, <2>1, <3>1, <3>3 DEF Sorted
    <3>4. CASE j = Len(q) + 1
      BY <1>1, <3>2, <3>4
    <3>5. QED
      BY <3>1, <3>3, <3>4
  <2>2. QED
    BY <2>1 DEF Sorted
<1>4. QED
  BY <1>2, <1>3

\* Pushing the newest event.
LEMMA PushedQueue ==
  ASSUME NEW q \in Seq(Event), NEW e \in Event, Sorted(q), e.push,
         \A f \in Elems(q) : f.id < e.id
  PROVE  Elems(<<e>> \o q) = Elems(q) \cup {e} /\ Sorted(<<e>> \o q)
<1> DEFINE a == <<e>> \o q
<1>1. /\ Len(a) = Len(q) + 1 /\ Len(q) \in Nat /\ a[1] = e
      /\ \A i \in 2 .. Len(q) + 1 : a[i] = q[i - 1]
  OBVIOUS
<1>2. \A i \in 1 .. Len(a) : i = 1 \/ (i \in 2 .. Len(q) + 1 /\ i - 1 \in 1 .. Len(q))
  BY <1>1
<1>3. Elems(a) = Elems(q) \cup {e}
  <2> HIDE DEF a
  <2>1. \A i \in 1 .. Len(q) : i + 1 \in 2 .. Len(q) + 1 /\ (i + 1) - 1 = i /\ i + 1 \in 1 .. Len(a)
    BY <1>1
  <2>2. \A i \in 1 .. Len(q) : a[i + 1] = q[i]
    BY <1>1, <2>1
  <2>3. 1 \in 1 .. Len(a)
    BY <1>1
  <2>4. Elems(a) \subseteq Elems(q) \cup {e}
    BY <1>1, <1>2 DEF Elems
  <2>5. Elems(q) \cup {e} \subseteq Elems(a)
    BY <1>1, <2>1, <2>2, <2>3 DEF Elems
  <2>6. QED
    BY <2>4, <2>5
<1>4. Sorted(a)
  <2> HIDE DEF a
  <2>1. ASSUME NEW i \in 1 .. Len(a), NEW j \in 1 .. Len(a), i < j
        PROVE  /\ ~a[i].push /\ ~a[j].push => a[i].id < a[j].id
               /\ a[j].push => a[i].push /\ a[i].id > a[j].id
    <3>1. j \in 2 .. Len(q) + 1 /\ j - 1 \in 1 .. Len(q) /\ a[j] = q[j - 1]
      BY <1>1, <1>2, <2>1
    <3>2. CASE i = 1
      <4>1. q[j - 1] \in Elems(q) /\ q[j - 1] \in Event
        BY <3>1 DEF Elems
      <4>2. q[j - 1].id < e.id /\ q[j - 1].id \in Nat /\ e.id \in Nat
        BY <4>1 DEF Event
      <4>3. QED
        BY <1>1, <3>1, <3>2, <4>2
    <3>3. CASE i # 1
      <4>1. i - 1 \in 1 .. Len(q) /\ a[i] = q[i - 1] /\ i - 1 < j - 1
        BY <1>1, <1>2, <2>1, <3>3
      <4>2. QED
        BY <3>1, <4>1 DEF Sorted
    <3>4. QED
      BY <3>2, <3>3
  <2>2. QED
    BY <2>1 DEF Sorted
<1>5. QED
  BY <1>3, <1>4

\* Taking the first event: it is in the queue once.
LEMMA TakenQueue ==
  ASSUME NEW q \in Seq(Event), Sorted(q), q # << >>
  PROVE  /\ Tail(q) \in Seq(Event) /\ Head(q) \in Event
         /\ Elems(Tail(q)) = Elems(q) \ {Head(q)} /\ Head(q) \in Elems(q)
         /\ Sorted(Tail(q))
<1>1. /\ Len(q) \in Nat \ {0} /\ Head(q) = q[1] /\ Tail(q) \in Seq(Event)
      /\ Len(Tail(q)) = Len(q) - 1 /\ \A i \in 1 .. Len(Tail(q)) : Tail(q)[i] = q[i + 1]
  OBVIOUS
<1>2. /\ \A i \in 1 .. Len(Tail(q)) : i + 1 \in 1 .. Len(q) /\ 1 < i + 1
      /\ \A i \in 1 .. Len(q) : i # 1 => i - 1 \in 1 .. Len(Tail(q)) /\ (i - 1) + 1 = i
      /\ 1 \in 1 .. Len(q)
  BY <1>1
<1>3. Head(q) \in Event /\ Head(q) \in Elems(q)
  BY <1>1, <1>2 DEF Elems
<1>4. ASSUME NEW i \in 1 .. Len(Tail(q)) PROVE Tail(q)[i] \in Elems(q) \ {Head(q)}
  <2>1. i + 1 \in 1 .. Len(q) /\ 1 < i + 1 /\ 1 \in 1 .. Len(q)
    BY <1>2
  <2>2. q[1].id \in Nat
    <3>1. q[1] \in Event
      BY <2>1
    <3>2. QED
      BY <3>1 DEF Event
  <2>3. /\ ~q[1].push /\ ~q[i + 1].push => q[1].id < q[i + 1].id
        /\ q[i + 1].push => q[1].push /\ q[1].id > q[i + 1].id
    BY <2>1 DEF Sorted
  <2>4. q[i + 1] # q[1]
    BY <2>2, <2>3
  <2>5. QED
    BY <1>1, <2>1, <2>4 DEF Elems
<1>5. ASSUME NEW i \in 1 .. Len(q), q[i] # Head(q) PROVE q[i] \in Elems(Tail(q))
  <2>1. i # 1 /\ i - 1 \in 1 .. Len(Tail(q)) /\ Tail(q)[i - 1] = q[i]
    BY <1>1, <1>2, <1>5
  <2>2. QED
    BY <2>1 DEF Elems
<1>6. Elems(Tail(q)) = Elems(q) \ {Head(q)}
  BY <1>4, <1>5 DEF Elems
<1>7. Sorted(Tail(q))
  <2>1. ASSUME NEW i \in 1 .. Len(Tail(q)), NEW j \in 1 .. Len(Tail(q)), i < j
        PROVE  i + 1 \in 1 .. Len(q) /\ j + 1 \in 1 .. Len(q) /\ i + 1 < j + 1
               /\ Tail(q)[i] = q[i + 1] /\ Tail(q)[j] = q[j + 1]
    BY <1>1, <1>2, <2>1
  <2>2. QED
    BY <2>1 DEF Sorted
<1>8. QED
  BY <1>1, <1>3, <1>6, <1>7
-----------------------------------------------------------------------------
(***************************************************************************)
(* The list.                                                               *)
(***************************************************************************)

\* The regions whose events are promoted to the active queue.
Promotable == {"inactive", "nbassign", "rwsync"}

\* Each queue of the cell is sorted, and a promoted event is older than those
\* that wait in the region it came from.
OrderedCell(c) ==
  /\ \A s \in SEQ : Sorted(c.q[s])
  /\ \A s \in SEQ \ {"active"} : \A e \in Elems(c.q["active"]), f \in Elems(c.q[s]) :
       e.seq = s => e.id < f.id

\* The event e may be in queue s of a cell, which is the current one or not.
InRegion(e, s, current) ==
  /\ e.seq = s \/ (s = "active" /\ current /\ e.seq \in Promotable)
  /\ e.push => e.seq = "active"

\* The first cell stands for the current time.
IsCurrent(sl, k) == k = 1 /\ sl[1].delay = 0

\* Events are in the order and in the regions they should be in.
OrderedList(sl) ==
  \A k \in 1 .. Len(sl) :
    /\ OrderedCell(sl[k])
    /\ \A s \in SEQ : \A e \in Elems(sl[k].q[s]) : InRegion(e, s, IsCurrent(sl, k))

\* A cell that is still to come has an event.
NoEmptyCell(sl) ==
  \A k \in 1 .. Len(sl) : ~IsCurrent(sl, k) => \E s \in SEQ : sl[k].q[s] # << >>

\* The cells are in the order of their times, seen from now.
Increasing(now, sl) ==
  \A j, k \in 1 .. Len(sl) : j < k => Ahead(now, sl[j].at) < Ahead(now, sl[k].at)

\* The events of the list, and the promoted ones.
EventsOf(sl) == UNION {CellEvents(sl[k]) : k \in 1 .. Len(sl)}

PromotedOf(sl) ==
  {e \in Event : Len(sl) > 0 /\ sl[1].delay = 0 /\ e \in Elems(sl[1].q["active"])
                                               /\ e.seq # "active"}

\* An event of the list is in some queue of some cell.
LEMMA EventsOfList ==
  ASSUME NEW sl, NEW e
  PROVE  e \in EventsOf(sl) <=> \E k \in 1 .. Len(sl), s \in SEQ : e \in Elems(sl[k].q[s])
  BY DEF EventsOf, CellEvents, Elems

\* The types of the parts of a list.
LEMMA ListTypes ==
  ASSUME NEW sl \in Seq(Cell), NEW k \in 1 .. Len(sl)
  PROVE  /\ sl[k] \in Cell /\ sl[k].delay \in Time /\ sl[k].at \in Time
         /\ \A s \in SEQ : sl[k].q[s] \in Seq(Event) /\ Elems(sl[k].q[s]) \subseteq Event
<1>1. sl[k] \in Cell
  OBVIOUS
<1>2. sl[k].delay \in Time /\ sl[k].at \in Time /\ \A s \in SEQ : sl[k].q[s] \in Seq(Event)
  BY <1>1 DEF Cell
<1>3. ASSUME NEW q \in Seq(Event) PROVE Elems(q) \subseteq Event
  BY DEF Elems
<1>4. QED
  BY <1>1, <1>2, <1>3

\* Replacing one queue replaces its events.
LEMMA QueueSetEvents ==
  ASSUME NEW sl \in Seq(Cell), NEW new, NEW k \in 1 .. Len(sl), NEW s \in SEQ,
         NEW q \in Seq(Event), QueueSet(new, sl, k, s, q), NEW e
  PROVE  e \in EventsOf(new) <=>
           \/ e \in Elems(q)
           \/ \E j \in 1 .. Len(sl), t \in SEQ : ~(j = k /\ t = s) /\ e \in Elems(sl[j].q[t])
<1>1. /\ Len(new) = Len(sl)
      /\ \A j \in 1 .. Len(sl), t \in SEQ :
           new[j].q[t] = IF j = k /\ t = s THEN q ELSE sl[j].q[t]
  BY DEF QueueSet
<1>2. e \in EventsOf(new) <=> \E j \in 1 .. Len(sl), t \in SEQ : e \in Elems(new[j].q[t])
  BY <1>1, EventsOfList
<1>3. QED
  BY <1>1, <1>2

\* An event is added to a queue of a cell: appended, or pushed on the active
\* queue of the current cell.
Added(new, sl, k, e) ==
  \/ /\ ~e.push
     /\ QueueSet(new, sl, k, e.seq, Append(sl[k].q[e.seq], e))
  \/ /\ e.push /\ e.seq = "active" /\ IsCurrent(sl, k)
     /\ QueueSet(new, sl, k, e.seq, <<e>> \o sl[k].q[e.seq])

\* Adding the newest event to a queue keeps the list in order.
LEMMA AddedToList ==
  ASSUME NEW sl \in Seq(Cell), NEW new, NEW k \in 1 .. Len(sl), NEW e \in Event,
         Added(new, sl, k, e), OrderedList(sl), NoEmptyCell(sl),
         \A f \in EventsOf(sl) : f.id < e.id
  PROVE  /\ OrderedList(new) /\ NoEmptyCell(new)
         /\ EventsOf(new) = EventsOf(sl) \cup {e} /\ PromotedOf(new) = PromotedOf(sl)
<1> DEFINE old == sl[k].q[e.seq]
<1>1. e.seq \in SEQ /\ old \in Seq(Event) /\ "active" \in SEQ
  BY ListTypes DEF Event, SEQ
<1>2. Sorted(old) /\ \A f \in Elems(old) : f.id < e.id
  BY <1>1, EventsOfList DEF OrderedList, OrderedCell
<1>3. PICK q \in Seq(Event) : /\ QueueSet(new, sl, k, e.seq, q)
                              /\ Elems(q) = Elems(old) \cup {e} /\ Sorted(q)
                              /\ e.push => e.seq = "active" /\ IsCurrent(sl, k)
  <2>1. CASE ~e.push
    <3>1. Append(old, e) \in Seq(Event)
      BY <1>1
    <3>2. QueueSet(new, sl, k, e.seq, Append(old, e))
      BY <2>1 DEF Added
    <3> HIDE DEF old
    <3>3. QED
      BY <1>1, <1>2, <2>1, <3>1, <3>2, AppendedQueue
  <2>2. CASE e.push
    <3>1. <<e>> \o old \in Seq(Event)
      BY <1>1
    <3>2. QueueSet(new, sl, k, e.seq, <<e>> \o old) /\ e.seq = "active" /\ IsCurrent(sl, k)
      BY <2>2 DEF Added
    <3> HIDE DEF old
    <3>3. QED
      BY <1>1, <1>2, <2>2, <3>1, <3>2, PushedQueue
  <2>3. QED
    BY <2>1, <2>2
<1>4. /\ new \in Seq(Cell) /\ Len(new) = Len(sl)
      /\ \A j \in 1 .. Len(sl) :
           /\ new[j].delay = sl[j].delay
           /\ \A t \in SEQ : new[j].q[t] = IF j = k /\ t = e.seq THEN q ELSE sl[j].q[t]
      /\ Len(sl) \in Nat
  BY <1>3 DEF QueueSet
<1>5. \A j \in 1 .. Len(sl) : IsCurrent(new, j) = IsCurrent(sl, j)
  BY <1>4 DEF IsCurrent
<1>6. EventsOf(new) = EventsOf(sl) \cup {e}
  <2>1. ASSUME NEW f PROVE f \in EventsOf(new) <=> f \in EventsOf(sl) \/ f = e
    BY <1>1, <1>3, QueueSetEvents, EventsOfList, SMTT(30)
  <2>2. QED
    BY <2>1
<1>7. OrderedList(new)
  <2> SUFFICES ASSUME NEW j \in 1 .. Len(sl)
               PROVE  /\ OrderedCell(new[j])
                      /\ \A s \in SEQ : \A f \in Elems(new[j].q[s]) :
                           InRegion(f, s, IsCurrent(new, j))
    BY <1>4 DEF OrderedList
  <2>1. CASE j # k
    BY <1>1, <1>4, <1>5, <2>1 DEF OrderedList, OrderedCell
  <2>2. CASE j = k
    <3>1. \A s \in SEQ : Sorted(new[k].q[s])
      BY <1>3, <1>4, <2>2 DEF OrderedList, OrderedCell
    <3>2. \A s \in SEQ : Elems(new[k].q[s]) =
                           IF s = e.seq THEN Elems(sl[k].q[s]) \cup {e} ELSE Elems(sl[k].q[s])
      BY <1>3, <1>4
    <3>3. ASSUME NEW s \in SEQ, NEW f \in Elems(new[k].q[s])
          PROVE  InRegion(f, s, IsCurrent(new, k))
      <4>1. IsCurrent(new, k) = IsCurrent(sl, k)
        BY <1>5
      <4>2. CASE f \in Elems(sl[k].q[s])
        BY <4>1, <4>2 DEF OrderedList
      <4>3. CASE f \notin Elems(sl[k].q[s])
        <5>1. f = e /\ s = e.seq
          BY <3>2, <3>3, <4>3
        <5>2. QED
          BY <1>3, <5>1 DEF InRegion
      <4>4. QED
        BY <4>2, <4>3
    <3>4. ASSUME NEW s \in SEQ \ {"active"}, NEW f \in Elems(new[k].q["active"]),
                 NEW g \in Elems(new[k].q[s]), f.seq = s
          PROVE  f.id < g.id
      <4>1. f \in Elems(sl[k].q["active"])
        BY <1>1, <3>2, <3>4
      <4>2. f.id < e.id
        BY <1>1, <4>1, EventsOfList
      <4>3. g = e \/ g \in Elems(sl[k].q[s])
        BY <3>2, <3>4
      <4>4. QED
        BY <3>4, <4>1, <4>2, <4>3 DEF OrderedList, OrderedCell
    <3>5. QED
      BY <2>2, <3>1, <3>3, <3>4 DEF OrderedCell
  <2>3. QED
    BY <2>1, <2>2
<1>8. NoEmptyCell(new)
  <2>1. q # << >>
    BY <1>3, EmptyQueue
  <2>2. ASSUME NEW j \in 1 .. Len(sl), ~IsCurrent(sl, j)
        PROVE  \E s \in SEQ : new[j].q[s] # << >>
    <3>1. CASE j = k
      BY <1>1, <1>4, <2>1, <3>1
    <3>2. CASE j # k
      BY <1>4, <2>2, <3>2 DEF NoEmptyCell
    <3>3. QED
      BY <3>1, <3>2
  <2>3. QED
    BY <1>4, <1>5, <2>2 DEF NoEmptyCell
<1>9. PromotedOf(new) = PromotedOf(sl)
  <2>1. CASE k = 1 /\ e.seq = "active"
    <3>1. Len(new) = Len(sl) /\ new[1].delay = sl[1].delay
          /\ Elems(new[1].q["active"]) = Elems(sl[1].q["active"]) \cup {e}
      BY <1>1, <1>3, <1>4, <2>1
    <3>2. QED
      BY <2>1, <3>1 DEF PromotedOf
  <2>2. CASE ~(k = 1 /\ e.seq = "active")
    BY <1>1, <1>4, <2>2 DEF PromotedOf
  <2>3. QED
    BY <2>1, <2>2
<1>10. QED
  BY <1>6, <1>7, <1>8, <1>9

\* A new cell with the event e alone is put before cell k of the list; only
\* the delay of the cell behind it changes.
Linked(new, sl, k, e) ==
  /\ new \in Seq(Cell) /\ Len(new) = Len(sl) + 1
  /\ \A j \in 1 .. Len(sl) :
       /\ j < k => new[j] = sl[j]
       /\ j >= k => new[j + 1].at = sl[j].at /\ new[j + 1].q = sl[j].q
  /\ new[k].at = e.due
  /\ new[k].q[e.seq] = <<e>> /\ \A t \in SEQ \ {e.seq} : new[k].q[t] = << >>
  /\ k = 1 => \A j \in 1 .. Len(sl) : ~IsCurrent(sl, j)

\* A new cell for the newest event keeps the list in order.
LEMMA LinkedToList ==
  ASSUME NEW sl \in Seq(Cell), NEW new, NEW k \in 1 .. Len(sl) + 1, NEW e \in Event,
         Linked(new, sl, k, e), OrderedList(sl), NoEmptyCell(sl), e.push => e.seq = "active"
  PROVE  /\ OrderedList(new) /\ NoEmptyCell(new)
         /\ EventsOf(new) = EventsOf(sl) \cup {e} /\ PromotedOf(new) = PromotedOf(sl)
<1>1. e.seq \in SEQ /\ "active" \in SEQ /\ Len(sl) \in Nat
  BY DEF Event, SEQ
<1>2. /\ new \in Seq(Cell) /\ Len(new) = Len(sl) + 1
      /\ \A j \in 1 .. Len(sl) :
           /\ j < k => new[j] = sl[j]
           /\ j >= k => new[j + 1].at = sl[j].at /\ new[j + 1].q = sl[j].q
      /\ new[k].q[e.seq] = <<e>> /\ \A t \in SEQ \ {e.seq} : new[k].q[t] = << >>
      /\ k = 1 => \A j \in 1 .. Len(sl) : ~IsCurrent(sl, j)
  BY DEF Linked
<1>3. /\ Elems(new[k].q[e.seq]) = {e} /\ Sorted(new[k].q[e.seq])
      /\ \A s \in SEQ \ {e.seq} : Elems(new[k].q[s]) = {} /\ Sorted(new[k].q[s])
  <2>1. Elems(new[k].q[e.seq]) = {e} /\ Sorted(new[k].q[e.seq])
    BY <1>2, SingleQueue
  <2>2. ASSUME NEW s \in SEQ \ {e.seq} PROVE Elems(new[k].q[s]) = {} /\ Sorted(new[k].q[s])
    BY <1>2, EmptyQueue
  <2>3. QED
    BY <2>1, <2>2
<1>4. ASSUME NEW j \in 1 .. Len(new)
      PROVE  \/ j = k
             \/ \E i \in 1 .. Len(sl) :
                  new[j].q = sl[i].q /\ (IsCurrent(new, j) <=> IsCurrent(sl, i))
  <2>1. CASE j < k
    <3>1. j \in 1 .. Len(sl) /\ new[j] = sl[j] /\ (j = 1 => new[1] = sl[1])
      BY <1>1, <1>2, <2>1
    <3>2. QED
      BY <3>1 DEF IsCurrent
  <2>2. CASE j > k
    <3>1. j - 1 \in 1 .. Len(sl) /\ j - 1 >= k /\ (j - 1) + 1 = j /\ j # 1
      BY <1>1, <1>2, <2>2
    <3>2. new[j].q = sl[j - 1].q
      BY <1>2, <3>1
    <3>3. ~IsCurrent(sl, j - 1) /\ ~IsCurrent(new, j)
      <4>1. CASE k = 1
        BY <1>2, <3>1, <4>1 DEF IsCurrent
      <4>2. CASE k # 1
        BY <3>1, <4>2 DEF IsCurrent
      <4>3. QED
        BY <4>1, <4>2
    <3>4. QED
      BY <3>1, <3>2, <3>3
  <2>3. QED
    BY <1>1, <1>2, <2>1, <2>2
<1>5. ASSUME NEW i \in 1 .. Len(sl) PROVE \E j \in 1 .. Len(new) : new[j].q = sl[i].q
  <2>1. CASE i < k
    BY <1>1, <1>2, <2>1
  <2>2. CASE i >= k
    <3>1. i + 1 \in 1 .. Len(new)
      BY <1>1, <1>2
    <3>2. QED
      BY <1>2, <2>2, <3>1
  <2>3. QED
    BY <1>1, <2>1, <2>2
<1>6. k \in 1 .. Len(new)
  BY <1>1, <1>2
<1>7. EventsOf(new) = EventsOf(sl) \cup {e}
  <2>1. ASSUME NEW f \in EventsOf(new) PROVE f \in EventsOf(sl) \cup {e}
    <3>1. PICK j \in 1 .. Len(new), s \in SEQ : f \in Elems(new[j].q[s])
      BY <2>1, EventsOfList
    <3>2. CASE j = k
      <4>1. f \in Elems(new[k].q[s])
        BY <3>1, <3>2
      <4>2. CASE s = e.seq
        BY <1>3, <4>1, <4>2
      <4>3. CASE s # e.seq
        BY <1>3, <4>1, <4>3
      <4>4. QED
        BY <4>2, <4>3
    <3>3. CASE j # k
      <4>1. PICK i \in 1 .. Len(sl) : new[j].q = sl[i].q
        BY <1>4, <3>3
      <4>2. QED
        BY <3>1, <4>1, EventsOfList
    <3>4. QED
      BY <3>2, <3>3
  <2>2. ASSUME NEW f \in EventsOf(sl) PROVE f \in EventsOf(new)
    <3>1. PICK i \in 1 .. Len(sl), s \in SEQ : f \in Elems(sl[i].q[s])
      BY <2>2, EventsOfList
    <3>2. QED
      BY <1>5, <3>1, EventsOfList
  <2>3. e \in EventsOf(new)
    BY <1>1, <1>3, <1>6, EventsOfList
  <2>4. QED
    BY <2>1, <2>2, <2>3
<1>8. OrderedList(new)
  <2> SUFFICES ASSUME NEW j \in 1 .. Len(new)
               PROVE  /\ OrderedCell(new[j])
                      /\ \A s \in SEQ : \A f \in Elems(new[j].q[s]) :
                           InRegion(f, s, IsCurrent(new, j))
    BY DEF OrderedList
  <2>1. CASE j = k
    <3>1. OrderedCell(new[k])
      BY <1>1, <1>3 DEF OrderedCell
    <3>2. ASSUME NEW s \in SEQ, NEW f \in Elems(new[k].q[s])
          PROVE  InRegion(f, s, IsCurrent(new, k))
      <4>1. s = e.seq
        BY <1>3, <3>2
      <4>2. f = e
        BY <1>3, <3>2, <4>1
      <4>3. QED
        BY <4>1, <4>2 DEF InRegion
    <3>3. QED
      BY <2>1, <3>1, <3>2
  <2>2. CASE j # k
    <3>1. PICK i \in 1 .. Len(sl) : new[j].q = sl[i].q /\ (IsCurrent(new, j) <=> IsCurrent(sl, i))
      BY <1>4, <2>2
    <3>2. OrderedCell(sl[i])
          /\ \A s \in SEQ : \A f \in Elems(sl[i].q[s]) : InRegion(f, s, IsCurrent(sl, i))
      BY DEF OrderedList
    <3>3. OrderedCell(new[j])
      BY <3>1, <3>2 DEF OrderedCell
    <3>4. QED
      BY <3>1, <3>2, <3>3 DEF InRegion
  <2>3. QED
    BY <2>1, <2>2
<1>9. NoEmptyCell(new)
  <2> SUFFICES ASSUME NEW j \in 1 .. Len(new), ~IsCurrent(new, j)
               PROVE  \E s \in SEQ : new[j].q[s] # << >>
    BY DEF NoEmptyCell
  <2>1. CASE j = k
    <3>1. Elems(new[k].q[e.seq]) # {}
      BY <1>3
    <3>2. QED
      BY <1>1, <2>1, <3>1, EmptyQueue
  <2>2. CASE j # k
    <3>1. PICK i \in 1 .. Len(sl) : new[j].q = sl[i].q /\ (IsCurrent(new, j) <=> IsCurrent(sl, i))
      BY <1>4, <2>2
    <3>2. QED
      BY <3>1 DEF NoEmptyCell
  <2>3. QED
    BY <2>1, <2>2
<1>10. PromotedOf(new) = PromotedOf(sl)
  <2>1. CASE k = 1
    <3>1. PromotedOf(sl) = {}
      BY <1>1, <1>2, <2>1 DEF PromotedOf, IsCurrent
    <3>2. \A f \in Elems(new[1].q["active"]) : f.seq = "active"
      <4>1. CASE e.seq = "active"
        BY <1>3, <2>1, <4>1
      <4>2. CASE e.seq # "active"
        <5>1. "active" \in SEQ \ {e.seq}
          BY <1>1, <4>2
        <5>2. QED
          BY <1>3, <2>1, <5>1
      <4>3. QED
        BY <4>1, <4>2
    <3>3. QED
      BY <3>1, <3>2 DEF PromotedOf
  <2>2. CASE k # 1
    <3>1. 1 \in 1 .. Len(sl) /\ new[1] = sl[1] /\ Len(new) > 0 /\ Len(sl) > 0
      BY <1>1, <1>2, <2>2
    <3>2. QED
      BY <3>1 DEF PromotedOf
  <2>3. QED
    BY <2>1, <2>2
<1>11. QED
  BY <1>7, <1>8, <1>9, <1>10

\* The times stay in order when the new cell is between its neighbours.
LEMMA LinkedInOrder ==
  ASSUME NEW sl \in Seq(Cell), NEW new, NEW k \in 1 .. Len(sl) + 1, NEW e \in Event,
         NEW now \in Time, Linked(new, sl, k, e), Increasing(now, sl),
         k > 1 => Ahead(now, sl[k - 1].at) < Ahead(now, e.due),
         k <= Len(sl) => Ahead(now, e.due) < Ahead(now, sl[k].at)
  PROVE  Increasing(now, new)
<1> DEFINE D(t) == Ahead(now, t)
<1>1. Len(sl) \in Nat /\ e.due \in Time
  BY DEF Event
<1>2. /\ Len(new) = Len(sl) + 1
      /\ \A j \in 1 .. Len(sl) : (j < k => new[j].at = sl[j].at) /\ (j >= k => new[j + 1].at = sl[j].at)
      /\ new[k].at = e.due
  BY DEF Linked
<1>3. \A t \in Time : D(t) \in Int
  <2>1. Time \subseteq Int
    BY DEF Time
  <2>2. QED
    BY <2>1, AheadOfNow
<1>4. \A j \in 1 .. Len(sl) : sl[j].at \in Time
  BY ListTypes
<1> HIDE DEF D
<1>5. \A j \in 1 .. Len(sl) : j < k => D(sl[j].at) < D(e.due)
  <2> SUFFICES ASSUME NEW j \in 1 .. Len(sl), j < k PROVE D(sl[j].at) < D(e.due)
    OBVIOUS
  <2>1. k - 1 \in 1 .. Len(sl) /\ (j = k - 1 \/ j < k - 1) /\ D(sl[k - 1].at) < D(e.due)
    BY <1>1 DEF D
  <2>2. j = k - 1 \/ D(sl[j].at) < D(sl[k - 1].at)
    BY <2>1 DEF Increasing, D
  <2>3. QED
    BY <1>1, <1>3, <1>4, <2>1, <2>2
<1>6. \A j \in 1 .. Len(sl) : j >= k => D(e.due) < D(sl[j].at)
  <2> SUFFICES ASSUME NEW j \in 1 .. Len(sl), j >= k PROVE D(e.due) < D(sl[j].at)
    OBVIOUS
  <2>1. k \in 1 .. Len(sl) /\ (j = k \/ k < j) /\ D(e.due) < D(sl[k].at)
    BY <1>1 DEF D
  <2>2. j = k \/ D(sl[k].at) < D(sl[j].at)
    BY <2>1 DEF Increasing, D
  <2>3. QED
    BY <1>1, <1>3, <1>4, <2>1, <2>2
<1>7. ASSUME NEW i \in 1 .. Len(new), NEW j \in 1 .. Len(new), i < j
      PROVE  D(new[i].at) < D(new[j].at)
  <2>1. \A n \in 1 .. Len(new) : n < k => n \in 1 .. Len(sl) /\ new[n].at = sl[n].at
    BY <1>1, <1>2
  <2>2. \A n \in 1 .. Len(new) : n > k => n - 1 \in 1 .. Len(sl) /\ n - 1 >= k
                                          /\ new[n].at = sl[n - 1].at
    <3> SUFFICES ASSUME NEW n \in 1 .. Len(new), n > k
                 PROVE  n - 1 \in 1 .. Len(sl) /\ n - 1 >= k /\ new[n].at = sl[n - 1].at
      OBVIOUS
    <3>1. n - 1 \in 1 .. Len(sl) /\ n - 1 >= k /\ (n - 1) + 1 = n
      BY <1>1, <1>2
    <3>2. QED
      BY <1>2, <3>1
  <2>3. CASE j < k
    <3>1. i < k
      BY <1>1, <1>2, <1>7, <2>3
    <3>2. QED
      BY <1>7, <2>1, <2>3, <3>1 DEF Increasing, D
  <2>4. CASE j = k
    BY <1>2, <1>5, <1>7, <2>1, <2>4
  <2>5. CASE j > k /\ i = k
    BY <1>2, <1>6, <2>2, <2>5
  <2>6. CASE j > k /\ i < k
    <3>1. D(new[i].at) < D(e.due) /\ D(e.due) < D(new[j].at)
          /\ new[i].at \in Time /\ new[j].at \in Time
      BY <1>4, <1>5, <1>6, <2>1, <2>2, <2>6
    <3>2. QED
      BY <1>1, <1>3, <3>1
  <2>7. CASE j > k /\ i > k
    <3>1. i - 1 < j - 1
      BY <1>7
    <3>2. QED
      BY <2>2, <2>7, <3>1 DEF Increasing, D
  <2>8. QED
    BY <1>1, <1>2, <2>3, <2>4, <2>5, <2>6, <2>7
<1>8. QED
  BY <1>7 DEF Increasing, D

\* The events of a cell are due at its time, which no other cell has.
TimedList(sl) ==
  \A k \in 1 .. Len(sl) : \A s \in SEQ : \A e \in Elems(sl[k].q[s]) : e.due = sl[k].at

\* The events of the list that are due at the time of the first cell are in it.
LEMMA DueInFirst ==
  ASSUME NEW sl \in Seq(Cell), NEW now \in Time, Increasing(now, sl), TimedList(sl),
         NEW k \in 1 .. Len(sl), NEW s \in SEQ, NEW e \in Elems(sl[k].q[s])
  PROVE  k # 1 => e.due # sl[1].at
<1> SUFFICES ASSUME k # 1 PROVE e.due # sl[1].at
  OBVIOUS
<1>1. 1 \in 1 .. Len(sl) /\ 1 < k
  OBVIOUS
<1>2. Ahead(now, sl[1].at) < Ahead(now, sl[k].at) /\ e.due = sl[k].at
  BY <1>1 DEF Increasing, TimedList
<1>3. Ahead(now, sl[1].at) \in Int
  <2>1. Time \subseteq Int /\ sl[1].at \in Time
    BY <1>1, ListTypes DEF Time
  <2>2. QED
    BY <2>1, AheadOfNow
<1>4. QED
  BY <1>2, <1>3

\* An event of the current cell is in one of its queues only.
LEMMA InOneQueue ==
  ASSUME NEW sl \in Seq(Cell), OrderedList(sl), NEW k \in 1 .. Len(sl),
         NEW s \in SEQ, NEW t \in SEQ, s # t, NEW e \in Event,
         e \in Elems(sl[k].q[s]), e \in Elems(sl[k].q[t])
  PROVE  FALSE
<1>1. e.id \in Nat
  BY DEF Event
<1>2. InRegion(e, s, IsCurrent(sl, k)) /\ InRegion(e, t, IsCurrent(sl, k))
  BY DEF OrderedList
<1>3. \A r \in SEQ \ {"active"} : \A a \in Elems(sl[k].q["active"]), b \in Elems(sl[k].q[r]) :
        a.seq = r => a.id < b.id
  BY DEF OrderedList, OrderedCell
<1>4. CASE s = "active"
  <2>1. t # "active" /\ e.seq = t
    BY <1>2, <1>4 DEF InRegion
  <2>2. e.id < e.id
    BY <1>3, <1>4, <2>1
  <2>3. QED
    BY <1>1, <2>2
<1>5. CASE s # "active"
  <2>1. e.seq = s /\ t = "active"
    BY <1>2, <1>5 DEF InRegion
  <2>2. e.id < e.id
    BY <1>3, <1>5, <2>1
  <2>3. QED
    BY <1>1, <2>2
<1>6. QED
  BY <1>4, <1>5

\* What taking event h from queue s of the first cell leaves.
Taken(sl, new, now, s, h) ==
  /\ OrderedList(new) /\ NoEmptyCell(new) /\ Increasing(now, new)
  /\ h \in Event /\ h \in EventsOf(sl) /\ h.due = sl[1].at
  /\ InRegion(h, s, TRUE)
  /\ EventsOf(new) = EventsOf(sl) \ {h}
  /\ PromotedOf(new) = PromotedOf(sl) \ {h}
  /\ s = "active" /\ h.seq # "active" => h \in PromotedOf(sl)

\* Taking the first event of a queue of the current cell.
LEMMA TakenFromList ==
  ASSUME NEW sl \in Seq(Cell), NEW new, NEW s \in SEQ, NEW now \in Time,
         1 \in 1 .. Len(sl), sl[1].delay = 0, sl[1].q[s] # << >>,
         new = SetQueue(sl, 1, s, Tail(sl[1].q[s])),
         OrderedList(sl), NoEmptyCell(sl), Increasing(now, sl), TimedList(sl)
  PROVE  Taken(sl, new, now, s, Head(sl[1].q[s]))
<1> DEFINE q == sl[1].q[s]
           h == Head(q)
<1>1. q \in Seq(Event) /\ "active" \in SEQ /\ Len(sl) \in Nat
  BY ListTypes DEF SEQ
<1>2. Sorted(q)
  BY DEF OrderedList, OrderedCell
<1>3. /\ Tail(q) \in Seq(Event) /\ h \in Event
      /\ Elems(Tail(q)) = Elems(q) \ {h} /\ h \in Elems(q) /\ Sorted(Tail(q))
  <2> HIDE DEF q
  <2>1. q # << >>
    BY DEF q
  <2>2. QED
    BY <1>1, <1>2, <2>1, TakenQueue
<1>4. QueueSet(new, sl, 1, s, Tail(q))
  BY <1>3, SetQueueProperties
<1>5. /\ new \in Seq(Cell) /\ Len(new) = Len(sl)
      /\ \A j \in 1 .. Len(sl) :
           /\ new[j].delay = sl[j].delay /\ new[j].at = sl[j].at
           /\ \A t \in SEQ : new[j].q[t] = IF j = 1 /\ t = s THEN Tail(q) ELSE sl[j].q[t]
  BY <1>4 DEF QueueSet
<1>6. \A j \in 1 .. Len(sl) : IsCurrent(new, j) <=> IsCurrent(sl, j)
  BY <1>5 DEF IsCurrent
<1>7. h \in EventsOf(sl) /\ h.due = sl[1].at /\ InRegion(h, s, TRUE)
  <2>1. InRegion(h, s, IsCurrent(sl, 1))
    BY <1>3 DEF OrderedList
  <2>2. QED
    BY <1>3, <2>1, EventsOfList DEF TimedList, InRegion, IsCurrent
<1>8. ASSUME NEW j \in 1 .. Len(sl), NEW t \in SEQ, ~(j = 1 /\ t = s), h \in Elems(sl[j].q[t])
      PROVE  FALSE
  <2>1. CASE j # 1
    BY <1>7, <1>8, <2>1, DueInFirst
  <2>2. CASE j = 1
    BY <1>3, <1>8, <2>2, InOneQueue
  <2>3. QED
    BY <2>1, <2>2
<1> HIDE DEF h
<1>9. EventsOf(new) = EventsOf(sl) \ {h}
  <2>1. ASSUME NEW e PROVE e \in EventsOf(new) <=> e \in EventsOf(sl) /\ e # h
    <3>1. e \in EventsOf(new) <=>
            \/ e \in Elems(Tail(q))
            \/ \E j \in 1 .. Len(sl), t \in SEQ : ~(j = 1 /\ t = s) /\ e \in Elems(sl[j].q[t])
      <4> DEFINE r == Tail(q)
                 Elsewhere == \E j \in 1 .. Len(sl), t \in SEQ :
                                ~(j = 1 /\ t = s) /\ e \in Elems(sl[j].q[t])
      <4>1. r \in Seq(Event) /\ QueueSet(new, sl, 1, s, r)
        BY <1>3, <1>4
      <4> HIDE DEF r
      <4>2. e \in EventsOf(new) <=> e \in Elems(r) \/ Elsewhere
        BY <4>1, QueueSetEvents
      <4> HIDE DEF Elsewhere
      <4>3. e \in EventsOf(new) <=> e \in Elems(Tail(q)) \/ Elsewhere
        BY <4>2, Zenon DEF r
      <4>4. QED
        BY <4>3, Zenon DEF Elsewhere
    <3>2. e \in EventsOf(sl) <=>
            \/ e \in Elems(q)
            \/ \E j \in 1 .. Len(sl), t \in SEQ : ~(j = 1 /\ t = s) /\ e \in Elems(sl[j].q[t])
      BY EventsOfList
    <3>3. QED
      BY <1>3, <1>8, <3>1, <3>2
  <2>2. QED
    BY <2>1
<1>10. \A j \in 1 .. Len(sl), t \in SEQ :
         /\ Elems(new[j].q[t]) \subseteq Elems(sl[j].q[t]) /\ Sorted(new[j].q[t])
  <2>1. ASSUME NEW j \in 1 .. Len(sl), NEW t \in SEQ
        PROVE  Elems(new[j].q[t]) \subseteq Elems(sl[j].q[t]) /\ Sorted(new[j].q[t])
    <3>1. CASE j = 1 /\ t = s
      BY <1>3, <1>5, <3>1
    <3>2. CASE ~(j = 1 /\ t = s)
      BY <1>5, <3>2 DEF OrderedList, OrderedCell
    <3>3. QED
      BY <3>1, <3>2
  <2>2. QED
    BY <2>1
<1>11. OrderedList(new)
  <2> SUFFICES ASSUME NEW j \in 1 .. Len(sl)
               PROVE  /\ OrderedCell(new[j])
                      /\ \A t \in SEQ : \A f \in Elems(new[j].q[t]) :
                           InRegion(f, t, IsCurrent(new, j))
    BY <1>5 DEF OrderedList
  <2>1. OrderedCell(sl[j])
        /\ \A t \in SEQ : \A f \in Elems(sl[j].q[t]) : InRegion(f, t, IsCurrent(sl, j))
    BY DEF OrderedList
  <2>2. OrderedCell(new[j])
    BY <1>1, <1>10, <2>1 DEF OrderedCell
  <2>3. QED
    BY <1>6, <1>10, <2>1, <2>2 DEF InRegion
<1>12. NoEmptyCell(new)
  <2>1. ASSUME NEW j \in 1 .. Len(sl), ~IsCurrent(sl, j)
        PROVE  \E t \in SEQ : new[j].q[t] # << >>
    <3>1. j # 1
      BY <2>1 DEF IsCurrent
    <3>2. QED
      BY <1>5, <2>1, <3>1 DEF NoEmptyCell
  <2>2. QED
    BY <1>5, <1>6, <2>1 DEF NoEmptyCell
<1>13. Increasing(now, new)
  BY <1>5 DEF Increasing
<1>14. PromotedOf(new) = PromotedOf(sl) \ {h}
  <2>1. Elems(new[1].q["active"]) = Elems(sl[1].q["active"]) \ {h}
    <3>1. CASE s = "active"
      BY <1>3, <1>5, <3>1
    <3>2. CASE s # "active"
      BY <1>1, <1>5, <1>8, <3>2
    <3>3. QED
      BY <3>1, <3>2
  <2>2. QED
    BY <1>5, <2>1 DEF PromotedOf
<1>15. s = "active" /\ h.seq # "active" => h \in PromotedOf(sl)
  BY <1>1, <1>3 DEF PromotedOf
<1>16. QED
  BY <1>3, <1>7, <1>9, <1>11, <1>12, <1>13, <1>14, <1>15 DEF Taken, h

\* The first event of a queue of the current cell is the one to run next.
LEMMA FirstIsNext ==
  ASSUME NEW sl \in Seq(Cell), NEW s \in SEQ \ Promotable, NEW now \in Time,
         1 \in 1 .. Len(sl), sl[1].q[s] # << >>,
         OrderedList(sl), Increasing(now, sl), TimedList(sl),
         NEW e \in EventsOf(sl), e.due = sl[1].at, e # Head(sl[1].q[s])
  PROVE  LET h == Head(sl[1].q[s])
         IN  /\ e.seq = h.seq /\ ~h.push /\ ~e.push => e.id > h.id
             /\ e.push /\ s = "active" => h.push /\ e.id < h.id
<1> DEFINE q == sl[1].q[s]
           h == Head(q)
<1>1. PICK k \in 1 .. Len(sl), t \in SEQ : e \in Elems(sl[k].q[t])
  BY EventsOfList
<1>2. k = 1 /\ e \in Elems(sl[1].q[t])
  <2>1. k = 1
    BY <1>1, DueInFirst
  <2>2. QED
    BY <1>1, <2>1
<1>3. /\ q \in Seq(Event) /\ q # << >> /\ Sorted(q) /\ Len(q) \in Nat \ {0}
      /\ h = q[1] /\ h \in Elems(q) /\ h \in Event
  <2>1. q \in Seq(Event) /\ q # << >> /\ Sorted(q)
    BY ListTypes DEF OrderedList, OrderedCell
  <2> HIDE DEF q
  <2>2. Len(q) \in Nat \ {0} /\ h = q[1]
    BY <2>1
  <2>3. QED
    BY <2>1, <2>2 DEF Elems
<1>4. h.id \in Nat /\ e.id \in Nat
  <2>1. e \in Event
    BY <1>2, ListTypes
  <2>2. QED
    BY <1>3, <2>1 DEF Event
<1>5. InRegion(h, s, IsCurrent(sl, 1)) /\ InRegion(e, t, IsCurrent(sl, 1))
  BY <1>2, <1>3 DEF OrderedList
<1>6. CASE t = s
  <2>1. PICK i \in 1 .. Len(q) : e = q[i]
    BY <1>2, <1>6 DEF Elems
  <2>2. i # 1 /\ 1 \in 1 .. Len(q)
    BY <1>3, <2>1
  <2> HIDE DEF q, h
  <2>3. /\ ~h.push /\ ~e.push => h.id < e.id
        /\ e.push => h.push /\ h.id > e.id
    BY <1>3, <2>1, <2>2 DEF Sorted
  <2>4. QED
    BY <1>4, <2>3 DEF h, q
<1>7. CASE t # s
  <2>1. e.push => e.seq = "active" /\ t = "active"
    BY <1>5 DEF InRegion, Promotable
  <2>2. ASSUME e.seq = h.seq PROVE h.id < e.id
    <3>1. CASE s = "active"
      <4>1. e.seq = t /\ t # "active"
        BY <1>5, <1>7, <3>1 DEF InRegion
      <4>2. QED
        BY <1>2, <1>3, <2>2, <3>1, <4>1 DEF OrderedList, OrderedCell
    <3>2. CASE s # "active"
      <4>1. h.seq = s
        BY <1>5, <3>2 DEF InRegion
      <4>2. e.seq # s
        BY <1>5, <1>7 DEF InRegion
      <4>3. QED
        BY <2>2, <4>1, <4>2
    <3>3. QED
      BY <3>1, <3>2
  <2>3. QED
    BY <1>4, <1>7, <2>1, <2>2
<1>8. QED
  BY <1>6, <1>7

\* The region s of the current cell becomes its active queue.
Activated(new, sl, s) ==
  /\ Len(new) = Len(sl)
  /\ \A j \in 1 .. Len(sl) :
       /\ new[j].delay = sl[j].delay /\ new[j].at = sl[j].at
       /\ \A t \in SEQ : ~(j = 1 /\ t \in {"active", s}) => new[j].q[t] = sl[j].q[t]
  /\ new[1].q["active"] = sl[1].q[s] /\ new[1].q[s] = << >>

\* Promoting a region keeps the list in order, and its events in the list.
LEMMA PromotedInList ==
  ASSUME NEW sl \in Seq(Cell), NEW new, NEW s \in Promotable, NEW now \in Time,
         1 \in 1 .. Len(sl), sl[1].delay = 0, sl[1].q["active"] = << >>,
         Activated(new, sl, s), OrderedList(sl), NoEmptyCell(sl), Increasing(now, sl)
  PROVE  /\ OrderedList(new) /\ NoEmptyCell(new) /\ Increasing(now, new)
         /\ EventsOf(new) = EventsOf(sl)
         /\ PromotedOf(sl) = {} /\ PromotedOf(new) = Elems(sl[1].q[s])
<1>1. s \in SEQ /\ s # "active" /\ "active" \in SEQ /\ Len(sl) \in Nat
  BY DEF Promotable, SEQ
<1>2. /\ Len(new) = Len(sl)
      /\ \A j \in 1 .. Len(sl) :
           /\ new[j].delay = sl[j].delay /\ new[j].at = sl[j].at
           /\ \A t \in SEQ : ~(j = 1 /\ t \in {"active", s}) => new[j].q[t] = sl[j].q[t]
      /\ new[1].q["active"] = sl[1].q[s] /\ new[1].q[s] = << >>
  BY DEF Activated
<1>3. /\ Elems(sl[1].q["active"]) = {} /\ Elems(new[1].q[s]) = {} /\ Sorted(new[1].q[s])
      /\ Elems(new[1].q["active"]) = Elems(sl[1].q[s])
  BY <1>2, EmptyQueue
<1>4. \A j \in 1 .. Len(sl) : IsCurrent(new, j) <=> IsCurrent(sl, j)
  BY <1>2 DEF IsCurrent
<1>5. /\ \A e \in Elems(sl[1].q[s]) : e.seq = s /\ (e.push => e.seq = "active")
      /\ Elems(sl[1].q[s]) \subseteq Event
  BY <1>1, ListTypes DEF OrderedList, InRegion
<1>6. OrderedList(new)
  <2> SUFFICES ASSUME NEW j \in 1 .. Len(sl)
               PROVE  /\ OrderedCell(new[j])
                      /\ \A t \in SEQ : \A f \in Elems(new[j].q[t]) :
                           InRegion(f, t, IsCurrent(new, j))
    BY <1>2 DEF OrderedList
  <2>1. OrderedCell(sl[j])
        /\ \A t \in SEQ : \A f \in Elems(sl[j].q[t]) : InRegion(f, t, IsCurrent(sl, j))
    BY DEF OrderedList
  <2>2. CASE j # 1
    BY <1>1, <1>2, <1>4, <2>1, <2>2 DEF OrderedCell, InRegion
  <2>3. CASE j = 1
    <3>1. \A t \in SEQ : Sorted(new[1].q[t])
      BY <1>1, <1>2, <1>3, <2>1, <2>3 DEF OrderedCell
    <3>2. ASSUME NEW t \in SEQ \ {"active"}, NEW e \in Elems(new[1].q["active"]),
                 NEW f \in Elems(new[1].q[t]), e.seq = t
          PROVE  FALSE
      <4>1. e.seq = s
        BY <1>3, <1>5
      <4>2. QED
        BY <1>3, <3>2, <4>1
    <3>3. ASSUME NEW t \in SEQ, NEW f \in Elems(new[1].q[t])
          PROVE  InRegion(f, t, IsCurrent(new, 1))
      <4>1. CASE t = "active"
        BY <1>3, <1>5, <3>3, <4>1 DEF InRegion, IsCurrent, Activated
      <4>2. CASE t = s
        BY <1>3, <3>3, <4>2
      <4>3. CASE t \notin {"active", s}
        BY <1>2, <1>4, <2>1, <2>3, <3>3, <4>3 DEF InRegion
      <4>4. QED
        BY <4>1, <4>2, <4>3
    <3>4. QED
      BY <2>3, <3>1, <3>2, <3>3 DEF OrderedCell
  <2>4. QED
    BY <2>2, <2>3
<1>7. NoEmptyCell(new)
  <2>1. ASSUME NEW j \in 1 .. Len(sl), ~IsCurrent(sl, j)
        PROVE  \E t \in SEQ : new[j].q[t] # << >>
    <3>1. j # 1
      BY <2>1 DEF IsCurrent
    <3>2. QED
      BY <1>2, <2>1, <3>1 DEF NoEmptyCell
  <2>2. QED
    BY <1>2, <1>4, <2>1 DEF NoEmptyCell
<1>8. Increasing(now, new)
  BY <1>2 DEF Increasing
<1>9. EventsOf(new) = EventsOf(sl)
  <2>1. ASSUME NEW e, e \in EventsOf(new) PROVE e \in EventsOf(sl)
    <3>1. PICK j \in 1 .. Len(sl), t \in SEQ : e \in Elems(new[j].q[t])
      BY <1>2, <2>1, EventsOfList
    <3>2. CASE j = 1 /\ t = "active"
      BY <1>1, <1>3, <3>1, <3>2, EventsOfList
    <3>3. CASE j = 1 /\ t = s
      BY <1>3, <3>1, <3>3
    <3>4. CASE ~(j = 1 /\ t \in {"active", s})
      BY <1>2, <3>1, <3>4, EventsOfList
    <3>5. QED
      BY <3>2, <3>3, <3>4
  <2>2. ASSUME NEW e, e \in EventsOf(sl) PROVE e \in EventsOf(new)
    <3>1. PICK j \in 1 .. Len(sl), t \in SEQ : e \in Elems(sl[j].q[t])
      BY <2>2, EventsOfList
    <3>2. CASE j = 1 /\ t = "active"
      BY <1>3, <3>1, <3>2
    <3>3. CASE j = 1 /\ t = s
      <4>1. e \in Elems(new[1].q["active"]) /\ 1 \in 1 .. Len(new)
        BY <1>2, <1>3, <3>1, <3>3
      <4>2. QED
        BY <1>1, <4>1, EventsOfList
    <3>4. CASE ~(j = 1 /\ t \in {"active", s})
      BY <1>2, <3>1, <3>4, EventsOfList
    <3>5. QED
      BY <3>2, <3>3, <3>4
  <2>3. QED
    BY <2>1, <2>2
<1>10. PromotedOf(sl) = {} /\ PromotedOf(new) = Elems(sl[1].q[s])
  <2>1. PromotedOf(sl) = {}
    BY <1>3 DEF PromotedOf
  <2>2. Len(new) > 0 /\ new[1].delay = 0
    BY <1>1, <1>2
  <2>3. \A e \in Event : e \in PromotedOf(new) <=> e \in Elems(sl[1].q[s])
    BY <1>1, <1>3, <1>5, <2>2 DEF PromotedOf
  <2>4. PromotedOf(new) \subseteq Event
    BY DEF PromotedOf
  <2>5. QED
    BY <1>5, <2>1, <2>3, <2>4
<1>11. QED
  BY <1>6, <1>7, <1>8, <1>9, <1>10

\* The first cell becomes the current one.
LEMMA AdvancedInList ==
  ASSUME NEW sl \in Seq(Cell), NEW new, NEW now \in Time,
         1 \in 1 .. Len(sl), sl[1].delay > 0, DelaySet(new, sl, 1, 0),
         OrderedList(sl), NoEmptyCell(sl), Increasing(now, sl)
  PROVE  /\ OrderedList(new) /\ NoEmptyCell(new) /\ Increasing(sl[1].at, new)
         /\ EventsOf(new) = EventsOf(sl)
         /\ PromotedOf(sl) = {} /\ PromotedOf(new) = {}
<1>1. "active" \in SEQ /\ Len(sl) \in Nat
  BY DEF SEQ
<1>2. /\ new \in Seq(Cell) /\ Len(new) = Len(sl)
      /\ \A j \in 1 .. Len(sl) : new[j].at = sl[j].at /\ new[j].q = sl[j].q
      /\ \A j \in 1 .. Len(sl) : ~IsCurrent(sl, j)
  BY DEF DelaySet, IsCurrent
<1>3. OrderedList(new)
  <2> SUFFICES ASSUME NEW j \in 1 .. Len(sl)
               PROVE  /\ OrderedCell(new[j])
                      /\ \A t \in SEQ : \A f \in Elems(new[j].q[t]) :
                           InRegion(f, t, IsCurrent(new, j))
    BY <1>2 DEF OrderedList
  <2>1. OrderedCell(sl[j])
        /\ \A t \in SEQ : \A f \in Elems(sl[j].q[t]) : InRegion(f, t, IsCurrent(sl, j))
    BY DEF OrderedList
  <2>2. new[j].q = sl[j].q /\ ~IsCurrent(sl, j)
    BY <1>2
  <2>3. QED
    BY <2>1, <2>2 DEF OrderedCell, InRegion
<1>4. NoEmptyCell(new)
  <2>1. \A j \in 1 .. Len(sl) : \E t \in SEQ : sl[j].q[t] # << >>
    BY <1>2 DEF NoEmptyCell
  <2>2. QED
    BY <1>2, <2>1 DEF NoEmptyCell
<1>5. Increasing(sl[1].at, new)
  <2>1. \A j \in 1 .. Len(sl) : sl[j].at \in Time
    BY ListTypes
  <2>t. Time \subseteq Int
    BY DEF Time
  <2>2. \A j \in 1 .. Len(sl) : Ahead(now, sl[j].at) \in Int
    BY <2>1, <2>t, AheadOfNow
  <2>3. \A j \in 1 .. Len(sl) : Ahead(now, sl[1].at) <= Ahead(now, sl[j].at)
    <3> SUFFICES ASSUME NEW j \in 1 .. Len(sl) PROVE Ahead(now, sl[1].at) <= Ahead(now, sl[j].at)
      OBVIOUS
    <3>1. j = 1 \/ 1 < j
      OBVIOUS
    <3>2. QED
      BY <2>2, <3>1 DEF Increasing
  <2>4. \A j \in 1 .. Len(sl) :
          Ahead(sl[1].at, sl[j].at) = Ahead(now, sl[j].at) - Ahead(now, sl[1].at)
    BY <2>1, <2>3, AheadFromLater
  <2>5. ASSUME NEW j \in 1 .. Len(sl), NEW k \in 1 .. Len(sl), j < k
        PROVE  Ahead(sl[1].at, sl[j].at) < Ahead(sl[1].at, sl[k].at)
    <3>1. Ahead(now, sl[j].at) < Ahead(now, sl[k].at)
      BY <2>5 DEF Increasing
    <3>2. Ahead(now, sl[j].at) \in Int /\ Ahead(now, sl[k].at) \in Int /\ Ahead(now, sl[1].at) \in Int
      BY <2>2
    <3>3. QED
      BY <2>4, <3>1, <3>2
  <2>6. QED
    BY <1>2, <2>5 DEF Increasing
<1>6. EventsOf(new) = EventsOf(sl)
  <2>1. ASSUME NEW e PROVE e \in EventsOf(new) <=> e \in EventsOf(sl)
    BY <1>2, EventsOfList
  <2>2. QED
    BY <2>1
<1>7. PromotedOf(sl) = {} /\ PromotedOf(new) = {}
  <2>1. \A e \in Elems(new[1].q["active"]) : e.seq = "active"
    BY <1>1, <1>2 DEF OrderedList, InRegion
  <2>2. QED
    BY <2>1 DEF PromotedOf
<1>8. QED
  BY <1>3, <1>4, <1>5, <1>6, <1>7

\* The current cell is released.
LEMMA ReleasedFromList ==
  ASSUME NEW sl \in Seq(Cell), NEW new, NEW now \in Time, sl # << >>, new = Tail(sl),
         OrderedList(sl), NoEmptyCell(sl), Increasing(now, sl), TimedList(sl)
  PROVE  /\ OrderedList(new) /\ NoEmptyCell(new) /\ Increasing(now, new)
         /\ CellEvents(sl[1]) = {e \in EventsOf(sl) : e.due = sl[1].at}
         /\ EventsOf(new) = EventsOf(sl) \ CellEvents(sl[1])
         /\ PromotedOf(new) = {}
<1>1. /\ Len(sl) \in Nat \ {0} /\ Len(new) = Len(sl) - 1 /\ "active" \in SEQ
      /\ \A j \in 1 .. Len(new) : new[j] = sl[j + 1]
  BY DEF SEQ
<1>2. /\ \A j \in 1 .. Len(new) : j + 1 \in 1 .. Len(sl) /\ ~IsCurrent(sl, j + 1)
      /\ \A j \in 1 .. Len(sl) : j = 1 \/ (j - 1 \in 1 .. Len(new) /\ (j - 1) + 1 = j)
      /\ 1 \in 1 .. Len(sl)
  BY <1>1 DEF IsCurrent
<1>3. ASSUME NEW j \in 1 .. Len(new)
      PROVE  /\ OrderedCell(new[j]) /\ \E t \in SEQ : new[j].q[t] # << >>
             /\ \A t \in SEQ : \A f \in Elems(new[j].q[t]) : f.seq = t /\ InRegion(f, t, FALSE)
  <2>1. j + 1 \in 1 .. Len(sl) /\ ~IsCurrent(sl, j + 1) /\ new[j] = sl[j + 1]
    BY <1>1, <1>2
  <2>2. OrderedCell(sl[j + 1])
        /\ \A t \in SEQ : \A f \in Elems(sl[j + 1].q[t]) : InRegion(f, t, IsCurrent(sl, j + 1))
    BY <2>1 DEF OrderedList
  <2>3. QED
    BY <2>1, <2>2 DEF InRegion, NoEmptyCell
<1>4. OrderedList(new) /\ NoEmptyCell(new)
  BY <1>3 DEF OrderedList, NoEmptyCell, InRegion
<1>5. Increasing(now, new)
  BY <1>1, <1>2 DEF Increasing
<1>6. ASSUME NEW e PROVE e \in CellEvents(sl[1]) <=> \E s \in SEQ : e \in Elems(sl[1].q[s])
  BY DEF CellEvents, Elems
<1>7. CellEvents(sl[1]) = {e \in EventsOf(sl) : e.due = sl[1].at}
  <2>1. ASSUME NEW e \in CellEvents(sl[1]) PROVE e \in EventsOf(sl) /\ e.due = sl[1].at
    BY <1>2, <1>6, EventsOfList DEF TimedList
  <2>2. ASSUME NEW e \in EventsOf(sl), e.due = sl[1].at PROVE e \in CellEvents(sl[1])
    <3>1. PICK k \in 1 .. Len(sl), s \in SEQ : e \in Elems(sl[k].q[s])
      BY EventsOfList
    <3>2. k = 1
      BY <2>2, <3>1, DueInFirst
    <3>3. QED
      BY <1>6, <3>1, <3>2
  <2>3. QED
    BY <2>1, <2>2
<1>8. ASSUME NEW e
      PROVE  e \in EventsOf(new) <=> e \in EventsOf(sl) /\ e \notin CellEvents(sl[1])
  <2>1. ASSUME e \in EventsOf(new) PROVE e \in EventsOf(sl) /\ e.due # sl[1].at
    <3>1. PICK j \in 1 .. Len(new), s \in SEQ : e \in Elems(new[j].q[s])
      BY <2>1, EventsOfList
    <3>2. j + 1 \in 1 .. Len(sl) /\ j + 1 # 1 /\ e \in Elems(sl[j + 1].q[s])
      BY <1>1, <1>2, <3>1
    <3>3. e \in EventsOf(sl)
      BY <3>2, EventsOfList
    <3>4. QED
      BY <3>2, <3>3, DueInFirst
  <2>2. ASSUME e \in EventsOf(sl), e \notin CellEvents(sl[1]) PROVE e \in EventsOf(new)
    <3>1. PICK k \in 1 .. Len(sl), s \in SEQ : e \in Elems(sl[k].q[s])
      BY <2>2, EventsOfList
    <3>2. k # 1
      BY <1>6, <2>2, <3>1
    <3>3. k - 1 \in 1 .. Len(new) /\ new[k - 1] = sl[k]
      BY <1>1, <1>2, <3>2
    <3>4. QED
      BY <3>1, <3>3, EventsOfList
  <2>3. QED
    BY <1>7, <2>1, <2>2
<1>9. EventsOf(new) = EventsOf(sl) \ CellEvents(sl[1])
  BY <1>8
<1>10. PromotedOf(new) = {}
  <2>1. ASSUME Len(new) > 0 PROVE \A e \in Elems(new[1].q["active"]) : e.seq = "active"
    <3>1. 1 \in 1 .. Len(new)
      BY <1>1, <2>1
    <3>2. QED
      BY <1>1, <1>3, <3>1, ZenonT(30)
  <2>2. QED
    BY <2>1 DEF PromotedOf
<1>11. QED
  BY <1>4, <1>5, <1>7, <1>9, <1>10

-----------------------------------------------------------------------------
(***************************************************************************)
(* The inductive invariant of the queue.                                   *)
(***************************************************************************)

\* The list is sorted, has no empty cell and counts upwards.
Arranged(now, sl) == OrderedList(sl) /\ NoEmptyCell(sl) /\ Increasing(now, sl)

\* Events are numbered from 1 in the order they are scheduled, and the event
\* that is being inserted is the newest of all.
Ages ==
  /\ nev <= MaxEvents
  /\ \A e \in EventsOf(sched_list) \cup lost :
       e.id \in 1 .. nev /\ (ins # Nil => e.id < ins.cur.id)
  /\ \A e \in Elems(schedule_init_list) \cup Elems(schedule_prestart_list)
                                        \cup Elems(schedule_final_list) : e.id \in 1 .. nev

\* The walk has passed only cells of times before that of its event, and an
\* event is pushed by a walk only when there is no current cell to push it to.
Walking ==
  ins # Nil =>
    /\ ins.cur.id \in 1 .. nev
    /\ ins.cur.push => /\ ins.cur.seq = "active" /\ ins.delay = 0
                       /\ ins.ctim = 1 /\ ~CurrentCell
    /\ ins.ctim > 1 => Ahead(schedule_time, sched_list[ins.ctim - 1].at)
                         < Ahead(schedule_time, ins.cur.due)

\* What was scheduled and not run is in the list or about to be linked into it.
PendingInList ==
  /\ ins = Nil => pending = EventsOf(sched_list)
  /\ ins # Nil => pending = EventsOf(sched_list) \cup {ins.cur}

\* From the read-only region on, nothing is promoted; once it is over, nothing
\* is left for it and no user code runs.
ReadOnly ==
  /\ sim_at_rosync = (pc = "rosync")
  /\ pc \in {"rosync", "del_thr"} => PromotedOf(sched_list) = {}
  /\ pc = "del_thr" =>
       /\ running = Nil /\ ins = Nil
       /\ \A e \in EventsOf(sched_list) : e.due = schedule_time => e.seq # "rosync"

QueueInv ==
  Arranged(schedule_time, sched_list) /\ Ages /\ Walking /\ PendingInList /\ ReadOnly

\* The types the proofs below need.
LEMMA ScheduleTypes ==
  ASSUME Inv
  PROVE  /\ sched_list \in Seq(Cell) /\ schedule_time \in Time /\ nev \in Nat
         /\ TimedList(sched_list)
         /\ sched_list # << >> => 1 \in 1 .. Len(sched_list)
         /\ EventsOf(sched_list) \subseteq Event
         /\ ins # Nil => /\ ins.cur \in Event /\ ins.delay \in Time /\ ins.ctim \in Nat
                         /\ ins.cur.due \in Time /\ ins.cur.seq \in SEQ
                         /\ ins.cur.push \in BOOLEAN /\ ins.cur.id \in Nat
<1>1. sched_list \in Seq(Cell) /\ schedule_time \in Time /\ nev \in Nat
  BY DEF Inv, TypeOK
<1>2. TimedList(sched_list)
  BY DEF Inv, Timed, TimedList, Elems
<1>3. sched_list # << >> => 1 \in 1 .. Len(sched_list)
  BY <1>1
<1>4. EventsOf(sched_list) \subseteq Event
  BY <1>1, EventsOfList, ListTypes
<1>5. ins # Nil => ins \in Insertion
  BY DEF Inv, TypeOK
<1>6. ins # Nil => ins.cur \in Event /\ ins.delay \in Time /\ ins.ctim \in Nat
  BY <1>5 DEF Insertion
<1>7. QED
  BY <1>1, <1>2, <1>3, <1>4, <1>6 DEF Event

\* How the cell the walk has come to lies to the event that is inserted.
LEMMA WalkDistance ==
  ASSUME Inv, QueueInv, ins # Nil, sched_list # << >>
  PROVE  LET c == sched_list[ins.ctim]
         IN  /\ ins.ctim \in 1 .. Len(sched_list)
             /\ c.delay \in Time /\ c.at \in Time
             /\ c.delay < ins.delay => Ahead(schedule_time, c.at) < Ahead(schedule_time, ins.cur.due)
             /\ c.delay > ins.delay => Ahead(schedule_time, c.at) > Ahead(schedule_time, ins.cur.due)
<1> DEFINE k == ins.ctim
           c == sched_list[k]
           d == ins.delay
           due == ins.cur.due
           now == schedule_time
<1>1. /\ sched_list \in Seq(Cell) /\ now \in Time /\ d \in Time /\ due \in Time
      /\ k \in 1 .. Len(sched_list)
  BY ScheduleTypes DEF Inv, WalkInvariant
<1>2. c.delay \in Time /\ c.at \in Time
  BY <1>1, ListTypes
<1>3. CASE k = 1
  <2>1. due = AddTime(now, d) /\ c.at = AddTime(now, c.delay)
    BY <1>3 DEF Inv, WalkInvariant, DeltaList
  <2>2. Ahead(now, due) = d /\ Ahead(now, c.at) = c.delay
    BY <1>1, <1>2, <2>1, AheadOfNow
  <2>3. QED
    BY <1>1, <1>2, <2>2 DEF Time
<1>4. CASE k # 1
  <2> DEFINE b == sched_list[k - 1].at
  <2>1. k \in 2 .. Len(sched_list) /\ k - 1 \in 1 .. Len(sched_list) /\ k > 1 /\ k - 1 < k
    BY <1>1, <1>4
  <2>2. due = AddTime(b, d) /\ c.at = AddTime(b, c.delay) /\ b \in Time
    BY <1>1, <1>4, <2>1, ListTypes DEF Inv, WalkInvariant, DeltaList
  <2>3. Ahead(now, b) < Ahead(now, due) /\ Ahead(now, b) < Ahead(now, c.at)
    BY <1>1, <2>1 DEF QueueInv, Walking, Arranged, Increasing
  <2> HIDE DEF b, c, d, due, now, k
  <2>4. Ahead(now, b) \in Time /\ Ahead(now, due) \in Time /\ Ahead(now, c.at) \in Time
    BY <1>1, <1>2, <2>2, AheadOfNow
  <2>5. Ahead(now, due) = Ahead(now, b) + d /\ Ahead(now, c.at) = Ahead(now, b) + c.delay
    <3>1. Ahead(now, AddTime(b, d)) > Ahead(now, b) /\ Ahead(now, AddTime(b, c.delay)) > Ahead(now, b)
      BY <2>2, <2>3, <2>4 DEF Time
    <3>2. QED
      BY <1>1, <1>2, <2>2, <3>1, AheadAdds
  <2>6. /\ c.delay < d => Ahead(now, c.at) < Ahead(now, due)
        /\ c.delay > d => Ahead(now, c.at) > Ahead(now, due)
    BY <1>1, <1>2, <2>4, <2>5 DEF Time
  <2>7. QED
    BY <1>1, <1>2, <2>6 DEF c, d, due, now, k
<1>5. QED
  BY <1>1, <1>2, <1>3, <1>4

\* The event e joins the list, which stays in order.
Joins(e) ==
  /\ Arranged(schedule_time, sched_list')
  /\ EventsOf(sched_list') = EventsOf(sched_list) \cup {e}
  /\ PromotedOf(sched_list') = PromotedOf(sched_list)

\* A queue of the list gets the newest event.
LEMMA JoinsQueue ==
  ASSUME Inv, QueueInv, NEW k \in 1 .. Len(sched_list), NEW e \in Event,
         \A f \in EventsOf(sched_list) : f.id < e.id,
         Added(sched_list', sched_list, k, e)
  PROVE  Joins(e)
<1>1. sched_list \in Seq(Cell)
  BY ScheduleTypes
<1>2. OrderedList(sched_list) /\ NoEmptyCell(sched_list) /\ Increasing(schedule_time, sched_list)
  BY DEF QueueInv, Arranged
<1>3. /\ OrderedList(sched_list') /\ NoEmptyCell(sched_list')
      /\ EventsOf(sched_list') = EventsOf(sched_list) \cup {e}
      /\ PromotedOf(sched_list') = PromotedOf(sched_list)
  BY <1>1, <1>2, AddedToList
<1>4. Len(sched_list') = Len(sched_list)
      /\ \A j \in 1 .. Len(sched_list) : sched_list'[j].at = sched_list[j].at
  BY DEF Added, QueueSet
<1>5. Increasing(schedule_time, sched_list')
  BY <1>2, <1>4 DEF Increasing
<1>6. QED
  BY <1>3, <1>5 DEF Joins, Arranged

\* The list gets a cell for the event that is inserted.
LEMMA JoinsInNewCell ==
  ASSUME Inv, QueueInv, ins # Nil, NEW k \in 1 .. Len(sched_list) + 1,
         Linked(sched_list', sched_list, k, ins.cur),
         k > 1 => Ahead(schedule_time, sched_list[k - 1].at) < Ahead(schedule_time, ins.cur.due),
         k <= Len(sched_list) =>
           Ahead(schedule_time, ins.cur.due) < Ahead(schedule_time, sched_list[k].at)
  PROVE  Joins(ins.cur)
<1>1. /\ sched_list \in Seq(Cell) /\ ins.cur \in Event /\ schedule_time \in Time
      /\ ins.cur.push => ins.cur.seq = "active"
  BY ScheduleTypes DEF QueueInv, Walking
<1>2. OrderedList(sched_list) /\ NoEmptyCell(sched_list) /\ Increasing(schedule_time, sched_list)
  BY DEF QueueInv, Arranged
<1>3. /\ OrderedList(sched_list') /\ NoEmptyCell(sched_list')
      /\ EventsOf(sched_list') = EventsOf(sched_list) \cup {ins.cur}
      /\ PromotedOf(sched_list') = PromotedOf(sched_list)
  BY <1>1, <1>2, LinkedToList
<1>4. Increasing(schedule_time, sched_list')
  BY <1>1, <1>2, LinkedInOrder
<1>5. QED
  BY <1>3, <1>4 DEF Joins, Arranged

\* However a walk ends, its event joins the list.
LEMMA InsertEffect ==
  ASSUME Inv, QueueInv, Insert
  PROVE  ins # Nil /\ (WalkNext \/ (Joins(ins.cur) /\ Inserted(sched_list')))
<1>1. ins # Nil
  BY DEF Insert, InsertFirst, InsertFront, WalkNext, InsertBetween, InsertHere, InsertTail
<1> DEFINE e == ins.cur
           d == ins.delay
           c == sched_list[ins.ctim]
           n == Len(sched_list)
<1>2. /\ sched_list \in Seq(Cell) /\ n \in Nat /\ e \in Event /\ d \in Time /\ e.seq \in SEQ
      /\ schedule_time \in Time /\ ins.ctim \in Nat
      /\ \A f \in EventsOf(sched_list) : f.id < e.id
  BY <1>1, ScheduleTypes DEF QueueInv, Ages
<1>3. sched_list # << >> =>
        /\ ins.ctim \in 1 .. n /\ c.delay \in Time /\ c.at \in Time /\ 1 \in 1 .. n
        /\ c.delay < d => Ahead(schedule_time, c.at) < Ahead(schedule_time, e.due)
        /\ c.delay > d => Ahead(schedule_time, c.at) > Ahead(schedule_time, e.due)
  BY <1>1, WalkDistance, ScheduleTypes
<1>a. \A t \in Time : Ahead(schedule_time, t) \in Int
  BY <1>2, AheadOfNow DEF Time
<1>n. ASSUME NEW x \in Time
      PROVE  /\ NewCell(x, e) \in Cell /\ NewCell(x, e).at = e.due
             /\ NewCell(x, e).q[e.seq] = <<e>>
             /\ \A t \in SEQ \ {e.seq} : NewCell(x, e).q[t] = << >>
  <2>1. /\ NewCell(x, e) \in Cell /\ NewCell(x, e).at = e.due
        /\ \A t \in SEQ : NewCell(x, e).q[t] = IF t = e.seq THEN <<e>> ELSE << >>
    BY <1>2, NewCellProperties
  <2> HIDE DEF e
  <2>2. NewCell(x, e).q[e.seq] = <<e>>
    BY <1>2, <2>1
  <2>3. ASSUME NEW t \in SEQ \ {e.seq} PROVE NewCell(x, e).q[t] = << >>
    BY <2>1
  <2>4. QED
    BY <2>1, <2>2, <2>3
<1>4. CASE InsertFirst
  <2>1. sched_list = << >> /\ sched_list' = <<NewCell(d, e)>> /\ Inserted(sched_list') /\ n = 0
    BY <1>4 DEF InsertFirst, Inserted
  <2> DEFINE new == NewCell(d, e)
  <2>2. new \in Cell /\ new.at = e.due /\ new.q[e.seq] = <<e>>
        /\ \A t \in SEQ \ {e.seq} : new.q[t] = << >>
    BY <1>2, <1>n
  <2>3. sched_list' = <<new>>
    BY <2>1
  <2> HIDE DEF new
  <2>4. sched_list' \in Seq(Cell) /\ Len(sched_list') = 1 /\ sched_list'[1] = new
    BY <2>2, <2>3
  <2>5. Linked(sched_list', sched_list, 1, e)
    BY <2>1, <2>2, <2>4 DEF Linked
  <2>6. Joins(e)
    BY <1>1, <2>1, <2>5, JoinsInNewCell
  <2>7. QED
    BY <1>1, <2>1, <2>6
<1>5. CASE InsertFront
  <2> DEFINE new == NewCell(d, e)
             rest == SetDelay(sched_list, 1, sched_list[1].delay - d)
  <2>1. /\ sched_list # << >> /\ ins.ctim = 1 /\ c.delay > d /\ c = sched_list[1]
        /\ sched_list' = <<new>> \o rest /\ Inserted(sched_list')
    BY <1>5 DEF InsertFront, Inserted
  <2>2. new \in Cell /\ new.at = e.due /\ new.q[e.seq] = <<e>>
        /\ \A t \in SEQ \ {e.seq} : new.q[t] = << >>
    BY <1>2, <1>n
  <2>3. sched_list[1].delay - d \in Time
    BY <1>2, <1>3, <2>1, AddTimeSplit
  <2>4. DelaySet(rest, sched_list, 1, sched_list[1].delay - d)
    BY <1>2, <1>3, <2>1, <2>3, SetDelayProperties
  <2> HIDE DEF new, rest
  <2>5. /\ rest \in Seq(Cell) /\ Len(rest) = n /\ <<new>> \in Seq(Cell) /\ Len(<<new>>) = 1
        /\ \A j \in 1 .. n : rest[j].at = sched_list[j].at /\ rest[j].q = sched_list[j].q
        /\ <<new>>[1] = new
    BY <2>2, <2>4 DEF DelaySet
  <2>6. Concatenated(sched_list', <<new>>, rest)
    BY <2>1, <2>5, ConcatCells
  <2>7. /\ sched_list' \in Seq(Cell) /\ Len(sched_list') = n + 1 /\ sched_list'[1] = new
        /\ \A j \in 1 .. n : sched_list'[j + 1] = rest[j]
    BY <1>2, <2>5, <2>6 DEF Concatenated
  <2>8. Linked(sched_list', sched_list, 1, e)
    <3>1. \A j \in 1 .. n : ~IsCurrent(sched_list, j) /\ ~(j < 1)
      BY <1>2, <1>3, <2>1 DEF IsCurrent, Time
    <3>2. QED
      BY <2>2, <2>5, <2>7, <3>1 DEF Linked
  <2>9. Ahead(schedule_time, e.due) < Ahead(schedule_time, sched_list[1].at)
    <3>1. e.due \in Time
      BY <1>2 DEF Event
    <3>2. QED
      BY <1>3, <1>a, <2>1, <3>1
  <2>10. Joins(e)
    BY <1>1, <1>2, <2>1, <2>8, <2>9, JoinsInNewCell
  <2>11. QED
    BY <1>1, <2>1, <2>10
<1>6. CASE InsertBetween
  <2> DEFINE new == NewCell(d, e)
             k == ins.ctim
             rest == SetDelay(sched_list, k, c.delay - d)
  <2>1. /\ sched_list # << >> /\ k > 1 /\ c.delay > d
        /\ sched_list' = InsertAt(rest, k, new) /\ Inserted(sched_list')
    BY <1>6 DEF InsertBetween, Inserted
  <2>2. new \in Cell /\ new.at = e.due /\ new.q[e.seq] = <<e>>
        /\ \A t \in SEQ \ {e.seq} : new.q[t] = << >>
    BY <1>2, <1>n
  <2>3. c.delay - d \in Time
    BY <1>2, <1>3, <2>1, AddTimeSplit
  <2>4. DelaySet(rest, sched_list, k, c.delay - d) /\ k \in 1 .. n
    BY <1>2, <1>3, <2>1, <2>3, SetDelayProperties
  <2>w. Ahead(schedule_time, sched_list[k - 1].at) < Ahead(schedule_time, e.due)
    BY <1>1, <2>1 DEF QueueInv, Walking
  <2>9. Ahead(schedule_time, e.due) < Ahead(schedule_time, sched_list[k].at)
    <3>1. e.due \in Time
      BY <1>2 DEF Event
    <3>2. QED
      BY <1>3, <1>a, <2>1, <3>1
  <2> HIDE DEF new, rest
  <2>5. /\ rest \in Seq(Cell) /\ Len(rest) = n
        /\ \A j \in 1 .. n : rest[j].at = sched_list[j].at /\ rest[j].q = sched_list[j].q
        /\ \A j \in 1 .. n : j < k => rest[j].delay = sched_list[j].delay
    BY <2>4 DEF DelaySet
  <2>6. CellInserted(sched_list', rest, k, new)
    BY <2>1, <2>2, <2>4, <2>5, InsertCell
  <2> HIDE DEF c
  <2>7. /\ sched_list' \in Seq(Cell) /\ Len(sched_list') = n + 1 /\ sched_list'[k] = new
        /\ \A j \in 1 .. n : (j < k => sched_list'[j] = rest[j]) /\ (j >= k => sched_list'[j + 1] = rest[j])
    <3>1. /\ sched_list' \in Seq(Cell) /\ Len(sched_list') = n + 1
          /\ \A j \in 1 .. n + 1 : sched_list'[j] =
               IF j < k THEN rest[j] ELSE IF j = k THEN new ELSE rest[j - 1]
      BY <2>5, <2>6 DEF CellInserted
    <3>2. k \in 1 .. n + 1
      BY <1>2, <2>4
    <3>3. ASSUME NEW j \in 1 .. n, j < k PROVE sched_list'[j] = rest[j]
      <4>1. j \in 1 .. n + 1
        BY <1>2
      <4>2. QED
        BY <3>1, <3>3, <4>1
    <3>4. ASSUME NEW j \in 1 .. n, j >= k PROVE sched_list'[j + 1] = rest[j]
      <4>1. j + 1 \in 1 .. n + 1 /\ ~(j + 1 < k) /\ j + 1 # k /\ (j + 1) - 1 = j
        BY <1>2, <2>4, <3>4
      <4>2. QED
        BY <3>1, <4>1
    <3>5. QED
      BY <1>2, <2>4, <3>1, <3>2, <3>3, <3>4
  <2>8. Linked(sched_list', sched_list, k, e)
    <3>1. \A j \in 1 .. n : j < k => rest[j] = sched_list[j]
      <4>1. ASSUME NEW j \in 1 .. n PROVE rest[j] \in Cell /\ sched_list[j] \in Cell
        BY <1>2, <2>5
      <4>2. ASSUME NEW a \in Cell, NEW b \in Cell, a.delay = b.delay, a.at = b.at, a.q = b.q
            PROVE  a = b
        BY <4>2 DEF Cell
      <4>3. QED
        BY <2>5, <4>1, <4>2
    <3>2. QED
      BY <2>1, <2>2, <2>5, <2>7, <3>1, SMTT(30) DEF Linked
  <2>10. Joins(e)
    <3>1. k \in 1 .. Len(sched_list) + 1
      BY <1>2, <2>4
    <3>2. QED
      BY <1>1, <1>2, <2>w, <2>8, <2>9, <3>1, JoinsInNewCell
  <2>11. QED
    BY <1>1, <2>1, <2>10
<1>7. CASE InsertHere
  <2>1. sched_list # << >> /\ c.delay = d /\ Inserted(sched_list')
        /\ sched_list' = SetQueue(sched_list, ins.ctim, e.seq, Append(c.q[e.seq], e))
    BY <1>7 DEF InsertHere, Inserted, AtTail
  <2>2. ~e.push
    BY <1>1, <2>1 DEF QueueInv, Walking, CurrentCell
  <2>3. c.q[e.seq] \in Seq(Event)
    BY <1>2, <1>3, <2>1, ListTypes
  <2> DEFINE q == Append(c.q[e.seq], e)
  <2>4. q \in Seq(Event)
    BY <1>2, <2>3
  <2>5. QueueSet(sched_list', sched_list, ins.ctim, e.seq, q)
    <3>1. sched_list' = SetQueue(sched_list, ins.ctim, e.seq, q)
      BY <2>1
    <3> HIDE DEF q
    <3>2. QED
      BY <1>2, <1>3, <2>1, <2>4, <3>1, SetQueueProperties
  <2>6. Added(sched_list', sched_list, ins.ctim, e)
    BY <2>2, <2>5 DEF Added
  <2>7. Joins(e)
    BY <1>2, <1>3, <2>1, <2>6, JoinsQueue
  <2>8. QED
    BY <1>1, <2>1, <2>7
<1>8. CASE InsertTail
  <2> DEFINE new == NewCell(d - c.delay, e)
  <2>1. /\ sched_list # << >> /\ ins.ctim = n /\ c.delay < d
        /\ sched_list' = Append(sched_list, new) /\ Inserted(sched_list')
    BY <1>8 DEF InsertTail, Inserted
  <2>2. d - c.delay \in Time
    BY <1>2, <1>3, <2>1, AddTimeSplit
  <2>3. new \in Cell /\ new.at = e.due /\ new.q[e.seq] = <<e>>
        /\ \A t \in SEQ \ {e.seq} : new.q[t] = << >>
    BY <2>2, <1>n
  <2> HIDE DEF new
  <2>4. /\ sched_list' \in Seq(Cell) /\ Len(sched_list') = n + 1 /\ sched_list'[n + 1] = new
        /\ \A j \in 1 .. n : sched_list'[j] = sched_list[j] /\ j < n + 1 /\ ~(j >= n + 1)
    BY <1>2, <2>1, <2>3
  <2>5. n + 1 # 1 /\ (n + 1) - 1 = n /\ n + 1 \in 1 .. Len(sched_list) + 1 /\ ~(n + 1 <= Len(sched_list))
    BY <1>2, <1>3, <2>1
  <2>6. Linked(sched_list', sched_list, n + 1, e)
    BY <2>3, <2>4, <2>5 DEF Linked
  <2>7. Ahead(schedule_time, sched_list[n].at) < Ahead(schedule_time, e.due)
    BY <1>3, <2>1
  <2>8. Joins(e)
    BY <1>1, <2>5, <2>6, <2>7, JoinsInNewCell
  <2>9. QED
    BY <1>1, <2>1, <2>8
<1>9. QED
  BY <1>1, <1>4, <1>5, <1>6, <1>7, <1>8 DEF Insert

\* The newest event is created, and a walk for it started ...
WalkBegins(e, d) ==
  /\ Creates(e) /\ e.id = nev + 1 /\ ScheduleEvent(e, d)
  /\ e.push => e.seq = "active" /\ d = 0 /\ ~CurrentCell

\* ... or added to the current cell without one ...
JoinsCurrent(e) == Creates(e) /\ e.id = nev + 1 /\ UNCHANGED ins /\ Joins(e)

\* ... or to one of the lists that carry no time.
JoinsLists(a, b, c) ==
  /\ Lists(a, b, c)
  /\ \A e \in Elems(a) \cup Elems(b) \cup Elems(c) :
       \/ e \in Elems(schedule_init_list) \cup Elems(schedule_prestart_list)
                                          \cup Elems(schedule_final_list)
       \/ e.id = nev + 1

\* What the schedule_* operations come to.
LEMMA ScheduleEffect ==
  ASSUME Inv, QueueInv, Schedule
  PROVE  \/ \E e \in Event, d \in Time : WalkBegins(e, d)
         \/ \E e \in Event : JoinsCurrent(e)
         \/ \E a, b, c \in Seq(Event) : JoinsLists(a, b, c)
<1> DEFINE Effect == \/ \E e \in Event, d \in Time : WalkBegins(e, d)
                     \/ \E e \in Event : JoinsCurrent(e)
                     \/ \E a, b, c \in Seq(Event) : JoinsLists(a, b, c)
<1> SUFFICES Effect
  OBVIOUS
<1>t. TypeOK /\ 0 \in Time /\ Delays \subseteq Time /\ schedule_time \in Time /\ nev \in Nat
      /\ sched_list \in Seq(Cell)
  BY AddTimeZero, DelaysAssumption DEF Inv, TypeOK, Time
<1>n. ASSUME NEW d \in Time, NEW s \in SEQ, NEW p \in BOOLEAN
      PROVE  /\ NewEvent(d, s, p) \in Event /\ NewEvent(d, s, p).id = nev + 1
             /\ NewEvent(d, s, p).seq = s /\ NewEvent(d, s, p).push = p
  BY <1>t, NewEventType DEF NewEvent
<1>s. {"start", "active", "inactive", "nbassign", "rwsync", "rosync", "del_thr"} \subseteq SEQ
  BY DEF SEQ
<1>w. ASSUME NEW d \in Time, NEW s \in SEQ,
             Creates(NewEvent(d, s, FALSE)), ScheduleEvent(NewEvent(d, s, FALSE), d)
      PROVE  Effect
  <2> DEFINE e == NewEvent(d, s, FALSE)
  <2>1. e \in Event /\ e.id = nev + 1 /\ ~e.push
    BY <1>n
  <2>2. WalkBegins(e, d)
    BY <1>w, <2>1 DEF WalkBegins
  <2> HIDE DEF e
  <2>3. QED
    BY <2>1, <2>2
<1>f. ASSUME NEW e \in Event, Creates(e), e.id = nev + 1, CurrentCell, UNCHANGED ins,
             \/ ~e.push /\ sched_list' = AtTail(sched_list, 1, e)
             \/ /\ e.push /\ e.seq = "active"
                /\ sched_list' = SetQueue(sched_list, 1, "active", <<e>> \o sched_list[1].q["active"])
      PROVE  Effect
  <2>1. 1 \in 1 .. Len(sched_list) /\ sched_list[1].delay = 0 /\ e.seq \in SEQ /\ ins = Nil
    BY <1>f, <1>t DEF CurrentCell, Event, Creates, UserCode
  <2> DEFINE old == sched_list[1].q[e.seq]
             back == Append(old, e)
             front == <<e>> \o old
  <2>2. old \in Seq(Event) /\ IsCurrent(sched_list, 1)
    BY <1>t, <2>1, ListTypes DEF IsCurrent
  <2>3. back \in Seq(Event) /\ front \in Seq(Event)
    <3> HIDE DEF old
    <3>1. QED
      BY <2>2
  <2>4. \/ ~e.push /\ sched_list' = SetQueue(sched_list, 1, e.seq, back)
        \/ e.push /\ e.seq = "active" /\ sched_list' = SetQueue(sched_list, 1, e.seq, front)
    BY <1>f DEF AtTail
  <2> HIDE DEF back, front
  <2>5. \/ ~e.push /\ QueueSet(sched_list', sched_list, 1, e.seq, back)
        \/ e.push /\ e.seq = "active" /\ QueueSet(sched_list', sched_list, 1, e.seq, front)
    BY <1>t, <2>1, <2>3, <2>4, SetQueueProperties
  <2>6. Added(sched_list', sched_list, 1, e)
    BY <2>2, <2>5 DEF Added, back, front, old
  <2>7. \A f \in EventsOf(sched_list) : f.id < e.id
    BY <1>f, <1>t DEF QueueInv, Ages
  <2>8. Joins(e)
    BY <2>1, <2>6, <2>7, JoinsQueue
  <2>9. JoinsCurrent(e)
    BY <1>f, <2>8 DEF JoinsCurrent
  <2>10. QED
    BY <2>9
<1>1. ASSUME NEW d \in Delays, NEW p \in BOOLEAN, schedule_vthread(d, p) PROVE Effect
  <2> DEFINE e == NewEvent(d, "active", p /\ d = 0)
  <2>1. (p /\ d = 0) \in BOOLEAN /\ d \in Time /\ "active" \in SEQ
    BY <1>s, <1>t
  <2>2. e \in Event /\ e.id = nev + 1 /\ e.seq = "active"
    BY <1>n, <2>1
  <2>3. e.push = (p /\ d = 0)
    BY <1>t, <2>1, NewEventType
  <2>4. Creates(e) /\ IF e.push THEN ScheduleEventPush(e) ELSE ScheduleEvent(e, d)
    BY <1>1 DEF schedule_vthread
  <2> HIDE DEF e
  <2>5. CASE ~e.push
    <3>1. WalkBegins(e, d)
      BY <2>2, <2>4, <2>5 DEF WalkBegins
    <3>2. QED
      BY <2>1, <2>2, <3>1
  <2>6. CASE e.push /\ ~CurrentCell
    <3>1. WalkBegins(e, 0)
      BY <2>2, <2>4, <2>6 DEF WalkBegins, ScheduleEventPush
    <3>2. QED
      BY <1>t, <2>2, <3>1
  <2>7. CASE e.push /\ CurrentCell
    BY <1>f, <2>2, <2>4, <2>7 DEF ScheduleEventPush
  <2>8. QED
    BY <2>5, <2>6, <2>7
<1>2. CASE schedule_inactive
  BY <1>2, <1>s, <1>t, <1>w DEF schedule_inactive
<1>3. ASSUME NEW d \in Delays, schedule_assign(d) PROVE Effect
  <2> DEFINE e == NewEvent(d, "nbassign", FALSE)
  <2>1. d \in Time /\ "nbassign" \in SEQ /\ e \in Event /\ e.id = nev + 1 /\ ~e.push
    BY <1>n, <1>s, <1>t
  <2>2. Creates(e) /\ ScheduleNbassign(e, d)
    BY <1>3 DEF schedule_assign
  <2>3. CASE d = 0 /\ CurrentCell
    <3> HIDE DEF e
    <3>1. QED
      BY <1>f, <2>1, <2>2, <2>3 DEF ScheduleNbassign
  <2>4. CASE ~(d = 0 /\ CurrentCell)
    BY <1>w, <2>1, <2>2, <2>4 DEF ScheduleNbassign
  <2>5. QED
    BY <2>3, <2>4
<1>4. CASE schedule_set_vector
  BY <1>4, <1>s, <1>t, <1>w DEF schedule_set_vector
<1>5. CASE schedule_vthread_list_ready
  <2> DEFINE e == NewEvent(0, "active", FALSE)
  <2>1. "active" \in SEQ /\ e \in Event /\ e.id = nev + 1 /\ ~e.push
    BY <1>n, <1>s, <1>t
  <2>2. Creates(e) /\ ScheduleListReady(e)
    BY <1>5 DEF schedule_vthread_list_ready
  <2>3. CASE CurrentCell
    <3> HIDE DEF e
    <3>1. QED
      BY <1>f, <2>1, <2>2, <2>3 DEF ScheduleListReady
  <2>4. CASE ~CurrentCell
    BY <1>t, <1>w, <2>1, <2>2, <2>4 DEF ScheduleListReady
  <2>5. QED
    BY <2>3, <2>4
<1>6. ASSUME NEW d \in Delays, NEW sf \in BOOLEAN, NEW ro \in BOOLEAN,
             schedule_generic(d, sf, ro)
      PROVE  Effect
  <2> DEFINE q == IF ~sf THEN "active" ELSE IF ro THEN "rosync" ELSE "rwsync"
  <2>1. q \in SEQ /\ d \in Time
    BY <1>s, <1>t
  <2>2. Creates(NewEvent(d, q, FALSE)) /\ ScheduleEvent(NewEvent(d, q, FALSE), d)
    BY <1>6 DEF schedule_generic
  <2> HIDE DEF q
  <2>3. QED
    BY <1>w, <2>1, <2>2
<1>7. ASSUME NEW d \in Delays,
             schedule_at_start_of_simtime(d) \/ schedule_at_end_of_simtime(d)
      PROVE  Effect
  <2>1. d \in Time
    BY <1>t
  <2>2. QED
    BY <1>7, <1>s, <1>w, <2>1 DEF schedule_at_start_of_simtime, schedule_at_end_of_simtime
<1>8. CASE schedule_del_thr
  BY <1>8, <1>s, <1>t, <1>w DEF schedule_del_thr
<1>l. ASSUME NEW q \in Seq(Event), NEW e \in Event
      PROVE  Append(q, e) \in Seq(Event) /\ \A f \in Elems(Append(q, e)) : f \in Elems(q) \/ f = e
  <2>1. /\ Append(q, e) \in Seq(Event) /\ Len(Append(q, e)) = Len(q) + 1 /\ Len(q) \in Nat
        /\ Append(q, e)[Len(q) + 1] = e
        /\ \A i \in 1 .. Len(q) : Append(q, e)[i] = q[i]
    OBVIOUS
  <2>2. \A i \in 1 .. Len(q) + 1 : i \in 1 .. Len(q) \/ i = Len(q) + 1
    BY <2>1
  <2>3. QED
    BY <2>1, <2>2 DEF Elems
<1>m. schedule_init_list \in Seq(Event) /\ schedule_prestart_list \in Seq(Event)
      /\ schedule_final_list \in Seq(Event)
  BY <1>t DEF TypeOK
<1>e. NewEvent(0, "active", FALSE) \in Event /\ NewEvent(0, "active", FALSE).id = nev + 1
  BY <1>n, <1>s, <1>t
<1>9. CASE \/ Lists(Append(schedule_init_list, NewEvent(0, "active", FALSE)),
                    schedule_prestart_list, schedule_final_list)
           \/ Lists(schedule_init_list, Append(schedule_prestart_list, NewEvent(0, "active", FALSE)),
                    schedule_final_list)
           \/ Lists(schedule_init_list, schedule_prestart_list,
                    Append(schedule_final_list, NewEvent(0, "active", FALSE)))
  <2> DEFINE e == NewEvent(0, "active", FALSE)
             a == Append(schedule_init_list, e)
             b == Append(schedule_prestart_list, e)
             c == Append(schedule_final_list, e)
  <2>1. /\ a \in Seq(Event) /\ \A f \in Elems(a) : f \in Elems(schedule_init_list) \/ f = e
        /\ b \in Seq(Event) /\ \A f \in Elems(b) : f \in Elems(schedule_prestart_list) \/ f = e
        /\ c \in Seq(Event) /\ \A f \in Elems(c) : f \in Elems(schedule_final_list) \/ f = e
        /\ e.id = nev + 1
    BY <1>e, <1>l, <1>m
  <2>2. \/ Lists(a, schedule_prestart_list, schedule_final_list)
        \/ Lists(schedule_init_list, b, schedule_final_list)
        \/ Lists(schedule_init_list, schedule_prestart_list, c)
    BY <1>9
  <2> HIDE DEF a, b, c, e
  <2>3. CASE Lists(a, schedule_prestart_list, schedule_final_list)
    <3>1. JoinsLists(a, schedule_prestart_list, schedule_final_list)
      BY <2>1, <2>3 DEF JoinsLists
    <3>2. QED
      BY <1>m, <2>1, <3>1
  <2>4. CASE Lists(schedule_init_list, b, schedule_final_list)
    <3>1. JoinsLists(schedule_init_list, b, schedule_final_list)
      BY <2>1, <2>4 DEF JoinsLists
    <3>2. QED
      BY <1>m, <2>1, <3>1
  <2>5. CASE Lists(schedule_init_list, schedule_prestart_list, c)
    <3>1. JoinsLists(schedule_init_list, schedule_prestart_list, c)
      BY <2>1, <2>5 DEF JoinsLists
    <3>2. QED
      BY <1>m, <2>1, <3>1
  <2>6. QED
    BY <2>2, <2>3, <2>4, <2>5
<1>10. CASE schedule_init_event \/ schedule_prestart_event \/ schedule_final_event
  BY <1>9, <1>10 DEF schedule_init_event, schedule_prestart_event, schedule_final_event
<1>11. CASE schedule_functor
  <2>1. CASE sim_started
    BY <1>11, <1>s, <1>t, <1>w, <2>1 DEF schedule_functor
  <2>2. CASE ~sim_started
    BY <1>9, <1>11, <2>2 DEF schedule_functor
  <2>3. QED
    BY <2>1, <2>2
<1> HIDE DEF Effect
<1>12. QED
  BY <1>1, <1>2, <1>3, <1>4, <1>5, <1>6, <1>7, <1>8, <1>10, <1>11 DEF Schedule

\* The loop takes the first event of a queue of the current cell.
LEMMA TakeEffect ==
  ASSUME Inv, QueueInv, InCell, ins = Nil, NEW s \in SEQ \ Promotable,
         sched_list[1].q[s] # << >>,
         sched_list' = SetQueue(sched_list, 1, s, Tail(sched_list[1].q[s]))
  PROVE  LET h == Head(sched_list[1].q[s])
         IN  /\ Arranged(schedule_time, sched_list')
             /\ h \in Event /\ h \in EventsOf(sched_list) /\ h.due = schedule_time
             /\ h.seq = s \/ (s = "active" /\ h \in PromotedOf(sched_list))
             /\ EventsOf(sched_list') = EventsOf(sched_list) \ {h}
             /\ PromotedOf(sched_list') = PromotedOf(sched_list) \ {h}
             /\ \A e \in EventsOf(sched_list) \ {h} : e.due = schedule_time =>
                  /\ e.seq = h.seq /\ ~h.push /\ ~e.push => e.id > h.id
                  /\ e.push /\ s = "active" => h.push /\ e.id < h.id
<1> DEFINE h == Head(sched_list[1].q[s])
<1>1. /\ sched_list \in Seq(Cell) /\ schedule_time \in Time /\ TimedList(sched_list)
      /\ sched_list # << >> /\ 1 \in 1 .. Len(sched_list) /\ s \in SEQ
      /\ sched_list[1].delay = 0 /\ sched_list[1].at = schedule_time
  BY ScheduleTypes DEF Inv, HeadIsCurrent
<1>2. OrderedList(sched_list) /\ NoEmptyCell(sched_list) /\ Increasing(schedule_time, sched_list)
  BY DEF QueueInv, Arranged
<1>3. /\ OrderedList(sched_list') /\ NoEmptyCell(sched_list') /\ Increasing(schedule_time, sched_list')
      /\ h \in Event /\ h \in EventsOf(sched_list) /\ h.due = sched_list[1].at
      /\ InRegion(h, s, TRUE)
      /\ EventsOf(sched_list') = EventsOf(sched_list) \ {h}
      /\ PromotedOf(sched_list') = PromotedOf(sched_list) \ {h}
      /\ s = "active" /\ h.seq # "active" => h \in PromotedOf(sched_list)
  <2>1. PICK sl, new, now : sl = sched_list /\ new = sched_list' /\ now = schedule_time
    OBVIOUS
  <2>2. /\ sl \in Seq(Cell) /\ now \in Time /\ 1 \in 1 .. Len(sl) /\ s \in SEQ
        /\ sl[1].delay = 0 /\ sl[1].q[s] # << >> /\ new = SetQueue(sl, 1, s, Tail(sl[1].q[s]))
        /\ OrderedList(sl) /\ NoEmptyCell(sl) /\ Increasing(now, sl) /\ TimedList(sl)
    BY <1>1, <1>2, <2>1
  <2>3. Taken(sl, new, now, s, Head(sl[1].q[s]))
    BY <2>2, TakenFromList
  <2>4. QED
    BY <2>1, <2>3 DEF Taken
<1>4. ASSUME NEW e \in EventsOf(sched_list) \ {h}, e.due = schedule_time
      PROVE  /\ e.seq = h.seq /\ ~h.push /\ ~e.push => e.id > h.id
             /\ e.push /\ s = "active" => h.push /\ e.id < h.id
  BY <1>1, <1>2, <1>4, FirstIsNext
<1>5. h.seq = s \/ (s = "active" /\ h \in PromotedOf(sched_list))
  BY <1>3 DEF InRegion
<1>6. QED
  BY <1>1, <1>3, <1>4, <1>5 DEF Arranged

\* What is due at the current time is in the current cell: in the queue of its
\* region, or in the active one when it is promoted.
LEMMA DueNow ==
  ASSUME Inv, QueueInv, InCell
  PROVE  /\ \A e : e \in Elems(sched_list[1].q["active"]) <=>
              \/ e \in PromotedOf(sched_list)
              \/ e \in EventsOf(sched_list) /\ e.due = schedule_time /\ e.seq = "active"
         /\ \A s \in SEQ \ {"active"} : \A e : e \in Elems(sched_list[1].q[s]) <=>
              /\ e \in EventsOf(sched_list) /\ e.due = schedule_time /\ e.seq = s
              /\ e \notin PromotedOf(sched_list)
<1>1. /\ sched_list \in Seq(Cell) /\ schedule_time \in Time /\ TimedList(sched_list)
      /\ 1 \in 1 .. Len(sched_list) /\ "active" \in SEQ /\ Len(sched_list) > 0
      /\ sched_list[1].delay = 0 /\ sched_list[1].at = schedule_time
  BY ScheduleTypes DEF Inv, HeadIsCurrent, SEQ
<1>2. OrderedList(sched_list) /\ Increasing(schedule_time, sched_list)
  BY DEF QueueInv, Arranged
<1>3. ASSUME NEW s \in SEQ, NEW e, e \in Elems(sched_list[1].q[s])
      PROVE  /\ e \in EventsOf(sched_list) /\ e.due = schedule_time /\ e \in Event
             /\ e.seq = s \/ (s = "active" /\ e.seq # "active")
  <2>1. e \in EventsOf(sched_list) /\ e.due = schedule_time
    BY <1>1, <1>3, EventsOfList DEF TimedList
  <2>2. e \in Event
    BY <1>1, <1>3, ListTypes
  <2>3. InRegion(e, s, IsCurrent(sched_list, 1))
    BY <1>1, <1>2, <1>3 DEF OrderedList
  <2>4. QED
    BY <2>1, <2>2, <2>3 DEF InRegion
<1>4. ASSUME NEW e, e \in EventsOf(sched_list), e.due = schedule_time
      PROVE  \E s \in SEQ : e \in Elems(sched_list[1].q[s])
  <2>1. PICK k \in 1 .. Len(sched_list), s \in SEQ : e \in Elems(sched_list[k].q[s])
    BY <1>4, EventsOfList
  <2>2. k = 1
    BY <1>1, <1>2, <1>4, <2>1, DueInFirst
  <2>3. QED
    BY <2>1, <2>2
<1>5. ASSUME NEW e
      PROVE  e \in PromotedOf(sched_list) <=>
               e \in Elems(sched_list[1].q["active"]) /\ e.seq # "active"
  BY <1>1, <1>3 DEF PromotedOf
<1>6. ASSUME NEW e
      PROVE  e \in Elems(sched_list[1].q["active"]) <=>
              \/ e \in PromotedOf(sched_list)
              \/ e \in EventsOf(sched_list) /\ e.due = schedule_time /\ e.seq = "active"
  <2>1. ASSUME e \in EventsOf(sched_list), e.due = schedule_time, e.seq = "active"
        PROVE  e \in Elems(sched_list[1].q["active"])
    BY <1>3, <1>4, <2>1
  <2>2. QED
    BY <1>1, <1>3, <1>5, <2>1
<1>7. ASSUME NEW s \in SEQ \ {"active"}, NEW e
      PROVE  e \in Elems(sched_list[1].q[s]) <=>
              /\ e \in EventsOf(sched_list) /\ e.due = schedule_time /\ e.seq = s
              /\ e \notin PromotedOf(sched_list)
  <2>1. ASSUME e \in Elems(sched_list[1].q[s])
        PROVE  /\ e \in EventsOf(sched_list) /\ e.due = schedule_time /\ e.seq = s
               /\ e \notin PromotedOf(sched_list)
    <3>1. e \in EventsOf(sched_list) /\ e.due = schedule_time /\ e.seq = s /\ e \in Event
      BY <1>3, <2>1
    <3>2. e \notin Elems(sched_list[1].q["active"])
      BY <1>1, <1>2, <2>1, <3>1, InOneQueue
    <3>3. QED
      BY <1>5, <3>1, <3>2
  <2>2. ASSUME e \in EventsOf(sched_list), e.due = schedule_time, e.seq = s,
               e \notin PromotedOf(sched_list)
        PROVE  e \in Elems(sched_list[1].q[s])
    <3>1. PICK t \in SEQ : e \in Elems(sched_list[1].q[t])
      BY <1>4, <2>2
    <3>2. e.seq = t \/ (t = "active" /\ e.seq # "active")
      BY <1>3, <3>1
    <3>3. QED
      BY <1>5, <2>2, <3>1, <3>2
  <2>3. QED
    BY <2>1, <2>2
<1>8. QED
  BY <1>6, <1>7

\* An empty queue has no events, and only that.
LEMMA EmptyElems == ASSUME NEW q \in Seq(Event) PROVE Elems(q) = {} <=> q = << >>
<1>1. q # << >> => 1 \in 1 .. Len(q)
  OBVIOUS
<1>2. QED
  BY <1>1, EmptyQueue DEF Elems

\* A region of the current cell is promoted.
LEMMA PromoteEffect ==
  ASSUME Inv, QueueInv, Promote
  PROVE  /\ Arranged(schedule_time, sched_list')
         /\ EventsOf(sched_list') = EventsOf(sched_list)
         /\ PromotedOf(sched_list) = {} /\ sched_list[1].q["active"] = << >>
         /\ \E i \in 1 .. 3 :
              /\ sched_list[1].q[PromoteOrder[i]] # << >>
              /\ \A j \in 1 .. i - 1 : sched_list[1].q[PromoteOrder[j]] = << >>
              /\ PromotedOf(sched_list') = Elems(sched_list[1].q[PromoteOrder[i]])
<1>1. PICK i \in 1 .. 3 :
        /\ sched_list[1].q[PromoteOrder[i]] # << >>
        /\ \A j \in 1 .. i - 1 : sched_list[1].q[PromoteOrder[j]] = << >>
        /\ sched_list' = SetQueue(SetQueue(sched_list, 1, "active",
                                           sched_list[1].q[PromoteOrder[i]]),
                                  1, PromoteOrder[i], << >>)
  BY DEF Promote
<1> DEFINE s == PromoteOrder[i]
           q == sched_list[1].q[s]
           mid == SetQueue(sched_list, 1, "active", q)
           none == << >>
<1>2. InCell /\ sched_list[1].q["active"] = << >>
  BY DEF Promote, At, InCell
<1>3. /\ sched_list \in Seq(Cell) /\ schedule_time \in Time
      /\ 1 \in 1 .. Len(sched_list) /\ sched_list[1].delay = 0
  BY <1>2, ScheduleTypes DEF Inv, HeadIsCurrent
<1>4. s \in SEQ /\ s \in Promotable /\ s # "active" /\ "active" \in SEQ
  BY DEF PromoteOrder, SEQ, Promotable
<1>5. q \in Seq(Event) /\ none \in Seq(Event)
  BY <1>3, <1>4, ListTypes
<1>6. sched_list' = SetQueue(mid, 1, s, none)
  BY <1>1
<1> HIDE DEF s, q, none
<1>7. QueueSet(mid, sched_list, 1, "active", q)
  BY <1>3, <1>4, <1>5, SetQueueProperties
<1> HIDE DEF mid
<1>8. mid \in Seq(Cell) /\ Len(mid) = Len(sched_list) /\ 1 \in 1 .. Len(mid)
  BY <1>3, <1>7 DEF QueueSet
<1>9. QueueSet(sched_list', mid, 1, s, none)
  BY <1>4, <1>5, <1>6, <1>8, SetQueueProperties
<1>10. Activated(sched_list', sched_list, s)
  <2>1. ASSUME NEW j \in 1 .. Len(sched_list)
        PROVE  /\ sched_list'[j].delay = sched_list[j].delay /\ sched_list'[j].at = sched_list[j].at
               /\ \A t \in SEQ : ~(j = 1 /\ t \in {"active", s}) => sched_list'[j].q[t] = sched_list[j].q[t]
    <3>1. j \in 1 .. Len(mid)
      BY <1>8
    <3>2. sched_list'[j].delay = sched_list[j].delay /\ sched_list'[j].at = sched_list[j].at
      BY <1>7, <1>9, <3>1 DEF QueueSet
    <3>3. ASSUME NEW t \in SEQ, ~(j = 1 /\ t \in {"active", s})
          PROVE  sched_list'[j].q[t] = sched_list[j].q[t]
      <4>1. sched_list'[j].q[t] = mid[j].q[t]
        BY <1>9, <3>1, <3>3 DEF QueueSet
      <4>2. mid[j].q[t] = sched_list[j].q[t]
        BY <1>7, <3>3 DEF QueueSet
      <4>3. QED
        BY <4>1, <4>2
    <3>4. QED
      BY <3>2, <3>3
  <2>2. mid[1].q["active"] = q
    BY <1>3, <1>4, <1>7 DEF QueueSet
  <2>3. sched_list'[1].q["active"] = mid[1].q["active"]
    BY <1>4, <1>8, <1>9 DEF QueueSet
  <2>4. sched_list'[1].q[s] = none
    BY <1>4, <1>8, <1>9 DEF QueueSet
  <2>5. Len(sched_list') = Len(sched_list)
    BY <1>8, <1>9 DEF QueueSet
  <2>6. QED
    BY <2>1, <2>2, <2>3, <2>4, <2>5 DEF Activated, q, none
<1>11. OrderedList(sched_list) /\ NoEmptyCell(sched_list) /\ Increasing(schedule_time, sched_list)
  BY DEF QueueInv, Arranged
<1>12. /\ OrderedList(sched_list') /\ NoEmptyCell(sched_list') /\ Increasing(schedule_time, sched_list')
       /\ EventsOf(sched_list') = EventsOf(sched_list)
       /\ PromotedOf(sched_list) = {} /\ PromotedOf(sched_list') = Elems(sched_list[1].q[s])
  BY <1>2, <1>3, <1>4, <1>10, <1>11, PromotedInList
<1>13. QED
  BY <1>1, <1>2, <1>12 DEF Arranged, s

\* The time moves to that of the first cell, the nearest with an event.
LEMMA AdvanceEffect ==
  ASSUME Inv, QueueInv, AdvanceTime
  PROVE  /\ Arranged(schedule_time', sched_list')
         /\ EventsOf(sched_list') = EventsOf(sched_list)
         /\ PromotedOf(sched_list) = {} /\ PromotedOf(sched_list') = {}
         /\ \A e \in EventsOf(sched_list) : e.due # schedule_time
         /\ \E e \in EventsOf(sched_list) :
              /\ schedule_time' = e.due
              /\ \A f \in EventsOf(sched_list) :
                   Ahead(schedule_time, e.due) <= Ahead(schedule_time, f.due)
<1> DEFINE now == schedule_time
           at == sched_list[1].at
<1>1. /\ sched_list # << >> /\ sched_list[1].delay > 0
      /\ sched_list' = SetDelay(sched_list, 1, 0)
      /\ schedule_time' = AddTime(now, sched_list[1].delay)
  BY DEF AdvanceTime, Looping
<1>2. /\ sched_list \in Seq(Cell) /\ now \in Time /\ TimedList(sched_list)
      /\ 1 \in 1 .. Len(sched_list) /\ 0 \in Time
  BY <1>1, ScheduleTypes, AddTimeZero
<1>3. OrderedList(sched_list) /\ NoEmptyCell(sched_list) /\ Increasing(now, sched_list)
  BY DEF QueueInv, Arranged
<1>4. /\ sched_list[1].delay \in Time /\ at \in Time
      /\ at = AddTime(now, sched_list[1].delay) /\ schedule_time' = at
  BY <1>1, <1>2, ListTypes DEF Inv, DeltaList
<1>5. DelaySet(sched_list', sched_list, 1, 0)
  BY <1>1, <1>2, SetDelayProperties
<1>6. /\ OrderedList(sched_list') /\ NoEmptyCell(sched_list') /\ Increasing(at, sched_list')
      /\ EventsOf(sched_list') = EventsOf(sched_list)
      /\ PromotedOf(sched_list) = {} /\ PromotedOf(sched_list') = {}
  BY <1>1, <1>2, <1>3, <1>5, AdvancedInList
<1>7. Ahead(now, at) = sched_list[1].delay /\ Ahead(now, at) > 0
  BY <1>1, <1>2, <1>4, AheadOfNow
<1>8. ASSUME NEW f \in EventsOf(sched_list)
      PROVE  f.due # now /\ Ahead(now, at) <= Ahead(now, f.due)
  <2>1. PICK k \in 1 .. Len(sched_list), s \in SEQ : f \in Elems(sched_list[k].q[s])
    BY EventsOfList
  <2>2. f.due = sched_list[k].at /\ f.due \in Time
    BY <1>2, <2>1, ListTypes DEF TimedList
  <2>3. Ahead(now, f.due) \in Time /\ Ahead(now, at) \in Time
    BY <1>2, <1>4, <2>2, AheadOfNow
  <2>4. Ahead(now, at) <= Ahead(now, f.due)
    <3>1. CASE k = 1
      BY <2>2, <2>3, <3>1 DEF Time
    <3>2. CASE k # 1
      <4>1. 1 < k
        BY <1>2, <3>2
      <4>2. Ahead(now, at) < Ahead(now, f.due)
        BY <1>2, <1>3, <2>2, <4>1 DEF Increasing
      <4>3. QED
        BY <2>3, <4>2 DEF Time
    <3>3. QED
      BY <3>1, <3>2
  <2>5. Ahead(now, now) = 0
    BY <1>2, AheadOfNow
  <2>6. QED
    BY <1>7, <2>3, <2>4, <2>5 DEF Time
<1>9. PICK e \in EventsOf(sched_list) : e.due = at
  <2>1. PICK s \in SEQ : sched_list[1].q[s] # << >>
    BY <1>1, <1>2, <1>3 DEF NoEmptyCell, IsCurrent
  <2>2. PICK e \in Elems(sched_list[1].q[s]) : TRUE
    BY <1>2, <2>1, ListTypes, EmptyElems
  <2>3. e \in EventsOf(sched_list) /\ e.due = at
    BY <1>2, <2>2, EventsOfList DEF TimedList
  <2>4. QED
    BY <2>3
<1>10. QED
  BY <1>4, <1>6, <1>8, <1>9 DEF Arranged

\* The current cell is released, with what is due now; when nothing of it can
\* be written any more only callbacks of the start of the time step are in it.
LEMMA ReleaseEffect ==
  ASSUME Inv, QueueInv, ReleaseCell
  PROVE  /\ Arranged(schedule_time, sched_list')
         /\ CellEvents(sched_list[1]) = {e \in EventsOf(sched_list) : e.due = schedule_time}
         /\ EventsOf(sched_list') = EventsOf(sched_list) \ CellEvents(sched_list[1])
         /\ PromotedOf(sched_list') = {}
         /\ ~RwEvents(sched_list[1]) => \A e \in CellEvents(sched_list[1]) : e.seq = "start"
<1>1. /\ InCell /\ pc = "del_thr" /\ sched_list[1].q["del_thr"] = << >>
      /\ sched_list' = Tail(sched_list)
  BY DEF ReleaseCell, At, InCell
<1>2. /\ sched_list \in Seq(Cell) /\ schedule_time \in Time /\ TimedList(sched_list)
      /\ sched_list # << >> /\ 1 \in 1 .. Len(sched_list) /\ sched_list[1].at = schedule_time
  BY <1>1, ScheduleTypes DEF Inv, HeadIsCurrent
<1>3. OrderedList(sched_list) /\ NoEmptyCell(sched_list) /\ Increasing(schedule_time, sched_list)
  BY DEF QueueInv, Arranged
<1>4. /\ OrderedList(sched_list') /\ NoEmptyCell(sched_list') /\ Increasing(schedule_time, sched_list')
      /\ CellEvents(sched_list[1]) = {e \in EventsOf(sched_list) : e.due = sched_list[1].at}
      /\ EventsOf(sched_list') = EventsOf(sched_list) \ CellEvents(sched_list[1])
      /\ PromotedOf(sched_list') = {}
  BY <1>1, <1>2, <1>3, ReleasedFromList
<1>5. ASSUME ~RwEvents(sched_list[1]), NEW e \in CellEvents(sched_list[1])
      PROVE  e.seq = "start"
  <2>1. PICK s \in SEQ : e \in Elems(sched_list[1].q[s])
    BY DEF CellEvents, Elems
  <2>2. sched_list[1].q[s] # << >>
    BY <2>1, EmptyQueue
  <2>3. s \in {"start", "rosync"}
    BY <1>1, <1>5, <2>2 DEF SEQ, RwEvents
  <2>4. e.seq = s
    BY <1>2, <1>3, <2>1, <2>3 DEF OrderedList, InRegion
  <2>5. e.seq # "rosync"
    BY <1>1, <1>2, <1>4 DEF QueueInv, ReadOnly
  <2>6. QED
    BY <2>3, <2>4, <2>5
<1>6. QED
  BY <1>2, <1>4, <1>5 DEF Arranged

\* The list, the walk and the events are as they were.
LEMMA QueueKept ==
  ASSUME Inv, QueueInv, UNCHANGED <<sched_list, schedule_time, ins, nev, pending, lost>>,
         Elems(schedule_init_list') \subseteq Elems(schedule_init_list),
         Elems(schedule_prestart_list') \subseteq Elems(schedule_prestart_list),
         Elems(schedule_final_list') \subseteq Elems(schedule_final_list),
         sim_at_rosync' = (pc' = "rosync"),
         pc' \in {"rosync", "del_thr"} => PromotedOf(sched_list) = {},
         pc' = "del_thr" =>
           /\ running' = Nil /\ ins = Nil
           /\ \A e \in EventsOf(sched_list) : e.due = schedule_time => e.seq # "rosync"
  PROVE  QueueInv'
<1>1. Arranged(schedule_time, sched_list)'
  BY DEF QueueInv, Arranged
<1>2. Ages'
  BY DEF QueueInv, Ages
<1>3. Walking'
  BY DEF QueueInv, Walking, CurrentCell
<1>4. PendingInList'
  BY DEF QueueInv, PendingInList
<1>5. ReadOnly'
  BY DEF ReadOnly
<1>6. QED
  BY <1>1, <1>2, <1>3, <1>4, <1>5 DEF QueueInv

\* Events leave the list, or stay, when no walk is in progress.
LEMMA QueueReduced ==
  ASSUME Inv, QueueInv, ins = Nil, ins' = Nil, UNCHANGED <<lists, nev>>,
         Arranged(schedule_time', sched_list'),
         EventsOf(sched_list') \subseteq EventsOf(sched_list),
         lost' \subseteq lost \cup EventsOf(sched_list),
         pending' = EventsOf(sched_list'),
         ReadOnly'
  PROVE  QueueInv'
<1>1. Ages'
  BY DEF QueueInv, Ages, lists
<1>2. Walking' /\ PendingInList'
  BY DEF Walking, PendingInList
<1>3. QED
  BY <1>1, <1>2 DEF QueueInv

\* The schedule_* operations keep the invariant.
LEMMA QueueSchedules == ASSUME Inv, QueueInv, Schedule PROVE QueueInv'
<1>t. nev \in Nat /\ MaxEvents \in Nat
  BY ScheduleTypes, BoundsAssumption
<1>1. ASSUME NEW e \in Event, NEW d \in Time, WalkBegins(e, d) PROVE QueueInv'
  <2>1. /\ ins = Nil /\ nev < MaxEvents /\ nev' = nev + 1 /\ e.id = nev + 1
        /\ pending' = pending \cup {e} /\ ins' = [cur |-> e, delay |-> d, ctim |-> 1]
        /\ UNCHANGED <<sched_list, lists, phase, schedule_time, running, lost>>
        /\ e.push => e.seq = "active" /\ d = 0 /\ ~CurrentCell
        /\ pc # "del_thr"
    BY <1>1 DEF WalkBegins, Creates, ScheduleEvent, UserCode, QueueInv, ReadOnly
  <2>2. ins' \in Insertion /\ ins'.cur = e /\ ins'.delay = d /\ ins'.ctim = 1
    BY <2>1 DEF Insertion
  <2>3. ins' # Nil
    BY <2>2, NilAssumption
  <2>4. Arranged(schedule_time, sched_list)'
    BY <2>1 DEF QueueInv, Arranged
  <2>5. Ages'
    <3>1. \A i \in 1 .. nev : i \in 1 .. nev + 1 /\ i < nev + 1
      BY <1>t
    <3>2. nev' <= MaxEvents
      BY <1>t, <2>1
    <3>3. QED
      BY <2>1, <2>2, <3>1, <3>2 DEF QueueInv, Ages, lists
  <2>6. Walking'
    <3>1. nev + 1 \in 1 .. nev + 1
      BY <1>t
    <3>2. QED
      BY <2>1, <2>2, <3>1 DEF Walking, CurrentCell
  <2>7. PendingInList'
    BY <2>1, <2>2, <2>3 DEF QueueInv, PendingInList
  <2>8. ReadOnly'
    BY <2>1 DEF QueueInv, ReadOnly, phase
  <2>9. QED
    BY <2>4, <2>5, <2>6, <2>7, <2>8 DEF QueueInv
<1>2. ASSUME NEW e \in Event, JoinsCurrent(e) PROVE QueueInv'
  <2>1. /\ ins = Nil /\ ins' = Nil /\ nev < MaxEvents /\ nev' = nev + 1 /\ e.id = nev + 1
        /\ pending' = pending \cup {e}
        /\ UNCHANGED <<lists, phase, schedule_time, running, lost>>
        /\ pc # "del_thr" /\ Joins(e)
    BY <1>2 DEF JoinsCurrent, Creates, UserCode, QueueInv, ReadOnly
  <2>2. /\ Arranged(schedule_time, sched_list)'
        /\ EventsOf(sched_list') = EventsOf(sched_list) \cup {e}
        /\ PromotedOf(sched_list') = PromotedOf(sched_list)
    BY <2>1 DEF Joins
  <2>3. Ages'
    <3>1. (\A i \in 1 .. nev : i \in 1 .. nev + 1) /\ nev + 1 \in 1 .. nev + 1
      BY <1>t
    <3>2. nev' <= MaxEvents
      BY <1>t, <2>1
    <3>3. QED
      BY <2>1, <2>2, <3>1, <3>2 DEF QueueInv, Ages, lists
  <2>4. Walking' /\ PendingInList' /\ ReadOnly'
    BY <2>1, <2>2 DEF QueueInv, Walking, PendingInList, ReadOnly, phase
  <2>5. QED
    BY <2>2, <2>3, <2>4 DEF QueueInv
<1>3. ASSUME NEW a \in Seq(Event), NEW b \in Seq(Event), NEW c \in Seq(Event), JoinsLists(a, b, c)
      PROVE  QueueInv'
  <2>1. /\ ins = Nil /\ nev < MaxEvents /\ nev' = nev + 1
        /\ schedule_init_list' = a /\ schedule_prestart_list' = b /\ schedule_final_list' = c
        /\ UNCHANGED <<sched_list, phase, schedule_time, running, ins, pending, lost>>
        /\ pc # "del_thr"
    BY <1>3 DEF JoinsLists, Lists, UserCode, QueueInv, ReadOnly
  <2>2. Arranged(schedule_time, sched_list)'
    BY <2>1 DEF QueueInv, Arranged
  <2>3. Ages'
    <3>1. (\A i \in 1 .. nev : i \in 1 .. nev + 1) /\ nev + 1 \in 1 .. nev + 1
      BY <1>t
    <3>2. nev' <= MaxEvents
      BY <1>t, <2>1
    <3>3. \A e \in Elems(a) \cup Elems(b) \cup Elems(c) : e.id \in 1 .. nev + 1
      BY <1>3, <3>1 DEF JoinsLists, QueueInv, Ages
    <3>4. \A e \in EventsOf(sched_list) \cup lost : e.id \in 1 .. nev + 1
      BY <3>1 DEF QueueInv, Ages
    <3>5. QED
      BY <2>1, <3>2, <3>3, <3>4 DEF Ages
  <2>4. Walking' /\ PendingInList' /\ ReadOnly'
    BY <2>1 DEF QueueInv, Walking, PendingInList, ReadOnly, phase
  <2>5. QED
    BY <2>2, <2>3, <2>4 DEF QueueInv
<1>4. QED
  BY <1>1, <1>2, <1>3, ScheduleEffect

\* The steps of a walk keep the invariant.
LEMMA QueueInserts == ASSUME Inv, QueueInv, Insert PROVE QueueInv'
<1>1. ins # Nil /\ (WalkNext \/ (Joins(ins.cur) /\ Inserted(sched_list')))
  BY InsertEffect
<1>2. CASE WalkNext
  <2> DEFINE c == sched_list[ins.ctim]
  <2>1. /\ ins.ctim < Len(sched_list) /\ c.delay < ins.delay
        /\ ins' = [ins EXCEPT !.delay = @ - c.delay, !.ctim = @ + 1]
        /\ UNCHANGED <<sched_list, lists, phase, schedule_time, running, nev, pending, lost>>
    BY <1>2 DEF WalkNext
  <2>2. ins \in Insertion /\ sched_list \in Seq(Cell) /\ ins.ctim \in Nat /\ ins.delay \in Time
    BY <1>1, ScheduleTypes DEF Inv, TypeOK
  <2>3. ins'.cur = ins.cur /\ ins'.ctim = ins.ctim + 1 /\ ins'.delay = ins.delay - c.delay
    BY <2>1, <2>2 DEF Insertion
  <2>4. sched_list # << >>
    BY <2>1, <2>2
  <2>5. /\ c.delay \in Time
        /\ Ahead(schedule_time, c.at) < Ahead(schedule_time, ins.cur.due)
    BY <1>1, <2>1, <2>4, WalkDistance
  <2>6. ~ins.cur.push
    BY <1>1, <2>1, <2>2, <2>5 DEF QueueInv, Walking, Time
  <2>7. Walking'
    <3>1. (ins.ctim + 1) - 1 = ins.ctim
      BY <2>2
    <3>2. ins.cur.id \in 1 .. nev
      BY <1>1 DEF QueueInv, Walking
    <3>3. QED
      BY <2>1, <2>3, <2>5, <2>6, <3>1, <3>2 DEF Walking
  <2>8. Ages'
    BY <1>1, <2>1, <2>3 DEF QueueInv, Ages, lists
  <2>9. ins' # Nil
    <3>1. ins' = [cur |-> ins.cur, delay |-> ins.delay - c.delay, ctim |-> ins.ctim + 1]
      BY <2>1, <2>2 DEF Insertion
    <3>2. ins.cur \in Event /\ ins.delay - c.delay \in Time /\ ins.ctim + 1 \in Nat
      BY <1>1, <2>1, <2>2, <2>5, ScheduleTypes, AddTimeSplit
    <3>3. ins' \in Insertion
      BY <3>1, <3>2 DEF Insertion
    <3>4. QED
      BY <3>3, NilAssumption
  <2>10. PendingInList'
    BY <1>1, <2>1, <2>3, <2>9 DEF QueueInv, PendingInList
  <2>11. Arranged(schedule_time, sched_list)' /\ ReadOnly'
    BY <1>1, <2>1 DEF QueueInv, Arranged, ReadOnly, phase
  <2>12. QED
    BY <2>7, <2>8, <2>10, <2>11 DEF QueueInv
<1>3. CASE Joins(ins.cur) /\ Inserted(sched_list')
  <2>1. /\ ins' = Nil
        /\ UNCHANGED <<lists, phase, schedule_time, running, nev, pending, lost>>
    BY <1>3 DEF Inserted
  <2>2. /\ Arranged(schedule_time, sched_list)'
        /\ EventsOf(sched_list') = EventsOf(sched_list) \cup {ins.cur}
        /\ PromotedOf(sched_list') = PromotedOf(sched_list)
    BY <1>3, <2>1 DEF Joins
  <2>3. Ages'
    BY <1>1, <2>1, <2>2 DEF QueueInv, Ages, Walking, lists
  <2>4. Walking' /\ PendingInList' /\ ReadOnly'
    BY <1>1, <2>1, <2>2 DEF QueueInv, Walking, PendingInList, ReadOnly, phase
  <2>5. QED
    BY <2>2, <2>3, <2>4 DEF QueueInv
<1>4. QED
  BY <1>1, <1>2, <1>3

\* The loop and the requests keep the invariant.
LEMMA QueueLoops ==
  ASSUME Inv, QueueInv,
         Loop \/ schedule_finish \/ schedule_stop \/ \E b \in BOOLEAN : signals_handler(b)
  PROVE  QueueInv'
<1> USE DEF At
<1>q. /\ sim_at_rosync = (pc = "rosync")
      /\ pc \in {"rosync", "del_thr"} => PromotedOf(sched_list) = {}
      /\ pc = "del_thr" =>
           /\ running = Nil /\ ins = Nil
           /\ \A e \in EventsOf(sched_list) : e.due = schedule_time => e.seq # "rosync"
      /\ ins = Nil => pending = EventsOf(sched_list)
  BY DEF QueueInv, ReadOnly, PendingInList
<1>1. CASE \/ schedule_finish \/ schedule_stop \/ \E b \in BOOLEAN : signals_handler(b)
  <2>1. UNCHANGED <<sched_list, lists, phase, schedule_time, running, ins, nev, pending, lost>>
    BY <1>1 DEF schedule_finish, schedule_stop, signals_handler, Request
  <2>2. QED
    BY <1>q, <2>1, QueueKept DEF lists, phase
<1>2. CASE \/ Simulate \/ EndOfCompileDone \/ InitDone \/ StartOfSimDone \/ PrestartDone
           \/ StopInteract \/ NextSimTimeDone \/ StartDone \/ SameTime
           \/ FinalDone \/ PostsimDone
  <2>1. /\ pc' \notin {"rosync", "del_thr"} /\ pc # "rosync"
        /\ UNCHANGED <<sched_list, lists, schedule_time, sim_at_rosync, ins, nev, pending, lost>>
    BY <1>2 DEF Simulate, EndOfCompileDone, InitDone, StartOfSimDone, PrestartDone,
                StopInteract, NextSimTimeDone, StartDone, SameTime, FinalDone, PostsimDone,
                Looping, Goto
  <2>2. QED
    BY <1>q, <2>1, QueueKept DEF lists
<1>3. CASE \/ Stop \/ StopIsFinish \/ LoopDone
           \/ \E cmd \in {"cont", "finish", "step"} : StopHandlerReturns(cmd)
  <2>1. /\ pc' \notin {"rosync", "del_thr"} /\ pc # "rosync"
        /\ UNCHANGED <<sched_list, lists, schedule_time, sim_at_rosync, ins, nev, pending, lost>>
    BY <1>3 DEF Stop, StopIsFinish, LoopDone, StopHandlerReturns, Looping
  <2>2. QED
    BY <1>q, <2>1, QueueKept DEF lists
<1>4. CASE Return
  <2>1. /\ running' = Nil /\ ins = Nil /\ pc' = IF pc = "dispatch" THEN "main" ELSE pc
        /\ UNCHANGED <<sched_list, lists, schedule_time, sim_at_rosync, ins, nev, pending, lost>>
    BY <1>4 DEF Return
  <2>2. QED
    BY <1>q, <2>1, QueueKept DEF lists
<1>5. CASE RunInit \/ RunPrestart \/ RunFinal
  <2>1. /\ pc' = pc /\ pc \notin {"rosync", "del_thr"}
        /\ UNCHANGED <<sched_list, schedule_time, sim_at_rosync, ins, nev, pending, lost>>
    BY <1>5 DEF RunInit, RunPrestart, RunFinal, RunFromList, phase
  <2>2. ASSUME NEW q \in Seq(Event), q # << >> PROVE Elems(Tail(q)) \subseteq Elems(q)
    <3>1. Len(q) \in Nat \ {0} /\ Len(Tail(q)) = Len(q) - 1
          /\ \A i \in 1 .. Len(Tail(q)) : Tail(q)[i] = q[i + 1]
      BY <2>2
    <3>2. \A i \in 1 .. Len(Tail(q)) : i + 1 \in 1 .. Len(q)
      BY <3>1
    <3>3. QED
      BY <3>1, <3>2 DEF Elems
  <2>3. /\ Elems(schedule_init_list') \subseteq Elems(schedule_init_list)
        /\ Elems(schedule_prestart_list') \subseteq Elems(schedule_prestart_list)
        /\ Elems(schedule_final_list') \subseteq Elems(schedule_final_list)
    BY <1>5, <2>2 DEF RunInit, RunPrestart, RunFinal, RunFromList, Inv, TypeOK
  <2>4. QED
    BY <1>q, <2>1, <2>3, QueueKept
<1>6. CASE BeginRosync
  <2>1. /\ pc' = "rosync" /\ sim_at_rosync' = TRUE /\ InCell
        /\ sched_list[1].q["active"] = << >>
        /\ UNCHANGED <<sched_list, lists, schedule_time, ins, nev, pending, lost>>
    BY <1>6 DEF BeginRosync, RwEvents, InCell
  <2>2. PromotedOf(sched_list) = {}
    BY <2>1, DueNow, EmptyQueue
  <2>3. QED
    BY <2>1, <2>2, QueueKept DEF lists
<1>7. CASE EndRosync
  <2>1. /\ pc = "rosync" /\ pc' = "del_thr" /\ sim_at_rosync' = FALSE /\ InCell
        /\ running' = Nil /\ ins = Nil /\ sched_list[1].q["rosync"] = << >>
        /\ UNCHANGED <<sched_list, lists, schedule_time, ins, nev, pending, lost>>
    BY <1>7 DEF EndRosync, InCell
  <2>2. \A e \in EventsOf(sched_list) : e.due = schedule_time => e.seq # "rosync"
    <3>1. "rosync" \in SEQ \ {"active"}
      BY DEF SEQ
    <3>2. QED
      BY <1>q, <2>1, <3>1, DueNow, EmptyQueue
  <2>3. QED
    BY <1>q, <2>1, <2>2, QueueKept DEF lists
<1>8. CASE RunStart \/ RunActive \/ RunRosync \/ RunDelThr
  <2>1. PICK s \in SEQ \ Promotable :
          /\ sched_list[1].q[s] # << >>
          /\ sched_list' = SetQueue(sched_list, 1, s, Tail(sched_list[1].q[s]))
          /\ pending' = pending \ {Head(sched_list[1].q[s])}
    <3>1. {"start", "active", "rosync", "del_thr"} \subseteq SEQ \ Promotable
      BY DEF SEQ, Promotable
    <3>2. QED
      BY <1>8, <3>1 DEF RunStart, RunActive, RunRosync, RunDelThr, RunFromCell
  <2> DEFINE h == Head(sched_list[1].q[s])
  <2>2. /\ InCell /\ ins = Nil /\ ins' = Nil
        /\ UNCHANGED <<lists, phase, schedule_time, nev, lost>>
        /\ pc = "del_thr" => running' = Nil
    BY <1>8 DEF RunStart, RunActive, RunRosync, RunDelThr, RunFromCell, InCell
  <2>3. /\ Arranged(schedule_time, sched_list')
        /\ EventsOf(sched_list') = EventsOf(sched_list) \ {h}
        /\ PromotedOf(sched_list') = PromotedOf(sched_list) \ {h}
    BY <2>1, <2>2, TakeEffect
  <2>4. ReadOnly'
    BY <1>q, <2>2, <2>3 DEF ReadOnly, phase
  <2>5. QED
    BY <1>q, <2>1, <2>2, <2>3, <2>4, QueueReduced
<1>9. CASE Promote
  <2>1. /\ pc = "dispatch" /\ ins = Nil
        /\ UNCHANGED <<lists, phase, schedule_time, running, ins, nev, pending, lost>>
    BY <1>9 DEF Promote
  <2>2. Arranged(schedule_time, sched_list') /\ EventsOf(sched_list') = EventsOf(sched_list)
    BY <1>9, PromoteEffect
  <2>3. ReadOnly'
    BY <1>q, <2>1 DEF ReadOnly, phase
  <2>4. QED
    BY <1>q, <2>1, <2>2, <2>3, QueueReduced
<1>10. CASE AdvanceTime
  <2>1. /\ pc = "main" /\ pc' = "NextSimTime" /\ ins = Nil
        /\ UNCHANGED <<lists, sim_at_rosync, running, ins, nev, pending, lost>>
    BY <1>10 DEF AdvanceTime, Looping
  <2>2. Arranged(schedule_time', sched_list') /\ EventsOf(sched_list') = EventsOf(sched_list)
    BY <1>10, AdvanceEffect
  <2>3. ReadOnly'
    BY <1>q, <2>1 DEF ReadOnly
  <2>4. QED
    BY <1>q, <2>1, <2>2, <2>3, QueueReduced
<1>11. CASE ReleaseCell
  <2>1. /\ pc = "del_thr" /\ pc' = "main" /\ ins = Nil
        /\ lost' = lost \cup CellEvents(sched_list[1])
        /\ pending' = pending \ CellEvents(sched_list[1])
        /\ UNCHANGED <<lists, sim_at_rosync, schedule_time, running, ins, nev>>
    BY <1>11 DEF ReleaseCell
  <2>2. /\ Arranged(schedule_time, sched_list')
        /\ CellEvents(sched_list[1]) \subseteq EventsOf(sched_list)
        /\ EventsOf(sched_list') = EventsOf(sched_list) \ CellEvents(sched_list[1])
    BY <1>11, ReleaseEffect
  <2>3. ReadOnly'
    BY <1>q, <2>1 DEF ReadOnly
  <2>4. QED
    BY <1>q, <2>1, <2>2, <2>3, QueueReduced
<1>12. QED
  BY <1>1, <1>2, <1>3, <1>4, <1>5, <1>6, <1>7, <1>8, <1>9, <1>10, <1>11 DEF Loop

\* The invariant of the list and the walk, and that of the queue, hold in
\* every state.
THEOREM QueueInvariance == Spec => [](Inv /\ QueueInv)
<1>1. Init => QueueInv
  <2> SUFFICES ASSUME Init PROVE QueueInv
    OBVIOUS
  <2>1. sched_list = << >> /\ Len(sched_list) = 0 /\ EventsOf(sched_list) = {}
        /\ PromotedOf(sched_list) = {}
    BY DEF Init, EventsOf, PromotedOf
  <2>2. Arranged(schedule_time, sched_list)
    BY <2>1 DEF Arranged, OrderedList, NoEmptyCell, Increasing
  <2>3. Ages
    BY <2>1, EmptyQueue, BoundsAssumption DEF Init, Ages
  <2>4. Walking /\ PendingInList /\ ReadOnly
    BY <2>1 DEF Init, Walking, PendingInList, ReadOnly
  <2>5. QED
    BY <2>2, <2>3, <2>4 DEF QueueInv
<1>2. Inv /\ QueueInv /\ [Next]_vars => QueueInv'
  <2> SUFFICES ASSUME Inv, QueueInv, [Next]_vars PROVE QueueInv'
    OBVIOUS
  <2>1. CASE Schedule
    BY <2>1, QueueSchedules
  <2>2. CASE Insert
    BY <2>2, QueueInserts
  <2>3. CASE Loop \/ schedule_finish \/ schedule_stop \/ \E b \in BOOLEAN : signals_handler(b)
    BY <2>3, QueueLoops
  <2>4. CASE UNCHANGED vars
    BY <2>4, QueueKept DEF vars, lists, phase, QueueInv, ReadOnly
  <2>5. QED
    BY <2>1, <2>2, <2>3, <2>4 DEF Next, Terminated
<1>3. QED
  BY <1>1, <1>2, Invariance, PTL DEF Spec

-----------------------------------------------------------------------------
(***************************************************************************)
(* The theorems.                                                           *)
(***************************************************************************)

\* The release of a time step drops no event without the SCHEDULER ERROR
\* message, other than callbacks of its start.
THEOREM NothingLostSilently == Spec => []NoSilentLoss
<1>1. Init => NoSilentLoss
  BY DEF Init, NoSilentLoss
<1>2. NoSilentLoss /\ Inv /\ QueueInv /\ [Next]_vars => NoSilentLoss'
  <2> SUFFICES ASSUME NoSilentLoss, Inv, QueueInv, [Next]_vars PROVE NoSilentLoss'
    OBVIOUS
  <2>1. CASE ReleaseCell
    <3>1. /\ error' = (error \/ RwEvents(sched_list[1]))
          /\ lost' = lost \cup CellEvents(sched_list[1])
      BY <2>1 DEF ReleaseCell
    <3>2. ~RwEvents(sched_list[1]) => \A e \in CellEvents(sched_list[1]) : e.seq = "start"
      BY <2>1, ReleaseEffect
    <3>3. QED
      BY <3>1, <3>2 DEF NoSilentLoss
  <2>2. CASE Schedule
    <3>1. UNCHANGED <<error, lost>>
      BY <2>2, ScheduleEffect
      DEF WalkBegins, JoinsCurrent, JoinsLists, Creates, Lists, phase
    <3>2. QED
      BY <3>1 DEF NoSilentLoss
  <2>3. CASE Insert
    <3>1. UNCHANGED <<error, lost>>
      BY <2>3, InsertEffect DEF WalkNext, Inserted, phase
    <3>2. QED
      BY <3>1 DEF NoSilentLoss
  <2>4. CASE \/ schedule_finish \/ schedule_stop \/ UNCHANGED vars
             \/ \E b \in BOOLEAN : signals_handler(b)
    <3>1. UNCHANGED <<error, lost>>
      BY <2>4 DEF schedule_finish, schedule_stop, signals_handler, Request, phase, vars
    <3>2. QED
      BY <3>1 DEF NoSilentLoss
  <2>5. CASE Loop /\ ~ReleaseCell
    <3>1. UNCHANGED <<error, lost>>
      BY <2>5
      DEF Loop, Simulate, EndOfCompileDone, InitDone, StartOfSimDone, PrestartDone, Goto,
          RunInit, RunPrestart, RunFinal, RunFromList, Return, Stop, StopIsFinish,
          StopInteract, StopHandlerReturns, AdvanceTime, NextSimTimeDone, RunStart,
          StartDone, SameTime, Promote, RunActive, RunFromCell, BeginRosync, RunRosync,
          EndRosync, RunDelThr, LoopDone, FinalDone, PostsimDone, phase
    <3>2. QED
      BY <3>1 DEF NoSilentLoss
  <2>6. QED
    BY <2>1, <2>2, <2>3, <2>4, <2>5 DEF Next, Terminated
<1>3. QED
  BY <1>1, <1>2, QueueInvariance, PTL DEF Spec

\* Two events of one region and time are run in the order they were scheduled,
\* and events pushed to the front latest first and before the others.
THEOREM RunsInOrder == Spec => InOrder
<1> DEFINE Order == InCell /\ running = Nil /\ running' # Nil =>
              \A e \in pending \ {running'} :
                e.due = schedule_time =>
                  /\ e.seq = running'.seq /\ ~running'.push /\ ~e.push => e.id > running'.id
                  /\ e.push /\ pc = "dispatch" => running'.push /\ e.id < running'.id
<1>1. Inv /\ QueueInv /\ [Next]_vars => [Order]_vars
  <2> SUFFICES ASSUME Inv, QueueInv, [Next]_vars, InCell, running = Nil, running' # Nil,
                      NEW e \in pending \ {running'}, e.due = schedule_time
               PROVE  /\ e.seq = running'.seq /\ ~running'.push /\ ~e.push => e.id > running'.id
                      /\ e.push /\ pc = "dispatch" => running'.push /\ e.id < running'.id
    OBVIOUS
  <2>1. ~Schedule
    <3>1. Schedule => running' = running
      BY ScheduleEffect DEF WalkBegins, JoinsCurrent, JoinsLists, Creates, Lists
    <3>2. QED
      BY <3>1
  <2>2. ~Insert
    <3>1. Insert => running' = running
      BY InsertEffect DEF WalkNext, Inserted
    <3>2. QED
      BY <3>1
  <2>3. ~(schedule_finish \/ schedule_stop \/ UNCHANGED vars \/ \E b \in BOOLEAN : signals_handler(b))
    BY DEF schedule_finish, schedule_stop, signals_handler, Request, vars
  <2>4. Loop
    BY <2>1, <2>2, <2>3 DEF Next, Terminated
  <2>5. RunStart \/ RunActive \/ RunRosync
    BY <2>4
    DEF Loop, Simulate, EndOfCompileDone, InitDone, StartOfSimDone, PrestartDone, Goto,
        RunInit, RunPrestart, RunFinal, RunFromList, Return, Stop, StopIsFinish,
        StopInteract, StopHandlerReturns, AdvanceTime, NextSimTimeDone,
        StartDone, SameTime, Promote, BeginRosync, At, InCell, ReleaseCell,
        EndRosync, RunDelThr, LoopDone, FinalDone, PostsimDone
  <2>6. PICK s \in SEQ \ Promotable :
          /\ sched_list[1].q[s] # << >> /\ running' = Head(sched_list[1].q[s])
          /\ sched_list' = SetQueue(sched_list, 1, s, Tail(sched_list[1].q[s]))
          /\ pc = "dispatch" => s = "active"
    <3>1. {"start", "active", "rosync"} \subseteq SEQ \ Promotable
      BY DEF SEQ, Promotable
    <3>2. QED
      BY <2>5, <3>1 DEF RunStart, RunActive, RunRosync, RunFromCell, At
  <2>7. ins = Nil /\ pending = EventsOf(sched_list)
    BY <2>5 DEF RunStart, RunActive, RunRosync, At, QueueInv, PendingInList
  <2>8. QED
    BY <2>6, <2>7, TakeEffect
<1>2. QED
  BY <1>1, QueueInvariance, PTL DEF Spec, InOrder

-----------------------------------------------------------------------------
(***************************************************************************)
(* The list of cells implements the abstract queue.                        *)
(***************************************************************************)

\* The refinement mapping, in the terms of the lemmas on lists.
LEMMA PromotedOfList ==
  ASSUME NEW sl \in Seq(Cell)
  PROVE  PromotedOf(sl) = IF sl # << >> /\ sl[1].delay = 0
                            THEN {e \in Range(sl[1].q["active"]) : e.seq # "active"}
                            ELSE {}
<1>1. sl # << >> <=> Len(sl) > 0
  OBVIOUS
<1>2. CASE sl # << >>
  <2>1. 1 \in 1 .. Len(sl) /\ "active" \in SEQ
    BY <1>2 DEF SEQ
  <2> DEFINE q == sl[1].q["active"]
  <2>2. q \in Seq(Event) /\ Elems(q) \subseteq Event
    BY <2>1, ListTypes
  <2>3. Range(q) = Elems(q)
    <3> HIDE DEF q
    <3>1. DOMAIN q = 1 .. Len(q)
      BY <2>2
    <3>2. QED
      BY <3>1 DEF Range, Elems
  <2>4. QED
    BY <1>1, <1>2, <2>2, <2>3 DEF PromotedOf
<1>3. CASE sl = << >>
  BY <1>1, <1>3 DEF PromotedOf
<1>4. QED
  BY <1>2, <1>3

\* The abstract queue before and after a step.
LEMMA Mapping ==
  ASSUME Inv, Inv'
  PROVE  /\ Queued = EventsOf(sched_list) /\ Queued' = EventsOf(sched_list')
         /\ Promoted = PromotedOf(sched_list) /\ Promoted' = PromotedOf(sched_list')
<1>1. sched_list \in Seq(Cell) /\ sched_list' \in Seq(Cell)
  BY DEF Inv, TypeOK
<1>2. Queued = EventsOf(sched_list) /\ Queued' = EventsOf(sched_list')
  BY DEF Queued, EventsOf
<1>3. Promoted = PromotedOf(sched_list)
  BY <1>1, PromotedOfList DEF Promoted, CurrentCell
<1>4. Promoted' = PromotedOf(sched_list')
  BY <1>1, PromotedOfList DEF Promoted, CurrentCell
<1>5. QED
  BY <1>2, <1>3, <1>4

\* The loop is in its main part.
Simulating == SignalsCaptured /\ pc # "final"

\* The step leaves the abstract queue as it is, when these are as they were.
LEMMA Invisible ==
  ASSUME UNCHANGED <<sched_list, schedule_time, running, lost, sim_at_rosync>>,
         Simulating' = Simulating
  PROVE  UNCHANGED Abstract!qvars
<1>1. Queued' = Queued /\ Promoted' = Promoted
  BY DEF Queued, Promoted, CurrentCell
<1>2. QED
  BY <1>1 DEF Abstract!qvars, Simulating

\* An event joins the abstract queue.
LEMMA PostsEvent ==
  ASSUME Inv, Inv', QueueInv, NEW e \in Event, Joins(e), e.id \in 1 .. MaxEvents,
         e \notin EventsOf(sched_list), e \notin lost,
         UNCHANGED <<schedule_time, running, lost, sim_at_rosync>>, Simulating' = Simulating
  PROVE  Abstract!Post
<1>1. Queued' = Queued \cup {e} /\ Promoted' = Promoted /\ e \notin Queued
  BY Mapping DEF Joins
<1>2. e \in Schedulable
  BY DEF Schedulable, Event
<1>3. \E f \in Queued' \ Queued : f \in Schedulable \ lost /\ Queued' = Queued \cup {f}
  BY <1>1, <1>2
<1>4. QED
  BY <1>1, <1>3 DEF Abstract!Post, Simulating

\* The schedule_* operations and the walks post events, or change nothing.
LEMMA PostStep ==
  ASSUME Inv, Inv', QueueInv, Schedule \/ Insert
  PROVE  Abstract!Post \/ UNCHANGED Abstract!qvars
<1>t. nev \in Nat /\ MaxEvents \in Nat /\ nev <= MaxEvents
  BY ScheduleTypes, BoundsAssumption DEF QueueInv, Ages
<1>1. CASE Schedule
  <2>1. ASSUME NEW e \in Event, NEW d \in Time, WalkBegins(e, d) PROVE UNCHANGED Abstract!qvars
    <3>1. UNCHANGED <<sched_list, phase, schedule_time, running, lost>>
      BY <2>1 DEF WalkBegins, Creates, ScheduleEvent
    <3>2. QED
      BY <3>1, Invisible DEF phase, Simulating, SignalsCaptured
  <2>2. ASSUME NEW a, NEW b, NEW c, JoinsLists(a, b, c) PROVE UNCHANGED Abstract!qvars
    <3>1. UNCHANGED <<sched_list, phase, schedule_time, running, lost>>
      BY <2>2 DEF JoinsLists, Lists
    <3>2. QED
      BY <3>1, Invisible DEF phase, Simulating, SignalsCaptured
  <2>3. ASSUME NEW e \in Event, JoinsCurrent(e) PROVE Abstract!Post
    <3>1. /\ UNCHANGED <<phase, schedule_time, running, lost>> /\ nev < MaxEvents
          /\ e.id = nev + 1 /\ Joins(e)
      BY <2>3 DEF JoinsCurrent, Creates
    <3>2. e.id \in 1 .. MaxEvents /\ e.id \notin 1 .. nev
      BY <1>t, <3>1
    <3>3. e \notin EventsOf(sched_list) /\ e \notin lost
      BY <3>2 DEF QueueInv, Ages
    <3>4. QED
      BY <3>1, <3>2, <3>3, PostsEvent DEF phase, Simulating, SignalsCaptured
  <2>4. QED
    BY <1>1, <2>1, <2>2, <2>3, ScheduleEffect
<1>2. CASE Insert
  <2>1. ins # Nil /\ (WalkNext \/ (Joins(ins.cur) /\ Inserted(sched_list')))
    BY <1>2, InsertEffect
  <2>2. CASE WalkNext
    <3>1. UNCHANGED <<sched_list, phase, schedule_time, running, lost>>
      BY <2>2 DEF WalkNext
    <3>2. QED
      BY <3>1, Invisible DEF phase, Simulating, SignalsCaptured
  <2>3. CASE Joins(ins.cur) /\ Inserted(sched_list')
    <3>1. UNCHANGED <<phase, schedule_time, running, lost>>
      BY <2>3 DEF Inserted
    <3>2. ins.cur \in Event /\ ins.cur.id \in 1 .. nev
      BY <2>1, ScheduleTypes DEF QueueInv, Walking
    <3>3. ins.cur.id \in 1 .. MaxEvents
      BY <1>t, <3>2
    <3>4. ins.cur.id \in Int /\ ~(ins.cur.id < ins.cur.id)
      BY <3>3
    <3>5. ins.cur \notin EventsOf(sched_list) /\ ins.cur \notin lost
      BY <2>1, <3>4 DEF QueueInv, Ages
    <3>6. QED
      BY <2>3, <3>1, <3>2, <3>3, <3>5, PostsEvent DEF phase, Simulating, SignalsCaptured
  <2>4. QED
    BY <2>1, <2>2, <2>3
<1>3. QED
  BY <1>1, <1>2

\* Running and deleting an event of the current cell.
LEMMA TakeStep ==
  ASSUME Inv, Inv', QueueInv, RunStart \/ RunActive \/ RunRosync \/ RunDelThr
  PROVE  \E e \in Queued : \/ Abstract!ExecuteStart(e) \/ Abstract!Execute(e)
                            \/ Abstract!ExecuteReadOnly(e) \/ Abstract!DeleteThread(e)
<1>1. PICK s \in {"start", "active", "rosync", "del_thr"} :
        /\ sched_list[1].q[s] # << >>
        /\ sched_list' = SetQueue(sched_list, 1, s, Tail(sched_list[1].q[s]))
        /\ s = "del_thr" => running' = running
        /\ s # "del_thr" => running' = Head(sched_list[1].q[s])
        /\ pc = IF s = "active" THEN "dispatch" ELSE s
  BY DEF RunStart, RunActive, RunRosync, RunDelThr, RunFromCell, At
<1> DEFINE h == Head(sched_list[1].q[s])
<1>2. /\ InCell /\ ins = Nil /\ running = Nil
      /\ UNCHANGED <<phase, schedule_time, lost>>
  BY DEF RunStart, RunActive, RunRosync, RunDelThr, RunFromCell, At, InCell
<1>3. s \in SEQ \ Promotable
  BY <1>1 DEF SEQ, Promotable
<1>4. /\ h \in Event /\ h \in EventsOf(sched_list) /\ h.due = schedule_time
      /\ h.seq = s \/ (s = "active" /\ h \in PromotedOf(sched_list))
      /\ EventsOf(sched_list') = EventsOf(sched_list) \ {h}
      /\ PromotedOf(sched_list') = PromotedOf(sched_list) \ {h}
  BY <1>1, <1>2, <1>3, TakeEffect
<1>5. /\ Queued = EventsOf(sched_list) /\ Queued' = EventsOf(sched_list')
      /\ Promoted = PromotedOf(sched_list) /\ Promoted' = PromotedOf(sched_list')
  BY Mapping
<1>6. /\ Simulating /\ Simulating' /\ Simulating \in BOOLEAN /\ Simulating' \in BOOLEAN
      /\ sim_at_rosync = (s = "rosync")
  BY <1>1, <1>2 DEF Simulating, SignalsCaptured, QueueInv, ReadOnly, phase
<1> HIDE DEF h
<1>7. Abstract!Take(h)
  BY <1>2, <1>4, <1>5, <1>6 DEF Abstract!Take, Simulating, phase
<1>8. CASE s = "start"
  <2>1. Abstract!ExecuteStart(h)
    BY <1>1, <1>4, <1>6, <1>7, <1>8 DEF Abstract!ExecuteStart, h
  <2>2. QED
    BY <1>4, <1>5, <2>1
<1>9. CASE s = "active"
  <2>1. h \in Abstract!Active
    BY <1>4, <1>5, <1>9 DEF Abstract!Active, Abstract!Due
  <2>2. Abstract!Execute(h)
    BY <1>1, <1>6, <1>7, <1>9, <2>1 DEF Abstract!Execute, h
  <2>3. QED
    BY <1>4, <1>5, <2>2
<1>10. CASE s = "rosync"
  <2>1. Abstract!ExecuteReadOnly(h)
    BY <1>1, <1>4, <1>6, <1>7, <1>10 DEF Abstract!ExecuteReadOnly, h
  <2>2. QED
    BY <1>4, <1>5, <2>1
<1>11. CASE s = "del_thr"
  <2>1. Abstract!DeleteThread(h)
    BY <1>1, <1>4, <1>6, <1>7, <1>11 DEF Abstract!DeleteThread
  <2>2. QED
    BY <1>4, <1>5, <2>1
<1>12. QED
  BY <1>8, <1>9, <1>10, <1>11

\* The events of a region that are due are those in its queue.
LEMMA DueInQueue ==
  ASSUME Inv, Inv', QueueInv, InCell
  PROVE  /\ Abstract!Active = Elems(sched_list[1].q["active"])
         /\ \A s \in SEQ \ {"active"} : Abstract!Due(s) = Elems(sched_list[1].q[s])
         /\ \A s \in SEQ : (sched_list[1].q[s] = << >> <=> Elems(sched_list[1].q[s]) = {})
<1>1. Queued = EventsOf(sched_list) /\ Promoted = PromotedOf(sched_list)
  BY Mapping
<1>2. ASSUME NEW e PROVE e \in Abstract!Active <=> e \in Elems(sched_list[1].q["active"])
  <2>1. e \in PromotedOf(sched_list) => e.seq # "active"
    BY DEF PromotedOf
  <2>2. QED
    BY <1>1, <2>1, DueNow DEF Abstract!Active, Abstract!Due
<1>3. ASSUME NEW s \in SEQ \ {"active"}, NEW e
      PROVE  e \in Abstract!Due(s) <=> e \in Elems(sched_list[1].q[s])
  BY <1>1, DueNow DEF Abstract!Due
<1>4. \A s \in SEQ : sched_list[1].q[s] \in Seq(Event)
  BY ScheduleTypes, ListTypes DEF Inv, HeadIsCurrent
<1>5. QED
  BY <1>2, <1>3, <1>4, EmptyElems

\* The other steps of the loop that the abstract queue sees.
LEMMA VisibleStep ==
  ASSUME Inv, Inv', QueueInv,
         Promote \/ BeginRosync \/ EndRosync \/ ReleaseCell \/ AdvanceTime
  PROVE  Abstract!Next
<1> USE DEF At
<1>m. /\ Queued = EventsOf(sched_list) /\ Queued' = EventsOf(sched_list')
      /\ Promoted = PromotedOf(sched_list) /\ Promoted' = PromotedOf(sched_list')
  BY Mapping
<1>r. sim_at_rosync = (pc = "rosync")
  BY DEF QueueInv, ReadOnly
<1>o. /\ \A i \in 1 .. 3 : PromoteOrder[i] \in SEQ \ {"active"}
                          /\ PromoteOrder[i] = Abstract!Later[i]
      /\ \A i \in 1 .. 3 : PromoteOrder[i] \in {"inactive", "nbassign", "rwsync"}
      /\ {"active", "rosync", "del_thr"} \subseteq SEQ
  BY DEF PromoteOrder, SEQ, Abstract!Later
<1>1. CASE Promote
  <2>1. /\ pc = "dispatch" /\ running = Nil /\ InCell
        /\ UNCHANGED <<phase, schedule_time, running, lost>>
    BY <1>1 DEF Promote, InCell
  <2>2. PICK i \in 1 .. 3 :
          /\ sched_list[1].q[PromoteOrder[i]] # << >>
          /\ \A j \in 1 .. i - 1 : sched_list[1].q[PromoteOrder[j]] = << >>
          /\ PromotedOf(sched_list') = Elems(sched_list[1].q[PromoteOrder[i]])
    BY <1>1, PromoteEffect
  <2>3. /\ EventsOf(sched_list') = EventsOf(sched_list) /\ sched_list[1].q["active"] = << >>
    BY <1>1, PromoteEffect
  <2>4. Abstract!Active = {} /\ Abstract!Due(Abstract!Later[i]) # {}
        /\ Promoted' = Abstract!Due(Abstract!Later[i])
    BY <1>m, <1>o, <2>1, <2>2, <2>3, DueInQueue
  <2>5. ASSUME NEW j \in 1 .. i - 1 PROVE Abstract!Due(Abstract!Later[j]) = {}
    <3>1. j \in 1 .. 3
      OBVIOUS
    <3>2. PromoteOrder[j] \in SEQ \ {"active"} /\ sched_list[1].q[PromoteOrder[j]] = << >>
      BY <1>o, <2>2, <3>1
    <3>3. QED
      BY <1>o, <2>1, <3>1, <3>2, DueInQueue
  <2>6. SignalsCaptured /\ pc # "final" /\ ~sim_at_rosync
    BY <1>r, <2>1 DEF SignalsCaptured
  <2>7. UNCHANGED <<SignalsCaptured /\ pc # "final", sim_at_rosync>>
    BY <2>1 DEF SignalsCaptured, phase
  <2>8. Abstract!Activate(i)
    BY <1>m, <2>1, <2>3, <2>4, <2>5, <2>6, <2>7 DEF Abstract!Activate
  <2>9. QED
    BY <2>8 DEF Abstract!Next
<1>2. CASE BeginRosync
  <2>1. /\ pc = "dispatch" /\ pc' = "rosync" /\ running = Nil /\ InCell
        /\ \A s \in {"active", "inactive", "nbassign", "rwsync"} : sched_list[1].q[s] = << >>
        /\ sim_at_rosync' = TRUE
        /\ UNCHANGED <<sched_list, schedule_time, running, lost>>
    BY <1>2 DEF BeginRosync, InCell, RwEvents
  <2>2. Abstract!Active = {}
    BY <1>o, <2>1, DueInQueue
  <2>3. ASSUME NEW i \in 1 .. 3 PROVE Abstract!Due(Abstract!Later[i]) = {}
    <3>1. PromoteOrder[i] \in SEQ \ {"active"} /\ sched_list[1].q[PromoteOrder[i]] = << >>
      BY <1>o, <2>1
    <3>2. QED
      BY <1>o, <2>1, <3>1, DueInQueue
  <2>4. SignalsCaptured /\ pc # "final" /\ ~sim_at_rosync
        /\ (SignalsCaptured /\ pc # "final")'
    BY <1>r, <2>1 DEF SignalsCaptured
  <2>5. UNCHANGED <<Queued, Promoted>>
    BY <1>m, <2>1
  <2>6. (SignalsCaptured /\ pc # "final")' = (SignalsCaptured /\ pc # "final")
    BY <2>4
  <2>7. Abstract!BeginReadOnly
    BY <2>1, <2>2, <2>3, <2>4, <2>5, <2>6 DEF Abstract!BeginReadOnly
  <2>8. QED
    BY <2>7 DEF Abstract!Next
<1>3. CASE EndRosync
  <2>1. /\ pc = "rosync" /\ pc' = "del_thr" /\ running = Nil /\ InCell
        /\ sched_list[1].q["rosync"] = << >> /\ sim_at_rosync' = FALSE
        /\ UNCHANGED <<sched_list, schedule_time, running, lost>>
    BY <1>3 DEF EndRosync, InCell
  <2>2. Abstract!Due("rosync") = {}
    BY <1>o, <2>1, DueInQueue
  <2>3. (SignalsCaptured /\ pc # "final")' = (SignalsCaptured /\ pc # "final")
    BY <2>1 DEF SignalsCaptured
  <2>4. UNCHANGED <<Queued, Promoted>>
    BY <1>m, <2>1
  <2>5. Abstract!EndReadOnly
    BY <1>r, <2>1, <2>2, <2>3, <2>4 DEF Abstract!EndReadOnly
  <2>6. QED
    BY <2>5 DEF Abstract!Next
<1>4. CASE ReleaseCell
  <2>1. /\ pc = "del_thr" /\ pc' = "main" /\ running = Nil /\ InCell
        /\ sched_list[1].q["del_thr"] = << >>
        /\ lost' = lost \cup CellEvents(sched_list[1])
        /\ UNCHANGED <<schedule_time, running, sim_at_rosync>>
    BY <1>4 DEF ReleaseCell, InCell
  <2>2. /\ CellEvents(sched_list[1]) = {e \in EventsOf(sched_list) : e.due = schedule_time}
        /\ EventsOf(sched_list') = EventsOf(sched_list) \ CellEvents(sched_list[1])
        /\ PromotedOf(sched_list') = {}
    BY <1>4, ReleaseEffect
  <2>3. Abstract!Due("del_thr") = {}
    BY <1>o, <2>1, DueInQueue
  <2>4. Promoted = {} /\ \A e \in Queued : e.due = schedule_time => e.seq # "rosync"
    BY <1>m, <2>1 DEF QueueInv, ReadOnly
  <2>5. Abstract!Due("rosync") = {}
    BY <2>4 DEF Abstract!Due
  <2>6. SignalsCaptured /\ pc # "final" /\ ~sim_at_rosync
        /\ (SignalsCaptured /\ pc # "final")' = (SignalsCaptured /\ pc # "final")
    BY <1>r, <2>1 DEF SignalsCaptured
  <2>7. Abstract!EndOfTime
    BY <1>m, <2>1, <2>2, <2>3, <2>4, <2>5, <2>6 DEF Abstract!EndOfTime
  <2>8. QED
    BY <2>7 DEF Abstract!Next
<1>5. CASE AdvanceTime
  <2>1. /\ pc = "main" /\ pc' = "NextSimTime" /\ running = Nil
        /\ UNCHANGED <<running, sim_at_rosync, lost>>
    BY <1>5 DEF AdvanceTime, Looping
  <2>2. /\ EventsOf(sched_list') = EventsOf(sched_list)
        /\ PromotedOf(sched_list) = {} /\ PromotedOf(sched_list') = {}
        /\ \A e \in EventsOf(sched_list) : e.due # schedule_time
        /\ \E e \in EventsOf(sched_list) :
              /\ schedule_time' = e.due
              /\ \A f \in EventsOf(sched_list) :
                   Ahead(schedule_time, e.due) <= Ahead(schedule_time, f.due)
    BY <1>5, AdvanceEffect
  <2>3. ASSUME NEW t PROVE Abstract!Distance(t) = Ahead(schedule_time, t)
    BY DEF Abstract!Distance, Ahead
  <2>4. SignalsCaptured /\ pc # "final" /\ ~sim_at_rosync
        /\ (SignalsCaptured /\ pc # "final")' = (SignalsCaptured /\ pc # "final")
    BY <1>r, <2>1 DEF SignalsCaptured
  <2>5. /\ Queued # {} /\ \A e \in Queued : e.due # schedule_time
        /\ \E e \in Queued :
              /\ \A f \in Queued : Abstract!Distance(e.due) <= Abstract!Distance(f.due)
              /\ schedule_time' = e.due
    BY <1>m, <2>2, <2>3
  <2>6. Abstract!Advance
    BY <1>m, <2>1, <2>2, <2>4, <2>5 DEF Abstract!Advance
  <2>7. QED
    BY <2>6 DEF Abstract!Next
<1>6. QED
  BY <1>1, <1>2, <1>3, <1>4, <1>5

\* The steps of the loop, and the requests, that leave the cells alone.
LEMMA OutsideStep ==
  ASSUME Inv, Inv', QueueInv,
         \/ schedule_finish \/ schedule_stop \/ \E b \in BOOLEAN : signals_handler(b)
         \/ Simulate \/ EndOfCompileDone \/ InitDone \/ StartOfSimDone \/ PrestartDone
         \/ RunInit \/ RunPrestart \/ RunFinal \/ Return
         \/ Stop \/ StopIsFinish \/ StopInteract
         \/ \E cmd \in {"cont", "finish", "step"} : StopHandlerReturns(cmd)
         \/ NextSimTimeDone \/ StartDone \/ SameTime
         \/ LoopDone \/ FinalDone \/ PostsimDone
  PROVE  Abstract!Next \/ UNCHANGED Abstract!qvars
<1> USE DEF At
<1>r. sim_at_rosync = (pc = "rosync")
  BY DEF QueueInv, ReadOnly
<1>1. CASE \/ schedule_finish \/ schedule_stop \/ \E b \in BOOLEAN : signals_handler(b)
  <2>1. UNCHANGED <<sched_list, phase, schedule_time, running, lost>>
    BY <1>1 DEF schedule_finish, schedule_stop, signals_handler, Request
  <2>2. QED
    BY <2>1, Invisible DEF phase, Simulating, SignalsCaptured
<1>2. CASE \/ Simulate \/ EndOfCompileDone \/ InitDone \/ StartOfSimDone
           \/ StopInteract \/ NextSimTimeDone \/ StartDone \/ SameTime
           \/ FinalDone \/ PostsimDone
  <2>1. /\ UNCHANGED <<sched_list, schedule_time, running, sim_at_rosync, lost>>
        /\ Simulating' = Simulating
    BY <1>2 DEF Simulate, EndOfCompileDone, InitDone, StartOfSimDone,
                StopInteract, NextSimTimeDone, StartDone, SameTime, FinalDone, PostsimDone,
                Looping, Goto, Simulating, SignalsCaptured
  <2>2. QED
    BY <2>1, Invisible
<1>3. CASE \/ Stop \/ StopIsFinish
           \/ \E cmd \in {"cont", "finish", "step"} : StopHandlerReturns(cmd)
  <2>1. /\ UNCHANGED <<sched_list, schedule_time, running, sim_at_rosync, lost>>
        /\ Simulating' = Simulating
    BY <1>3 DEF Stop, StopIsFinish, StopHandlerReturns, Looping, Simulating, SignalsCaptured
  <2>2. QED
    BY <2>1, Invisible
<1>u. UNCHANGED sched_list => UNCHANGED <<Queued, Promoted>>
  BY DEF Queued, Promoted, CurrentCell
<1>4. CASE PrestartDone
  <2>1. /\ UNCHANGED <<sched_list, schedule_time, running, sim_at_rosync, lost>>
        /\ pc = "prestart" /\ pc' = "main" /\ running = Nil
    BY <1>4 DEF PrestartDone, Goto
  <2>2. Abstract!Enter
    BY <1>u, <2>1 DEF Abstract!Enter, SignalsCaptured
  <2>3. QED
    BY <2>2 DEF Abstract!Next
<1>5. CASE LoopDone
  <2>1. /\ UNCHANGED <<sched_list, schedule_time, running, sim_at_rosync, lost>>
        /\ pc = "main" /\ pc' = "final" /\ running = Nil
    BY <1>5 DEF LoopDone
  <2>2. Abstract!Leave
    BY <1>r, <1>u, <2>1 DEF Abstract!Leave, SignalsCaptured
  <2>3. QED
    BY <2>2 DEF Abstract!Next
<1>6. CASE Return
  <2>1. /\ UNCHANGED <<sched_list, schedule_time, sim_at_rosync, lost>>
        /\ running # Nil /\ running' = Nil /\ pc' = IF pc = "dispatch" THEN "main" ELSE pc
    BY <1>6 DEF Return
  <2>2. (SignalsCaptured /\ pc # "final")' = (SignalsCaptured /\ pc # "final")
    BY <2>1 DEF SignalsCaptured
  <2>3. Abstract!Finished
    BY <1>u, <2>1, <2>2 DEF Abstract!Finished
  <2>4. QED
    BY <2>3 DEF Abstract!Next
<1>7. CASE RunInit \/ RunPrestart \/ RunFinal
  <2>1. PICK q \in {schedule_init_list, schedule_prestart_list, schedule_final_list} :
          q # << >> /\ running' = Head(q)
    BY <1>7 DEF RunInit, RunPrestart, RunFinal, RunFromList
  <2>2. /\ UNCHANGED <<sched_list, schedule_time, phase, lost>>
        /\ running = Nil /\ pc \in {"init", "prestart", "final"}
    BY <1>7 DEF RunInit, RunPrestart, RunFinal, RunFromList
  <2>3. q \in Seq(Event)
    BY <2>1 DEF Inv, TypeOK
  <2>4. Head(q) \in Event /\ Head(q) \in Elems(q)
    <3>1. Head(q) = q[1] /\ 1 \in 1 .. Len(q) /\ Head(q) \in Event
      BY <2>1, <2>3
    <3>2. QED
      BY <3>1 DEF Elems
  <2>5. Head(q).id \in 1 .. nev
    BY <2>1, <2>4 DEF QueueInv, Ages
  <2>6. Head(q).id \in 1 .. MaxEvents
    <3>1. nev \in Nat /\ MaxEvents \in Nat /\ nev <= MaxEvents
      BY ScheduleTypes, BoundsAssumption DEF QueueInv, Ages
    <3>2. QED
      BY <2>5, <3>1
  <2>7. running' \in Schedulable
    BY <2>1, <2>4, <2>6 DEF Schedulable, Event
  <2>8. Abstract!ExecuteOther
    BY <1>u, <2>2, <2>7 DEF Abstract!ExecuteOther, SignalsCaptured, phase
  <2>9. QED
    BY <2>8 DEF Abstract!Next
<1>8. QED
  BY <1>1, <1>2, <1>3, <1>4, <1>5, <1>6, <1>7

\* The scheduler of the code implements the abstract event queue.
THEOREM SchedulerImplementsQueue == Spec => ImplementsQueue
<1>1. Init => Abstract!Init
  <2> SUFFICES ASSUME Init PROVE Abstract!Init
    OBVIOUS
  <2>1. Queued = {} /\ Promoted = {}
    BY DEF Init, Queued, Promoted, CurrentCell
  <2>2. QED
    BY <2>1 DEF Init, Abstract!Init, SignalsCaptured
<1>2. Inv /\ Inv' /\ QueueInv /\ [Next]_vars => [Abstract!Next]_(Abstract!qvars)
  <2> SUFFICES ASSUME Inv, Inv', QueueInv, [Next]_vars
               PROVE  Abstract!Next \/ UNCHANGED Abstract!qvars
    OBVIOUS
  <2>1. CASE Schedule \/ Insert
    BY <2>1, PostStep DEF Abstract!Next
  <2>2. CASE RunStart \/ RunActive \/ RunRosync \/ RunDelThr
    BY <2>2, TakeStep DEF Abstract!Next
  <2>3. CASE Promote \/ BeginRosync \/ EndRosync \/ ReleaseCell \/ AdvanceTime
    BY <2>3, VisibleStep
  <2>4. CASE UNCHANGED vars
    BY <2>4, Invisible DEF vars, phase, Simulating, SignalsCaptured
  <2>5. QED
    BY <2>1, <2>2, <2>3, <2>4, OutsideStep DEF Next, Loop, Terminated
<1>3. QED
  BY <1>1, <1>2, QueueInvariance, PTL DEF Spec, ImplementsQueue, Abstract!Spec

=============================================================================
