-------------------------- MODULE EventDeferProofs --------------------------
(***************************************************************************)
(* The transactions that defer events are accounted for, for every net,    *)
(* every program of stores and any number of threads and transactions.     *)
(*                                                                         *)
(* TransactionsAccounted counts; it is not inductive because it does not   *)
(* say when a transaction is current.  The strengthening says that of the  *)
(* calls in progress all but the last are deliveries, that the last one    *)
(* tells what the simulator is in the middle of (Control), and that the    *)
(* source of a transaction is not done exactly while its store is running. *)
(* The values that are sent do not matter: Typed only needs some set that  *)
(* holds them.                                                             *)
(*                                                                         *)
(* The second part is about the other thing an event functor holds, its    *)
(* event controls.                                                         *)
(***************************************************************************)
EXTENDS EventDefer, FiniteSetTheorems, FunctionTheorems, SequenceTheorems, TLAPS

-----------------------------------------------------------------------------
(***************************************************************************)
(* Calls in progress.                                                      *)
(***************************************************************************)

NoCall == [call |-> "none"]

\* All calls but the last are deliveries of a value.
Body(td) == \A i \in 1..Len(td) - 1 : td[i].call = "recv"

\* The last call, unless that is a delivery too.
Closer(td) == IF td # << >> /\ td[Len(td)].call # "recv" THEN td[Len(td)] ELSE NoCall

LEMMA EmptyCloses == Body(<< >>) /\ Closer(<< >>) = NoCall
BY DEF Body, Closer

LEMMA SingleCloses ==
  ASSUME NEW c, c.call # "recv"
  PROVE  Body(<<c>>) /\ Closer(<<c>>) = c
<1>1. Len(<<c>>) = 1 /\ <<c>>[1] = c /\ <<c>> # << >>
  OBVIOUS
<1>2. QED
  BY <1>1 DEF Body, Closer

LEMMA TailCloses ==
  ASSUME NEW S, NEW td \in Seq(S), td # << >>, Body(td), td[1].call = "recv"
  PROVE  Tail(td) \in Seq(S) /\ Body(Tail(td)) /\ Closer(Tail(td)) = Closer(td)
<1> DEFINE r == Tail(td)
<1>1. /\ r \in Seq(S) /\ Len(r) = Len(td) - 1 /\ Len(td) \in Nat /\ Len(td) # 0
      /\ \A i \in 1..Len(r) : r[i] = td[i + 1]
  BY HeadTailProperties
<1>2. Len(r) = 0 <=> r = << >>
  BY <1>1
<1> HIDE DEF r
<1>3. Body(r)
  BY <1>1 DEF Body
<1>4. CASE Len(td) = 1
  <2>1. r = << >>
    BY <1>1, <1>2, <1>4
  <2>2. QED
    BY <1>1, <1>3, <1>4, <2>1 DEF Closer, r
<1>5. CASE Len(td) # 1
  <2>1. r # << >> /\ r[Len(r)] = td[Len(td)]
    <3>1. Len(r) \in 1..Len(r) /\ Len(r) + 1 = Len(td)
      BY <1>1, <1>5
    <3>2. QED
      BY <1>1, <1>2, <3>1
  <2>2. QED
    BY <1>1, <1>3, <2>1 DEF Closer, r
<1>6. QED
  BY <1>4, <1>5

LEMMA ConcatCloses ==
  ASSUME NEW S, NEW s \in Seq(S), NEW td \in Seq(S), \A i \in 1..Len(s) : s[i].call = "recv",
         Body(td)
  PROVE  s \o td \in Seq(S) /\ Body(s \o td) /\ Closer(s \o td) = Closer(td)
<1> DEFINE r == s \o td
<1>1. /\ r \in Seq(S) /\ Len(r) = Len(s) + Len(td) /\ Len(s) \in Nat /\ Len(td) \in Nat
      /\ \A i \in 1..Len(r) : r[i] = IF i <= Len(s) THEN s[i] ELSE td[i - Len(s)]
  BY ConcatProperties
<1>2. (Len(r) = 0 <=> r = << >>) /\ (Len(td) = 0 <=> td = << >>)
  BY <1>1
<1> HIDE DEF r
<1>3. Body(r)
  <2> SUFFICES ASSUME NEW i \in 1..Len(r) - 1 PROVE r[i].call = "recv"
    BY DEF Body
  <2>1. i \in 1..Len(r)
    BY <1>1
  <2>2. CASE i <= Len(s)
    BY <1>1, <2>1, <2>2
  <2>3. CASE ~(i <= Len(s))
    <3>1. i - Len(s) \in 1..Len(td) - 1
      BY <1>1, <2>3
    <3>2. QED
      BY <1>1, <2>1, <2>3, <3>1 DEF Body
  <2>4. QED
    BY <2>2, <2>3
<1>4. CASE td = << >>
  <2>1. CASE s = << >>
    BY <1>1, <1>2, <1>3, <1>4, <2>1 DEF r, Closer
  <2>2. CASE s # << >>
    <3>1. Len(r) = Len(s) /\ Len(r) \in 1..Len(r) /\ Len(r) \in 1..Len(s)
      BY <1>1, <1>2, <1>4, <2>2
    <3>2. r[Len(r)].call = "recv"
      BY <1>1, <3>1
    <3>3. QED
      BY <1>1, <1>3, <1>4, <3>2 DEF Closer, r
  <2>3. QED
    BY <2>1, <2>2
<1>5. CASE td # << >>
  <2>1. Len(td) > 0 /\ Len(r) \in 1..Len(r) /\ ~(Len(r) <= Len(s)) /\ Len(r) - Len(s) = Len(td)
    BY <1>1, <1>2, <1>5
  <2>2. r # << >> /\ r[Len(r)] = td[Len(td)]
    BY <1>1, <1>2, <2>1
  <2>3. QED
    BY <1>1, <1>3, <1>5, <2>2 DEF Closer, r
<1>6. QED
  BY <1>4, <1>5

\* A call that is not a delivery is the last one.
LEMMA LastCall ==
  ASSUME NEW S, NEW td \in Seq(S), td # << >>, Body(td), td[1].call # "recv"
  PROVE  Tail(td) = << >> /\ Closer(td) = td[1]
<1>1. Len(td) \in Nat /\ Len(td) # 0
  OBVIOUS
<1>2. Len(td) = 1
  <2> SUFFICES ASSUME Len(td) # 1 PROVE FALSE
    OBVIOUS
  <2> DEFINE n == Len(td)
  <2>1. n \in Nat /\ n # 0 /\ n # 1
    BY <1>1
  <2> HIDE DEF n
  <2>2. 1 \in 1..n - 1
    BY <2>1
  <2>3. QED
    BY <2>2 DEF Body, n
<1>3. Tail(td) = << >>
  <2> DEFINE r == Tail(td)
  <2>1. r \in Seq(S) /\ Len(r) = 0
    BY <1>2, HeadTailProperties
  <2> HIDE DEF r
  <2>2. r = << >>
    BY <2>1
  <2>3. QED
    BY <2>2 DEF r
<1>4. QED
  BY <1>2, <1>3 DEF Closer

-----------------------------------------------------------------------------
(***************************************************************************)
(* The functors in the queue that carry a transaction.                     *)
(***************************************************************************)

Carriers(q, t) == {i \in 1..Len(q) : q[i].tr = t}
Count(q, t) == Cardinality(Carriers(q, t))

LEMMA CountType ==
  ASSUME NEW S, NEW q \in Seq(S), NEW t
  PROVE  /\ IsFiniteSet(Carriers(q, t)) /\ Count(q, t) \in Nat
         /\ Count(q, t) = 0 <=> Carriers(q, t) = {}
<1>1. Len(q) \in Nat
  OBVIOUS
<1>2. IsFiniteSet(1..Len(q))
  BY <1>1, FS_Interval
<1>3. IsFiniteSet(Carriers(q, t))
  BY <1>2, FS_Subset DEF Carriers
<1>4. QED
  BY <1>3, FS_CardinalityType, FS_EmptySet DEF Count

LEMMA CountAppend ==
  ASSUME NEW S, NEW q \in Seq(S), NEW e \in S, NEW t
  PROVE  Count(Append(q, e), t) = Count(q, t) + IF e.tr = t THEN 1 ELSE 0
<1> DEFINE r == Append(q, e)
           n == Len(q)
<1>1. /\ n \in Nat /\ Len(r) = n + 1 /\ r[n + 1] = e
      /\ \A i \in 1..n : r[i] = q[i]
  BY AppendProperties
<1>2. IsFiniteSet(Carriers(q, t)) /\ Count(q, t) \in Nat
  BY CountType
<1>3. n + 1 \notin Carriers(q, t)
  BY <1>1 DEF Carriers
<1> HIDE DEF r
<1>4. CASE e.tr = t
  <2>1. Carriers(r, t) = Carriers(q, t) \cup {n + 1}
    BY <1>1, <1>4 DEF Carriers
  <2>2. Cardinality(Carriers(q, t) \cup {n + 1}) = Cardinality(Carriers(q, t)) + 1
    BY <1>2, <1>3, FS_AddElement
  <2>3. QED
    BY <1>4, <2>1, <2>2 DEF Count, r
<1>5. CASE e.tr # t
  <2>1. Carriers(r, t) = Carriers(q, t)
    BY <1>1, <1>5 DEF Carriers
  <2>2. QED
    BY <1>2, <1>5, <2>1 DEF Count, r
<1>6. QED
  BY <1>4, <1>5

\* The front of the queue is taken.
LEMMA CountTail ==
  ASSUME NEW S, NEW q \in Seq(S), q # << >>, NEW t
  PROVE  Count(q, t) = Count(Tail(q), t) + IF q[1].tr = t THEN 1 ELSE 0
<1> DEFINE r == Tail(q)
           n == Len(q)
           A == Carriers(r, t)
           B == Carriers(q, t) \ {1}
           f == [i \in A |-> i + 1]
<1>1. /\ n \in Nat /\ n # 0 /\ r \in Seq(S) /\ Len(r) = n - 1
      /\ \A i \in 1..Len(r) : r[i] = q[i + 1]
  BY HeadTailProperties
<1>2. IsFiniteSet(A) /\ IsFiniteSet(Carriers(q, t)) /\ Count(q, t) \in Nat /\ Count(r, t) \in Nat
  BY <1>1, CountType
<1> HIDE DEF r
<1>3. f \in [A -> B] /\ (\A a, b \in A : f[a] = f[b] => a = b) /\ \A b \in B : \E a \in A : f[a] = b
  <2>1. ASSUME NEW a \in A PROVE a + 1 \in B /\ a \in Nat
    BY <1>1 DEF Carriers
  <2>2. ASSUME NEW b \in B PROVE b - 1 \in A /\ (b - 1) + 1 = b
    BY <1>1 DEF Carriers
  <2> HIDE DEF A, B
  <2>3. QED
    BY <2>1, <2>2
<1> HIDE DEF f
<1>4. Cardinality(B) = Cardinality(A)
  <2>1. f \in Bijection(A, B)
    BY <1>3, Fun_IsBij
  <2>2. ExistsBijection(A, B)
    BY <2>1 DEF ExistsBijection
  <2> HIDE DEF A, B
  <2>3. QED
    BY <1>2, <2>2, FS_Bijection
<1>5. Cardinality(B) = IF 1 \in Carriers(q, t) THEN Count(q, t) - 1 ELSE Count(q, t)
  BY <1>2, FS_RemoveElement DEF Count
<1>6. 1 \in Carriers(q, t) <=> q[1].tr = t
  BY <1>1 DEF Carriers
<1>7. Count(q, t) = Count(r, t) + IF q[1].tr = t THEN 1 ELSE 0
  BY <1>2, <1>4, <1>5, <1>6 DEF Count
<1>8. QED
  BY <1>7 DEF r

\* Threads that are put in the queue carry nothing.
LEMMA CountConcat ==
  ASSUME NEW S, NEW q \in Seq(S), NEW s \in Seq(S), NEW t, \A i \in 1..Len(s) : s[i].tr # t
  PROVE  Count(q \o s, t) = Count(q, t)
<1> DEFINE r == q \o s
<1>1. /\ Len(r) = Len(q) + Len(s) /\ Len(q) \in Nat /\ Len(s) \in Nat
      /\ \A i \in 1..Len(r) : r[i] = IF i <= Len(q) THEN q[i] ELSE s[i - Len(q)]
  BY ConcatProperties
<1> HIDE DEF r
<1>2. ASSUME NEW i \in 1..Len(r), r[i].tr = t PROVE i <= Len(q)
  <2> SUFFICES ASSUME ~(i <= Len(q)) PROVE FALSE
    OBVIOUS
  <2>1. i - Len(q) \in 1..Len(s) /\ r[i] = s[i - Len(q)]
    BY <1>1
  <2>2. QED
    BY <1>2, <2>1
<1>3. Carriers(r, t) = Carriers(q, t)
  BY <1>1, <1>2 DEF Carriers
<1>4. QED
  BY <1>3 DEF Count, r

-----------------------------------------------------------------------------
(***************************************************************************)
(* The inductive invariant.                                                *)
(***************************************************************************)

\* The calls and the transactions that the values of V can make.
Call(V) == [call : {"recv"}, to : Functors \cup Events, from : Nets \cup {Nil}, v : V]
             \cup [call : {"leave", "free", "end"}, tr : Nat \cup {Nil}]
Trans(V) == [pending_functors : Nat, source_done : BOOLEAN, events : Seq([port : Events, v : V])]

Holds(V) == todo \in Seq(Call(V)) /\ pool \in Seq(Trans(V))

Queued == [obj : Functors \cup Threads, tr : Nat \cup {Nil}]

Typed ==
  /\ \E V : Holds(V)
  /\ free_event_defer \in Seq(DOMAIN pool) /\ IsInjective(free_event_defer)
  /\ vvp_current_event_defer \in DOMAIN pool \cup {Nil}
  /\ vvp_event_defer_depth \in {0, 1}
  /\ queue \in Seq(Queued)
  /\ \A i \in 1..Len(queue) :
       queue[i].tr # Nil => queue[i].tr \in DOMAIN pool /\ queue[i].obj \in Functors
  /\ threads_ \in [Events -> Seq(Threads)]
  /\ running \in Threads \cup {Nil}
  /\ lvals \in [Threads -> Seq(Signals) \cup {Nil}]

\* A thread is between the begin and the end of a deferring assignment.
Assigning == running # Nil /\ lvals[running] # Nil

\* What the last call and the thread say of the deferral.
Control ==
  /\ Body(todo)
  /\ \A t \in Threads : lvals[t] # Nil => t = running
  /\ vvp_event_defer_depth = 1 <=> Closer(todo).call = "end" \/ Assigning
  /\ Assigning => Closer(todo).call = "none"
  /\ Closer(todo).call = "leave" =>
       vvp_current_event_defer # Nil /\ Closer(todo).tr = vvp_current_event_defer
  /\ Closer(todo).call = "free" =>
       vvp_current_event_defer = Nil /\ Closer(todo).tr \in DOMAIN pool
  /\ vvp_current_event_defer # Nil =>
       vvp_event_defer_depth = 1 \/ Closer(todo).call = "leave"

Closes(c, t) == Closer(todo).call = c /\ Closer(todo).tr = t

\* Transaction t is accounted for: it is live, counts what carries it and has
\* something to wait for, or it is free and nothing refers to it.
Accounted(t) ==
  IF t \in Live
    THEN /\ pool[t].pending_functors
              = Count(queue, t) + (IF Closes("leave", t) THEN 1 ELSE 0)
         /\ pool[t].source_done = ~(vvp_event_defer_depth = 1 /\ vvp_current_event_defer = t)
         /\ vvp_current_event_defer # t /\ Count(queue, t) = 0 => Closes("free", t)
         /\ Closes("free", t) => pool[t].pending_functors = 0
    ELSE /\ Count(queue, t) = 0 /\ ~Closes("leave", t) /\ ~Closes("free", t)
         /\ vvp_current_event_defer # t

DeferInv == ~failed /\ Typed /\ Control /\ \A t \in DOMAIN pool : Accounted(t)

\* It says what TransactionsAccounted says.
LEMMA InvAccounts == DeferInv => TransactionsAccounted
<1> SUFFICES ASSUME DeferInv, NEW t \in DOMAIN pool
             PROVE
    LET carriers == {i \in DOMAIN queue : queue[i].tr = t}
        leaves == {i \in DOMAIN todo : todo[i].call = "leave" /\ todo[i].tr = t}
        frees == {i \in DOMAIN todo : todo[i].call = "free" /\ todo[i].tr = t}
    IN  IF t \in Live
          THEN /\ pool[t].pending_functors = Cardinality(carriers) + Cardinality(leaves)
               /\ Cardinality(frees) <= 1
               /\ vvp_current_event_defer # t /\ carriers = {} => frees # {}
               /\ frees # {} => pool[t].pending_functors = 0
          ELSE carriers = {} /\ leaves = {} /\ frees = {} /\ vvp_current_event_defer # t
  BY DEF TransactionsAccounted, DeferInv
<1> DEFINE carriers == {i \in DOMAIN queue : queue[i].tr = t}
           calls(c) == {i \in DOMAIN todo : todo[i].call = c /\ todo[i].tr = t}
<1>1. PICK V : Holds(V)
  BY DEF DeferInv, Typed
<1>2. /\ todo \in Seq(Call(V)) /\ Len(todo) \in Nat /\ DOMAIN todo = 1..Len(todo)
      /\ (todo = << >> <=> Len(todo) = 0)
  BY <1>1 DEF Holds
<1>3. queue \in Seq(Queued) /\ DOMAIN queue = 1..Len(queue)
  BY DEF DeferInv, Typed
<1>4. carriers = Carriers(queue, t) /\ Cardinality(carriers) = Count(queue, t)
        /\ (Count(queue, t) = 0 <=> carriers = {})
  <2>1. Count(queue, t) = 0 <=> Carriers(queue, t) = {}
    BY <1>3, CountType
  <2>2. carriers = Carriers(queue, t)
    BY <1>3 DEF Carriers
  <2> HIDE DEF carriers
  <2>3. QED
    BY <2>1, <2>2 DEF Count
<1>5. ASSUME NEW c \in {"leave", "free"}
      PROVE  calls(c) = IF Closes(c, t) THEN {Len(todo)} ELSE {}
  <2>1. ASSUME NEW i \in 1..Len(todo), todo[i].call = c PROVE i = Len(todo)
    <3>1. i \in 1..Len(todo) - 1 => todo[i].call = "recv"
      BY DEF DeferInv, Control, Body
    <3>2. i \notin 1..Len(todo) - 1
      BY <2>1, <3>1
    <3> DEFINE n == Len(todo)
    <3>3. n \in Nat /\ i \in 1..n /\ i \notin 1..n - 1
      BY <1>2, <3>2
    <3> HIDE DEF n
    <3>4. i = n
      BY <3>3
    <3>5. QED
      BY <3>4 DEF n
  <2>2. CASE todo = << >>
    <3>1. Closer(todo).call = "none"
      BY <2>2 DEF Closer, NoCall
    <3>2. calls(c) = {}
      BY <1>2, <2>2
    <3>3. QED
      BY <3>1, <3>2 DEF Closes
  <2>3. CASE todo # << >>
    <3>1. Len(todo) \in 1..Len(todo)
      BY <1>2, <2>3
    <3>2. Closes(c, t) <=> todo[Len(todo)].call = c /\ todo[Len(todo)].tr = t
      BY <2>3 DEF Closes, Closer, NoCall
    <3>3. QED
      BY <1>2, <2>1, <3>1, <3>2
  <2>4. QED
    BY <2>2, <2>3
<1>6. \A c \in {"leave", "free"} : /\ Cardinality(calls(c)) = IF Closes(c, t) THEN 1 ELSE 0
                                   /\ calls(c) # {} <=> Closes(c, t)
  <2> SUFFICES ASSUME NEW c \in {"leave", "free"}
               PROVE  /\ Cardinality(calls(c)) = IF Closes(c, t) THEN 1 ELSE 0
                      /\ calls(c) # {} <=> Closes(c, t)
    OBVIOUS
  <2>1. calls(c) = IF Closes(c, t) THEN {Len(todo)} ELSE {}
    BY <1>5
  <2>2. Cardinality({Len(todo)}) = 1 /\ Cardinality({}) = 0
    BY FS_Singleton, FS_EmptySet, Zenon
  <2> HIDE DEF calls
  <2>3. QED
    BY <2>1, <2>2
<1>7. Accounted(t)
  BY DEF DeferInv
<1>8. /\ Cardinality(calls("leave")) = (IF Closes("leave", t) THEN 1 ELSE 0)
      /\ Cardinality(calls("free")) = (IF Closes("free", t) THEN 1 ELSE 0)
      /\ (calls("leave") # {} <=> Closes("leave", t)) /\ (calls("free") # {} <=> Closes("free", t))
  BY <1>6
<1> HIDE DEF carriers, calls
<1>9. IF t \in Live
        THEN /\ pool[t].pending_functors = Cardinality(carriers) + Cardinality(calls("leave"))
             /\ Cardinality(calls("free")) <= 1
             /\ vvp_current_event_defer # t /\ carriers = {} => calls("free") # {}
             /\ calls("free") # {} => pool[t].pending_functors = 0
        ELSE /\ carriers = {} /\ calls("leave") = {} /\ calls("free") = {}
             /\ vvp_current_event_defer # t
  BY <1>4, <1>7, <1>8 DEF Accounted
<1>10. QED
  BY <1>9 DEF carriers, calls

LEMMA DeferInit == Init => DeferInv
<1> SUFFICES ASSUME Init PROVE DeferInv
  OBVIOUS
<1>1. /\ queue = << >> /\ todo = << >> /\ pool = << >> /\ free_event_defer = << >>
      /\ vvp_event_defer_depth = 0 /\ vvp_current_event_defer = Nil
      /\ running = Nil /\ lvals = [t \in Threads |-> Nil] /\ ~failed
      /\ threads_ = [e \in Events |-> << >>]
  BY DEF Init
<1>2. Body(todo) /\ Closer(todo).call = "none"
  BY <1>1, EmptyCloses DEF NoCall
<1>3. DOMAIN pool = {}
  BY <1>1
<1>4. Typed
  <2>1. Holds({})
    BY <1>1 DEF Holds
  <2>2. IsInjective(free_event_defer)
    BY <1>1 DEF IsInjective
  <2>3. QED
    BY <1>1, <1>3, <2>1, <2>2 DEF Typed
<1>5. Control
  BY <1>1, <1>2 DEF Control, Assigning
<1>6. QED
  BY <1>1, <1>3, <1>4, <1>5 DEF DeferInv

-----------------------------------------------------------------------------
(***************************************************************************)
(* Types of calls and transactions.                                        *)
(***************************************************************************)

LEMMA SeqGrows ==
  ASSUME NEW S, NEW T, S \subseteq T
  PROVE  Seq(S) \subseteq Seq(T)
<1> SUFFICES ASSUME NEW s \in Seq(S) PROVE s \in Seq(T)
  OBVIOUS
<1>1. s \in [1..Len(s) -> S] /\ Len(s) \in Nat
  OBVIOUS
<1>2. s \in [1..Len(s) -> T]
  BY <1>1
<1>3. QED
  BY <1>1, <1>2, SeqDef

\* One more value may be in use.
LEMMA Widen ==
  ASSUME NEW V, NEW x
  PROVE  /\ Seq(Call(V)) \subseteq Seq(Call(V \cup {x}))
         /\ Seq(Trans(V)) \subseteq Seq(Trans(V \cup {x}))
<1> DEFINE W == V \cup {x}
<1>1. Call(V) \subseteq Call(W)
  BY DEF Call
<1>2. Trans(V) \subseteq Trans(W)
  <2>1. [port : Events, v : V] \subseteq [port : Events, v : W]
    OBVIOUS
  <2>2. Seq([port : Events, v : V]) \subseteq Seq([port : Events, v : W])
    BY <2>1, SeqGrows
  <2> HIDE DEF W
  <2>3. QED
    BY <2>2 DEF Trans
<1> HIDE DEF W
<1>3. QED
  BY <1>1, <1>2, SeqGrows DEF W

\* Sending a value makes deliveries.
LEMMA SendCalls ==
  ASSUME NEW V, NEW n \in Nets, NEW x \in V
  PROVE  Send(n, x) \in Seq(Call(V)) /\ \A i \in 1..Len(Send(n, x)) : Send(n, x)[i].call = "recv"
<1>1. Fanout[n] \in Seq(Functors \cup Events)
  BY NetAssumption
<1> DEFINE m == Len(Fanout[n])
           s == Send(n, x)
<1>2. m \in Nat /\ DOMAIN Fanout[n] = 1..m /\ \A i \in 1..m : Fanout[n][i] \in Functors \cup Events
  BY <1>1
<1>3. s = [i \in 1..m |-> Recv(Fanout[n][i], n, x)]
  BY <1>2 DEF Send
<1>4. \A i \in 1..m : Recv(Fanout[n][i], n, x) \in Call(V) /\ Recv(Fanout[n][i], n, x).call = "recv"
  BY <1>2 DEF Recv, Call
<1> HIDE DEF m, s
<1>5. s \in Seq(Call(V)) /\ Len(s) = m
  BY <1>2, <1>3, <1>4
<1>6. \A i \in 1..m : s[i].call = "recv"
  BY <1>3, <1>4
<1>7. QED
  BY <1>5, <1>6 DEF s

\* The calls of finish_event_defer: all deliveries but for the last.
LEMMA FinishCalls ==
  ASSUME NEW V, NEW t \in Nat, NEW tr \in Trans(V), tr.source_done
  PROVE  /\ finish_event_defer(t, tr, << >>) \in Seq(Call(V))
         /\ Body(finish_event_defer(t, tr, << >>))
         /\ Closer(finish_event_defer(t, tr, << >>))
              = IF tr.pending_functors = 0 THEN [call |-> "free", tr |-> t] ELSE NoCall
<1>1. CASE tr.pending_functors # 0
  BY <1>1, EmptyCloses DEF finish_event_defer
<1>2. CASE tr.pending_functors = 0
  <2> DEFINE d == [i \in DOMAIN tr.events |-> Recv(tr.events[i].port, Nil, tr.events[i].v)]
             fr == [call |-> "free", tr |-> t]
             m == Len(tr.events)
  <2>1. finish_event_defer(t, tr, << >>) = d \o <<fr>> \o << >>
    BY <1>2 DEF finish_event_defer
  <2>2. tr.events \in Seq([port : Events, v : V])
    BY DEF Trans
  <2>3. /\ m \in Nat /\ DOMAIN tr.events = 1..m
        /\ \A i \in 1..m : tr.events[i].port \in Events /\ tr.events[i].v \in V
    <3> DEFINE E == [port : Events, v : V]
               s == tr.events
    <3>1. s \in Seq(E)
      BY <2>2
    <3> HIDE DEF E, s
    <3>2. Len(s) \in Nat /\ DOMAIN s = 1..Len(s) /\ \A i \in 1..Len(s) : s[i] \in E
      BY <3>1
    <3>3. \A x \in E : x.port \in Events /\ x.v \in V
      BY DEF E
    <3>4. \A i \in 1..Len(s) : s[i].port \in Events /\ s[i].v \in V
      BY <3>2, <3>3
    <3>5. QED
      BY <3>2, <3>4 DEF s
  <2>4. \A i \in 1..m : /\ Recv(tr.events[i].port, Nil, tr.events[i].v) \in Call(V)
                        /\ Recv(tr.events[i].port, Nil, tr.events[i].v).call = "recv"
    BY <2>3 DEF Recv, Call
  <2>5. d = [i \in 1..m |-> Recv(tr.events[i].port, Nil, tr.events[i].v)]
    BY <2>3
  <2>6. m \in Nat
    BY <2>3
  <2> HIDE DEF m, d
  <2>7. d \in Seq(Call(V)) /\ Len(d) = m
    BY <2>4, <2>5, <2>6
  <2>8. \A i \in 1..Len(d) : d[i].call = "recv"
    BY <2>4, <2>5, <2>7
  <2>9. fr \in Call(V) /\ fr.call # "recv"
    BY DEF Call
  <2> HIDE DEF fr
  <2>10. <<fr>> \in Seq(Call(V)) /\ Body(<<fr>>) /\ Closer(<<fr>>) = fr
    BY <2>9, SingleCloses
  <2>11. d \o <<fr>> \in Seq(Call(V)) /\ Body(d \o <<fr>>) /\ Closer(d \o <<fr>>) = fr
    BY <2>7, <2>8, <2>10, ConcatCloses
  <2>12. d \o <<fr>> \o << >> = d \o <<fr>>
    BY <2>11, ConcatEmptySeq
  <2>13. QED
    BY <1>2, <2>1, <2>11, <2>12 DEF fr
<1>3. QED
  BY <1>1, <1>2

-----------------------------------------------------------------------------
(***************************************************************************)
(* The free list and the current transaction.                              *)
(***************************************************************************)

LEMMA PopFree ==
  ASSUME NEW S, NEW s \in Seq(S), s # << >>, IsInjective(s)
  PROVE  /\ s[1] \in S /\ Tail(s) \in Seq(S) /\ IsInjective(Tail(s))
         /\ ToSet(Tail(s)) = ToSet(s) \ {s[1]} /\ s[1] \in ToSet(s)
<1> DEFINE r == Tail(s)
<1>1. /\ r \in Seq(S) /\ Len(r) = Len(s) - 1 /\ Len(s) \in Nat /\ Len(s) # 0
      /\ \A i \in 1..Len(r) : r[i] = s[i + 1]
  BY HeadTailProperties
<1>2. DOMAIN s = 1..Len(s) /\ DOMAIN r = 1..Len(r) /\ \A i \in 1..Len(s) : s[i] \in S
  BY <1>1
<1> HIDE DEF r
<1>3. \A a, b \in 1..Len(s) : s[a] = s[b] => a = b
  BY <1>2 DEF IsInjective
<1>4. IsInjective(r)
  <2> SUFFICES ASSUME NEW a \in 1..Len(r), NEW b \in 1..Len(r), r[a] = r[b] PROVE a = b
    BY <1>2 DEF IsInjective
  <2>1. a + 1 \in 1..Len(s) /\ b + 1 \in 1..Len(s) /\ s[a + 1] = s[b + 1]
    BY <1>1
  <2>2. a + 1 = b + 1
    BY <1>3, <2>1
  <2>3. QED
    BY <2>2
<1>5. ToSet(r) = ToSet(s) \ {s[1]}
  <2>1. ASSUME NEW i \in 1..Len(r) PROVE r[i] \in ToSet(s) \ {s[1]}
    <3>1. i + 1 \in 1..Len(s) /\ 1 \in 1..Len(s) /\ i + 1 # 1
      BY <1>1
    <3>2. s[i + 1] # s[1]
      BY <1>3, <3>1
    <3>3. QED
      BY <1>1, <1>2, <3>1, <3>2 DEF ToSet
  <2>2. ASSUME NEW i \in 1..Len(s), s[i] # s[1] PROVE s[i] \in ToSet(r)
    <3>1. i # 1
      BY <2>2
    <3>2. i - 1 \in 1..Len(r) /\ (i - 1) + 1 = i
      BY <1>1, <3>1
    <3>3. r[i - 1] = s[i]
      BY <1>1, <3>2
    <3>4. QED
      BY <1>2, <3>2, <3>3 DEF ToSet
  <2>3. QED
    BY <1>2, <2>1, <2>2 DEF ToSet
<1>6. 1 \in 1..Len(s)
  BY <1>1
<1>7. s[1] \in S /\ s[1] \in ToSet(s)
  BY <1>2, <1>6 DEF ToSet
<1>8. QED
  BY <1>1, <1>4, <1>5, <1>7 DEF r

LEMMA PushFree ==
  ASSUME NEW S, NEW s \in Seq(S), IsInjective(s), NEW t \in S, t \notin ToSet(s)
  PROVE  /\ <<t>> \o s \in Seq(S) /\ IsInjective(<<t>> \o s)
         /\ ToSet(<<t>> \o s) = ToSet(s) \cup {t}
<1> DEFINE r == <<t>> \o s
<1>1. /\ r \in Seq(S) /\ Len(r) = 1 + Len(s) /\ Len(s) \in Nat
      /\ r[1] = t /\ \A i \in 2..Len(r) : r[i] = s[i - 1]
  OBVIOUS
<1>2. DOMAIN s = 1..Len(s) /\ DOMAIN r = 1..Len(r)
  BY <1>1
<1> HIDE DEF r
<1>3. \A a, b \in 1..Len(s) : s[a] = s[b] => a = b
  BY <1>2 DEF IsInjective
<1>4. ASSUME NEW i \in 1..Len(r), i # 1
      PROVE  i - 1 \in 1..Len(s) /\ r[i] = s[i - 1] /\ r[i] \in ToSet(s) /\ r[i] # t
  <2>1. i - 1 \in 1..Len(s) /\ i \in 2..Len(r)
    BY <1>1, <1>4
  <2>2. r[i] = s[i - 1]
    BY <1>1, <2>1
  <2>3. QED
    BY <1>2, <2>1, <2>2 DEF ToSet
<1>5. IsInjective(r)
  <2> SUFFICES ASSUME NEW a \in 1..Len(r), NEW b \in 1..Len(r), r[a] = r[b] PROVE a = b
    BY <1>2 DEF IsInjective
  <2>1. CASE a = 1 \/ b = 1
    BY <1>1, <1>4, <2>1
  <2>2. CASE a # 1 /\ b # 1
    <3>1. a - 1 = b - 1
      BY <1>3, <1>4, <2>2
    <3>2. QED
      BY <3>1
  <2>3. QED
    BY <2>1, <2>2
<1>6. ToSet(r) = ToSet(s) \cup {t}
  <2>1. ASSUME NEW i \in 1..Len(s) PROVE s[i] \in ToSet(r)
    <3>1. i + 1 \in 2..Len(r) /\ (i + 1) - 1 = i /\ i + 1 \in 1..Len(r)
      BY <1>1
    <3>2. r[i + 1] = s[i]
      BY <1>1, <3>1
    <3>3. QED
      BY <1>2, <3>1, <3>2 DEF ToSet
  <2>2. t \in ToSet(r)
    <3>1. 1 \in 1..Len(r)
      BY <1>1
    <3>2. QED
      BY <1>1, <1>2, <3>1 DEF ToSet
  <2>3. ASSUME NEW i \in 1..Len(r) PROVE r[i] \in ToSet(s) \cup {t}
    BY <1>1, <1>4
  <2>4. QED
    BY <1>2, <2>1, <2>2, <2>3 DEF ToSet
<1>7. QED
  BY <1>1, <1>5, <1>6 DEF r

LEMMA ReplaceOne ==
  ASSUME NEW S, NEW s \in Seq(S), NEW c \in DOMAIN s, NEW x \in S
  PROVE  LET r == [s EXCEPT ![c] = x] IN
           r \in Seq(S) /\ DOMAIN r = DOMAIN s /\ r[c] = x /\ \A i \in DOMAIN s : i # c => r[i] = s[i]
OBVIOUS

\* While a transaction is current it is live.
LEMMA CurrentIsLive == DeferInv /\ vvp_current_event_defer # Nil => vvp_current_event_defer \in Live
BY DEF DeferInv, Typed, Accounted

\* What active_event_defer does: its transaction is the current one, or one
\* that was not live and now is.
LEMMA Activated ==
  ASSUME DeferInv, NEW V, Holds(V), NEW tr \in Trans(V), active_event_defer(tr)
  PROVE  LET c == vvp_current_event_defer' IN
         /\ pool' \in Seq(Trans(V)) /\ DOMAIN pool' = DOMAIN pool \cup {c} /\ c \in Nat
         /\ pool'[c] = tr /\ \A t \in DOMAIN pool : t # c => pool'[t] = pool[t]
         /\ free_event_defer' \in Seq(DOMAIN pool') /\ IsInjective(free_event_defer')
         /\ Live' = Live \cup {c}
         /\ vvp_current_event_defer # Nil => c = vvp_current_event_defer
         /\ vvp_current_event_defer = Nil => c \notin Live
<1> DEFINE c == vvp_current_event_defer'
           Dom == DOMAIN pool
<1>1. /\ pool \in Seq(Trans(V)) /\ free_event_defer \in Seq(Dom) /\ IsInjective(free_event_defer)
      /\ vvp_current_event_defer \in Dom \cup {Nil} /\ Dom = 1..Len(pool) /\ Len(pool) \in Nat
  BY DEF DeferInv, Typed, Holds
<1>2. CASE vvp_current_event_defer # Nil
  <2>1. /\ pool' = [pool EXCEPT ![vvp_current_event_defer] = tr]
        /\ c = vvp_current_event_defer /\ free_event_defer' = free_event_defer /\ c \in Dom
    BY <1>1, <1>2 DEF active_event_defer
  <2>2. /\ pool' \in Seq(Trans(V)) /\ DOMAIN pool' = Dom
        /\ pool'[c] = tr /\ \A t \in Dom : t # c => pool'[t] = pool[t]
    BY <1>1, <2>1, ReplaceOne
  <2>3. Live' = Live /\ c \in Live
    BY <1>2, <2>1, <2>2, CurrentIsLive DEF Live
  <2>4. c \in Nat
    BY <1>1, <2>1
  <2>5. QED
    BY <1>1, <1>2, <2>1, <2>2, <2>3, <2>4
<1>3. CASE vvp_current_event_defer = Nil /\ free_event_defer # << >>
  <2>1. /\ pool' = [pool EXCEPT ![c] = tr]
        /\ c = free_event_defer[1] /\ free_event_defer' = Tail(free_event_defer)
    BY <1>1, <1>3 DEF active_event_defer
  <2>2. /\ c \in Dom /\ Tail(free_event_defer) \in Seq(Dom) /\ IsInjective(Tail(free_event_defer))
        /\ ToSet(Tail(free_event_defer)) = ToSet(free_event_defer) \ {c}
        /\ c \in ToSet(free_event_defer)
    BY <1>1, <1>3, <2>1, PopFree
  <2>3. /\ pool' \in Seq(Trans(V)) /\ DOMAIN pool' = Dom
        /\ pool'[c] = tr /\ \A t \in Dom : t # c => pool'[t] = pool[t]
    BY <1>1, <2>1, <2>2, ReplaceOne
  <2>4. Live' = Live \cup {c} /\ c \notin Live
    BY <2>1, <2>2, <2>3 DEF Live
  <2>5. c \in Nat
    BY <1>1, <2>2
  <2>6. QED
    BY <1>3, <2>1, <2>2, <2>3, <2>4, <2>5
<1>4. CASE vvp_current_event_defer = Nil /\ free_event_defer = << >>
  <2>1. pool' = Append(pool, tr) /\ c = Len(pool) + 1 /\ free_event_defer' = << >>
    BY <1>4 DEF active_event_defer
  <2>2. pool' \in Seq(Trans(V)) /\ Len(pool') = c /\ pool'[c] = tr
          /\ \A t \in 1..Len(pool) : pool'[t] = pool[t]
    BY <1>1, <2>1, AppendProperties
  <2>3. DOMAIN pool' = 1..c
    BY <2>2
  <2>4. DOMAIN pool' = Dom \cup {c} /\ c \notin Dom /\ c \in Nat
    BY <1>1, <2>1, <2>3
  <2>5. ToSet(<< >>) = {}
    BY DEF ToSet
  <2>6. Live' = Live \cup {c} /\ c \notin Live
    BY <1>4, <2>1, <2>4, <2>5 DEF Live
  <2>7. free_event_defer' \in Seq(DOMAIN pool') /\ IsInjective(free_event_defer')
    BY <2>1 DEF IsInjective
  <2>8. QED
    BY <1>1, <1>4, <2>2, <2>4, <2>6, <2>7
<1>5. QED
  BY <1>2, <1>3, <1>4

-----------------------------------------------------------------------------
(***************************************************************************)
(* Steps that leave the transactions alone.                                *)
(***************************************************************************)

LEMMA AccountsKept ==
  ASSUME DeferInv, UNCHANGED <<pool, free_event_defer, vvp_current_event_defer>>,
         vvp_current_event_defer # Nil => vvp_event_defer_depth' = vvp_event_defer_depth,
         \A t \in DOMAIN pool : /\ Count(queue', t) = Count(queue, t)
                                /\ Closes("leave", t)' <=> Closes("leave", t)
                                /\ Closes("free", t)' <=> Closes("free", t)
  PROVE  \A t \in DOMAIN pool' : Accounted(t)'
<1> SUFFICES ASSUME NEW t \in DOMAIN pool PROVE Accounted(t)'
  OBVIOUS
<1>1. Live' = Live
  BY DEF Live
<1>2. Accounted(t) /\ t # Nil
  BY NamesAssumption DEF DeferInv, Typed, Holds
<1>3. (vvp_event_defer_depth' = 1 /\ vvp_current_event_defer = t)
        <=> (vvp_event_defer_depth = 1 /\ vvp_current_event_defer = t)
  BY <1>2
<1>4. QED
  BY <1>1, <1>2, <1>3 DEF Accounted

\* The fields of a queue entry.
LEMMA QueuedType ==
  ASSUME NEW q \in Seq(Queued), NEW i \in 1..Len(q)
  PROVE  q[i] \in Queued /\ q[i].obj \in Functors \cup Threads /\ q[i].tr \in Nat \cup {Nil}
<1>1. q[i] \in Queued
  OBVIOUS
<1>2. QED
  BY <1>1 DEF Queued

\* The transactions that the queue entries carry exist.
Carried(q) == /\ q \in Seq(Queued)
              /\ \A i \in 1..Len(q) : q[i].tr # Nil => q[i].tr \in DOMAIN pool /\ q[i].obj \in Functors

\* A step that opens, closes and carries nothing.
LEMMA QuietStep ==
  ASSUME DeferInv, UNCHANGED <<defer, failed>>, NEW V, Holds(V)',
         Body(todo'), Closer(todo') = Closer(todo),
         Carried(queue'), \A t \in DOMAIN pool : Count(queue', t) = Count(queue, t),
         threads_' \in [Events -> Seq(Threads)],
         running' \in Threads \cup {Nil}, lvals' \in [Threads -> Seq(Signals) \cup {Nil}],
         Assigning' <=> Assigning, \A t \in Threads : lvals'[t] # Nil => t = running'
  PROVE  DeferInv'
<1>1. UNCHANGED <<pool, free_event_defer, vvp_event_defer_depth, vvp_current_event_defer>>
  BY DEF defer
<1>2. \A c, t : Closes(c, t)' <=> Closes(c, t)
  BY DEF Closes
<1>3. \A t \in DOMAIN pool' : Accounted(t)'
  BY <1>1, <1>2, AccountsKept
<1>4. Typed'
  BY <1>1 DEF DeferInv, Typed, Carried
<1>5. Control'
  BY <1>1 DEF DeferInv, Control
<1>6. QED
  BY <1>3, <1>4, <1>5 DEF DeferInv

LEMMA QueueCarried == DeferInv => Carried(queue)
BY DEF DeferInv, Typed, Carried

\* Taking an entry that carries nothing off the queue.
LEMMA QueueTail ==
  ASSUME DeferInv, queue # << >>
  PROVE  /\ Carried(Tail(queue)) /\ queue[1] \in Queued /\ Head(queue) = queue[1]
         /\ queue[1].tr # Nil => queue[1].tr \in DOMAIN pool /\ queue[1].obj \in Functors
         /\ queue[1].tr = Nil => \A t \in DOMAIN pool : Count(Tail(queue), t) = Count(queue, t)
<1> DEFINE r == Tail(queue)
<1>1. /\ queue \in Seq(Queued) /\ Head(queue) = queue[1] /\ r \in Seq(Queued)
      /\ Len(r) = Len(queue) - 1 /\ Len(queue) \in Nat /\ Len(queue) # 0
      /\ \A i \in 1..Len(r) : r[i] = queue[i + 1]
  BY HeadTailProperties DEF DeferInv, Typed
<1>2. \A i \in 1..Len(queue) :
        queue[i].tr # Nil => queue[i].tr \in DOMAIN pool /\ queue[i].obj \in Functors
  BY DEF DeferInv, Typed
<1> HIDE DEF r
<1>3. Carried(r)
  BY <1>1, <1>2 DEF Carried
<1>4. 1 \in 1..Len(queue)
  BY <1>1
<1>5. ASSUME queue[1].tr = Nil, NEW t \in DOMAIN pool
      PROVE  Count(r, t) = Count(queue, t)
  <2>1. t # Nil
    BY NamesAssumption DEF DeferInv, Typed, Holds
  <2>2. Count(queue, t) = Count(r, t) + IF queue[1].tr = t THEN 1 ELSE 0
    BY <1>1, CountTail DEF r
  <2>3. Count(r, t) \in Nat
    BY <1>1, CountType
  <2>4. QED
    BY <1>5, <2>1, <2>2, <2>3
<1>6. QED
  BY <1>1, <1>2, <1>3, <1>4, <1>5, QueuedType DEF r

\* The next call is a delivery: the rest closes as before.
LEMMA NextDelivery ==
  ASSUME DeferInv, NEW V, Holds(V), Calling("recv")
  PROVE  /\ Tail(todo) \in Seq(Call(V)) /\ Body(Tail(todo)) /\ Closer(Tail(todo)) = Closer(todo)
         /\ Head(todo) = todo[1] /\ todo[1].call = "recv"
         /\ todo[1].to \in Functors \cup Events /\ todo[1].v \in V
<1>1. todo \in Seq(Call(V)) /\ todo # << >> /\ Head(todo) = todo[1] /\ todo[1].call = "recv"
  BY DEF Holds, Calling
<1>2. todo[1] \in Call(V)
  BY <1>1
<1>3. todo[1].to \in Functors \cup Events /\ todo[1].v \in V
  BY <1>1, <1>2 DEF Call
<1>4. Body(todo)
  BY DEF DeferInv, Control
<1>5. QED
  BY <1>1, <1>3, <1>4, TailCloses

\* Between two calls nothing is open but an assignment.
LEMMA NoCalls ==
  ASSUME DeferInv, todo = << >>
  PROVE  /\ Closer(todo) = NoCall /\ (vvp_event_defer_depth = 1 <=> Assigning)
         /\ ~Assigning => vvp_event_defer_depth = 0 /\ vvp_current_event_defer = Nil
<1>1. Closer(todo) = NoCall /\ Closer(todo).call = "none"
  BY EmptyCloses DEF NoCall
<1>2. QED
  BY <1>1 DEF DeferInv, Typed, Control

\* The part of the state that only threads change.
LEMMA ThreadsSame ==
  ASSUME DeferInv, UNCHANGED <<threads_, running, lvals>>
  PROVE  /\ threads_' \in [Events -> Seq(Threads)]
         /\ running' \in Threads \cup {Nil} /\ lvals' \in [Threads -> Seq(Signals) \cup {Nil}]
         /\ Assigning' <=> Assigning
         /\ \A t \in Threads : lvals'[t] # Nil => t = running'
BY DEF DeferInv, Typed, Control, Assigning

LEMMA QueueSame ==
  ASSUME DeferInv, UNCHANGED queue
  PROVE  Carried(queue') /\ \A t \in DOMAIN pool : Count(queue', t) = Count(queue, t)
BY QueueCarried

\* Values are sent, in front of the calls td.
LEMMA SendHolds ==
  ASSUME DeferInv, NEW V, Holds(V), NEW n \in Nets, NEW x, NEW td \in Seq(Call(V)), Body(td),
         todo' = Send(n, x) \o td, pool' = pool
  PROVE  Holds(V \cup {x})' /\ Body(todo') /\ Closer(todo') = Closer(td)
<1> DEFINE W == V \cup {x}
<1>1. td \in Seq(Call(W)) /\ pool \in Seq(Trans(W))
  BY Widen DEF Holds
<1>2. x \in W
  OBVIOUS
<1> HIDE DEF W
<1>3. Send(n, x) \in Seq(Call(W)) /\ \A i \in 1..Len(Send(n, x)) : Send(n, x)[i].call = "recv"
  BY <1>2, SendCalls
<1>4. Send(n, x) \o td \in Seq(Call(W)) /\ Body(Send(n, x) \o td) /\ Closer(Send(n, x) \o td) = Closer(td)
  BY <1>1, <1>3, ConcatCloses
<1>5. QED
  BY <1>1, <1>4 DEF Holds, W

LEMMA RecvImmediateKeeps == ASSUME DeferInv, RecvImmediate PROVE DeferInv'
<1>1. PICK V : Holds(V)
  BY DEF DeferInv, Typed
<1> DEFINE f == Head(todo).to
<1> PICK x : x = Output(f, input'[f])
  OBVIOUS
<1>2. /\ Calling("recv") /\ f \in Functors /\ todo' = Send(f, x) \o Tail(todo)
      /\ UNCHANGED <<threads_, queue, defer, running, lvals, failed>> /\ pool' = pool
  BY DEF RecvImmediate, thr, defer
<1>3. f \in Nets
  BY <1>2 DEF Nets
<1> HIDE DEF f
<1>4. Tail(todo) \in Seq(Call(V)) /\ Body(Tail(todo)) /\ Closer(Tail(todo)) = Closer(todo)
  BY <1>1, <1>2, NextDelivery
<1>5. Holds(V \cup {x})' /\ Body(todo') /\ Closer(todo') = Closer(todo)
  BY <1>1, <1>2, <1>3, <1>4, SendHolds
<1>6. /\ threads_' \in [Events -> Seq(Threads)]
      /\ running' \in Threads \cup {Nil} /\ lvals' \in [Threads -> Seq(Signals) \cup {Nil}]
      /\ Assigning' <=> Assigning
      /\ \A t \in Threads : lvals'[t] # Nil => t = running'
  BY <1>2, ThreadsSame
<1>7. Carried(queue') /\ \A t \in DOMAIN pool : Count(queue', t) = Count(queue, t)
  BY <1>2, QueueSame
<1>8. defer' = defer /\ failed' = failed
  BY <1>2
<1>9. QED
  BY <1>5, <1>6, <1>7, <1>8, QuietStep

\* Threads that an event control wakes carry no transaction.
LEMMA RecvEventKeeps == ASSUME DeferInv, RecvEvent PROVE DeferInv'
<1>1. PICK V : Holds(V)
  BY DEF DeferInv, Typed
<1> DEFINE e == Head(todo).to
           th == threads_[e]
           s == [i \in DOMAIN th |-> [obj |-> th[i], tr |-> Nil]]
<1>2. /\ Calling("recv") /\ e \in Events /\ todo' = Tail(todo)
      /\ UNCHANGED <<defer, running, lvals, failed>> /\ pool' = pool
      /\ \/ queue' = queue \o s /\ threads_' = [threads_ EXCEPT ![e] = << >>]
         \/ UNCHANGED <<queue, threads_>>
  BY DEF RecvEvent, thr, defer
<1>3. /\ queue \in Seq(Queued) /\ threads_ \in [Events -> Seq(Threads)] /\ th \in Seq(Threads)
      /\ pool \in Seq(Trans(V))
  BY <1>1, <1>2 DEF DeferInv, Typed, Holds
<1>4. s \in Seq(Queued) /\ \A i \in 1..Len(s) : s[i].tr = Nil
  <2>1. Len(th) \in Nat /\ DOMAIN th = 1..Len(th) /\ \A i \in 1..Len(th) : th[i] \in Threads
    BY <1>3
  <2> DEFINE m == Len(th)
             g(i) == [obj |-> th[i], tr |-> Nil]
  <2>2. \A i \in 1..m : g(i) \in Queued /\ g(i).tr = Nil
    BY <2>1 DEF Queued
  <2>3. s = [i \in 1..m |-> g(i)] /\ m \in Nat
    BY <2>1
  <2> HIDE DEF m, g, s
  <2>4. s \in Seq(Queued) /\ Len(s) = m
    BY <2>2, <2>3
  <2>5. QED
    BY <2>2, <2>3, <2>4
<1> HIDE DEF e, th, s
<1>5. Tail(todo) \in Seq(Call(V)) /\ Body(Tail(todo)) /\ Closer(Tail(todo)) = Closer(todo)
  BY <1>1, <1>2, NextDelivery
<1>6. Holds(V)' /\ Body(todo') /\ Closer(todo') = Closer(todo)
  BY <1>2, <1>3, <1>5 DEF Holds
<1>7. Carried(queue') /\ \A t \in DOMAIN pool : Count(queue', t) = Count(queue, t)
  <2>1. CASE queue' = queue \o s
    <3>1. Carried(queue)
      BY QueueCarried
    <3> DEFINE r == queue \o s
    <3>2. /\ r \in Seq(Queued) /\ Len(r) = Len(queue) + Len(s) /\ Len(queue) \in Nat /\ Len(s) \in Nat
          /\ \A i \in 1..Len(r) : r[i] = IF i <= Len(queue) THEN queue[i] ELSE s[i - Len(queue)]
      BY <1>3, <1>4, ConcatProperties
    <3> HIDE DEF r
    <3>3. ASSUME NEW i \in 1..Len(r), r[i].tr # Nil
          PROVE  r[i].tr \in DOMAIN pool /\ r[i].obj \in Functors
      <4>1. CASE i <= Len(queue)
        BY <3>1, <3>2, <3>3, <4>1 DEF Carried
      <4>2. CASE ~(i <= Len(queue))
        <5>1. i - Len(queue) \in 1..Len(s) /\ r[i] = s[i - Len(queue)]
          BY <3>2, <4>2
        <5>2. QED
          BY <1>4, <3>3, <5>1
      <4>3. QED
        BY <4>1, <4>2
    <3>4. ASSUME NEW t \in DOMAIN pool PROVE Count(r, t) = Count(queue, t)
      <4>1. t # Nil
        BY <1>3, NamesAssumption
      <4>2. \A i \in 1..Len(s) : s[i].tr # t
        BY <1>4, <4>1
      <4>3. QED
        BY <1>3, <1>4, <4>2, CountConcat DEF r
    <3>5. QED
      BY <2>1, <3>2, <3>3, <3>4 DEF Carried, r
  <2>2. CASE queue' = queue
    BY <2>2, QueueSame
  <2>3. QED
    BY <1>2, <2>1, <2>2
<1>8. threads_' \in [Events -> Seq(Threads)]
  <2>1. << >> \in Seq(Threads)
    OBVIOUS
  <2>2. QED
    BY <1>2, <1>3, <2>1
<1>9. /\ running' \in Threads \cup {Nil} /\ lvals' \in [Threads -> Seq(Signals) \cup {Nil}]
      /\ Assigning' <=> Assigning
      /\ \A t \in Threads : lvals'[t] # Nil => t = running'
  BY <1>2 DEF DeferInv, Typed, Control, Assigning
<1>10. defer' = defer /\ failed' = failed
  BY <1>2
<1>11. QED
  BY <1>6, <1>7, <1>8, <1>9, <1>10, QuietStep

\* A store from an empty stack that sends its value, in front of td.
LEMMA StoreHolds ==
  ASSUME DeferInv, todo = << >>, NEW V, Holds(V), NEW n \in Signals, NEW x,
         NEW td \in Seq(Call(V)), Body(td), StoreValue(n, x, td), pool' = pool
  PROVE  Holds(V \cup {x})' /\ Body(todo') /\ Closer(todo') = Closer(td)
<1>1. n \in Nets
  BY DEF Nets
<1>2. CASE bits4[n] # x
  <2>1. todo' = Send(n, x) \o td
    BY <1>2 DEF StoreValue
  <2>2. QED
    BY <1>1, <2>1, SendHolds
<1>3. CASE bits4[n] = x
  <2>1. todo' = << >> \o td
    BY <1>3 DEF StoreValue
  <2>2. << >> \o td = td
    BY ConcatEmptySeq
  <2>3. td \in Seq(Call(V \cup {x})) /\ pool' \in Seq(Trans(V \cup {x}))
    BY Widen DEF Holds
  <2>4. QED
    BY <2>1, <2>2, <2>3 DEF Holds
<1>4. QED
  BY <1>2, <1>3

LEMMA StoreKeeps ==
  ASSUME DeferInv, NEW n \in Signals, NEW x, of_STORE_VEC4(n, x)
  PROVE  DeferInv'
<1>1. PICK V : Holds(V)
  BY DEF DeferInv, Typed
<1>2. /\ todo = << >> /\ StoreValue(n, x, << >>) /\ pool' = pool
      /\ UNCHANGED <<threads_, queue, defer, running, lvals, failed>>
  BY DEF of_STORE_VEC4, BetweenStatements, Executing, thr, defer
<1>3. << >> \in Seq(Call(V)) /\ Body(<< >>) /\ Closer(<< >>) = Closer(todo)
  BY <1>2, EmptyCloses
<1>4. Holds(V \cup {x})' /\ Body(todo') /\ Closer(todo') = Closer(todo)
  BY <1>1, <1>2, <1>3, StoreHolds
<1>5. /\ threads_' \in [Events -> Seq(Threads)]
      /\ running' \in Threads \cup {Nil} /\ lvals' \in [Threads -> Seq(Signals) \cup {Nil}]
      /\ Assigning' <=> Assigning
      /\ \A t \in Threads : lvals'[t] # Nil => t = running'
  BY <1>2, ThreadsSame
<1>6. Carried(queue') /\ \A t \in DOMAIN pool : Count(queue', t) = Count(queue, t)
  BY <1>2, QueueSame
<1>7. defer' = defer /\ failed' = failed
  BY <1>2
<1>8. QED
  BY <1>4, <1>5, <1>6, <1>7, QuietStep

LEMMA StoreLvalKeeps == ASSUME DeferInv, NEW x, StoreLval(x) PROVE DeferInv'
<1>1. PICK V : Holds(V)
  BY DEF DeferInv, Typed
<1> DEFINE ls == lvals[running]
           n == Head(ls)
<1>2. /\ todo = << >> /\ running # Nil /\ ls # Nil /\ ls # << >> /\ StoreValue(n, x, << >>)
      /\ lvals' = [lvals EXCEPT ![running] = Tail(ls)] /\ pool' = pool
      /\ UNCHANGED <<threads_, queue, defer, running, failed>>
  BY DEF StoreLval, Executing, defer
<1>3. /\ running \in Threads /\ lvals \in [Threads -> Seq(Signals) \cup {Nil}]
      /\ threads_ \in [Events -> Seq(Threads)]
      /\ \A t \in Threads : lvals[t] # Nil => t = running
  BY <1>2 DEF DeferInv, Typed, Control
<1>4. ls \in Seq(Signals)
  BY <1>2, <1>3
<1> HIDE DEF ls
<1>5. n \in Signals /\ Tail(ls) \in Seq(Signals)
  BY <1>2, <1>4
<1>6. Tail(ls) # Nil
  BY <1>5, NamesAssumption
<1> HIDE DEF n
<1>7. << >> \in Seq(Call(V)) /\ Body(<< >>) /\ Closer(<< >>) = Closer(todo)
  BY <1>2, EmptyCloses
<1>8. Holds(V \cup {x})' /\ Body(todo') /\ Closer(todo') = Closer(todo)
  BY <1>1, <1>2, <1>5, <1>7, StoreHolds
<1>9. /\ lvals' \in [Threads -> Seq(Signals) \cup {Nil}]
      /\ \A t \in Threads : lvals'[t] # Nil => t = running'
      /\ lvals'[running] = Tail(ls)
  BY <1>2, <1>3, <1>5
<1>10. Assigning' <=> Assigning
  BY <1>2, <1>6, <1>9 DEF Assigning, ls
<1>11. QED
  BY <1>2, <1>3, <1>8, <1>9, <1>10, QueueSame, QuietStep

\* A thread that starts, waits or sleeps is between two assignments.
LEMMA ThreadKeeps ==
  ASSUME DeferInv, RunThread \/ (\E e \in Events : of_WAIT(e)) \/ of_DELAY
  PROVE  DeferInv'
<1>1. PICK V : Holds(V)
  BY DEF DeferInv, Typed
<1>2. /\ todo = << >> /\ UNCHANGED <<defer, failed, todo, lvals>> /\ pool' = pool
  BY DEF RunThread, of_WAIT, of_DELAY, BetweenStatements, Executing, defer
<1>3. /\ running \in Threads \cup {Nil} /\ lvals \in [Threads -> Seq(Signals) \cup {Nil}]
      /\ threads_ \in [Events -> Seq(Threads)]
      /\ \A t \in Threads : lvals[t] # Nil => t = running
      /\ Body(todo) /\ Nil \notin Threads
  BY NamesAssumption DEF DeferInv, Typed, Control
<1>4. Holds(V)' /\ Body(todo') /\ Closer(todo') = Closer(todo)
  BY <1>1, <1>2, <1>3 DEF Holds
<1>5. CASE RunThread
  <2>1. /\ queue # << >> /\ running = Nil /\ Head(queue).obj \in Threads /\ running' \in Threads
        /\ queue' = Tail(queue) /\ threads_' = threads_
    BY <1>5 DEF RunThread, net
  <2>2. Head(queue) = queue[1] /\ queue[1].tr = Nil /\ Carried(queue')
    BY <2>1, QueueTail, NamesAssumption
  <2>3. \A t \in DOMAIN pool : Count(queue', t) = Count(queue, t)
    BY <2>1, <2>2, QueueTail
  <2>4. \A t \in Threads : lvals[t] = Nil
    BY <1>3, <2>1
  <2>5. Assigning' <=> Assigning
    BY <1>2, <2>1, <2>4 DEF Assigning
  <2>6. QED
    BY <1>2, <1>3, <1>4, <2>1, <2>2, <2>3, <2>4, <2>5, QuietStep
<1>6. CASE (\E e \in Events : of_WAIT(e)) \/ of_DELAY
  <2>1. running \in Threads /\ lvals[running] = Nil /\ running' = Nil /\ queue' = queue
    BY <1>3, <1>6 DEF of_WAIT, of_DELAY, BetweenStatements, Executing
  <2>2. threads_' \in [Events -> Seq(Threads)]
    <3>1. ASSUME NEW e \in Events, of_WAIT(e) PROVE threads_' \in [Events -> Seq(Threads)]
      <4>1. threads_' = [threads_ EXCEPT ![e] = <<running>> \o @]
        BY <3>1 DEF of_WAIT
      <4>2. <<running>> \o threads_[e] \in Seq(Threads)
        BY <1>3, <2>1
      <4>3. QED
        BY <1>3, <4>1, <4>2
    <3>2. CASE of_DELAY
      BY <1>3, <3>2 DEF of_DELAY, net
    <3>3. QED
      BY <1>6, <3>1, <3>2
  <2>3. \A t \in Threads : lvals[t] = Nil
    BY <1>3, <2>1
  <2>4. Assigning' <=> Assigning
    BY <2>1 DEF Assigning
  <2>5. QED
    BY <1>2, <1>3, <1>4, <2>1, <2>2, <2>3, <2>4, QueueSame, QuietStep
<1>7. QED
  BY <1>5, <1>6

LEMMA NextTimeKeeps == ASSUME DeferInv, NEW th \in Threads, NextTime(th) PROVE DeferInv'
<1>1. PICK V : Holds(V)
  BY DEF DeferInv, Typed
<1> DEFINE e == [obj |-> th, tr |-> Nil]
<1>2. /\ queue = << >> /\ queue' = <<e>> /\ pool' = pool
      /\ UNCHANGED <<threads_, todo, defer, running, lvals, failed>>
  BY DEF NextTime, net, defer
<1>3. e \in Queued /\ e.tr = Nil
  BY DEF Queued
<1> HIDE DEF e
<1>4. Carried(queue')
  BY <1>2, <1>3 DEF Carried
<1>5. ASSUME NEW t \in DOMAIN pool PROVE Count(queue', t) = Count(queue, t)
  <2>1. t # Nil
    BY NamesAssumption DEF DeferInv, Typed, Holds
  <2>2. queue' = Append(queue, e) /\ queue \in Seq(Queued)
    BY <1>2, <1>3
  <2>3. Count(Append(queue, e), t) = Count(queue, t) + IF e.tr = t THEN 1 ELSE 0
    BY <1>3, <2>2, CountAppend
  <2>4. Count(queue, t) \in Nat
    BY <2>2, CountType
  <2>5. QED
    BY <1>3, <2>1, <2>2, <2>3, <2>4
<1>6. Holds(V)' /\ Body(todo') /\ Closer(todo') = Closer(todo)
  BY <1>1, <1>2 DEF Holds, DeferInv, Control
<1>7. /\ threads_' \in [Events -> Seq(Threads)]
      /\ running' \in Threads \cup {Nil} /\ lvals' \in [Threads -> Seq(Signals) \cup {Nil}]
      /\ Assigning' <=> Assigning
      /\ \A t \in Threads : lvals'[t] # Nil => t = running'
  BY <1>2, ThreadsSame
<1>8. defer' = defer /\ failed' = failed
  BY <1>2
<1>9. QED
  BY <1>4, <1>5, <1>6, <1>7, <1>8, QuietStep

-----------------------------------------------------------------------------
(***************************************************************************)
(* Steps that open or bracket a transaction.                               *)
(***************************************************************************)

LEMMA StoreEventKeeps ==
  ASSUME DeferInv, NEW n \in Signals, NEW x, of_STORE_VEC4_EVENT(n, x)
  PROVE  DeferInv'
<1>1. PICK V : Holds(V)
  BY DEF DeferInv, Typed
<1> DEFINE c == [call |-> "end", tr |-> Nil]
<1>2. /\ todo = << >> /\ StoreValue(n, x, <<c>>) /\ running # Nil /\ lvals[running] = Nil
      /\ vvp_event_defer_depth' = vvp_event_defer_depth + 1
      /\ UNCHANGED <<threads_, queue, pool, free_event_defer, vvp_current_event_defer, running,
                     lvals, failed>>
  BY DEF of_STORE_VEC4_EVENT, BetweenStatements, Executing, thr
<1>3. c \in Call(V) /\ c.call = "end"
  BY DEF Call
<1>4. ~Assigning /\ Closer(todo).call = "none"
  BY <1>2, NoCalls DEF Assigning, NoCall
<1>5. vvp_event_defer_depth = 0 /\ vvp_current_event_defer = Nil
  BY <1>2, <1>4, NoCalls
<1> HIDE DEF c
<1>6. <<c>> \in Seq(Call(V)) /\ Body(<<c>>) /\ Closer(<<c>>) = c
  BY <1>3, SingleCloses
<1>7. Holds(V \cup {x})' /\ Body(todo') /\ Closer(todo') = c
  BY <1>1, <1>2, <1>6, StoreHolds
<1>8. \A t : /\ ~Closes("leave", t) /\ ~Closes("free", t)
            /\ ~Closes("leave", t)' /\ ~Closes("free", t)'
  BY <1>3, <1>4, <1>7 DEF Closes
<1>9. \A t \in DOMAIN pool' : Accounted(t)'
  BY <1>2, <1>5, <1>8, AccountsKept
<1>10. Typed'
  BY <1>2, <1>5, <1>7 DEF DeferInv, Typed
<1>11. Control'
  <2>1. ~Assigning'
    BY <1>2 DEF Assigning
  <2>2. \A t \in Threads : lvals'[t] # Nil => t = running'
    BY <1>2 DEF DeferInv, Control
  <2>3. QED
    BY <1>2, <1>3, <1>5, <1>7, <2>1, <2>2 DEF Control
<1>12. QED
  BY <1>2, <1>9, <1>10, <1>11 DEF DeferInv

LEMMA DeferBeginKeeps ==
  ASSUME DeferInv, NEW ls \in Concats, of_EVENT_DEFER_BEGIN(ls)
  PROVE  DeferInv'
<1>1. PICK V : Holds(V)
  BY DEF DeferInv, Typed
<1>2. /\ todo = << >> /\ running # Nil /\ lvals[running] = Nil
      /\ vvp_event_defer_depth' = vvp_event_defer_depth + 1
      /\ lvals' = [lvals EXCEPT ![running] = ls]
      /\ UNCHANGED <<threads_, queue, todo, pool, free_event_defer, vvp_current_event_defer, running,
                     failed>>
  BY DEF of_EVENT_DEFER_BEGIN, BetweenStatements, Executing, net
<1>3. ls \in Seq(Signals) /\ ls # Nil
  BY NamesAssumption
<1>4. ~Assigning /\ Closer(todo).call = "none"
  BY <1>2, NoCalls DEF Assigning, NoCall
<1>5. vvp_event_defer_depth = 0 /\ vvp_current_event_defer = Nil
  BY <1>2, <1>4, NoCalls
<1>6. \A t : /\ ~Closes("leave", t) /\ ~Closes("free", t)
            /\ ~Closes("leave", t)' /\ ~Closes("free", t)'
  BY <1>2, <1>4 DEF Closes
<1>7. \A t \in DOMAIN pool' : Accounted(t)'
  BY <1>2, <1>5, <1>6, AccountsKept
<1>8. /\ running \in Threads /\ lvals \in [Threads -> Seq(Signals) \cup {Nil}]
      /\ \A t \in Threads : lvals[t] # Nil => t = running
  BY <1>2 DEF DeferInv, Typed, Control
<1>9. lvals' \in [Threads -> Seq(Signals) \cup {Nil}] /\ lvals'[running] = ls
        /\ \A t \in Threads : lvals'[t] # Nil => t = running
  BY <1>2, <1>3, <1>8
<1>10. Typed'
  <2>1. Holds(V)'
    BY <1>1, <1>2 DEF Holds
  <2>2. QED
    BY <1>2, <1>5, <1>9, <2>1 DEF DeferInv, Typed
<1>11. Control'
  <2>1. Assigning'
    BY <1>2, <1>3, <1>9 DEF Assigning
  <2>2. Body(todo') /\ Closer(todo').call = "none"
    BY <1>2, <1>4 DEF DeferInv, Control
  <2>3. QED
    BY <1>2, <1>5, <1>9, <2>1, <2>2 DEF Control
<1>12. QED
  BY <1>2, <1>7, <1>10, <1>11 DEF DeferInv

LEMMA DeferEndKeeps == ASSUME DeferInv, of_EVENT_DEFER_END PROVE DeferInv'
<1>1. PICK V : Holds(V)
  BY DEF DeferInv, Typed
<1> DEFINE c == [call |-> "end", tr |-> Nil]
<1>2. /\ todo = << >> /\ running # Nil /\ lvals[running] = << >> /\ todo' = <<c>>
      /\ lvals' = [lvals EXCEPT ![running] = Nil]
      /\ UNCHANGED <<threads_, queue, pool, free_event_defer, vvp_current_event_defer,
                     vvp_event_defer_depth, running, failed>>
  BY DEF of_EVENT_DEFER_END, Executing, net, defer
<1>3. c \in Call(V) /\ c.call = "end"
  BY DEF Call
<1> HIDE DEF c
<1>4. todo' \in Seq(Call(V)) /\ Body(todo') /\ Closer(todo') = c
  BY <1>2, <1>3, SingleCloses
<1>5. << >> # Nil
  <2>1. << >> \in Seq(Signals)
    OBVIOUS
  <2>2. QED
    BY <2>1, NamesAssumption
<1>6. Assigning /\ Closer(todo).call = "none"
  BY <1>2, <1>5, NoCalls DEF Assigning, NoCall
<1>7. vvp_event_defer_depth = 1
  BY <1>2, <1>6, NoCalls
<1>8. \A t : /\ ~Closes("leave", t) /\ ~Closes("free", t)
            /\ ~Closes("leave", t)' /\ ~Closes("free", t)'
  BY <1>3, <1>4, <1>6 DEF Closes
<1>9. \A t \in DOMAIN pool' : Accounted(t)'
  BY <1>2, <1>8, AccountsKept
<1>10. /\ running \in Threads /\ lvals \in [Threads -> Seq(Signals) \cup {Nil}]
       /\ \A t \in Threads : lvals[t] # Nil => t = running
  BY <1>2 DEF DeferInv, Typed, Control
<1>11. lvals' \in [Threads -> Seq(Signals) \cup {Nil}] /\ lvals'[running] = Nil
         /\ \A t \in Threads : lvals'[t] # Nil => t = running
  BY <1>2, <1>10
<1>12. Typed'
  <2>1. Holds(V)'
    BY <1>1, <1>2, <1>4 DEF Holds
  <2>2. QED
    BY <1>2, <1>11, <2>1 DEF DeferInv, Typed
<1>13. Control'
  <2>1. ~Assigning'
    BY <1>2, <1>11 DEF Assigning
  <2>2. QED
    BY <1>2, <1>3, <1>4, <1>7, <1>11, <2>1 DEF Control
<1>14. QED
  BY <1>2, <1>9, <1>12, <1>13 DEF DeferInv

\* The functor that runs takes its transaction from the queue to the stack.
LEMMA RunFunctorKeeps == ASSUME DeferInv, RunFunctor PROVE DeferInv'
<1>1. PICK V : Holds(V)
  BY DEF DeferInv, Typed
<1> PICK f, x, t : f = Head(queue).obj /\ x = Output(f, input[f]) /\ t = Head(queue).tr
  OBVIOUS
<1> DEFINE c == [call |-> "leave", tr |-> t]
<1>2. /\ todo = << >> /\ running = Nil /\ queue # << >> /\ f \in Functors /\ queue' = Tail(queue)
      /\ todo' = Send(f, x) \o (IF t = Nil THEN << >> ELSE <<c>>)
      /\ IF t = Nil THEN UNCHANGED <<vvp_current_event_defer, failed>>
         ELSE /\ vvp_current_event_defer' = t
              /\ failed' = (failed \/ vvp_current_event_defer # Nil
                                   \/ vvp_event_defer_depth # 0)
      /\ UNCHANGED <<threads_, pool, free_event_defer, vvp_event_defer_depth, running, lvals>>
  BY DEF RunFunctor, thr
<1>3. /\ Carried(Tail(queue)) /\ t = queue[1].tr /\ t \in DOMAIN pool \cup {Nil}
      /\ queue \in Seq(Queued)
  BY <1>2, QueueTail DEF DeferInv, Typed
<1>4. f \in Nets /\ ~Assigning /\ ~Assigning'
  BY <1>2 DEF Nets, Assigning
<1>5. Closer(todo).call = "none" /\ vvp_event_defer_depth = 0 /\ vvp_current_event_defer = Nil
  BY <1>2, <1>4, NoCalls DEF NoCall
<1>6. /\ threads_' \in [Events -> Seq(Threads)]
      /\ running' \in Threads \cup {Nil} /\ lvals' \in [Threads -> Seq(Signals) \cup {Nil}]
      /\ \A th \in Threads : lvals'[th] # Nil => th = running'
  BY <1>2, ThreadsSame
<1>7. CASE t = Nil
  <2>1. << >> \in Seq(Call(V)) /\ Body(<< >>) /\ Closer(<< >>) = Closer(todo)
    BY <1>2, EmptyCloses
  <2>2. todo' = Send(f, x) \o << >> /\ pool' = pool
    BY <1>2, <1>7
  <2>3. Holds(V \cup {x})' /\ Body(todo') /\ Closer(todo') = Closer(todo)
    BY <1>1, <1>4, <2>1, <2>2, SendHolds
  <2>4. \A u \in DOMAIN pool : Count(queue', u) = Count(queue, u)
    BY <1>2, <1>3, <1>7, QueueTail
  <2>5. UNCHANGED <<defer, failed>>
    BY <1>2, <1>7 DEF defer
  <2>6. Carried(queue')
    BY <1>2, <1>3
  <2>7. QED
    BY <1>4, <1>6, <2>3, <2>4, <2>5, <2>6, QuietStep
<1>8. CASE t # Nil
  <2>1. t \in DOMAIN pool /\ t \in Nat
    BY <1>1, <1>3, <1>8 DEF Holds
  <2>2. c \in Call(V) /\ c.call = "leave" /\ c.tr = t
    BY <2>1 DEF Call
  <2>3. todo' = Send(f, x) \o <<c>> /\ pool' = pool /\ vvp_current_event_defer' = t /\ ~failed'
    <3>1. ~failed
      BY DEF DeferInv
    <3> HIDE DEF c
    <3>2. QED
      BY <1>2, <1>5, <1>8, <3>1
  <2> HIDE DEF c
  <2>4. <<c>> \in Seq(Call(V)) /\ Body(<<c>>) /\ Closer(<<c>>) = c
    BY <2>2, SingleCloses
  <2>5. Holds(V \cup {x})' /\ Body(todo') /\ Closer(todo') = c
    BY <1>1, <1>4, <2>3, <2>4, SendHolds
  <2>6. /\ \A u : ~Closes("leave", u) /\ ~Closes("free", u) /\ ~Closes("free", u)'
        /\ \A u : Closes("leave", u)' <=> u = t
    BY <1>5, <2>2, <2>5 DEF Closes
  <2>7. ASSUME NEW u \in DOMAIN pool
        PROVE  /\ Count(queue, u) = Count(queue', u) + (IF u = t THEN 1 ELSE 0)
               /\ Count(queue', u) \in Nat /\ Count(queue, u) \in Nat
    <3>1. Count(queue, u) = Count(Tail(queue), u) + IF queue[1].tr = u THEN 1 ELSE 0
      BY <1>2, <1>3, CountTail
    <3>2. Count(queue', u) \in Nat /\ Count(queue, u) \in Nat
      BY <1>2, <1>3, CountType DEF Carried
    <3>3. QED
      BY <1>2, <1>3, <3>1, <3>2
  <2>8. ASSUME NEW u \in DOMAIN pool' PROVE Accounted(u)'
    <3>1. u \in DOMAIN pool /\ Accounted(u) /\ Live' = Live /\ u # Nil
      BY <1>2, NamesAssumption DEF DeferInv, Typed, Holds, Live
    <3>2. CASE u = t
      <4>1. Count(queue, u) # 0
        BY <2>7, <3>1, <3>2
      <4>2. u \in Live
        BY <3>1, <4>1 DEF Accounted
      <4>3. pool[u].pending_functors = Count(queue, u) /\ pool[u].source_done = TRUE
        <5>1. pool[u].pending_functors = Count(queue, u) + (IF Closes("leave", u) THEN 1 ELSE 0)
          BY <3>1, <4>2, Zenon DEF Accounted
        <5>2. pool[u].source_done = ~(vvp_event_defer_depth = 1 /\ vvp_current_event_defer = u)
          BY <3>1, <4>2, Zenon DEF Accounted
        <5>3. ~(vvp_event_defer_depth = 1 /\ vvp_current_event_defer = u)
          BY <1>5, <3>1
        <5>4. pool[u].source_done = TRUE
          BY <5>2, <5>3, Zenon
        <5>5. QED
          BY <2>6, <2>7, <3>1, <5>1, <5>4
      <4>4. pool'[u].pending_functors = Count(queue', u) + 1 /\ pool'[u].source_done = TRUE
        BY <2>3, <2>7, <3>1, <3>2, <4>3
      <4>5. QED
        BY <1>2, <1>5, <2>3, <2>6, <3>1, <3>2, <4>2, <4>4 DEF Accounted
    <3>3. CASE u # t
      <4>1. Count(queue', u) = Count(queue, u)
        BY <2>7, <3>1, <3>3
      <4>2. QED
        BY <1>2, <1>5, <2>3, <2>6, <3>1, <3>3, <4>1 DEF Accounted
    <3>4. QED
      BY <3>2, <3>3
  <2>9. Typed'
    BY <1>2, <1>3, <1>6, <2>1, <2>3, <2>5 DEF DeferInv, Typed, Carried
  <2>10. Control'
    <3>1. /\ vvp_event_defer_depth' = 0 /\ vvp_current_event_defer' = t
          /\ Closer(todo').call = "leave" /\ Closer(todo').tr = t
      BY <1>2, <1>5, <2>2, <2>3, <2>5
    <3>2. QED
      BY <1>4, <1>6, <1>8, <2>5, <3>1 DEF Control
  <2>11. QED
    BY <2>3, <2>8, <2>9, <2>10 DEF DeferInv
<1>9. QED
  BY <1>7, <1>8

-----------------------------------------------------------------------------
(***************************************************************************)
(* Steps within a transaction.                                             *)
(***************************************************************************)

\* While the deferral is active, a transaction that is not current is not
\* about to be left or freed.
LEMMA ActiveCloses ==
  ASSUME DeferInv, vvp_event_defer_active
  PROVE  /\ Closer(todo).call # "free" /\ (Closer(todo).call = "leave" => Closer(todo).tr = vvp_current_event_defer)
         /\ vvp_current_event_defer = Nil => vvp_event_defer_depth = 1 /\ Closer(todo).call # "leave"
BY DEF DeferInv, Typed, Control, vvp_event_defer_active

\* What the transaction that active_event_defer returns counts.
LEMMA TransactingCounts ==
  ASSUME DeferInv, vvp_event_defer_active, NEW c \in Nat,
         vvp_current_event_defer # Nil => c = vvp_current_event_defer,
         vvp_current_event_defer = Nil => c \notin Live
  PROVE  /\ Transacting.pending_functors = Count(queue, c) + (IF Closes("leave", c) THEN 1 ELSE 0)
         /\ Transacting.source_done = ~(vvp_event_defer_depth = 1)
<1>1. CASE vvp_current_event_defer # Nil
  <2>1. c \in DOMAIN pool /\ c \in Live /\ Transacting = pool[c]
    BY <1>1, CurrentIsLive DEF DeferInv, Typed, Transacting
  <2>2. Accounted(c)
    BY <2>1 DEF DeferInv
  <2>3. QED
    BY <1>1, <2>1, <2>2 DEF Accounted
<1>2. CASE vvp_current_event_defer = Nil
  <2>1. Transacting.pending_functors = 0 /\ Transacting.source_done = FALSE
    BY <1>2 DEF Transacting, Fresh
  <2>2. vvp_event_defer_depth = 1 /\ ~Closes("leave", c)
    BY <1>2, ActiveCloses DEF Closes
  <2>3. Count(queue, c) = 0
    <3>1. CASE c \in DOMAIN pool
      <4>1. Accounted(c)
        BY <3>1 DEF DeferInv
      <4>2. QED
        BY <1>2, <4>1 DEF Accounted
    <3>2. CASE c \notin DOMAIN pool
      <4>1. c # Nil
        BY NamesAssumption
      <4>2. Carriers(queue, c) = {}
        BY <3>2, <4>1 DEF DeferInv, Typed, Carriers
      <4>3. QED
        BY <4>2, CountType DEF DeferInv, Typed
    <3>3. QED
      BY <3>1, <3>2
  <2>4. Transacting.pending_functors = Count(queue, c) + (IF Closes("leave", c) THEN 1 ELSE 0)
    BY <2>1, <2>2, <2>3
  <2>5. Transacting.source_done = ~(vvp_event_defer_depth = 1)
    <3>1. (~(vvp_event_defer_depth = 1)) = FALSE
      BY <2>2
    <3>2. QED
      BY <2>1, <3>1, Zenon
  <2>6. QED
    BY <2>4, <2>5
<1>3. QED
  BY <1>1, <1>2

\* The number of queue entries that a step adds for transaction c.
Added(q, c, n) ==
  \A t \in Nat : Count(q, t) = Count(queue, t) + (IF t = c THEN n ELSE 0)

LEMMA ActiveStep ==
  ASSUME DeferInv, vvp_event_defer_active, NEW V, Holds(V), NEW tr \in Trans(V), NEW n \in Nat,
         tr.pending_functors = Transacting.pending_functors + n,
         tr.source_done = Transacting.source_done,
         active_event_defer(tr),
         Carried(queue)', Added(queue', vvp_current_event_defer', n),
         todo' \in Seq(Call(V)), Body(todo'), Closer(todo') = Closer(todo),
         UNCHANGED <<vvp_event_defer_depth, threads_, running, lvals, failed>>
  PROVE  DeferInv'
<1> PICK c : c = vvp_current_event_defer'
  OBVIOUS
<1>1. /\ pool' \in Seq(Trans(V)) /\ DOMAIN pool' = DOMAIN pool \cup {c} /\ c \in Nat
      /\ pool'[c] = tr /\ \A t \in DOMAIN pool : t # c => pool'[t] = pool[t]
      /\ free_event_defer' \in Seq(DOMAIN pool') /\ IsInjective(free_event_defer')
      /\ Live' = Live \cup {c}
      /\ vvp_current_event_defer # Nil => c = vvp_current_event_defer
      /\ vvp_current_event_defer = Nil => c \notin Live
  BY Activated
<1>2. /\ Transacting.pending_functors = Count(queue, c) + (IF Closes("leave", c) THEN 1 ELSE 0)
      /\ Transacting.source_done = ~(vvp_event_defer_depth = 1)
  BY <1>1, TransactingCounts
<1>3. /\ Closer(todo).call # "free" /\ (Closer(todo).call = "leave" => Closer(todo).tr = vvp_current_event_defer)
      /\ vvp_current_event_defer = Nil => vvp_event_defer_depth = 1 /\ Closer(todo).call # "leave"
  BY ActiveCloses
<1>4. \A t : (Closes("leave", t)' <=> Closes("leave", t)) /\ ~Closes("free", t) /\ ~Closes("free", t)'
  BY <1>3 DEF Closes
<1>5. \A t \in Nat : Count(queue, t) \in Nat
  BY CountType DEF DeferInv, Typed
<1>6. c # Nil
  BY <1>1, NamesAssumption
<1>7. ASSUME NEW t \in DOMAIN pool' PROVE Accounted(t)'
  <2>1. CASE t = c
    <3>1. t \in Live' /\ pool'[t] = tr /\ Count(queue', t) = Count(queue, t) + n /\ t \in Nat
      BY <1>1, <2>1 DEF Added
    <3>2. tr.pending_functors = Count(queue', t) + (IF Closes("leave", t) THEN 1 ELSE 0)
      <4> DEFINE k == IF Closes("leave", t) THEN 1 ELSE 0
      <4>1. k \in Nat /\ Count(queue, t) \in Nat
        BY <1>5, <3>1
      <4>2. Transacting.pending_functors = Count(queue, t) + k
        BY <1>2, <2>1
      <4> HIDE DEF k
      <4>3. tr.pending_functors = Count(queue', t) + k
        BY <3>1, <4>1, <4>2
      <4>4. QED
        BY <4>3 DEF k
    <3>3. QED
      BY <1>2, <1>4, <2>1, <3>1, <3>2 DEF Accounted
  <2>2. CASE t # c
    <3>1. t \in DOMAIN pool /\ t \in Nat /\ pool'[t] = pool[t] /\ (t \in Live' <=> t \in Live)
      BY <1>1, <2>2 DEF DeferInv, Typed, Holds
    <3>2. Count(queue', t) = Count(queue, t)
      BY <1>5, <2>2, <3>1 DEF Added
    <3>3. Accounted(t)
      BY <3>1 DEF DeferInv
    <3>4. t # Nil
      BY <3>1, NamesAssumption
    <3>5. vvp_current_event_defer # t /\ vvp_current_event_defer' # t
      BY <1>1, <2>2, <3>4
    <3>6. QED
      BY <1>4, <3>1, <3>2, <3>3, <3>5 DEF Accounted
  <2>3. QED
    BY <2>1, <2>2
<1>8. Typed'
  <2>1. Holds(V)'
    BY <1>1 DEF Holds
  <2>2. QED
    BY <1>1, <2>1 DEF DeferInv, Typed, Carried
<1>9. Control'
  <2>1. Assigning' <=> Assigning
    BY DEF Assigning
  <2>2. vvp_event_defer_depth = 1 \/ Closer(todo).call = "leave"
    BY <1>3, <1>6 DEF DeferInv, Control
  <2>3. QED
    BY <1>1, <1>3, <1>6, <2>1, <2>2 DEF DeferInv, Control
<1>10. QED
  BY <1>7, <1>8, <1>9 DEF DeferInv

\* What active_event_defer returns has its type.
LEMMA TransactingType ==
  ASSUME DeferInv, NEW V, Holds(V)
  PROVE  Transacting \in Trans(V)
<1>1. CASE vvp_current_event_defer # Nil
  <2> DEFINE S == Trans(V)
  <2>1. pool \in Seq(S) /\ vvp_current_event_defer \in DOMAIN pool
    BY <1>1 DEF DeferInv, Typed, Holds
  <2> HIDE DEF S
  <2>2. pool[vvp_current_event_defer] \in S
    BY <2>1
  <2>3. QED
    BY <1>1, <2>2 DEF Transacting, S
<1>2. CASE vvp_current_event_defer = Nil
  BY <1>2 DEF Transacting, Fresh, Trans
<1>3. QED
  BY <1>1, <1>2

\* A functor that is scheduled in a transaction is captured by it.
LEMMA RecvScheduledKeeps == ASSUME DeferInv, RecvScheduled PROVE DeferInv'
<1>1. PICK V : Holds(V)
  BY DEF DeferInv, Typed
<1> PICK f : f = Head(todo).to
  OBVIOUS
<1>2. /\ Calling("recv") /\ f \in Functors /\ todo' = Tail(todo)
      /\ UNCHANGED <<vvp_event_defer_depth, threads_, running, lvals, failed>>
      /\ \/ UNCHANGED <<queue, pool, free_event_defer, vvp_current_event_defer>>
         \/ schedule_functor(f)
  BY DEF RecvScheduled, thr
<1>3. todo' \in Seq(Call(V)) /\ Body(todo') /\ Closer(todo') = Closer(todo)
  BY <1>1, <1>2, NextDelivery
<1>4. /\ threads_' \in [Events -> Seq(Threads)]
      /\ running' \in Threads \cup {Nil} /\ lvals' \in [Threads -> Seq(Signals) \cup {Nil}]
      /\ Assigning' <=> Assigning
      /\ \A t \in Threads : lvals'[t] # Nil => t = running'
  BY <1>2, ThreadsSame
<1>5. Carried(queue) /\ queue \in Seq(Queued) /\ \A t : Count(queue, t) \in Nat
  BY QueueCarried, CountType DEF DeferInv, Typed
<1>6. CASE UNCHANGED <<queue, pool, free_event_defer, vvp_current_event_defer>>
  <2>1. defer' = defer /\ failed' = failed /\ Holds(V)'
    BY <1>1, <1>2, <1>3, <1>6 DEF defer, Holds
  <2>2. Carried(queue') /\ \A t \in DOMAIN pool : Count(queue', t) = Count(queue, t)
    BY <1>6, QueueSame
  <2>3. QED
    BY <1>3, <1>4, <2>1, <2>2, QuietStep
<1>7. CASE schedule_functor(f) /\ ~vvp_event_defer_active
  <2> DEFINE e == [obj |-> f, tr |-> Nil]
  <2>1. queue' = Append(queue, e) /\ UNCHANGED <<pool, free_event_defer, vvp_current_event_defer>>
    BY <1>7 DEF schedule_functor
  <2>2. defer' = defer /\ failed' = failed /\ Holds(V)'
    BY <1>1, <1>2, <1>3, <2>1 DEF defer, Holds
  <2>3. e \in Queued /\ e.tr = Nil
    BY <1>2 DEF Queued
  <2> HIDE DEF e
  <2>4. Carried(queue')
    BY <1>5, <2>1, <2>3, AppendProperties DEF Carried
  <2>5. ASSUME NEW t \in DOMAIN pool PROVE Count(queue', t) = Count(queue, t)
    <3>1. t # Nil
      BY NamesAssumption DEF DeferInv, Typed, Holds
    <3>2. Count(Append(queue, e), t) = Count(queue, t) + IF e.tr = t THEN 1 ELSE 0
      BY <1>5, <2>3, CountAppend
    <3>3. Count(queue, t) \in Nat
      BY <1>5
    <3>4. QED
      BY <2>1, <2>3, <3>1, <3>2, <3>3
  <2>6. QED
    BY <1>3, <1>4, <2>2, <2>4, <2>5, QuietStep
<1>8. CASE schedule_functor(f) /\ vvp_event_defer_active
  <2> PICK c : c = vvp_current_event_defer'
    OBVIOUS
  <2> PICK tr : tr = vvp_event_defer_capture(Transacting)
    OBVIOUS
  <2> DEFINE e == [obj |-> f, tr |-> c]
  <2>1. active_event_defer(tr) /\ queue' = Append(queue, e)
    BY <1>8 DEF schedule_functor
  <2>2. Transacting \in Trans(V)
    BY <1>1, TransactingType
  <2>3. /\ tr \in Trans(V) /\ tr.pending_functors = Transacting.pending_functors + 1
        /\ tr.source_done = Transacting.source_done
    BY <2>2 DEF Trans, vvp_event_defer_capture
  <2>4. c \in Nat /\ DOMAIN pool' = DOMAIN pool \cup {c}
    BY <1>1, <2>1, <2>3, Activated
  <2>5. e \in Queued /\ e.tr = c /\ e.obj \in Functors
    BY <1>2, <2>4 DEF Queued
  <2> HIDE DEF e
  <2>6. Carried(queue)'
    BY <1>5, <2>1, <2>4, <2>5, AppendProperties DEF Carried
  <2>7. Added(queue', c, 1)
    <3> SUFFICES ASSUME NEW t \in Nat
                 PROVE  Count(queue', t) = Count(queue, t) + (IF t = c THEN 1 ELSE 0)
      BY DEF Added
    <3>1. Count(Append(queue, e), t) = Count(queue, t) + IF e.tr = t THEN 1 ELSE 0
      BY <1>5, <2>5, CountAppend
    <3>2. QED
      BY <2>1, <2>5, <3>1
  <2>8. QED
    BY <1>1, <1>2, <1>3, <1>8, <2>1, <2>3, <2>6, <2>7, ActiveStep
<1>9. QED
  BY <1>2, <1>6, <1>7, <1>8

\* A transaction that holds an event back counts what it counted.
LEMMA DeferVec4 ==
  ASSUME NEW V, NEW tr \in Trans(V), NEW e \in Events, NEW v \in V
  PROVE  /\ vvp_event_defer_vec4(tr, e, v) \in Trans(V)
         /\ vvp_event_defer_vec4(tr, e, v).pending_functors = tr.pending_functors
         /\ vvp_event_defer_vec4(tr, e, v).source_done = tr.source_done
<1> DEFINE E == [port : Events, v : V]
           s == tr.events
           u == [i \in DOMAIN s |-> IF s[i].port = e THEN [s[i] EXCEPT !.v = v] ELSE s[i]]
           a == Append(s, [port |-> e, v |-> v])
<1>1. s \in Seq(E)
  BY DEF Trans
<1>2. [port |-> e, v |-> v] \in E /\ \A x \in E : [x EXCEPT !.v = v] \in E
  OBVIOUS
<1>3. \/ vvp_event_defer_vec4(tr, e, v) = [tr EXCEPT !.events = u]
      \/ vvp_event_defer_vec4(tr, e, v) = [tr EXCEPT !.events = a]
  BY DEF vvp_event_defer_vec4
<1>4. Trans(V) = [pending_functors : Nat, source_done : BOOLEAN, events : Seq(E)]
  BY DEF Trans
<1>5. u \in Seq(E)
  <2> HIDE DEF E, s
  <2>1. Len(s) \in Nat /\ DOMAIN s = 1..Len(s) /\ \A i \in 1..Len(s) : s[i] \in E
    BY <1>1
  <2>2. \A i \in 1..Len(s) : (IF s[i].port = e THEN [s[i] EXCEPT !.v = v] ELSE s[i]) \in E
    BY <1>2, <2>1
  <2>3. u \in [1..Len(s) -> E]
    BY <2>1, <2>2
  <2> HIDE DEF u
  <2>4. QED
    BY <2>1, <2>3, SeqDef
<1>6. a \in Seq(E)
  <2> HIDE DEF E, s
  <2>1. QED
    BY <1>1, <1>2, AppendProperties
<1> HIDE DEF E, s, u, a
<1>7. QED
  BY <1>3, <1>4, <1>5, <1>6

LEMMA RecvDeferredKeeps == ASSUME DeferInv, RecvDeferred PROVE DeferInv'
<1>1. PICK V : Holds(V)
  BY DEF DeferInv, Typed
<1> PICK e, v : e = Head(todo).to /\ v = Head(todo).v
  OBVIOUS
<1> PICK tr : tr = vvp_event_defer_vec4(Transacting, e, v)
  OBVIOUS
<1>2. /\ Calling("recv") /\ e \in Events /\ vvp_event_defer_active /\ active_event_defer(tr)
      /\ todo' = Tail(todo) /\ queue' = queue
      /\ UNCHANGED <<vvp_event_defer_depth, threads_, running, lvals, failed>>
  BY DEF RecvDeferred, Defers, net, thr
<1>3. todo' \in Seq(Call(V)) /\ Body(todo') /\ Closer(todo') = Closer(todo) /\ v \in V
  BY <1>1, <1>2, NextDelivery
<1>4. Transacting \in Trans(V)
  BY <1>1, TransactingType
<1>5. /\ tr \in Trans(V) /\ tr.pending_functors = Transacting.pending_functors
      /\ tr.source_done = Transacting.source_done
  BY <1>2, <1>3, <1>4, DeferVec4
<1>6. Transacting.pending_functors \in Nat
  BY <1>4 DEF Trans
<1>7. tr.pending_functors = Transacting.pending_functors + 0
  BY <1>5, <1>6
<1>8. Added(queue', vvp_current_event_defer', 0)
  <2>1. \A t \in Nat : Count(queue, t) \in Nat
    BY CountType DEF DeferInv, Typed
  <2>2. QED
    BY <1>2, <2>1 DEF Added
<1>9. Carried(queue)'
  <2>1. DOMAIN pool \subseteq DOMAIN pool'
    BY <1>1, <1>2, <1>5, Activated
  <2>2. QED
    BY <1>2, <2>1, QueueCarried DEF Carried
<1>10. QED
  BY <1>1, <1>2, <1>3, <1>5, <1>7, <1>8, <1>9, ActiveStep

-----------------------------------------------------------------------------
(***************************************************************************)
(* Steps that close a transaction.                                         *)
(***************************************************************************)

\* The next call is not a delivery: it is the last one.
LEMMA NextIsLast ==
  ASSUME DeferInv, NEW V, Holds(V), NEW c, c # "recv", Calling(c)
  PROVE  /\ Tail(todo) = << >> /\ Head(todo) = todo[1] /\ Closer(todo) = todo[1]
         /\ Closer(todo).call = c
<1>1. todo \in Seq(Call(V)) /\ todo # << >> /\ Head(todo) = todo[1] /\ todo[1].call = c
  BY DEF Holds, Calling
<1>2. Body(todo)
  BY DEF DeferInv, Control
<1>3. QED
  BY <1>1, <1>2, LastCall

\* The source of current transaction t is done, or a functor it captured, and
\* the transaction becomes tr: it waits for the others, or is finished.
LEMMA CloseStep ==
  ASSUME DeferInv, NEW V, Holds(V), NEW t \in DOMAIN pool, t = vvp_current_event_defer,
         NEW tr \in Trans(V), tr.source_done, tr.pending_functors = Count(queue, t),
         pool' = [pool EXCEPT ![t] = tr], vvp_current_event_defer' = Nil,
         todo' = finish_event_defer(t, tr, << >>),
         vvp_event_defer_depth' = 0, ~Assigning, ~failed', Closer(todo).call # "free",
         UNCHANGED <<queue, free_event_defer, threads_, running, lvals>>
  PROVE  DeferInv'
<1>1. pool \in Seq(Trans(V)) /\ t \in Nat /\ t # Nil
  BY NamesAssumption DEF Holds
<1>2. /\ pool' \in Seq(Trans(V)) /\ DOMAIN pool' = DOMAIN pool
      /\ pool'[t] = tr /\ \A i \in DOMAIN pool : i # t => pool'[i] = pool[i]
  BY <1>1, ReplaceOne
<1>3. Live' = Live /\ t \in Live
  BY <1>1, <1>2, CurrentIsLive DEF Live
<1>4. /\ todo' \in Seq(Call(V)) /\ Body(todo')
      /\ Closer(todo') = IF tr.pending_functors = 0 THEN [call |-> "free", tr |-> t] ELSE NoCall
  BY <1>1, FinishCalls
<1>5. /\ \A u : ~Closes("leave", u)'
      /\ \A u : Closes("free", u)' <=> (u = t /\ tr.pending_functors = 0)
      /\ Closer(todo').call \in {"free", "none"}
      /\ Closer(todo').call = "free" => Closer(todo').tr = t
  BY <1>4 DEF Closes, NoCall
<1>6. Count(queue, t) \in Nat
  BY CountType DEF DeferInv, Typed
<1>7. ASSUME NEW u \in DOMAIN pool' PROVE Accounted(u)'
  <2>1. u \in DOMAIN pool /\ u \in Nat /\ u # Nil /\ Accounted(u)
    BY <1>1, <1>2, NamesAssumption DEF DeferInv
  <2>2. CASE u = t
    <3>1. pool'[u].source_done = TRUE
      BY <1>2, <2>2 DEF Trans
    <3>2. pool'[u].source_done = ~(vvp_event_defer_depth' = 1 /\ vvp_current_event_defer' = u)
      BY <2>1, <3>1
    <3>3. pool'[u].pending_functors = Count(queue', u) + (IF Closes("leave", u)' THEN 1 ELSE 0)
      BY <1>2, <1>5, <1>6, <2>2
    <3>4. QED
      BY <1>2, <1>3, <1>5, <2>2, <3>2, <3>3 DEF Accounted
  <2>3. CASE u # t
    <3>1. pool'[u] = pool[u] /\ vvp_current_event_defer # u
      BY <1>2, <2>1, <2>3
    <3>2. ~Closes("free", u)
      BY DEF Closes
    <3>3. ~Closes("leave", u)
      BY <3>1 DEF Closes, DeferInv, Control
    <3>4. QED
      BY <1>3, <1>5, <2>1, <2>3, <3>1, <3>2, <3>3 DEF Accounted
  <2>4. QED
    BY <2>2, <2>3
<1>8. Typed'
  <2>1. Holds(V)'
    BY <1>2, <1>4 DEF Holds
  <2>2. QED
    BY <1>2, <2>1 DEF DeferInv, Typed
<1>9. Control'
  <2>1. ~Assigning'
    BY DEF Assigning
  <2>2. \A th \in Threads : lvals'[th] # Nil => th = running'
    BY DEF DeferInv, Control
  <2>3. QED
    BY <1>2, <1>4, <1>5, <2>1, <2>2 DEF Control
<1>10. QED
  BY <1>7, <1>8, <1>9 DEF DeferInv

LEMMA PoolType ==
  ASSUME NEW V, Holds(V), NEW t \in DOMAIN pool
  PROVE  pool[t] \in Trans(V)
<1> DEFINE S == Trans(V)
<1>1. pool \in Seq(S)
  BY DEF Holds
<1> HIDE DEF S
<1>2. pool[t] \in S
  BY <1>1
<1>3. QED
  BY <1>2 DEF S

\* A captured functor has run.
LEMMA LeaveKeeps == ASSUME DeferInv, vvp_event_defer_leave PROVE DeferInv'
<1>1. PICK V : Holds(V)
  BY DEF DeferInv, Typed
<1> PICK t : t = Head(todo).tr
  OBVIOUS
<1> PICK tr : tr = [pool[t] EXCEPT !.pending_functors = @ - 1]
  OBVIOUS
<1>2. /\ Calling("leave") /\ vvp_current_event_defer' = Nil
      /\ failed' = (failed \/ vvp_current_event_defer # t \/ pool[t].pending_functors = 0)
      /\ pool' = [pool EXCEPT ![t] = tr] /\ todo' = finish_event_defer(t, tr, Tail(todo))
      /\ UNCHANGED <<queue, free_event_defer, vvp_event_defer_depth, threads_, running, lvals>>
  BY DEF vvp_event_defer_leave, net, thr
<1>3. Tail(todo) = << >> /\ Closer(todo).tr = t /\ Closer(todo).call = "leave"
  BY <1>1, <1>2, NextIsLast
<1>4. /\ t = vvp_current_event_defer /\ t \in DOMAIN pool /\ ~Assigning
      /\ vvp_event_defer_depth = 0 /\ Closes("leave", t) /\ ~failed
  BY <1>3 DEF DeferInv, Typed, Control, Closes
<1>5. t \in Live /\ Accounted(t)
  BY <1>4 DEF DeferInv, Accounted
<1>6. Count(queue, t) \in Nat
  BY CountType DEF DeferInv, Typed
<1>7. pool[t].pending_functors = Count(queue, t) + 1 /\ pool[t].source_done
  <2>1. pool[t].pending_functors = Count(queue, t) + 1
    BY <1>4, <1>5 DEF Accounted
  <2>2. pool[t].source_done = ~(vvp_event_defer_depth = 1 /\ vvp_current_event_defer = t)
    BY <1>5, Zenon DEF Accounted
  <2>3. (~(vvp_event_defer_depth = 1 /\ vvp_current_event_defer = t)) = TRUE
    BY <1>4
  <2>4. pool[t].source_done
    BY <2>2, <2>3, Zenon
  <2>5. QED
    BY <2>1, <2>4
<1>8. pool[t] \in Trans(V)
  BY <1>1, <1>4, PoolType
<1>9. tr \in Trans(V) /\ tr.pending_functors = Count(queue, t) /\ tr.source_done
  BY <1>6, <1>7, <1>8, SMTT(30) DEF Trans
<1>10. ~failed'
  <2>1. pool[t].pending_functors # 0
    BY <1>6, <1>7
  <2>2. QED
    BY <1>2, <1>4, <2>1, Zenon
<1>11. vvp_event_defer_depth' = 0 /\ todo' = finish_event_defer(t, tr, << >>) /\ Closer(todo).call # "free"
  BY <1>2, <1>3, <1>4
<1>12. QED
  BY <1>1, <1>2, <1>4, <1>9, <1>10, <1>11, CloseStep

\* The source of the transaction, if it opened one, is done.
LEMMA EndKeeps == ASSUME DeferInv, vvp_event_defer_end PROVE DeferInv'
<1>1. PICK V : Holds(V)
  BY DEF DeferInv, Typed
<1> PICK t : t = vvp_current_event_defer
  OBVIOUS
<1> PICK tr : tr = [pool[t] EXCEPT !.source_done = TRUE]
  OBVIOUS
<1>2. /\ Calling("end") /\ vvp_event_defer_depth' = vvp_event_defer_depth - 1
      /\ failed' = (failed \/ vvp_event_defer_depth = 0)
      /\ IF vvp_event_defer_depth' = 0 /\ t # Nil /\ ~pool[t].source_done
           THEN /\ vvp_current_event_defer' = Nil
                /\ pool' = [pool EXCEPT ![t] = tr]
                /\ todo' = finish_event_defer(t, tr, Tail(todo))
           ELSE /\ todo' = Tail(todo)
                /\ UNCHANGED <<pool, vvp_current_event_defer>>
      /\ UNCHANGED <<queue, free_event_defer, threads_, running, lvals>>
  BY DEF vvp_event_defer_end, net, thr
<1>3. Tail(todo) = << >> /\ Closer(todo).call = "end"
  BY <1>1, <1>2, NextIsLast
<1>4. vvp_event_defer_depth = 1 /\ ~Assigning /\ ~failed
  BY <1>3 DEF DeferInv, Control
<1>5. vvp_event_defer_depth' = 0 /\ ~failed'
  <2>1. vvp_event_defer_depth # 0 /\ vvp_event_defer_depth' = 0
    BY <1>2, <1>4
  <2>2. QED
    BY <1>2, <1>4, <2>1, Zenon
<1>6. \A u : ~Closes("leave", u) /\ ~Closes("free", u)
  BY <1>3 DEF Closes
<1>7. CASE t # Nil
  <2>1. t \in DOMAIN pool /\ t \in Live
    BY <1>7, CurrentIsLive DEF DeferInv, Typed
  <2>2. Accounted(t)
    BY <2>1 DEF DeferInv
  <2>3. Count(queue, t) \in Nat
    BY CountType DEF DeferInv, Typed
  <2>4. pool[t].pending_functors = Count(queue, t) /\ ~pool[t].source_done
    <3>1. pool[t].pending_functors = Count(queue, t)
      BY <1>6, <2>1, <2>2, <2>3 DEF Accounted
    <3>2. pool[t].source_done = ~(vvp_event_defer_depth = 1 /\ vvp_current_event_defer = t)
      BY <2>1, <2>2, Zenon DEF Accounted
    <3>3. (~(vvp_event_defer_depth = 1 /\ vvp_current_event_defer = t)) = FALSE
      BY <1>4
    <3>4. ~pool[t].source_done
      BY <3>2, <3>3, Zenon
    <3>5. QED
      BY <3>1, <3>4
  <2>5. pool[t] \in Trans(V)
    BY <1>1, <2>1, PoolType
  <2>6. tr \in Trans(V) /\ tr.pending_functors = Count(queue, t) /\ tr.source_done
    BY <2>4, <2>5 DEF Trans
  <2>7. /\ vvp_current_event_defer' = Nil /\ pool' = [pool EXCEPT ![t] = tr]
        /\ todo' = finish_event_defer(t, tr, << >>)
    BY <1>2, <1>3, <1>5, <1>7, <2>4
  <2>8. Closer(todo).call # "free"
    BY <1>3
  <2>9. QED
    BY <1>1, <1>2, <1>4, <1>5, <2>1, <2>6, <2>7, <2>8, CloseStep
<1>8. CASE t = Nil
  <2>1. todo' = << >> /\ UNCHANGED <<pool, vvp_current_event_defer>>
    BY <1>2, <1>3, <1>8
  <2>2. Body(todo') /\ Closer(todo').call = "none"
    BY <2>1, EmptyCloses DEF NoCall
  <2>3. \A u : ~Closes("leave", u)' /\ ~Closes("free", u)'
    BY <2>2 DEF Closes
  <2>4. \A u \in DOMAIN pool' : Accounted(u)'
    BY <1>2, <1>6, <1>8, <2>1, <2>3, AccountsKept
  <2>5. Holds(V)'
    BY <1>1, <2>1 DEF Holds
  <2>6. Typed'
    BY <1>2, <1>5, <2>1, <2>5 DEF DeferInv, Typed
  <2>7. Control'
    <3>1. ~Assigning'
      BY <1>2, <1>4 DEF Assigning
    <3>2. \A th \in Threads : lvals'[th] # Nil => th = running'
      BY <1>2 DEF DeferInv, Control
    <3>3. vvp_current_event_defer' = Nil /\ vvp_event_defer_depth' # 1
      <4>1. vvp_event_defer_depth' # 1
        BY <1>5
      <4>2. vvp_current_event_defer' = vvp_current_event_defer
        BY <2>1
      <4>3. vvp_current_event_defer = Nil
        BY <1>8
      <4>4. QED
        BY <4>1, <4>2, <4>3
    <3>4. QED
      BY <2>2, <3>1, <3>2, <3>3 DEF Control
  <2>8. QED
    BY <1>5, <2>4, <2>6, <2>7 DEF DeferInv
<1>9. QED
  BY <1>7, <1>8

\* A finished transaction goes to the free list, where nothing refers to it.
LEMMA FreeKeeps == ASSUME DeferInv, FreeTransaction PROVE DeferInv'
<1>1. PICK V : Holds(V)
  BY DEF DeferInv, Typed
<1> PICK t : t = Head(todo).tr
  OBVIOUS
<1> PICK tr : tr = [pool[t] EXCEPT !.events = << >>]
  OBVIOUS
<1>2. /\ Calling("free") /\ pool' = [pool EXCEPT ![t] = tr]
      /\ free_event_defer' = <<t>> \o free_event_defer /\ todo' = Tail(todo)
      /\ UNCHANGED <<queue, vvp_event_defer_depth, vvp_current_event_defer, threads_, running,
                     lvals, failed>>
  BY DEF FreeTransaction, net, thr
<1>3. Tail(todo) = << >> /\ Closer(todo).tr = t /\ Closer(todo).call = "free"
  BY <1>1, <1>2, NextIsLast
<1>4. /\ t \in DOMAIN pool /\ vvp_current_event_defer = Nil /\ ~Assigning
      /\ vvp_event_defer_depth = 0 /\ Closes("free", t)
  BY <1>3 DEF DeferInv, Typed, Control, Closes
<1>5. t \in Live /\ Accounted(t)
  BY <1>4 DEF DeferInv, Accounted
<1>6. Count(queue, t) \in Nat /\ ~Closes("leave", t)
  BY <1>3, CountType DEF DeferInv, Typed, Closes
<1>7. Count(queue, t) = 0
  BY <1>4, <1>5, <1>6 DEF Accounted
<1>8. pool[t] \in Trans(V) /\ pool \in Seq(Trans(V))
  BY <1>1, <1>4, PoolType DEF Holds
<1>9. tr \in Trans(V)
  <2>1. << >> \in Seq([port : Events, v : V])
    OBVIOUS
  <2>2. QED
    BY <1>8, <2>1 DEF Trans
<1>10. /\ pool' \in Seq(Trans(V)) /\ DOMAIN pool' = DOMAIN pool
       /\ \A i \in DOMAIN pool : i # t => pool'[i] = pool[i]
  BY <1>2, <1>4, <1>8, <1>9, ReplaceOne
<1>11. t \notin ToSet(free_event_defer)
  BY <1>5 DEF Live
<1>12. /\ free_event_defer' \in Seq(DOMAIN pool) /\ IsInjective(free_event_defer')
       /\ ToSet(free_event_defer') = ToSet(free_event_defer) \cup {t}
  BY <1>2, <1>4, <1>11, PushFree DEF DeferInv, Typed
<1>13. Live' = Live \ {t}
  BY <1>10, <1>12 DEF Live
<1>14. todo' = << >> /\ Body(todo') /\ Closer(todo').call = "none"
  <2>1. todo' = << >>
    BY <1>2, <1>3
  <2>2. QED
    BY <2>1, EmptyCloses DEF NoCall
<1>15. \A u : ~Closes("leave", u)' /\ ~Closes("free", u)'
  BY <1>14 DEF Closes
<1>16. ASSUME NEW u \in DOMAIN pool' PROVE Accounted(u)'
  <2>1. u \in DOMAIN pool /\ u # Nil /\ Accounted(u)
    BY <1>8, <1>10, NamesAssumption DEF DeferInv
  <2>2. CASE u = t
    BY <1>2, <1>4, <1>7, <1>13, <1>15, <2>1, <2>2 DEF Accounted
  <2>3. CASE u # t
    <3>1. ~Closes("leave", u) /\ ~Closes("free", u) /\ pool'[u] = pool[u] /\ (u \in Live' <=> u \in Live)
      BY <1>3, <1>10, <1>13, <2>1, <2>3 DEF Closes
    <3>2. QED
      BY <1>2, <1>4, <1>15, <2>1, <3>1 DEF Accounted
  <2>4. QED
    BY <2>2, <2>3
<1>17. Typed'
  <2>1. Holds(V)'
    BY <1>10, <1>14 DEF Holds
  <2>2. QED
    BY <1>2, <1>10, <1>12, <2>1 DEF DeferInv, Typed
<1>18. Control'
  <2>1. ~Assigning'
    BY <1>2, <1>4 DEF Assigning
  <2>2. \A th \in Threads : lvals'[th] # Nil => th = running'
    BY <1>2 DEF DeferInv, Control
  <2>3. QED
    BY <1>2, <1>4, <1>14, <2>1, <2>2 DEF Control
<1>19. QED
  BY <1>2, <1>16, <1>17, <1>18 DEF DeferInv

-----------------------------------------------------------------------------
(***************************************************************************)
(* The theorem.                                                            *)
(***************************************************************************)

LEMMA DeferStutter == ASSUME DeferInv, UNCHANGED vars PROVE DeferInv'
<1>1. /\ UNCHANGED <<queue, todo, pool, free_event_defer, vvp_event_defer_depth,
                     vvp_current_event_defer, running, lvals, failed, threads_>>
  BY DEF vars, net, defer, thr
<1>2. PICK V : Holds(V)
  BY DEF DeferInv, Typed
<1>3. Holds(V)' /\ Body(todo') /\ Closer(todo') = Closer(todo)
  BY <1>1, <1>2 DEF Holds, DeferInv, Control
<1>4. defer' = defer /\ failed' = failed
  BY <1>1 DEF defer
<1>5. /\ threads_' \in [Events -> Seq(Threads)]
      /\ running' \in Threads \cup {Nil} /\ lvals' \in [Threads -> Seq(Signals) \cup {Nil}]
      /\ Assigning' <=> Assigning
      /\ \A t \in Threads : lvals'[t] # Nil => t = running'
  BY <1>1, ThreadsSame
<1>6. Carried(queue') /\ \A t \in DOMAIN pool : Count(queue', t) = Count(queue, t)
  BY <1>1, QueueSame
<1>7. QED
  BY <1>3, <1>4, <1>5, <1>6, QuietStep

LEMMA DeferStep == DeferInv /\ [Next]_vars => DeferInv'
<1> SUFFICES ASSUME DeferInv, [Next]_vars PROVE DeferInv'
  OBVIOUS
<1>1. CASE Propagate
  BY <1>1, FreeKeeps, LeaveKeeps, EndKeeps, RecvScheduledKeeps, RecvImmediateKeeps,
     RecvDeferredKeeps, RecvEventKeeps, RunFunctorKeeps DEF Propagate
<1>2. CASE Statement
  BY <1>2, StoreKeeps, StoreEventKeeps, DeferBeginKeeps, StoreLvalKeeps, DeferEndKeeps,
     ThreadKeeps DEF Statement
<1>3. CASE RunThread
  BY <1>3, ThreadKeeps
<1>4. CASE \E t \in Threads : NextTime(t)
  BY <1>4, NextTimeKeeps
<1>5. CASE Terminated \/ UNCHANGED vars
  BY <1>5, DeferStutter DEF Terminated
<1>6. QED
  BY <1>1, <1>2, <1>3, <1>4, <1>5 DEF Next

\* In every net and for every program, the assertions of vvp_event_defer_enter,
\* _leave and _end hold, a transaction counts exactly the functors that carry
\* it, a free transaction is referred to by nothing, and one that waits for
\* nothing is being finished.
THEOREM DeferralAccounted == Spec => []TransactionsAccounted
<1>1. Spec => []DeferInv
  BY DeferInit, DeferStep, PTL DEF Spec
<1>2. QED
  BY <1>1, InvAccounts, PTL

-----------------------------------------------------------------------------
(***************************************************************************)
(* The event controls of an event functor (module EventCtl), for any       *)
(* controls, counts and events, if no assignment makes the event fire.     *)
(*                                                                         *)
(* ControlsRun speaks of the list between events; while an event walks it, *)
(* last is the cursor.  The strengthening (CtlInv) says that the list is   *)
(* the evctls that exist in the order of scheduling (Listed), that last is *)
(* a link of it, at place p of that order (Cursor), and that this event    *)
(* has counted the evctls up to p and no others (Counting).                *)
(***************************************************************************)
CONSTANTS Ctls, Counts, Retriggers, MaxFires, event_ctls

VARIABLES link, ecount_, ctls, last, calls, threads, scheduled, fires, due, order

Ctl == INSTANCE EventCtl

\* The link that comes after i evctls of the order of scheduling.
LinkAt(q, i) == IF i = 0 THEN event_ctls ELSE q[i]

\* The i-th link leads to the next evctl of q that is in A.
LeadsOn(lk, q, A, i) ==
  \/ lk[LinkAt(q, i)] = Nil /\ \A k \in (i + 1)..Len(q) : q[k] \notin A
  \/ \E j \in (i + 1)..Len(q) :
       lk[LinkAt(q, i)] = q[j] /\ q[j] \in A /\ \A k \in (i + 1)..(j - 1) : q[k] \notin A

\* The places of the links in use.
Used(q, A) == {0} \cup {i \in 1..Len(q) : q[i] \in A}

\* Every set that is closed under the links has c.
InList(lk, c) ==
  \A S \in SUBSET Ctls : (\A m \in {event_ctls} \cup S : lk[m] \in S \cup {Nil}) => c \in S

\* The links lk are a list of the evctls in A, in the order q.
Listed(lk, q, A) ==
  /\ \A i \in Used(q, A) : LeadsOn(lk, q, A, i)
  /\ \A c \in A : InList(lk, c)

CallSet == [cur : Ctls \cup {Nil}, pc : {"loop", "ran"}]

CtlTyped ==
  /\ Ctl!TypeOK /\ calls \in Seq(CallSet) /\ Len(calls) <= 1
  /\ order \in Seq(Ctls) /\ (\A i, j \in 1..Len(order) : order[i] = order[j] => i = j)
  /\ due \in [Ctls -> Nat] /\ (\A c \in ctls : \E i \in 1..Len(order) : order[i] = c)
  /\ \A i \in 1..Len(order) : due[order[i]] # 0

\* The link at p is the end of the list, or the walk has just passed it.
Cursor(p) ==
  /\ p \in Used(order, ctls) /\ last = LinkAt(order, p)
  /\ calls = << >> => link[last] = Nil
  /\ calls # << >> => calls[1].cur = link[last] /\ (calls[1].pc = "ran" => calls[1].cur # Nil)

\* Has this event taken down the count of the i-th evctl?
Counted(p, i) == calls = << >> \/ i <= p \/ (calls[1].pc = "ran" /\ order[i] = calls[1].cur)

\* An evctl waits for as many events as its count says.
Counting(p) ==
  /\ \A i \in 1..Len(order) : order[i] \in ctls =>
       /\ due[order[i]] + (IF Counted(p, i) THEN 0 ELSE 1) = fires + ecount_[order[i]]
       /\ ecount_[order[i]] = 0 <=>
            calls # << >> /\ calls[1].pc = "ran" /\ order[i] = calls[1].cur
  /\ \A c \in Ctls \ ctls : due[c] <= fires

CtlInv ==
  /\ CtlTyped /\ Listed(link, order, ctls) /\ Ctl!InOrder
  /\ \E p \in 0..Len(order) : Cursor(p) /\ Counting(p)

-----------------------------------------------------------------------------
LEMMA CallFacts ==
  ASSUME NEW c \in Ctls \cup {Nil}, NEW pc \in {"loop", "ran"}
  PROVE  /\ Ctl!Call(c, pc) \in CallSet /\ Ctl!Call(c, pc).cur = c /\ Ctl!Call(c, pc).pc = pc
         /\ <<Ctl!Call(c, pc)>> \in Seq(CallSet)
BY DEF Ctl!Call, CallSet

\* The innermost call is replaced.
LEMMA CallReplaced ==
  ASSUME NEW s \in Seq(CallSet), Len(s) = 1, NEW r \in CallSet
  PROVE  /\ [s EXCEPT ![1] = r] \in Seq(CallSet) /\ Len([s EXCEPT ![1] = r]) = 1
         /\ [s EXCEPT ![1] = r] # << >> /\ [s EXCEPT ![1] = r][1] = r
<1> DEFINE x == [s EXCEPT ![1] = r]
<1>1. x \in Seq(CallSet) /\ Len(x) = Len(s) /\ (1 \in 1..Len(s) => x[1] = r)
  BY ExceptSeq
<1>2. x \in Seq(CallSet) /\ Len(x) = 1 /\ x[1] = r
  BY <1>1
<1> HIDE DEF x
<1>3. x # << >>
  <2>1. Len(<< >>) = 0
    OBVIOUS
  <2>2. QED
    BY <2>1, <1>2
<1>4. QED
  BY <1>2, <1>3 DEF x

LEMMA CallsTyped ==
  ASSUME NEW s \in Seq(CallSet)
  PROVE  \A i \in DOMAIN s : s[i].cur \in Ctls \cup {Nil} /\ s[i].pc \in {"loop", "ran"}
<1> SUFFICES ASSUME NEW i \in DOMAIN s PROVE s[i].cur \in Ctls \cup {Nil} /\ s[i].pc \in {"loop", "ran"}
  OBVIOUS
<1>1. s[i] \in CallSet
  BY ElementOfSeq
<1>2. QED
  BY <1>1 DEF CallSet

\* Each link in use is at a place of the order.
LEMMA UsedAt ==
  ASSUME NEW q \in Seq(Ctls), NEW A \in SUBSET Ctls, \A c \in A : \E i \in 1..Len(q) : q[i] = c,
         NEW m \in {event_ctls} \cup A
  PROVE  \E i \in Used(q, A) : m = LinkAt(q, i)
<1>1. CASE m = event_ctls
  BY <1>1 DEF Used, LinkAt
<1>2. CASE m # event_ctls
  <2>1. PICK i \in 1..Len(q) : q[i] = m
    BY <1>2
  <2>2. i \in Used(q, A) /\ m = LinkAt(q, i)
    BY <2>1, <1>2 DEF Used, LinkAt
  <2>3. QED
    BY <2>2
<1>3. QED
  BY <1>1, <1>2

\* The links in use lead to evctls that exist.
LEMMA UsedFacts ==
  ASSUME NEW lk, NEW q \in Seq(Ctls), NEW A \in SUBSET Ctls, Listed(lk, q, A),
         \A c \in A : \E i \in 1..Len(q) : q[i] = c
  PROVE  /\ \A i \in Used(q, A) : LinkAt(q, i) \in {event_ctls} \cup A
         /\ \A m \in {event_ctls} \cup A : lk[m] \in A \cup {Nil}
         /\ \A m \in {event_ctls} \cup A : \E i \in Used(q, A) : m = LinkAt(q, i)
<1>1. \A i \in Used(q, A) : LinkAt(q, i) \in {event_ctls} \cup A
  BY DEF Used, LinkAt
<1>2. \A m \in {event_ctls} \cup A : \E i \in Used(q, A) : m = LinkAt(q, i)
  BY UsedAt
<1>3. \A i \in Used(q, A) : lk[LinkAt(q, i)] \in A \cup {Nil}
  BY DEF Listed, LeadsOn
<1>4. QED
  BY <1>1, <1>2, <1>3

\* It is enough that the links in use do not leave S.
LEMMA AllIn ==
  ASSUME NEW lk, NEW q \in Seq(Ctls), NEW A \in SUBSET Ctls, Listed(lk, q, A),
         \A c \in A : \E i \in 1..Len(q) : q[i] = c,
         NEW S, \A m \in {event_ctls} \cup (S \cap A) : lk[m] \in S \cup {Nil}
  PROVE  A \subseteq S
<1>1. \A m \in {event_ctls} \cup (S \cap A) : lk[m] \in (S \cap A) \cup {Nil}
  BY UsedFacts
<1>2. S \cap A \in SUBSET Ctls
  OBVIOUS
<1>3. \A c \in A : c \in S \cap A
  BY <1>1, <1>2 DEF Listed, InList
<1>4. QED
  BY <1>3

\* Another evctl at the end of the list.
LEMMA ListedAdded ==
  ASSUME Ctl!EventCtlAssumptions,
         NEW lk \in [Ctl!Links -> Ctls \cup {Nil}], NEW q \in Seq(Ctls), NEW A \in SUBSET Ctls,
         Listed(lk, q, A), \A c \in A : \E i \in 1..Len(q) : q[i] = c,
         \A i, j \in 1..Len(q) : q[i] = q[j] => i = j,
         NEW p \in Used(q, A), lk[LinkAt(q, p)] = Nil,
         NEW c \in Ctls, c \notin A, \A i \in 1..Len(q) : q[i] # c
  PROVE  Listed([lk EXCEPT ![LinkAt(q, p)] = c, ![c] = Nil], Append(q, c), A \cup {c})
<1> DEFINE l == LinkAt(q, p)
           x == [lk EXCEPT ![l] = c, ![c] = Nil]
           r == Append(q, c)
           B == A \cup {c}
           n == Len(q) + 1
<1>1. /\ Len(q) \in Nat /\ n \in Nat /\ r \in Seq(Ctls) /\ Len(r) = n /\ r[n] = c
      /\ \A i \in 1..Len(q) : r[i] = q[i]
  OBVIOUS
<1>2. /\ event_ctls \notin Ctls /\ Nil \notin Ctls
      /\ l \in {event_ctls} \cup A /\ l # c /\ l \in Ctl!Links /\ c \in Ctl!Links
  BY UsedFacts DEF Ctl!EventCtlAssumptions, Ctl!Links
<1>3. x[l] = c /\ x[c] = Nil /\ \A m \in Ctl!Links : m # l /\ m # c => x[m] = lk[m]
  BY <1>2
<1>4. \A k \in (p + 1)..Len(q) : q[k] \notin A
  BY <1>2 DEF Listed, LeadsOn
<1>5. /\ p \in 0..Len(q) /\ \A i \in Used(q, A) : i \in 0..p
      /\ \A i \in 0..Len(q) : LinkAt(r, i) = LinkAt(q, i)
      /\ LinkAt(r, n) = c
  BY <1>1, <1>4 DEF Used, LinkAt
<1>6. Used(r, B) \subseteq Used(q, A) \cup {n}
  BY <1>1 DEF Used
<1> HIDE DEF x, r, l, B, n
<1>7. LeadsOn(x, r, B, n)
  BY <1>1, <1>3, <1>5 DEF LeadsOn
<1>8. LeadsOn(x, r, B, p)
  <2>1. x[LinkAt(r, p)] = r[n] /\ n \in (p + 1)..Len(r) /\ r[n] \in B
    BY <1>1, <1>3, <1>5 DEF l, B, n
  <2>2. \A k \in (p + 1)..(n - 1) : r[k] \notin B
    BY <1>1, <1>4, <1>5 DEF B, n
  <2>3. QED
    BY <2>1, <2>2 DEF LeadsOn
<1>9. ASSUME NEW i \in Used(q, A), i # p
      PROVE  LeadsOn(x, r, B, i)
  <2>1. i \in 0..(p - 1) /\ p \in 1..Len(q) /\ q[p] \in A
    BY <1>5, <1>9 DEF Used
  <2>2. PICK j \in (i + 1)..Len(q) :
          lk[LinkAt(q, i)] = q[j] /\ q[j] \in A /\ \A k \in (i + 1)..(j - 1) : q[k] \notin A
    <3>1. p \in (i + 1)..Len(q)
      BY <2>1
    <3>2. QED
      BY <2>1, <3>1 DEF Listed, LeadsOn
  <2>3. LinkAt(q, i) # l /\ LinkAt(q, i) # c /\ LinkAt(q, i) \in Ctl!Links
    <3>1. LinkAt(q, i) # l
      BY <2>1, <1>2, <1>1 DEF LinkAt, l
    <3>2. LinkAt(q, i) \in {event_ctls} \cup A
      BY UsedFacts
    <3>3. QED
      BY <3>1, <3>2, <1>2 DEF Ctl!Links
  <2>4. x[LinkAt(r, i)] = r[j] /\ r[j] \in B /\ j \in (i + 1)..Len(r)
    BY <1>1, <1>3, <1>5, <2>1, <2>2, <2>3 DEF B, n
  <2>5. \A k \in (i + 1)..(j - 1) : r[k] \notin B
    BY <1>1, <2>1, <2>2 DEF B
  <2>6. QED
    BY <2>4, <2>5 DEF LeadsOn
<1>10. \A i \in Used(r, B) : LeadsOn(x, r, B, i)
  BY <1>6, <1>7, <1>8, <1>9
<1>11. \A d \in B : InList(x, d)
  <2> SUFFICES ASSUME NEW d \in B, NEW S \in SUBSET Ctls, \A m \in {event_ctls} \cup S : x[m] \in S \cup {Nil}
               PROVE  d \in S
    BY DEF InList
  <2>1. \A m \in {event_ctls} \cup (S \cap A) : lk[m] \in S \cup {Nil}
    <3> SUFFICES ASSUME NEW m \in {event_ctls} \cup (S \cap A), m # l PROVE lk[m] \in S \cup {Nil}
      BY DEF l
    <3>1. m \in Ctl!Links /\ m # c
      BY <1>2 DEF Ctl!Links
    <3>2. QED
      BY <3>1, <1>3
  <2>2. A \subseteq S
    BY <2>1, AllIn
  <2>3. l \in {event_ctls} \cup S
    BY <2>2, <1>2
  <2>4. c \in S
    BY <2>3, <1>2, <1>3
  <2>5. QED
    BY <2>2, <2>4 DEF B
<1>12. Listed(x, r, B)
  BY <1>10, <1>11 DEF Listed
<1>13. QED
  BY <1>12 DEF x, r, l, B

\* The evctl behind the p-th link, the j-th in the order, leaves the list.
LEMMA ListedRemoved ==
  ASSUME Ctl!EventCtlAssumptions,
         NEW lk \in [Ctl!Links -> Ctls \cup {Nil}], NEW q \in Seq(Ctls), NEW A \in SUBSET Ctls,
         Listed(lk, q, A), \A c \in A : \E i \in 1..Len(q) : q[i] = c,
         \A i, j \in 1..Len(q) : q[i] = q[j] => i = j,
         NEW p \in Used(q, A), NEW j \in (p + 1)..Len(q), lk[LinkAt(q, p)] = q[j], q[j] \in A,
         \A k \in (p + 1)..(j - 1) : q[k] \notin A
  PROVE  Listed([lk EXCEPT ![LinkAt(q, p)] = lk[q[j]]], q, A \ {q[j]})
<1> DEFINE l == LinkAt(q, p)
           c == q[j]
           x == [lk EXCEPT ![l] = lk[c]]
           B == A \ {c}
<1>1. Len(q) \in Nat /\ p \in 0..Len(q) /\ j \in 1..Len(q) /\ j \in Used(q, A) /\ LinkAt(q, j) = c
  BY DEF Used, LinkAt
<1>2. /\ event_ctls \notin Ctls /\ Nil \notin Ctls /\ c \in Ctls /\ c \in A
      /\ l \in {event_ctls} \cup A /\ l # c /\ l \in Ctl!Links /\ c \in Ctl!Links
  <2>1. l # c
    BY <1>1 DEF LinkAt, Ctl!EventCtlAssumptions
  <2>2. QED
    BY <2>1, UsedFacts DEF Ctl!EventCtlAssumptions, Ctl!Links
<1>3. x[l] = lk[c] /\ \A m \in Ctl!Links : m # l => x[m] = lk[m]
  BY <1>2
<1>4. Used(q, B) \subseteq Used(q, A) /\ j \notin Used(q, B)
  BY <1>1 DEF Used
<1>5. \A i \in Used(q, A) : LinkAt(q, i) = l => i = p
  BY <1>1, <1>2 DEF LinkAt, Used
<1>6. ASSUME NEW i \in Used(q, A), i # p
      PROVE  lk[LinkAt(q, i)] # c
  <2> SUFFICES ASSUME lk[LinkAt(q, i)] = c PROVE FALSE
    OBVIOUS
  <2>1. PICK k \in (i + 1)..Len(q) : q[k] = c /\ \A h \in (i + 1)..(k - 1) : q[h] \notin A
    BY <1>2 DEF Listed, LeadsOn
  <2>2. i \in 0..Len(q) /\ (i # 0 => q[i] \in A) /\ (p # 0 => q[p] \in A)
    BY DEF Used
  <2>3. k = j
    BY <2>1, <2>2, <1>1
  <2>4. CASE i < p
    <3>1. p \in (i + 1)..(k - 1) /\ p # 0
      BY <2>2, <2>3, <2>4, <1>1
    <3>2. QED
      BY <3>1, <2>1, <2>2
  <2>5. CASE i > p
    <3>1. i \in (p + 1)..(j - 1) /\ i # 0
      BY <2>1, <2>2, <2>3, <2>5, <1>1
    <3>2. QED
      BY <3>1, <2>2
  <2>6. QED
    <3>1. i \in Int /\ p \in Int /\ i # p
      BY <2>2, <1>1, <1>6
    <3>2. QED
      BY <3>1, <2>4, <2>5
<1> HIDE DEF x, l, B
<1>7. ASSUME NEW i \in Used(q, B), i # p
      PROVE  LeadsOn(x, q, B, i)
  <2>1. i \in Used(q, A) /\ LinkAt(q, i) # l /\ LinkAt(q, i) \in Ctl!Links /\ lk[LinkAt(q, i)] # c
    <3>1. i \in Used(q, A) /\ LinkAt(q, i) # l /\ lk[LinkAt(q, i)] # c
      BY <1>4, <1>5, <1>6, <1>7
    <3>2. LinkAt(q, i) \in {event_ctls} \cup A
      BY <3>1, UsedFacts
    <3>3. QED
      BY <3>1, <3>2 DEF Ctl!Links
  <2>2. x[LinkAt(q, i)] = lk[LinkAt(q, i)]
    BY <2>1, <1>3
  <2>3. LeadsOn(lk, q, A, i)
    BY <2>1 DEF Listed
  <2>4. QED
    BY <2>1, <2>2, <2>3 DEF LeadsOn, B
<1>8. LeadsOn(x, q, B, p)
  <2>1. LeadsOn(lk, q, A, j) /\ x[LinkAt(q, p)] = lk[c]
    BY <1>1, <1>3 DEF Listed, l
  <2>2. \A k \in (p + 1)..j : q[k] \notin B
    BY <1>1 DEF B
  <2>3. CASE lk[c] = Nil /\ \A k \in (j + 1)..Len(q) : q[k] \notin A
    <3>1. \A k \in (p + 1)..Len(q) : q[k] \notin B
      BY <2>2, <2>3, <1>1 DEF B
    <3>2. QED
      BY <3>1, <2>1, <2>3 DEF LeadsOn
  <2>4. ASSUME NEW h \in (j + 1)..Len(q), lk[c] = q[h], q[h] \in A,
               \A k \in (j + 1)..(h - 1) : q[k] \notin A
        PROVE  LeadsOn(x, q, B, p)
    <3>1. h \in (p + 1)..Len(q) /\ h \in 1..Len(q) /\ h # j
      BY <1>1
    <3>2. q[h] \in B
      BY <3>1, <2>4, <1>1 DEF B
    <3>3. \A k \in (p + 1)..(h - 1) : q[k] \notin B
      BY <2>2, <2>4, <1>1 DEF B
    <3>4. QED
      BY <3>1, <3>2, <3>3, <2>1, <2>4 DEF LeadsOn
  <2>5. QED
    BY <2>1, <2>3, <2>4, <1>1 DEF LeadsOn
<1>9. \A d \in B : InList(x, d)
  <2> SUFFICES ASSUME NEW d \in B, NEW S \in SUBSET Ctls, \A m \in {event_ctls} \cup S : x[m] \in S \cup {Nil}
               PROVE  d \in S
    BY DEF InList
  <2>1. CASE l \in {event_ctls} \cup S
    <3>1. \A m \in {event_ctls} \cup ((S \cup {c}) \cap A) : lk[m] \in (S \cup {c}) \cup {Nil}
      <4> SUFFICES ASSUME NEW m \in {event_ctls} \cup ((S \cup {c}) \cap A)
                   PROVE  lk[m] \in (S \cup {c}) \cup {Nil}
        OBVIOUS
      <4>1. CASE m = l
        BY <4>1 DEF l
      <4>2. CASE m = c
        BY <4>2, <2>1, <1>3
      <4>3. CASE m # l /\ m # c
        BY <4>3, <1>3 DEF Ctl!Links
      <4>4. QED
        BY <4>1, <4>2, <4>3
    <3>2. A \subseteq S \cup {c}
      <4> DEFINE T == S \cup {c}
      <4>1. \A m \in {event_ctls} \cup (T \cap A) : lk[m] \in T \cup {Nil}
        BY <3>1
      <4> HIDE DEF T
      <4>2. A \subseteq T
        BY <4>1, AllIn
      <4>3. QED
        BY <4>2 DEF T
    <3>3. QED
      BY <3>2 DEF B
  <2>2. CASE l \notin {event_ctls} \cup S
    <3>1. \A m \in {event_ctls} \cup ((S \ {c}) \cap A) : lk[m] \in (S \ {c}) \cup {Nil}
      <4> SUFFICES ASSUME NEW m \in {event_ctls} \cup ((S \ {c}) \cap A)
                   PROVE  lk[m] \in (S \ {c}) \cup {Nil}
        OBVIOUS
      <4>1. m # l /\ m \in Ctl!Links
        BY <2>2 DEF Ctl!Links
      <4>2. lk[m] \in S \cup {Nil}
        BY <4>1, <1>3
      <4>3. m \in {event_ctls} \cup A
        OBVIOUS
      <4>4. \E i \in Used(q, A) : m = LinkAt(q, i)
        <5>1. CASE m = event_ctls
          BY <5>1 DEF Used, LinkAt
        <5>2. CASE m \in A
          <6>1. PICK i \in 1..Len(q) : q[i] = m
            BY <5>2
          <6>2. i \in Used(q, A) /\ m = LinkAt(q, i)
            BY <6>1, <5>2 DEF Used, LinkAt
          <6>3. QED
            BY <6>2
        <5>3. QED
          BY <4>3, <5>1, <5>2
      <4>5. PICK i \in Used(q, A) : m = LinkAt(q, i)
        BY <4>4
      <4>6. lk[m] # c
        BY <4>1, <4>5, <1>6 DEF l
      <4>7. QED
        BY <4>2, <4>6
    <3>2. A \subseteq S \ {c}
      <4> DEFINE T == S \ {c}
      <4>1. \A m \in {event_ctls} \cup (T \cap A) : lk[m] \in T \cup {Nil}
        BY <3>1
      <4> HIDE DEF T
      <4>2. A \subseteq T
        BY <4>1, AllIn
      <4>3. QED
        BY <4>2 DEF T
    <3>3. QED
      BY <3>2 DEF B
  <2>3. QED
    BY <2>1, <2>2
<1>10. Listed(x, q, B)
  BY <1>4, <1>7, <1>8, <1>9 DEF Listed
<1>11. QED
  BY <1>10 DEF x, l, B

\* Where the walk is: the evctl under the cursor is the next one after p.
LEMMA CursorFacts ==
  ASSUME Ctl!EventCtlAssumptions, CtlInv, NEW p \in 0..Len(order), Cursor(p)
  PROVE  /\ link \in [Ctl!Links -> Ctls \cup {Nil}] /\ ecount_ \in [Ctls -> Nat] /\ fires \in Nat
         /\ order \in Seq(Ctls) /\ Len(order) \in Nat /\ ctls \in SUBSET Ctls
         /\ p \in Used(order, ctls) /\ last = LinkAt(order, p) /\ last \in Ctl!Links
         /\ calls # << >> => /\ Len(calls) = 1 /\ calls[1] \in CallSet
                             /\ calls[1].cur \in ctls \cup {Nil}
         /\ \A m \in ctls : link[m] \in ctls \cup {Nil}
         /\ LeadsOn(link, order, ctls, p)
<1>1. /\ link \in [Ctl!Links -> Ctls \cup {Nil}] /\ ecount_ \in [Ctls -> Nat] /\ fires \in Nat
      /\ order \in Seq(Ctls) /\ Len(order) \in Nat /\ ctls \in SUBSET Ctls
      /\ Listed(link, order, ctls) /\ \A c \in ctls : \E i \in 1..Len(order) : order[i] = c
  BY DEF CtlInv, CtlTyped, Ctl!TypeOK
<1>2. p \in Used(order, ctls) /\ last = LinkAt(order, p)
  BY DEF Cursor
<1>3. /\ \A i \in Used(order, ctls) : LinkAt(order, i) \in {event_ctls} \cup ctls
      /\ \A m \in {event_ctls} \cup ctls : link[m] \in ctls \cup {Nil}
  BY <1>1, UsedFacts
<1>4. last \in {event_ctls} \cup ctls
  BY <1>2, <1>3
<1>5. LeadsOn(link, order, ctls, p)
  BY <1>1, <1>2 DEF Listed
<1>6. ASSUME calls # << >>
      PROVE  Len(calls) = 1 /\ calls[1] \in CallSet /\ calls[1].cur \in ctls \cup {Nil}
  <2>1. calls \in Seq(CallSet) /\ Len(calls) <= 1
    BY DEF CtlInv, CtlTyped
  <2>2. Len(calls) = 1 /\ calls[1] \in CallSet
    <3>1. Len(calls) \in Nat /\ Len(calls) # 0
      BY <1>6, <2>1, EmptySeq
    <3>2. Len(calls) = 1
      BY <2>1, <3>1
    <3>3. QED
      BY <2>1, <3>2, ElementOfSeq
  <2>3. calls[1].cur = link[last]
    BY <1>6 DEF Cursor
  <2>4. QED
    BY <2>2, <2>3, <1>3, <1>4
<1>7. last \in Ctl!Links
  BY <1>4, <1>1 DEF Ctl!Links
<1>8. QED
  BY <1>1, <1>2, <1>3, <1>5, <1>6, <1>7

\* An evctl under the cursor is at a place of the order after p.
LEMMA NextFacts ==
  ASSUME Ctl!EventCtlAssumptions, CtlInv, NEW p \in 0..Len(order), Cursor(p),
         calls # << >>, Ctl!cur # Nil
  PROVE  /\ Ctl!cur = calls[1].cur /\ Ctl!cur = link[last] /\ Ctl!cur \in ctls
         /\ \E j \in (p + 1)..Len(order) :
              order[j] = Ctl!cur /\ \A k \in (p + 1)..(j - 1) : order[k] \notin ctls
<1>1. Ctl!cur = calls[1].cur /\ Ctl!cur = link[last]
  BY DEF Ctl!cur, Cursor
<1>2. Ctl!cur \in ctls
  BY <1>1, CursorFacts
<1>3. LeadsOn(link, order, ctls, p) /\ last = LinkAt(order, p)
  BY CursorFacts
<1>4. \E j \in (p + 1)..Len(order) :
        order[j] = Ctl!cur /\ \A k \in (p + 1)..(j - 1) : order[k] \notin ctls
  BY <1>1, <1>3 DEF LeadsOn
<1>5. QED
  BY <1>1, <1>2, <1>4

-----------------------------------------------------------------------------
LEMMA CtlInitially ==
  ASSUME Ctl!EventCtlAssumptions, Ctl!Init
  PROVE  CtlInv
<1>1. /\ order = << >> /\ Len(order) = 0 /\ order \in Seq(Ctls) /\ calls = << >> /\ calls \in Seq(CallSet)
      /\ Len(calls) = 0 /\ ctls = {} /\ last = event_ctls /\ fires = 0
      /\ link \in [Ctl!Links -> Ctls \cup {Nil}] /\ link[event_ctls] = Nil
  BY DEF Ctl!Init, Ctl!Links
<1>2. CtlTyped
  BY <1>1 DEF CtlTyped, Ctl!TypeOK, Ctl!Init, Ctl!Links
<1>3. Listed(link, order, ctls)
  BY <1>1 DEF Listed, Used, LeadsOn, LinkAt
<1>4. Cursor(0) /\ 0 \in 0..Len(order)
  BY <1>1 DEF Cursor, Used, LinkAt
<1>5. Counting(0)
  BY <1>1 DEF Counting, Ctl!Init
<1>6. Ctl!InOrder
  BY <1>1 DEF Ctl!InOrder
<1>7. QED
  BY <1>2, <1>3, <1>4, <1>5, <1>6 DEF CtlInv

\* schedule_evctl: the evctl is hung on the end of the list, which last is.
LEMMA ScheduleCtl ==
  ASSUME Ctl!EventCtlAssumptions, CtlInv,
         NEW c \in Ctls, NEW n \in Counts, Ctl!schedule_evctl(c, n)
  PROVE  CtlInv'
<1>14. PICK P : P = Len(order) + 1
  OBVIOUS
<1>1. PICK p \in 0..Len(order) : Cursor(p) /\ Counting(p)
  BY DEF CtlInv
<1>2. /\ link \in [Ctl!Links -> Ctls \cup {Nil}] /\ ecount_ \in [Ctls -> Nat] /\ fires \in Nat
      /\ order \in Seq(Ctls) /\ Len(order) \in Nat /\ ctls \in SUBSET Ctls
      /\ p \in Used(order, ctls) /\ last = LinkAt(order, p) /\ last \in Ctl!Links
  BY <1>1, CursorFacts
<1>3. /\ calls = << >> /\ c \notin ctls /\ due[c] = 0 /\ last' = c
      /\ link' = [link EXCEPT ![last] = c, ![c] = Nil]
      /\ ecount_' = [ecount_ EXCEPT ![c] = n]
      /\ ctls' = ctls \cup {c} /\ due' = [due EXCEPT ![c] = fires + n]
      /\ order' = Append(order, c)
      /\ calls' = calls /\ threads' = threads /\ scheduled' = scheduled /\ fires' = fires
  BY DEF Ctl!schedule_evctl
<1>4. /\ due \in [Ctls -> Nat] /\ (\A i, j \in 1..Len(order) : order[i] = order[j] => i = j)
      /\ (\A d \in ctls : \E i \in 1..Len(order) : order[i] = d)
      /\ (\A i \in 1..Len(order) : due[order[i]] # 0 /\ order[i] # c /\ order[i] \in Ctls)
  BY <1>2, <1>3 DEF CtlInv, CtlTyped
<1>5. /\ order' \in Seq(Ctls) /\ Len(order') = P /\ P \in Nat /\ order'[P] = c
      /\ \A i \in 1..Len(order) : order'[i] = order[i]
  BY <1>2, <1>3, <1>14
<1>6. n \in Nat /\ n # 0 /\ c \in Ctl!Links
  BY DEF Ctl!EventCtlAssumptions, Ctl!Links
<1>7. link[last] = Nil
  BY <1>1, <1>3 DEF Cursor
<1>8. Listed(link', order', ctls')
  <2>1. Listed(link, order, ctls)
    BY DEF CtlInv
  <2>2. link[LinkAt(order, p)] = Nil
    BY <1>2, <1>7
  <2>3. Listed([link EXCEPT ![LinkAt(order, p)] = c, ![c] = Nil], Append(order, c), ctls \cup {c})
    BY <2>1, <2>2, <1>2, <1>3, <1>4, ListedAdded
  <2>4. QED
    BY <2>3, <1>2, <1>3
<1>9. CtlTyped'
  <2>1. /\ link' \in [Ctl!Links -> Ctls \cup {Nil}] /\ ecount_' \in [Ctls -> Nat]
        /\ due' \in [Ctls -> Nat] /\ ctls' \subseteq Ctls /\ last' \in Ctl!Links
    <3>1. link' \in [Ctl!Links -> Ctls \cup {Nil}]
      BY <1>2, <1>3
    <3>2. ecount_' \in [Ctls -> Nat]
      BY <1>2, <1>3, <1>6
    <3>3. due' \in [Ctls -> Nat]
      BY <1>2, <1>3, <1>4, <1>6
    <3>4. QED
      BY <3>1, <3>2, <3>3, <1>2, <1>3, <1>6
  <2>2. Ctl!TypeOK'
    BY <2>1, <1>3, <1>2 DEF CtlInv, CtlTyped, Ctl!TypeOK
  <2>3. \A i, j \in 1..Len(order') : order'[i] = order'[j] => i = j
    <3> SUFFICES ASSUME NEW i \in 1..Len(order'), NEW j \in 1..Len(order'), order'[i] = order'[j]
                 PROVE  i = j
      OBVIOUS
    <3>1. i \in 1..Len(order) \/ i = P
      BY <1>2, <1>5, <1>14
    <3>2. j \in 1..Len(order) \/ j = P
      BY <1>2, <1>5, <1>14
    <3>3. QED
      BY <3>1, <3>2, <1>4, <1>5
  <2>4. \A d \in ctls' : \E i \in 1..Len(order') : order'[i] = d
    <3>1. ASSUME NEW d \in ctls PROVE \E i \in 1..Len(order') : order'[i] = d
      <4>1. PICK i \in 1..Len(order) : order[i] = d
        BY <1>4
      <4>2. i \in 1..Len(order') /\ order'[i] = d
        BY <4>1, <1>2, <1>5, <1>14
      <4>3. QED
        BY <4>2
    <3>2. P \in 1..Len(order')
      BY <1>2, <1>5, <1>14
    <3>3. QED
      BY <3>1, <3>2, <1>3, <1>5
  <2>5. \A i \in 1..Len(order') : due'[order'[i]] # 0
    <3> SUFFICES ASSUME NEW i \in 1..Len(order') PROVE due'[order'[i]] # 0
      OBVIOUS
    <3>1. CASE i = P
      BY <3>1, <1>2, <1>3, <1>4, <1>5, <1>6
    <3>2. CASE i \in 1..Len(order)
      BY <3>2, <1>3, <1>4, <1>5
    <3>3. QED
      BY <3>1, <3>2, <1>2, <1>5, <1>14
  <2>6. QED
    BY <2>1, <2>2, <2>3, <2>4, <2>5, <1>3, <1>5 DEF CtlInv, CtlTyped
<1>10. P \in 0..Len(order') /\ Cursor(P)'
  <2>1. P \in Used(order', ctls') /\ LinkAt(order', P) = c /\ P \in 0..Len(order')
    BY <1>2, <1>3, <1>5, <1>14 DEF Used, LinkAt
  <2>2. link'[c] = Nil
    BY <1>2, <1>3, <1>6
  <2>3. QED
    BY <2>1, <2>2, <1>3 DEF Cursor
<1>11. Counting(P)'
  <2>1. ASSUME NEW i \in 1..Len(order'), order'[i] \in ctls'
        PROVE  due'[order'[i]] = fires' + ecount_'[order'[i]] /\ ecount_'[order'[i]] # 0
    <3>1. CASE i = P
      BY <3>1, <1>2, <1>3, <1>4, <1>5, <1>6
    <3>2. CASE i \in 1..Len(order)
      <4>1. order[i] \in ctls /\ order'[i] = order[i] /\ order[i] # c /\ order[i] \in Ctls
        BY <3>2, <2>1, <1>3, <1>4, <1>5
      <4>2. due[order[i]] + 0 = fires + ecount_[order[i]] /\ ecount_[order[i]] # 0
        BY <4>1, <3>2, <1>1, <1>3 DEF Counting, Counted
      <4>3. due'[order[i]] = due[order[i]] /\ ecount_'[order[i]] = ecount_[order[i]]
        BY <4>1, <1>2, <1>3, <1>4
      <4>4. due[order[i]] \in Nat
        BY <4>1, <1>4
      <4>5. QED
        BY <4>1, <4>2, <4>3, <4>4, <1>3
    <3>3. QED
      BY <3>1, <3>2, <1>2, <1>5, <1>14
  <2>2. \A d \in Ctls \ ctls' : due'[d] <= fires'
    BY <1>1, <1>3, <1>4 DEF Counting
  <2>3. calls' = << >>
    BY <1>3
  <2>4. \A d \in ctls' : due'[d] \in Nat
    BY <1>9 DEF CtlTyped, Ctl!TypeOK
  <2>5. QED
    BY <2>1, <2>2, <2>3, <2>4 DEF Counting, Counted
<1>12. Ctl!InOrder'
  <2> SUFFICES ASSUME NEW i \in 1..Len(order'), NEW j \in 1..Len(order'), i < j,
                      due'[order'[i]] = due'[order'[j]], order'[j] \notin ctls'
               PROVE  order'[i] \notin ctls'
    BY <1>5 DEF Ctl!InOrder
  <2>1. j # P
    BY <1>3, <1>5
  <2>2. i \in 1..Len(order) /\ j \in 1..Len(order)
    BY <2>1, <1>2, <1>5, <1>14
  <2>3. due'[order'[i]] = due[order[i]] /\ due'[order'[j]] = due[order[j]]
    BY <2>2, <1>3, <1>4, <1>5
  <2>4. order[i] \notin ctls
    <3>1. Ctl!InOrder /\ DOMAIN order = 1..Len(order)
      BY <1>2 DEF CtlInv
    <3>2. order[j] \notin ctls /\ due[order[i]] = due[order[j]]
      BY <2>2, <2>3, <1>3, <1>5
    <3>3. QED
      BY <3>1, <3>2, <2>2 DEF Ctl!InOrder
  <2>5. QED
    BY <2>2, <2>4, <1>3, <1>4, <1>5
<1>13. QED
  BY <1>8, <1>9, <1>10, <1>11, <1>12 DEF CtlInv

\* dec_and_run, the count is not yet down: the cursor goes to the link behind.
LEMMA CountCtl ==
  ASSUME Ctl!EventCtlAssumptions, CtlInv, Ctl!StillCounting
  PROVE  CtlInv'
<1>1. PICK p \in 0..Len(order) : Cursor(p) /\ Counting(p)
  BY DEF CtlInv
<1>2. /\ calls # << >> /\ calls[1].pc = "loop" /\ Ctl!cur # Nil /\ ecount_[Ctl!cur] > 1
      /\ ecount_' = [ecount_ EXCEPT ![Ctl!cur] = @ - 1]
      /\ last' = Ctl!cur
      /\ calls' = [calls EXCEPT ![1].cur = link[Ctl!cur]]
      /\ UNCHANGED <<link, ctls, threads, scheduled, fires, due, order>>
  BY DEF Ctl!StillCounting, Ctl!InLoop
<1>3. PICK c : c = Ctl!cur
  OBVIOUS
<1>4. /\ link \in [Ctl!Links -> Ctls \cup {Nil}] /\ ecount_ \in [Ctls -> Nat] /\ fires \in Nat
      /\ order \in Seq(Ctls) /\ Len(order) \in Nat /\ ctls \in SUBSET Ctls
      /\ Len(calls) = 1 /\ calls[1] \in CallSet
      /\ \A m \in ctls : link[m] \in ctls \cup {Nil}
  BY <1>1, <1>2, CursorFacts
<1>5. /\ c = calls[1].cur /\ c = link[last] /\ c \in ctls
      /\ \E j \in (p + 1)..Len(order) :
           order[j] = c /\ \A k \in (p + 1)..(j - 1) : order[k] \notin ctls
  BY <1>1, <1>2, <1>3, NextFacts
<1>6. PICK j \in (p + 1)..Len(order) :
        order[j] = c /\ \A k \in (p + 1)..(j - 1) : order[k] \notin ctls
  BY <1>5
<1>7. j \in 1..Len(order) /\ p < j
  BY <1>4
<1>8. calls' \in Seq(CallSet) /\ Len(calls') = 1 /\ calls' # << >>
      /\ calls'[1].cur = link[c] /\ calls'[1].pc = "loop"
  <2>1. calls \in Seq(CallSet)
    BY DEF CtlInv, CtlTyped
  <2>2. [calls[1] EXCEPT !.cur = link[c]] \in CallSet
    <3>1. link[c] \in Ctls \cup {Nil}
      BY <1>4, <1>5
    <3>2. QED
      BY <3>1, <1>4 DEF CallSet
  <2>3. calls' = [calls EXCEPT ![1] = [calls[1] EXCEPT !.cur = link[c]]]
    BY <1>2, <1>3
  <2>4. /\ calls'[1] = [calls[1] EXCEPT !.cur = link[c]] /\ calls' \in Seq(CallSet) /\ Len(calls') = 1
        /\ calls' # << >>
    BY <2>1, <2>2, <2>3, <1>4, CallReplaced
  <2>5. calls'[1].cur = link[c] /\ calls'[1].pc = "loop"
    BY <2>4, <1>2, <1>4 DEF CallSet
  <2>6. QED
    BY <2>4, <2>5
<1>9. CtlTyped'
  <2>1. ecount_' \in [Ctls -> Nat] /\ last' \in Ctl!Links
    BY <1>2, <1>3, <1>4, <1>5 DEF Ctl!Links
  <2>2. \A i \in DOMAIN calls' : calls'[i].cur \in Ctls \cup {Nil} /\ calls'[i].pc \in {"loop", "ran"}
    BY <1>8, CallsTyped
  <2>3. Ctl!TypeOK'
    BY <2>1, <2>2, <1>2 DEF CtlInv, CtlTyped, Ctl!TypeOK
  <2>4. QED
    BY <2>3, <1>2, <1>8 DEF CtlInv, CtlTyped
<1>10. Listed(link', order', ctls')
  BY <1>2 DEF CtlInv
<1>11. Cursor(j)'
  <2>1. j \in Used(order, ctls) /\ LinkAt(order, j) = c
    BY <1>5, <1>6, <1>7 DEF Used, LinkAt
  <2>2. QED
    BY <2>1, <1>2, <1>3, <1>8 DEF Cursor
<1>12. Counting(j)'
  <2>1. ASSUME NEW i \in 1..Len(order), order[i] \in ctls
        PROVE  /\ due[order[i]] + (IF Counted(j, i)' THEN 0 ELSE 1) = fires + ecount_'[order[i]]
               /\ ecount_'[order[i]] # 0
    <3>1. /\ due[order[i]] + (IF Counted(p, i) THEN 0 ELSE 1) = fires + ecount_[order[i]]
          /\ ecount_[order[i]] # 0
      BY <2>1, <1>1, <1>2 DEF Counting
    <3>2. (Counted(p, i) <=> i <= p) /\ (Counted(j, i)' <=> i <= j)
      BY <1>2, <1>8 DEF Counted
    <3>3. order[i] \in Ctls /\ due[order[i]] \in Nat /\ ecount_[order[i]] \in Nat
      BY <2>1, <1>4 DEF CtlInv, CtlTyped
    <3>4. CASE i = j
      <4>1. order[i] = c /\ ecount_'[c] = ecount_[c] - 1 /\ ecount_[c] > 1 /\ ~Counted(p, i) /\ Counted(j, i)'
        <5>1. order[i] = c /\ ~Counted(p, i) /\ Counted(j, i)'
          BY <3>2, <3>4, <1>6, <1>7
        <5>2. c \in Ctls
          BY <1>4, <1>5
        <5>3. ecount_'[c] = ecount_[c] - 1 /\ ecount_[c] > 1
          BY <5>2, <1>2, <1>3, <1>4
        <5>4. QED
          BY <5>1, <5>3
      <4>2. due[c] + 1 = fires + ecount_[c] /\ due[c] \in Nat /\ ecount_[c] \in Nat
        BY <4>1, <3>1, <3>3
      <4>3. ecount_'[c] = ecount_[c] - 1 /\ ecount_[c] > 1 /\ fires \in Nat
        BY <4>1, <1>4
      <4>4. due[c] + 0 = fires + ecount_'[c] /\ ecount_'[c] # 0
        <5>1. PICK d \in Nat, e \in Nat : d = due[c] /\ e = ecount_[c]
          BY <4>2
        <5>2. d + 1 = fires + e /\ e > 1 /\ ecount_'[c] = e - 1 /\ fires \in Nat
          BY <5>1, <4>2, <4>3
        <5>3. d = fires + (e - 1) /\ e - 1 # 0
          BY <5>2
        <5>4. d + 0 = fires + ecount_'[c] /\ ecount_'[c] # 0
          BY <5>2, <5>3
        <5>5. QED
          BY <5>1, <5>4
      <4>5. QED
        BY <4>1, <4>4
    <3>5. CASE i # j
      <4>1. order[i] # c
        BY <3>5, <1>6, <1>7 DEF CtlInv, CtlTyped
      <4>2. ecount_'[order[i]] = ecount_[order[i]]
        BY <4>1, <3>3, <1>2, <1>3, <1>4
      <4>3. ~(i > p /\ i < j)
        BY <2>1, <1>6, <1>7
      <4>4. Counted(p, i) <=> Counted(j, i)'
        BY <3>2, <3>5, <4>3, <1>7
      <4>5. QED
        BY <3>1, <4>2, <4>4
    <3>6. QED
      BY <3>4, <3>5
  <2>2. \A d \in Ctls \ ctls : due[d] <= fires
    BY <1>1 DEF Counting
  <2>3. QED
    BY <2>1, <2>2, <1>2, <1>8 DEF Counting
<1>13. Ctl!InOrder'
  BY <1>2 DEF CtlInv, Ctl!InOrder
<1>14. j \in 0..Len(order')
  BY <1>2, <1>4, <1>7
<1>15. QED
  BY <1>9, <1>10, <1>11, <1>12, <1>13, <1>14 DEF CtlInv

\* dec_and_run, the count is down: the assignment is made.
LEMMA RunsCtl ==
  ASSUME Ctl!EventCtlAssumptions, Retriggers = {}, CtlInv, Ctl!RunCtl
  PROVE  CtlInv'
<1>1. PICK p \in 0..Len(order) : Cursor(p) /\ Counting(p)
  BY DEF CtlInv
<1>2. /\ calls # << >> /\ calls[1].pc = "loop" /\ Ctl!cur # Nil /\ ecount_[Ctl!cur] = 1
      /\ ecount_' = [ecount_ EXCEPT ![Ctl!cur] = 0]
      /\ calls' = [calls EXCEPT ![1].pc = "ran"]
      /\ UNCHANGED <<link, ctls, last, threads, scheduled, fires, due, order>>
  BY DEF Ctl!RunCtl, Ctl!InLoop
<1>3. PICK c : c = Ctl!cur
  OBVIOUS
<1>4. /\ link \in [Ctl!Links -> Ctls \cup {Nil}] /\ ecount_ \in [Ctls -> Nat] /\ fires \in Nat
      /\ order \in Seq(Ctls) /\ Len(order) \in Nat /\ ctls \in SUBSET Ctls
      /\ Len(calls) = 1 /\ calls[1] \in CallSet
  BY <1>1, <1>2, CursorFacts
<1>5. /\ c = calls[1].cur /\ c = link[last] /\ c \in ctls
      /\ \E j \in (p + 1)..Len(order) :
           order[j] = c /\ \A k \in (p + 1)..(j - 1) : order[k] \notin ctls
  BY <1>1, <1>2, <1>3, NextFacts
<1>6. PICK j \in (p + 1)..Len(order) :
        order[j] = c /\ \A k \in (p + 1)..(j - 1) : order[k] \notin ctls
  BY <1>5
<1>7. j \in 1..Len(order) /\ p < j
  BY <1>4
<1>8. calls' \in Seq(CallSet) /\ Len(calls') = 1 /\ calls' # << >>
      /\ calls'[1].cur = c /\ calls'[1].pc = "ran"
  <2>1. calls \in Seq(CallSet)
    BY DEF CtlInv, CtlTyped
  <2>2. [calls[1] EXCEPT !.pc = "ran"] \in CallSet
    BY <1>4 DEF CallSet
  <2>3. calls' = [calls EXCEPT ![1] = [calls[1] EXCEPT !.pc = "ran"]]
    BY <1>2
  <2>4. /\ calls'[1] = [calls[1] EXCEPT !.pc = "ran"] /\ calls' \in Seq(CallSet) /\ Len(calls') = 1
        /\ calls' # << >>
    BY <2>1, <2>2, <2>3, <1>4, CallReplaced
  <2>5. calls'[1].cur = c /\ calls'[1].pc = "ran"
    BY <2>4, <1>5, <1>4 DEF CallSet
  <2>6. QED
    BY <2>4, <2>5
<1>9. CtlTyped'
  <2>1. ecount_' \in [Ctls -> Nat]
    BY <1>2, <1>3, <1>4, <1>5
  <2>2. \A i \in DOMAIN calls' : calls'[i].cur \in Ctls \cup {Nil} /\ calls'[i].pc \in {"loop", "ran"}
    BY <1>8, CallsTyped
  <2>3. Ctl!TypeOK'
    BY <2>1, <2>2, <1>2 DEF CtlInv, CtlTyped, Ctl!TypeOK
  <2>4. QED
    BY <2>3, <1>2, <1>8 DEF CtlInv, CtlTyped
<1>10. Listed(link', order', ctls')
  BY <1>2 DEF CtlInv
<1>11. Cursor(p)'
  <2>1. p \in Used(order, ctls) /\ last = LinkAt(order, p)
    BY <1>1 DEF Cursor
  <2>2. c # Nil
    BY <1>2, <1>3
  <2>3. QED
    BY <2>1, <2>2, <1>2, <1>5, <1>8 DEF Cursor
<1>12. Counting(p)'
  <2>1. ASSUME NEW i \in 1..Len(order), order[i] \in ctls
        PROVE  /\ due[order[i]] + (IF Counted(p, i)' THEN 0 ELSE 1) = fires + ecount_'[order[i]]
               /\ ecount_'[order[i]] = 0 <=> order[i] = c
    <3>1. /\ due[order[i]] + (IF Counted(p, i) THEN 0 ELSE 1) = fires + ecount_[order[i]]
          /\ ecount_[order[i]] # 0
      BY <2>1, <1>1, <1>2 DEF Counting
    <3>2. (Counted(p, i) <=> i <= p) /\ (Counted(p, i)' <=> i <= p \/ order[i] = c)
      BY <1>2, <1>8 DEF Counted
    <3>3. order[i] \in Ctls /\ due[order[i]] \in Nat /\ ecount_[order[i]] \in Nat
      BY <2>1, <1>4 DEF CtlInv, CtlTyped
    <3>4. CASE order[i] = c
      <4>1. i = j
        BY <3>4, <1>6, <1>7 DEF CtlInv, CtlTyped
      <4>2. ecount_'[c] = 0 /\ ecount_[c] = 1 /\ ~Counted(p, i) /\ Counted(p, i)'
        <5>1. ~Counted(p, i) /\ Counted(p, i)'
          BY <4>1, <3>2, <3>4, <1>7
        <5>2. c \in Ctls
          BY <1>4, <1>5
        <5>3. ecount_'[c] = 0 /\ ecount_[c] = 1
          BY <5>2, <1>2, <1>3, <1>4
        <5>4. QED
          BY <5>1, <5>3
      <4>3. due[c] + 1 = fires + 1 /\ due[c] \in Nat
        BY <4>2, <3>1, <3>3, <3>4
      <4>4. due[c] + 0 = fires + ecount_'[c]
        <5>1. PICK d \in Nat : d = due[c]
          BY <4>3
        <5>2. d + 1 = fires + 1 /\ ecount_'[c] = 0 /\ fires \in Nat
          BY <5>1, <4>2, <4>3, <1>4
        <5>3. d + 0 = fires + 0
          BY <5>2
        <5>4. QED
          BY <5>1, <5>2, <5>3
      <4>5. QED
        BY <4>2, <4>4, <3>4
    <3>5. CASE order[i] # c
      <4>1. ecount_'[order[i]] = ecount_[order[i]]
        BY <3>5, <3>3, <1>2, <1>3, <1>4
      <4>2. Counted(p, i) <=> Counted(p, i)'
        BY <3>2, <3>5
      <4>3. QED
        BY <3>1, <3>5, <4>1, <4>2
    <3>6. QED
      BY <3>4, <3>5
  <2>2. \A d \in Ctls \ ctls : due[d] <= fires
    BY <1>1 DEF Counting
  <2>3. QED
    BY <2>1, <2>2, <1>2, <1>8 DEF Counting
<1>13. Ctl!InOrder'
  BY <1>2 DEF CtlInv, Ctl!InOrder
<1>14. p \in 0..Len(order')
  BY <1>2
<1>15. QED
  BY <1>9, <1>10, <1>11, <1>12, <1>13, <1>14 DEF CtlInv

\* run_run has returned: the evctl is unlinked through last and deleted.
LEMMA DeletesCtl ==
  ASSUME Ctl!EventCtlAssumptions, CtlInv, Ctl!DeleteCtl
  PROVE  CtlInv'
<1>1. PICK p \in 0..Len(order) : Cursor(p) /\ Counting(p)
  BY DEF CtlInv
<1>2. /\ calls # << >> /\ calls[1].pc = "ran"
      /\ ctls' = ctls \ {Ctl!cur}
      /\ link' = [link EXCEPT ![last] = link[Ctl!cur]]
      /\ calls' = [calls EXCEPT ![1] = Ctl!Call(link[Ctl!cur], "loop")]
      /\ UNCHANGED <<ecount_, last, threads, scheduled, fires, due, order>>
  BY DEF Ctl!DeleteCtl
<1>3. PICK c : c = Ctl!cur
  OBVIOUS
<1>4. /\ link \in [Ctl!Links -> Ctls \cup {Nil}] /\ ecount_ \in [Ctls -> Nat] /\ fires \in Nat
      /\ order \in Seq(Ctls) /\ Len(order) \in Nat /\ ctls \in SUBSET Ctls
      /\ p \in Used(order, ctls) /\ last = LinkAt(order, p) /\ last \in Ctl!Links
      /\ Len(calls) = 1 /\ calls[1] \in CallSet
      /\ \A m \in ctls : link[m] \in ctls \cup {Nil}
  BY <1>1, <1>2, CursorFacts
<1>5. /\ c = calls[1].cur /\ c = link[last] /\ c \in ctls
      /\ \E j \in (p + 1)..Len(order) :
           order[j] = c /\ \A k \in (p + 1)..(j - 1) : order[k] \notin ctls
  <2>1. Ctl!cur # Nil
    BY <1>1, <1>2 DEF Cursor, Ctl!cur
  <2>2. QED
    BY <2>1, <1>1, <1>2, <1>3, NextFacts
<1>6. PICK j \in (p + 1)..Len(order) :
        order[j] = c /\ \A k \in (p + 1)..(j - 1) : order[k] \notin ctls
  BY <1>5
<1>7. j \in 1..Len(order) /\ p < j
  BY <1>4
<1>8. /\ \A i, k \in 1..Len(order) : order[i] = order[k] => i = k
      /\ \A d \in ctls : \E i \in 1..Len(order) : order[i] = d
      /\ due \in [Ctls -> Nat]
  BY DEF CtlInv, CtlTyped
<1>9. calls' \in Seq(CallSet) /\ Len(calls') = 1 /\ calls' # << >>
      /\ calls'[1].cur = link[c] /\ calls'[1].pc = "loop"
  <2>1. calls \in Seq(CallSet) /\ link[c] \in Ctls \cup {Nil}
    BY <1>4, <1>5 DEF CtlInv, CtlTyped
  <2>2. PICK r \in CallSet : r = Ctl!Call(link[c], "loop") /\ r.cur = link[c] /\ r.pc = "loop"
    BY <2>1, CallFacts
  <2>3. calls' = [calls EXCEPT ![1] = r]
    BY <2>2, <1>2, <1>3
  <2>4. calls'[1] = r /\ calls' \in Seq(CallSet) /\ Len(calls') = 1 /\ calls' # << >>
    BY <2>1, <2>3, <1>4, CallReplaced
  <2>5. QED
    BY <2>2, <2>4
<1>10. link' \in [Ctl!Links -> Ctls \cup {Nil}] /\ link'[last] = link[c]
  BY <1>2, <1>3, <1>4, <1>5
<1>11. CtlTyped'
  <2>1. \A i \in DOMAIN calls' : calls'[i].cur \in Ctls \cup {Nil} /\ calls'[i].pc \in {"loop", "ran"}
    BY <1>9, CallsTyped
  <2>2. Ctl!TypeOK'
    BY <2>1, <1>2, <1>4, <1>10 DEF CtlInv, CtlTyped, Ctl!TypeOK
  <2>3. QED
    BY <2>2, <1>2, <1>9 DEF CtlInv, CtlTyped
<1>12. Listed(link', order', ctls')
  <2>1. Listed(link, order, ctls)
    BY DEF CtlInv
  <2>2. link[LinkAt(order, p)] = order[j] /\ order[j] \in ctls
    BY <1>4, <1>5, <1>6
  <2>3. \A k \in (p + 1)..(j - 1) : order[k] \notin ctls
    BY <1>6
  <2>4. Listed([link EXCEPT ![LinkAt(order, p)] = link[order[j]]], order, ctls \ {order[j]})
    BY <2>1, <2>2, <2>3, <1>4, <1>8, ListedRemoved
  <2>5. order[j] = Ctl!cur
    BY <1>3, <1>6
  <2>6. QED
    BY <2>4, <2>5, <1>2, <1>4
<1>13. Cursor(p)'
  <2>1. p \in Used(order, ctls')
    <3>1. p # 0 => order[p] \in ctls /\ order[p] # c /\ p \in 1..Len(order)
      BY <1>4, <1>6, <1>7, <1>8 DEF Used
    <3>2. QED
      BY <3>1, <1>2, <1>3 DEF Used
  <2>2. QED
    BY <2>1, <1>2, <1>4, <1>9, <1>10 DEF Cursor
<1>14. due[c] = fires /\ \A d \in Ctls \ ctls : due[d] <= fires
  <2>1. order[j] \in ctls /\ order[j] = calls[1].cur
    BY <1>5, <1>6
  <2>2. due[order[j]] + 0 = fires + ecount_[order[j]] /\ ecount_[order[j]] = 0
    BY <2>1, <1>1, <1>2, <1>7 DEF Counting, Counted
  <2>3. due[c] \in Nat
    BY <1>4, <1>5, <1>8
  <2>4. due[c] = fires
    BY <2>2, <2>3, <1>4, <1>6
  <2>5. QED
    BY <2>4, <1>1 DEF Counting
<1>15. \A i \in 1..Len(order) : order[i] \in ctls' =>
         order[i] \in ctls /\ order[i] # c /\ order[i] \in Ctls /\ ecount_[order[i]] # 0
  BY <1>1, <1>2, <1>3, <1>4, <1>5 DEF Counting
<1>16. Counting(p)'
  <2>1. ASSUME NEW i \in 1..Len(order), order[i] \in ctls'
        PROVE  due[order[i]] + (IF Counted(p, i)' THEN 0 ELSE 1) = fires + ecount_[order[i]]
    <3>1. due[order[i]] + (IF Counted(p, i) THEN 0 ELSE 1) = fires + ecount_[order[i]]
      BY <2>1, <1>1, <1>15 DEF Counting
    <3>2. Counted(p, i) <=> Counted(p, i)'
      BY <2>1, <1>2, <1>5, <1>9, <1>15 DEF Counted
    <3>3. QED
      BY <3>1, <3>2
  <2>2. \A d \in Ctls \ ctls' : due[d] <= fires
    <3>1. fires <= fires
      BY <1>4
    <3>2. QED
      BY <3>1, <1>2, <1>3, <1>14
  <2>3. QED
    BY <2>1, <2>2, <1>2, <1>9, <1>15 DEF Counting
<1>17. Ctl!InOrder'
  <2>1. ASSUME NEW i \in 1..Len(order), NEW k \in 1..Len(order), i < k,
               due[order[i]] = due[order[k]], order[k] \notin ctls', order[i] \in ctls'
        PROVE  FALSE
    <3>1. order[i] \in ctls /\ order[i] # c /\ order[i] \in Ctls /\ ecount_[order[i]] # 0
      BY <2>1, <1>15
    <3>2. CASE order[k] \notin ctls
      <4>1. DOMAIN order = 1..Len(order) /\ Ctl!InOrder
        BY <1>4 DEF CtlInv
      <4>2. QED
        BY <2>1, <4>1, <3>1, <3>2 DEF Ctl!InOrder
    <3>3. CASE order[k] \in ctls
      <4>1. k = j
        BY <2>1, <3>3, <1>2, <1>3, <1>6, <1>7, <1>8
      <4>2. i <= p
        BY <2>1, <4>1, <3>1, <1>6, <1>7, <1>4
      <4>3. due[order[i]] + 0 = fires + ecount_[order[i]]
        BY <4>2, <3>1, <1>1 DEF Counting, Counted
      <4>4. due[order[i]] = fires
        BY <2>1, <4>1, <1>6, <1>14
      <4>5. ecount_[order[i]] \in Nat
        BY <3>1, <1>4
      <4>6. QED
        BY <4>3, <4>4, <4>5, <3>1, <1>4
    <3>4. QED
      BY <3>2, <3>3
  <2>2. DOMAIN order = 1..Len(order) /\ order' = order /\ due' = due
    BY <1>2, <1>4
  <2>3. QED
    BY <2>1, <2>2 DEF Ctl!InOrder
<1>18. p \in 0..Len(order')
  BY <1>2
<1>19. QED
  BY <1>11, <1>12, <1>13, <1>16, <1>17, <1>18 DEF CtlInv

\* The end of the list: the walk is over and has counted every evctl.
LEMMA WakesAll ==
  ASSUME Ctl!EventCtlAssumptions, CtlInv, Ctl!Wake
  PROVE  CtlInv'
<1>1. PICK p \in 0..Len(order) : Cursor(p) /\ Counting(p)
  BY DEF CtlInv
<1>2. /\ calls # << >> /\ calls[1].pc = "loop" /\ Ctl!cur = Nil
      /\ scheduled' = scheduled \cup threads /\ threads' = {}
      /\ calls' = Tail(calls)
      /\ UNCHANGED <<link, ecount_, ctls, last, fires, due, order>>
  BY DEF Ctl!Wake, Ctl!InLoop
<1>3. /\ Len(order) \in Nat /\ Len(calls) = 1 /\ LeadsOn(link, order, ctls, p)
      /\ p \in Used(order, ctls) /\ last = LinkAt(order, p) /\ ctls \in SUBSET Ctls
  BY <1>1, <1>2, CursorFacts
<1>4. calls' = << >> /\ calls' \in Seq(CallSet) /\ Len(calls') = 0
  <2>1. calls \in Seq(CallSet)
    BY DEF CtlInv, CtlTyped
  <2>2. calls' \in Seq(CallSet) /\ Len(calls') = 0
    BY <2>1, <1>2, <1>3, HeadTailProperties
  <2>3. calls' = << >>
    BY <2>2, EmptySeq
  <2>4. QED
    BY <2>2, <2>3
<1>5. link[last] = Nil
  BY <1>1, <1>2 DEF Cursor, Ctl!cur
<1>6. \A k \in (p + 1)..Len(order) : order[k] \notin ctls
  BY <1>3, <1>5 DEF LeadsOn, Ctl!EventCtlAssumptions
<1>7. CtlTyped'
  <2>1. Ctl!TypeOK'
    BY <1>2, <1>4 DEF CtlInv, CtlTyped, Ctl!TypeOK
  <2>2. QED
    BY <2>1, <1>2, <1>4 DEF CtlInv, CtlTyped
<1>8. Listed(link', order', ctls') /\ Ctl!InOrder'
  BY <1>2 DEF CtlInv, Ctl!InOrder
<1>9. Cursor(p)'
  BY <1>2, <1>3, <1>4, <1>5 DEF Cursor
<1>10. Counting(p)'
  <2>1. ASSUME NEW i \in 1..Len(order), order[i] \in ctls
        PROVE  due[order[i]] + 0 = fires + ecount_[order[i]] /\ ecount_[order[i]] # 0
    <3>1. i <= p
      BY <2>1, <1>3, <1>6
    <3>2. QED
      BY <3>1, <2>1, <1>1, <1>2 DEF Counting, Counted
  <2>2. QED
    BY <2>1, <1>1, <1>2, <1>4 DEF Counting, Counted
<1>11. p \in 0..Len(order')
  BY <1>2
<1>12. QED
  BY <1>7, <1>8, <1>9, <1>10, <1>11 DEF CtlInv

\* The event fires: the walk begins at the first link.
LEMMA FiresCtl ==
  ASSUME Ctl!EventCtlAssumptions, CtlInv, Ctl!Fire
  PROVE  CtlInv'
<1>1. PICK p \in 0..Len(order) : Cursor(p) /\ Counting(p)
  BY DEF CtlInv
<1>2. /\ calls = << >> /\ fires' = fires + 1 /\ last' = event_ctls
      /\ calls' = <<Ctl!Call(link[event_ctls], "loop")>> \o << >>
      /\ UNCHANGED <<link, ecount_, ctls, threads, scheduled, due, order>>
  BY DEF Ctl!Fire, Ctl!Enter
<1>3. /\ link \in [Ctl!Links -> Ctls \cup {Nil}] /\ ecount_ \in [Ctls -> Nat] /\ fires \in Nat
      /\ Len(order) \in Nat /\ ctls \in SUBSET Ctls
  BY <1>1, CursorFacts
<1>4. event_ctls \in Ctl!Links /\ link[event_ctls] \in Ctls \cup {Nil}
  BY <1>3 DEF Ctl!Links
<1>5. calls' \in Seq(CallSet) /\ Len(calls') = 1 /\ calls' # << >>
      /\ calls'[1].cur = link[event_ctls] /\ calls'[1].pc = "loop"
  <2>1. PICK r \in CallSet :
          r = Ctl!Call(link[event_ctls], "loop") /\ r.cur = link[event_ctls] /\ r.pc = "loop"
    BY <1>4, CallFacts
  <2>2. calls' = <<r>>
    BY <2>1, <1>2
  <2>3. QED
    BY <2>1, <2>2
<1>6. CtlTyped'
  <2>1. \A i \in DOMAIN calls' : calls'[i].cur \in Ctls \cup {Nil} /\ calls'[i].pc \in {"loop", "ran"}
    BY <1>5, CallsTyped
  <2>2. Ctl!TypeOK'
    BY <2>1, <1>2, <1>3, <1>4 DEF CtlInv, CtlTyped, Ctl!TypeOK
  <2>3. QED
    BY <2>2, <1>2, <1>5 DEF CtlInv, CtlTyped
<1>7. Listed(link', order', ctls') /\ Ctl!InOrder'
  BY <1>2 DEF CtlInv, Ctl!InOrder
<1>8. 0 \in 0..Len(order') /\ Cursor(0)'
  BY <1>2, <1>3, <1>5 DEF Cursor, Used, LinkAt
<1>9. Counting(0)'
  <2>1. ASSUME NEW i \in 1..Len(order), order[i] \in ctls
        PROVE  /\ due[order[i]] + 1 = fires' + ecount_[order[i]] /\ ecount_[order[i]] # 0
               /\ ~Counted(0, i)'
    <3>1. due[order[i]] + 0 = fires + ecount_[order[i]] /\ ecount_[order[i]] # 0
      BY <2>1, <1>1, <1>2 DEF Counting, Counted
    <3>2. due[order[i]] \in Nat /\ ecount_[order[i]] \in Nat
      BY <2>1, <1>3 DEF CtlInv, CtlTyped
    <3>3. due[order[i]] + 1 = fires' + ecount_[order[i]]
      <4>1. PICK d \in Nat, e \in Nat : d = due[order[i]] /\ e = ecount_[order[i]]
        BY <3>2
      <4>2. d + 0 = fires + e /\ fires' = fires + 1 /\ fires \in Nat
        BY <4>1, <3>1, <1>2, <1>3
      <4>3. d + 1 = fires' + e
        BY <4>2
      <4>4. QED
        BY <4>1, <4>3
    <3>4. ~Counted(0, i)'
      BY <1>5 DEF Counted
    <3>5. QED
      BY <3>1, <3>3, <3>4
  <2>2. ASSUME NEW d \in Ctls \ ctls PROVE due[d] <= fires'
    <3>1. due[d] \in Nat /\ due[d] <= fires
      BY <1>1 DEF Counting, CtlInv, CtlTyped
    <3>2. QED
      BY <3>1, <1>2, <1>3
  <2>3. QED
    BY <2>1, <2>2, <1>2, <1>5 DEF Counting
<1>10. QED
  BY <1>6, <1>7, <1>8, <1>9 DEF CtlInv

\* Threads that wait or go on, and no step at all.
LEMMA CtlUndisturbed ==
  ASSUME CtlInv, UNCHANGED <<link, ecount_, ctls, last, calls, fires, due, order>>,
         threads' \subseteq Threads, scheduled' \subseteq Threads
  PROVE  CtlInv'
<1>1. PICK p \in 0..Len(order) : Cursor(p) /\ Counting(p)
  BY DEF CtlInv
<1>2. CtlTyped'
  BY DEF CtlInv, CtlTyped, Ctl!TypeOK
<1>3. Listed(link', order', ctls') /\ Ctl!InOrder'
  BY DEF CtlInv, Ctl!InOrder
<1>4. p \in 0..Len(order') /\ Cursor(p)' /\ Counting(p)'
  BY <1>1 DEF Cursor, Counting, Counted
<1>5. QED
  BY <1>2, <1>3, <1>4 DEF CtlInv

-----------------------------------------------------------------------------
LEMMA CtlInductive ==
  ASSUME Ctl!EventCtlAssumptions, Retriggers = {}, CtlInv, [Ctl!Next]_(Ctl!vars)
  PROVE  CtlInv'
<1>1. threads \subseteq Threads /\ scheduled \subseteq Threads
  BY DEF CtlInv, CtlTyped, Ctl!TypeOK
<1>2. CASE UNCHANGED Ctl!vars
  BY <1>1, <1>2, CtlUndisturbed DEF Ctl!vars
<1>3. ASSUME NEW c \in Ctls, NEW n \in Counts, Ctl!schedule_evctl(c, n)
      PROVE  CtlInv'
  BY <1>3, ScheduleCtl
<1>4. ASSUME NEW t \in Threads, Ctl!of_WAIT(t)
      PROVE  CtlInv'
  BY <1>1, <1>4, CtlUndisturbed DEF Ctl!of_WAIT
<1>5. ASSUME NEW t \in Threads, Ctl!Resume(t)
      PROVE  CtlInv'
  BY <1>1, <1>5, CtlUndisturbed DEF Ctl!Resume
<1>6. CASE Ctl!Fire
  BY <1>6, FiresCtl
<1>7. CASE Ctl!StillCounting
  BY <1>7, CountCtl
<1>8. CASE Ctl!RunCtl
  BY <1>8, RunsCtl
<1>9. CASE Ctl!DeleteCtl
  BY <1>9, DeletesCtl
<1>10. CASE Ctl!Wake
  BY <1>10, WakesAll
<1>11. CASE Ctl!Idle
  BY <1>2, <1>11 DEF Ctl!Idle
<1>12. QED
  BY <1>2, <1>3, <1>4, <1>5, <1>6, <1>7, <1>8, <1>9, <1>10, <1>11 DEF Ctl!Next

\* What the invariant says of the controls.
LEMMA CtlInvSaysRun ==
  ASSUME Ctl!EventCtlAssumptions, CtlInv
  PROVE  Ctl!TypeOK /\ Ctl!ControlsRun
<1>1. PICK p \in 0..Len(order) : Cursor(p) /\ Counting(p)
  BY DEF CtlInv
<1>2. /\ order \in Seq(Ctls) /\ Len(order) \in Nat /\ ctls \in SUBSET Ctls
      /\ p \in Used(order, ctls) /\ last = LinkAt(order, p)
      /\ Listed(link, order, ctls) /\ \A c \in ctls : \E i \in 1..Len(order) : order[i] = c
  BY <1>1, CursorFacts DEF CtlInv, CtlTyped
<1>3. /\ \A i \in Used(order, ctls) : LinkAt(order, i) \in {event_ctls} \cup ctls
      /\ \A m \in {event_ctls} \cup ctls : link[m] \in ctls \cup {Nil}
  BY <1>2, UsedFacts
<1>4. Ctl!ListFrom(event_ctls) = ctls
  <2>1. ASSUME NEW c \in Ctl!ListFrom(event_ctls) PROVE c \in ctls
    BY <1>2, <1>3 DEF Ctl!ListFrom
  <2>2. ASSUME NEW c \in ctls PROVE c \in Ctl!ListFrom(event_ctls)
    BY <1>2 DEF Listed, InList, Ctl!ListFrom
  <2>3. QED
    BY <2>1, <2>2
<1>5. Ctl!LastIsEnd
  BY <1>1, <1>2, <1>3, <1>4 DEF Cursor, Ctl!LastIsEnd
<1>6. Ctl!RunsAtItsEvent
  <2>1. ASSUME calls = << >>, NEW c \in ctls
        PROVE  due[c] = fires + ecount_[c] /\ ecount_[c] > 0
    <3>1. PICK i \in 1..Len(order) : order[i] = c
      BY <1>2
    <3>2. due[c] + 0 = fires + ecount_[c] /\ ecount_[c] # 0
      BY <2>1, <3>1, <1>1 DEF Counting, Counted
    <3>3. due[c] \in Nat /\ ecount_[c] \in Nat
      BY <1>2 DEF CtlInv, CtlTyped, Ctl!TypeOK
    <3>4. QED
      BY <3>2, <3>3
  <2>2. \A c \in Ctls \ ctls : due[c] <= fires
    BY <1>1 DEF Counting
  <2>3. QED
    BY <2>1, <2>2 DEF Ctl!RunsAtItsEvent
<1>7. QED
  BY <1>5, <1>6 DEF CtlInv, CtlTyped, Ctl!ControlsRun

\* Of the event controls of any event functor, with any counts and any number of
\* events, where no assignment makes the event fire again: after each event the
\* list holds the controls that exist and last, which is also the cursor of the
\* walk, is its end, so that the next assignment is hung where it is found; each
\* control runs at the event it was scheduled for, in the order of scheduling.
THEOREM ControlsRunInOrder ==
  ASSUME Ctl!EventCtlAssumptions, Retriggers = {}
  PROVE  Ctl!Spec => [](Ctl!TypeOK /\ Ctl!ControlsRun)
<1>1. Ctl!Init => CtlInv
  BY CtlInitially
<1>2. CtlInv /\ [Ctl!Next]_(Ctl!vars) => CtlInv'
  BY CtlInductive
<1>3. CtlInv => Ctl!TypeOK /\ Ctl!ControlsRun
  BY CtlInvSaysRun
<1>4. QED
  BY <1>1, <1>2, <1>3, PTL DEF Ctl!Spec
=============================================================================
