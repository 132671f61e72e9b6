-------------------------- MODULE VThreadFamilyProofs --------------------------
(***************************************************************************)
(* The family of the threads of vvp: who points to whom, what the joins to *)
(* come stand for, who wakes whom and who is deleted, and that none of the *)
(* assertions of the thread code fails; for every design that satisfies    *)
(* the conditions DisablesJoined and NoCalls below.                        *)
(***************************************************************************)
EXTENDS VThreadProofs

-----------------------------------------------------------------------------
(***************************************************************************)
(* The family of threads.                                                  *)
(***************************************************************************)

\* Scope z is forked by a join_none, or by a join_any that detaches a thread.
Detachable(z) ==
  \E s \in Scopes : \E x \in Code[s] :
    x.arg = z /\ (x.op = "join_none" \/ (x.op = "join_any" /\ x.n >= 2))

\* Scope z is named by a disable.
Disablable(z) ==
  \E s \in Scopes : \E x \in Code[s] : x.arg = z /\ x.op \in {"disable", "flow"}

\* The designs in which no detached thread is disabled by its scope.
DisablesJoined == \A z \in Scopes : ~(Detachable(z) /\ Disablable(z))

\* The designs without function calls.
NoCalls == \A s \in Scopes : \A x \in Code[s] : x.op # "callf"

\* An event runs only a thread that exists; functions are only run by calls.
Fit(r) == (r.is_scheduled => r.status = "alive") /\ (NoCalls => ~r.i_am_in_function)

\* The thread r that becomes x is not scheduled unless it exists.
Stays(r, x) ==
  /\ x.is_scheduled => r.is_scheduled \/ r.status = "alive"
  /\ x.i_am_in_function => r.i_am_in_function

\* A thread that does not exist, or that only a list still holds.
Dead(r) == r.status # "alive" \/ (r.pc = "null" /\ r.parent = Nil)

\* Parents and children point to each other.
Linked(th) ==
  /\ \A u \in Tid : th[u].parent # Nil => ~Dead(th[th[u].parent])
  /\ \A p, u \in Tid : ~Dead(th[p]) =>
       /\ u \in th[p].children <=> th[u].parent = p /\ ~th[u].i_am_detached
       /\ u \in th[p].detached_children <=> th[u].parent = p /\ th[u].i_am_detached

\* What is true of each thread by itself: one that has ended has no children
\* left to join, and a detached thread with a parent has not ended.
Sound(r) ==
  /\ r.parent # Nil => r.status = "alive"
  /\ Dead(r) => ~r.in_scope
  /\ r.status = "alive" => (r.i_have_ended <=> r.pc = "null")
  /\ r.pc = "null" => r.children = {}
  /\ r.status # "alive" => r.pc = "null"
  /\ r.parent # Nil /\ r.i_am_detached => r.pc = "code" /\ Detachable(r.parent_scope)
  /\ r.parent = Nil /\ r.pc = "code" => ~r.i_am_detached
  /\ Fit(r)

\* There is no circle of parents.
Founded(th) == \A S \in SUBSET Tid : S # {} => \E u \in S : th[u].parent \notin S

Tree(th) == Linked(th) /\ (\A u \in Tid : Sound(th[u])) /\ Founded(th)

\* A thread that has been cut off from the family; if it still exists, a list
\* holds it.
CutOff(x) ==
  /\ x.parent = Nil /\ x.pc = "null" /\ x.children = {} /\ ~x.in_scope
  /\ x.status = "alive" => x.i_have_ended /\ (x.is_scheduled \/ x.waiting_for_event)
  /\ x.i_am_waiting => x.i_have_ended
  /\ Fit(x)

\* The detached children of the threads in Y are on their own.
Lost(r, Y) == r.i_am_detached /\ r.parent \in Y

\* What stays of a thread r, and what becomes of it, when the threads in X are
\* cut off and those in Y lose their detached children.
Keeps(r, x, X, Y) ==
  /\ x.status = r.status /\ x.parent_scope = r.parent_scope /\ (x.in_scope => r.in_scope)
  /\ Stays(r, x)
  /\ Lost(r, Y) => x.parent = Nil /\ ~x.i_am_detached
  /\ ~Lost(r, Y) => x.parent = r.parent /\ (x.i_am_detached <=> r.i_am_detached)
  /\ x.children = r.children \ X
  /\ \/ x.pc = r.pc /\ (x.i_have_ended <=> r.i_have_ended)
     \/ x.parent # Nil /\ x.pc = "null" /\ x.i_have_ended /\ x.children = {} /\ ~x.i_am_detached

Cut(th, tg, X, Y) ==
  /\ X \subseteq Y
  /\ \A u \in Tid : th[u].parent \in X /\ ~th[u].i_am_detached => u \in X
  /\ \A u \in X : CutOff(tg[u])
  /\ \A u \in Tid \ X : Keeps(th[u], tg[u], X, Y)
  /\ \A u \in Tid \ X : ~Dead(th[u]) =>
       /\ u \in Y => tg[u].detached_children = {}
       /\ u \notin Y => tg[u].detached_children = th[u].detached_children \ X

\* One thread of a Cut that is not cut off.
LEMMA KeepsSound ==
  ASSUME NEW r \in Thread, NEW x \in Thread, NEW X \in SUBSET Tid, NEW Y \in SUBSET Tid,
         Sound(r), Keeps(r, x, X, Y)
  PROVE  /\ ~Dead(r) => ~Dead(x)
         /\ Sound(x)
<1>1. Nil \notin Y
  BY ThreadsAssumption
<1>2. Lost(r, Y) => r.pc = "code" /\ x.pc = "code" /\ x.pc = r.pc
  BY <1>1 DEF Lost, Sound, Keeps
<1>3. ~Dead(r) => ~Dead(x)
  <2>1. CASE Lost(r, Y)
    BY <1>2, <2>1 DEF Dead, Keeps
  <2>2. CASE ~Lost(r, Y)
    BY <2>2 DEF Dead, Keeps
  <2>3. QED
    BY <2>1, <2>2
<1>4. /\ x.parent # Nil => x.status = "alive"
      /\ Dead(x) => ~x.in_scope
      /\ x.status # "alive" => x.pc = "null"
  BY <1>3 DEF Sound, Keeps, Dead
<1>5. x.status = "alive" => (x.i_have_ended <=> x.pc = "null")
  BY DEF Sound, Keeps
<1>6. x.pc = "null" => x.children = {}
  BY DEF Sound, Keeps
<1>7. x.parent # Nil /\ x.i_am_detached => x.pc = "code" /\ Detachable(x.parent_scope)
  BY <1>2 DEF Sound, Keeps
<1>8. x.parent = Nil /\ x.pc = "code" => ~x.i_am_detached
  BY DEF Sound, Keeps
<1>9. Fit(x)
  BY DEF Sound, Keeps, Fit, Stays
<1>10. QED
  BY <1>3, <1>4, <1>5, <1>6, <1>7, <1>8, <1>9 DEF Sound

LEMMA CutOffSound ==
  ASSUME NEW x \in Thread, CutOff(x)
  PROVE  Dead(x) /\ Sound(x)
BY DEF CutOff, Dead, Sound

LEMMA CutTree ==
  ASSUME NEW th \in Threads, NEW tg \in Threads, NEW X \in SUBSET Tid, NEW Y \in SUBSET Tid,
         Tree(th), Cut(th, tg, X, Y)
  PROVE  Tree(tg)
<1>1. \A u \in Tid : th[u] \in Thread /\ tg[u] \in Thread
  BY DEF Threads
<1>2. ASSUME NEW u \in Tid
      PROVE  /\ u \in X => Dead(tg[u])
             /\ u \notin X /\ ~Dead(th[u]) => ~Dead(tg[u])
             /\ Sound(tg[u])
  <2>1. CASE u \in X
    BY <1>1, <2>1, CutOffSound DEF Cut
  <2>2. CASE u \notin X
    <3>1. Sound(th[u]) /\ Keeps(th[u], tg[u], X, Y)
      BY <2>2 DEF Tree, Cut
    <3>2. QED
      BY <1>1, <2>2, <3>1, KeepsSound
  <2>3. QED
    BY <2>1, <2>2
<1>3. ASSUME NEW u \in Tid, tg[u].parent # Nil
      PROVE  /\ u \notin X /\ tg[u].parent = th[u].parent /\ ~Lost(th[u], Y)
             /\ (tg[u].i_am_detached <=> th[u].i_am_detached)
             /\ th[u].parent \in Tid /\ th[u].parent \notin X
  <2>1. u \notin X
    BY <1>3 DEF Cut, CutOff
  <2>2. Keeps(th[u], tg[u], X, Y)
    BY <2>1 DEF Cut
  <2>3. ~Lost(th[u], Y) /\ tg[u].parent = th[u].parent /\ (tg[u].i_am_detached <=> th[u].i_am_detached)
    BY <1>3, <2>2 DEF Keeps
  <2>4. th[u].parent \in Tid
    BY <1>1, <1>3, <2>3 DEF Thread
  <2>5. th[u].parent \notin X
    BY <2>1, <2>3 DEF Cut, Lost
  <2>6. QED
    BY <2>1, <2>3, <2>4, <2>5
<1>4. ASSUME NEW u \in Tid, tg[u].parent # Nil PROVE ~Dead(tg[tg[u].parent])
  <2>1. PICK p \in Tid : p = th[u].parent /\ p = tg[u].parent /\ p \notin X
    BY <1>3, <1>4
  <2>2. th[u].parent # Nil
    BY <2>1, ThreadsAssumption
  <2>3. ~Dead(th[th[u].parent])
    BY <2>2 DEF Tree, Linked
  <2>4. ~Dead(th[p])
    BY <2>1, <2>3
  <2>5. QED
    BY <1>2, <2>1, <2>4
<1>5. ASSUME NEW p \in Tid, NEW u \in Tid, ~Dead(tg[p])
      PROVE  /\ u \in tg[p].children <=> tg[u].parent = p /\ ~tg[u].i_am_detached
             /\ u \in tg[p].detached_children <=> tg[u].parent = p /\ tg[u].i_am_detached
  <2>1. p \notin X /\ p # Nil
    BY <1>2, <1>5, ThreadsAssumption
  <2>2. ~Dead(th[p])
    <3>1. Keeps(th[p], tg[p], X, Y)
      BY <2>1 DEF Cut
    <3>2. ASSUME Dead(th[p]) PROVE FALSE
      <4>1. th[p] \in Thread /\ Sound(th[p]) /\ Nil \notin Y
        BY <1>1, ThreadsAssumption DEF Tree
      <4>2. ~Lost(th[p], Y)
        BY <3>2, <4>1 DEF Lost, Dead, Sound
      <4>3. Dead(tg[p])
        BY <3>1, <3>2, <4>2 DEF Keeps, Dead
      <4>4. QED
        BY <1>5, <4>3
    <3>3. QED
      BY <3>2
  <2>3. /\ u \in th[p].children <=> th[u].parent = p /\ ~th[u].i_am_detached
        /\ u \in th[p].detached_children <=> th[u].parent = p /\ th[u].i_am_detached
    BY <2>2 DEF Tree, Linked
  <2>4. /\ tg[p].children = th[p].children \ X
        /\ p \in Y => tg[p].detached_children = {}
        /\ p \notin Y => tg[p].detached_children = th[p].detached_children \ X
    BY <2>1, <2>2 DEF Cut, Keeps
  <2>5. u \notin X => Keeps(th[u], tg[u], X, Y)
    BY DEF Cut
  <2>6. tg[u].parent = p => u \notin X /\ th[u].parent = p /\ ~Lost(th[u], Y)
                             /\ (tg[u].i_am_detached <=> th[u].i_am_detached)
    BY <1>3, <2>1
  <2>7. u \notin X /\ th[u].parent = p /\ ~Lost(th[u], Y)
          => tg[u].parent = p /\ (tg[u].i_am_detached <=> th[u].i_am_detached)
    BY <2>5 DEF Keeps
  <2>8. u \in tg[p].children <=> tg[u].parent = p /\ ~tg[u].i_am_detached
    BY <2>3, <2>4, <2>6, <2>7 DEF Lost
  <2>9. u \in tg[p].detached_children <=> tg[u].parent = p /\ tg[u].i_am_detached
    BY <2>3, <2>4, <2>6, <2>7 DEF Lost
  <2>10. QED
    BY <2>8, <2>9
<1>6. Founded(tg)
  <2> SUFFICES ASSUME NEW S \in SUBSET Tid, S # {} PROVE \E u \in S : tg[u].parent \notin S
    BY DEF Founded
  <2>1. PICK u \in S : th[u].parent \notin S
    BY DEF Tree, Founded
  <2>2. tg[u].parent = Nil \/ tg[u].parent = th[u].parent
    BY <1>3
  <2>3. QED
    BY <2>1, <2>2, ThreadsAssumption
<1>7. QED
  BY <1>2, <1>4, <1>5, <1>6 DEF Tree, Linked

-----------------------------------------------------------------------------
(***************************************************************************)
(* The statement a thread is in, what it waits for, and who will go on     *)
(* with it.                                                                *)
(***************************************************************************)

\* The callers of functions in progress, each with the thread of the function.
Calling == {<<stack[i + 1].thr, stack[i].thr>> : i \in {j \in 1..(Len(stack) - 1) : stack[j].call = "callf"}}

\* The innermost thread, if its opcode has not returned false.
Tops == {t \in Tid : stack # << >> /\ ~ret /\ stack[1].thr = t}

\* The joins still to come stand for the children; a thread that detaches has
\* forked threads of a scope that may be detached; K are the calls in progress.
StatementOf(th, u, K) ==
  th[u].pc = "code" =>
    /\ (\A c \in Tid : <<u, c>> \notin K) =>
         Cardinality(th[u].children) + th[u].forks
           = th[u].joins + th[u].detach + (IF th[u].i_am_joining THEN 1 ELSE 0)
    /\ \A c \in Tid : <<u, c>> \in K =>
         th[u].forks = 0 /\ th[u].joins = 0 /\ th[u].detach = 0 /\ th[u].children = {c}
    /\ th[u].detach > 0 => Detachable(th[u].scope) /\ \A c \in th[u].children : Detachable(th[c].parent_scope)
    /\ th[u].i_am_joining => \E c \in th[u].children : ~th[c].i_have_ended

Statements(th, K) == \A u \in Tid : StatementOf(th, u, K)

WaitOf(r) == r.i_am_waiting /\ ~r.i_have_ended => r.status = "alive" /\ r.detached_children # {}

Waits(th) == \A u \in Tid : WaitOf(th[u])

\* A thread that exists is in a list, or it has code to execute and is among the
\* calls in progress (C) or asleep, or it has ended and has a parent to join it,
\* or is being run (T) to be deleted.
CaredOf(th, u, C, T) ==
  th[u].status = "alive" =>
    \/ th[u].is_scheduled \/ th[u].waiting_for_event
    \/ th[u].pc = "code" /\ (u \in C \/ th[u].i_am_joining \/ th[u].i_am_waiting)
    \/ th[u].pc = "null" /\ (th[u].parent # Nil \/ u \in T)

Cared(th, C, T) == \A u \in Tid : CaredOf(th, u, C, T)

\* The flags of r by which it is woken, or held, are those of x.
Calm(r, x) ==
  /\ x.is_scheduled = r.is_scheduled /\ x.waiting_for_event = r.waiting_for_event
  /\ x.i_am_joining = r.i_am_joining /\ x.i_am_waiting = r.i_am_waiting

\* Nothing happens to the fork statement that r is in.
SameStatement(r, x) ==
  x.scope = r.scope /\ x.forks = r.forks /\ x.joins = r.joins /\ x.detach = r.detach

LEMMA CutStatement ==
  ASSUME NEW th \in Threads, NEW tg \in Threads, NEW X \in SUBSET Tid, NEW Y \in SUBSET Tid,
         Tree(th), Cut(th, tg, X, Y), NEW K, NEW u \in Tid, StatementOf(th, u, K),
         tg[u].pc = "code" =>
           /\ SameStatement(th[u], tg[u]) /\ th[u].children \cap X = {}
           /\ tg[u].i_am_joining = th[u].i_am_joining
           /\ th[u].i_am_joining => \A c \in th[u].children : tg[c].i_have_ended => th[c].i_have_ended
  PROVE  StatementOf(tg, u, K)
<1> SUFFICES ASSUME tg[u].pc = "code" PROVE StatementOf(tg, u, K)
  BY DEF StatementOf
<1>1. u \notin X
  BY DEF Cut, CutOff
<1>2. Keeps(th[u], tg[u], X, Y)
  BY <1>1 DEF Cut
<1>3. /\ th[u].pc = "code" /\ tg[u].children = th[u].children
      /\ tg[u].forks = th[u].forks /\ tg[u].joins = th[u].joins /\ tg[u].detach = th[u].detach
      /\ tg[u].scope = th[u].scope /\ tg[u].i_am_joining = th[u].i_am_joining
  BY <1>2 DEF Keeps, SameStatement
<1>4. \A c \in th[u].children : c \in Tid /\ c \notin X
  BY DEF Threads, Thread
<1>5. \A c \in th[u].children : tg[c].parent_scope = th[c].parent_scope
  BY <1>4 DEF Cut, Keeps
<1>6. th[u].i_am_joining => \A c \in th[u].children : tg[c].i_have_ended => th[c].i_have_ended
  OBVIOUS
<1>7. /\ (\A c \in Tid : <<u, c>> \notin K) =>
           Cardinality(tg[u].children) + tg[u].forks
             = tg[u].joins + tg[u].detach + (IF tg[u].i_am_joining THEN 1 ELSE 0)
      /\ \A c \in Tid : <<u, c>> \in K =>
           tg[u].forks = 0 /\ tg[u].joins = 0 /\ tg[u].detach = 0 /\ tg[u].children = {c}
  BY <1>3 DEF StatementOf
<1>8. tg[u].detach > 0 => Detachable(tg[u].scope) /\ \A c \in tg[u].children : Detachable(tg[c].parent_scope)
  BY <1>3, <1>5 DEF StatementOf
<1>9. tg[u].i_am_joining => \E c \in tg[u].children : ~tg[c].i_have_ended
  BY <1>3, <1>6 DEF StatementOf
<1>10. QED
  BY <1>7, <1>8, <1>9 DEF StatementOf

\* The family of the threads th, K being the calls in progress, C the threads
\* that make them and T the innermost thread.
FamilyOf(th, K, C, T) == Tree(th) /\ Statements(th, K) /\ Waits(th) /\ Cared(th, C, T)

\* A thread that nothing happens to but that its parent may go.
Ordinary(th, tg, u, X) ==
  /\ SameStatement(th[u], tg[u]) /\ Calm(th[u], tg[u])
  /\ th[u].pc = "code" => th[u].children \cap X = {}
  /\ tg[u].detached_children = th[u].detached_children
  /\ th[u].i_am_joining => \A c \in th[u].children : tg[c].i_have_ended => th[c].i_have_ended

\* The calls of the thread u are the same.
CallsSame(u, K, C, T, K2, C2, T2) ==
  /\ \A c \in Tid : <<u, c>> \in K2 <=> <<u, c>> \in K
  /\ u \in C => u \in C2
  /\ u \in T => u \in T2

Held(th, u, K, C, T) == StatementOf(th, u, K) /\ WaitOf(th[u]) /\ CaredOf(th, u, C, T)

LEMMA OrdinaryHeld ==
  ASSUME NEW th \in Threads, NEW tg \in Threads, NEW X \in SUBSET Tid, NEW Y \in SUBSET Tid,
         Tree(th), Cut(th, tg, X, Y), NEW u \in Tid, u \notin X, Ordinary(th, tg, u, X),
         NEW K, NEW C, NEW T, NEW K2, NEW C2, NEW T2, CallsSame(u, K, C, T, K2, C2, T2),
         Held(th, u, K, C, T)
  PROVE  Held(tg, u, K2, C2, T2)
<1>1. /\ Keeps(th[u], tg[u], X, Y) /\ Calm(th[u], tg[u]) /\ Sound(th[u])
      /\ th[u] \in Thread /\ tg[u] \in Thread
  BY DEF Cut, Tree, Ordinary, Threads
<1>2. StatementOf(tg, u, K2)
  <2>1. StatementOf(th, u, K2)
    <3>1. (\A c \in Tid : <<u, c>> \notin K2) <=> (\A c \in Tid : <<u, c>> \notin K)
      BY DEF CallsSame
    <3>2. QED
      BY <3>1 DEF CallsSame, Held, StatementOf
  <2>2. tg[u].pc = "code" => th[u].pc = "code"
    BY <1>1 DEF Keeps
  <2>3. tg[u].pc = "code" =>
           /\ SameStatement(th[u], tg[u]) /\ th[u].children \cap X = {}
           /\ tg[u].i_am_joining = th[u].i_am_joining
           /\ th[u].i_am_joining => \A c \in th[u].children : tg[c].i_have_ended => th[c].i_have_ended
    BY <2>2 DEF Ordinary, Calm
  <2>4. QED
    BY <2>1, <2>3, CutStatement
<1>3. WaitOf(tg[u])
  <2>1. tg[u].i_am_waiting /\ ~tg[u].i_have_ended => th[u].i_am_waiting /\ ~th[u].i_have_ended
    BY <1>1 DEF Keeps, Calm
  <2>2. tg[u].status = th[u].status /\ tg[u].detached_children = th[u].detached_children
    BY <1>1 DEF Keeps, Ordinary
  <2>3. QED
    BY <2>1, <2>2 DEF Held, WaitOf
<1>4. ASSUME tg[u].status = "alive" PROVE CaredOf(tg, u, C2, T2)
  <2>1. CaredOf(th, u, C, T) /\ th[u].status = "alive"
    BY <1>1, <1>4 DEF Held, Keeps
  <2>2. tg[u].pc \in {"code", "null"} /\ th[u].pc \in {"code", "null"}
    BY <1>1 DEF Thread
  <2>3. CASE th[u].is_scheduled \/ th[u].waiting_for_event
    BY <1>1, <2>3 DEF CaredOf, Calm
  <2>4. CASE th[u].pc = "code" /\ (u \in C \/ th[u].i_am_joining \/ th[u].i_am_waiting)
    <3>1. CASE tg[u].pc = "code"
      BY <1>1, <2>4, <3>1 DEF CaredOf, Calm, CallsSame
    <3>2. CASE tg[u].pc = "null"
      BY <1>1, <2>4, <3>2 DEF CaredOf, Keeps
    <3>3. QED
      BY <2>2, <3>1, <3>2
  <2>5. CASE th[u].pc = "null" /\ (th[u].parent # Nil \/ u \in T)
    <3>1. ~Lost(th[u], Y)
      <4>1. Nil \notin Y
        BY ThreadsAssumption
      <4>2. QED
        BY <1>1, <2>5, <4>1 DEF Lost, Sound
    <3>2. tg[u].pc = "null" /\ tg[u].parent = th[u].parent
      BY <1>1, <2>5, <3>1 DEF Keeps
    <3>3. QED
      BY <2>5, <3>2 DEF CaredOf, CallsSame
  <2>6. QED
    BY <2>1, <2>3, <2>4, <2>5 DEF CaredOf
<1>5. QED
  BY <1>2, <1>3, <1>4 DEF Held, CaredOf

LEMMA CutFamily ==
  ASSUME NEW th \in Threads, NEW tg \in Threads, NEW X \in SUBSET Tid, NEW Y \in SUBSET Tid,
         NEW K, NEW C, NEW T, NEW K2, NEW C2, NEW T2, FamilyOf(th, K, C, T), Cut(th, tg, X, Y),
         NEW E \in SUBSET Tid,
         \A u \in Tid \ (X \cup E) : Ordinary(th, tg, u, X) /\ CallsSame(u, K, C, T, K2, C2, T2),
         \A u \in E \ X : Held(tg, u, K2, C2, T2)
  PROVE  FamilyOf(tg, K2, C2, T2)
<1>1. Tree(tg)
  BY CutTree DEF FamilyOf
<1>2. ASSUME NEW u \in Tid PROVE Held(tg, u, K2, C2, T2)
  <2>1. CASE u \in X
    <3>1. CutOff(tg[u])
      BY <2>1 DEF Cut
    <3>2. QED
      BY <3>1 DEF CutOff, Held, StatementOf, WaitOf, CaredOf
  <2>2. CASE u \in E /\ u \notin X
    BY <2>2
  <2>3. CASE u \notin E /\ u \notin X
    <3>1. Held(th, u, K, C, T)
      BY DEF FamilyOf, Held, Statements, Waits, Cared
    <3>2. Ordinary(th, tg, u, X) /\ CallsSame(u, K, C, T, K2, C2, T2)
      BY <2>3
    <3>3. QED
      BY <2>3, <3>1, <3>2, OrdinaryHeld DEF FamilyOf
  <2>4. QED
    BY <2>1, <2>2, <2>3
<1>3. QED
  BY <1>1, <1>2 DEF FamilyOf, Held, Statements, Waits, Cared

-----------------------------------------------------------------------------
(***************************************************************************)
(* Threads that are reaped and disabled, in the family.                    *)
(***************************************************************************)

LEMMA FitKept ==
  ASSUME NEW r \in Thread, Fit(r)
  PROVE  /\ Fit(Unlinked(r)) /\ Fit(Off(r)) /\ Fit(Orphan(r))
         /\ ~r.is_scheduled => Fit(Release(r))
<1>1. Fit(Unlinked(r)) /\ Fit(Off(r)) /\ Fit(Orphan(r))
  BY UnlinkedFields, OffFields, OrphanFields DEF Fit
<1>2. ASSUME ~r.is_scheduled PROVE Fit(Release(r))
  <2>1. CASE r.delay_delete
    <3>1. PICK x : x = [r EXCEPT !.status = "del_thr"]
      OBVIOUS
    <3>2. x.is_scheduled = r.is_scheduled /\ x.i_am_in_function = r.i_am_in_function
      BY <3>1 DEF Thread
    <3>3. QED
      BY <1>2, <2>1, <3>1, <3>2 DEF Release, Fit
  <2>2. CASE ~r.delay_delete
    BY <2>2, NewFields DEF Release, Fit
  <2>3. QED
    BY <2>1, <2>2
<1>3. QED
  BY <1>1, <1>2

LEMMA ReapedCutOff ==
  ASSUME NEW r \in Thread, Fit(r)
  PROVE  /\ r.children = {} /\ r.i_have_ended => CutOff(ReleaseIfIdle(Unlinked(r)))
         /\ CutOff(ReleaseIfIdle(Unlinked(Off(r))))
<1>1. ASSUME NEW x \in Thread, x.children = {}, x.i_have_ended, Fit(x)
      PROVE  CutOff(ReleaseIfIdle(Unlinked(x)))
  <2>1. PICK y \in Thread : y = Unlinked(x)
    BY UnlinkedFields
  <2>2. /\ y.parent = Nil /\ y.pc = "null" /\ y.children = {} /\ ~y.in_scope /\ y.i_have_ended
        /\ Fit(y)
    BY <1>1, <2>1, UnlinkedFields, FitKept
  <2>3. CASE y.is_scheduled \/ y.waiting_for_event
    BY <2>1, <2>2, <2>3 DEF ReleaseIfIdle, CutOff
  <2>4. CASE ~(y.is_scheduled \/ y.waiting_for_event)
    <3>1. PICK z \in Thread : z = Release(y)
      BY ReleaseType
    <3>2. /\ z.status \in {"del_thr", "deleted"} /\ z.pc = "null" /\ z.parent = Nil /\ ~z.in_scope
          /\ z.children = {} /\ (z.i_am_waiting => z.i_have_ended) /\ Fit(z)
      BY <2>2, <2>4, <3>1, ReleaseFields, FitKept
    <3>3. QED
      BY <2>1, <2>4, <3>1, <3>2 DEF ReleaseIfIdle, CutOff
  <2>5. QED
    BY <2>3, <2>4
<1>2. Off(r) \in Thread /\ Off(r).children = {} /\ Off(r).i_have_ended /\ Fit(Off(r))
  BY OffFields, FitKept
<1>3. QED
  BY <1>1, <1>2

\* A thread that stays as it is, or that loses its parent, or children in X.
LEMMA KeepsParts ==
  ASSUME NEW r \in Thread, NEW X \in SUBSET Tid, NEW Y \in SUBSET Tid
  PROVE  /\ ~Lost(r, Y) /\ r.children \cap X = {} => Keeps(r, r, X, Y)
         /\ Lost(r, Y) /\ r.children \cap X = {} => Keeps(r, Orphan(r), X, Y)
<1>1. r.children \cap X = {} => r.children \ X = r.children
  OBVIOUS
<1>2. ~Lost(r, Y) /\ r.children \cap X = {} => Keeps(r, r, X, Y)
  BY <1>1 DEF Keeps, Stays
<1>3. Lost(r, Y) /\ r.children \cap X = {} => Keeps(r, Orphan(r), X, Y)
  <2>1. Stays(r, Orphan(r))
    BY OrphanFields DEF Stays
  <2>2. QED
    BY <1>1, <2>1, OrphanFields DEF Keeps
<1>4. QED
  BY <1>2, <1>3

\* What a tree of threads is, for one of them.
LEMMA TreeFacts ==
  ASSUME NEW th \in Threads, Tree(th), NEW u \in Tid
  PROVE  /\ th[u] \in Thread /\ Sound(th[u]) /\ Fit(th[u])
         /\ th[u].parent # Nil => th[u].parent \in Tid /\ ~Dead(th[th[u].parent]) /\ ~Dead(th[u])
         /\ th[u].pc = "code" => ~Dead(th[u]) /\ th[u].status = "alive"
         /\ th[u].pc = "null" => th[u].children = {}
         /\ Dead(th[u]) => th[u].children = {} /\ th[u].parent = Nil
         /\ \A c \in th[u].children : c \in Tid /\ th[c].parent = u /\ ~th[c].i_am_detached
         /\ ~Dead(th[u]) => \A c \in th[u].detached_children :
              c \in Tid /\ th[c].parent = u /\ th[c].i_am_detached
         /\ th[u].parent # u
<1>1. th[u] \in Thread /\ Sound(th[u])
  BY DEF Threads, Tree
<1>2. th[u].parent # Nil => th[u].parent \in Tid /\ ~Dead(th[th[u].parent]) /\ ~Dead(th[u])
  BY <1>1 DEF Thread, Tree, Linked, Sound, Dead
<1>3. th[u].pc = "code" => ~Dead(th[u]) /\ th[u].status = "alive"
  BY <1>1 DEF Sound, Dead
<1>4. Dead(th[u]) => th[u].children = {} /\ th[u].parent = Nil
  BY <1>1 DEF Sound, Dead
<1>5. th[u].children \subseteq Tid /\ th[u].detached_children \subseteq Tid
  BY <1>1 DEF Thread
<1>6. ~Dead(th[u]) => \A c \in th[u].children : c \in Tid /\ th[c].parent = u /\ ~th[c].i_am_detached
  BY <1>5 DEF Tree, Linked
<1>7. ~Dead(th[u]) => \A c \in th[u].detached_children : c \in Tid /\ th[c].parent = u /\ th[c].i_am_detached
  BY <1>5 DEF Tree, Linked
<1>8. th[u].parent # u
  <2>1. \E v \in {u} : th[v].parent \notin {u}
    BY DEF Tree, Founded
  <2>2. QED
    BY <2>1
<1>9. QED
  BY <1>1, <1>2, <1>3, <1>4, <1>6, <1>7, <1>8 DEF Sound

\* A thread that stays as it is, but that a detached child of a thread in Y is on its own.
Usual(th, tg, u, Y) ==
  /\ Lost(th[u], Y) => tg[u] = Orphan(th[u])
  /\ ~Lost(th[u], Y) => tg[u] = th[u]

\* What happens to a thread in E that is not cut off.
Special(th, tg, u, X, Y) ==
  /\ Keeps(th[u], tg[u], X, Y)
  /\ u \in Y => tg[u].detached_children = {}
  /\ u \notin Y => tg[u].detached_children = th[u].detached_children \ X

\* The threads in X are cut off; only those in E are not as usual.
UsualCut(th, tg, X, Y, E) ==
  /\ X \subseteq Y /\ Y \subseteq X \cup E
  /\ \A u \in Tid : th[u].parent \in X /\ ~th[u].i_am_detached => u \in X
  /\ \A u \in X : th[u].parent \in X \cup E \cup {Nil}
  /\ \A u \in X : CutOff(tg[u])
  /\ \A u \in Tid \ (X \cup E) : Usual(th, tg, u, Y)
  /\ \A u \in E \ X : Special(th, tg, u, X, Y)
  /\ \A c \in E \ X : tg[c].i_have_ended =>
       th[c].i_have_ended \/ (\A u \in Tid \ (X \cup E) : c \in th[u].children => ~th[u].i_am_joining)

LEMMA CutUsual ==
  ASSUME NEW th \in Threads, NEW tg \in Threads, NEW X \in SUBSET Tid, NEW Y \in SUBSET Tid,
         NEW E \in SUBSET Tid, Tree(th), UsualCut(th, tg, X, Y, E)
  PROVE  /\ Cut(th, tg, X, Y)
         /\ \A u \in Tid \ (X \cup E) : Ordinary(th, tg, u, X)
<1>1. ASSUME NEW u \in Tid, u \notin X, u \notin E
      PROVE  /\ Keeps(th[u], tg[u], X, Y) /\ Ordinary(th, tg, u, X)
             /\ ~Dead(th[u]) => th[u].detached_children \cap X = {}
             /\ tg[u].detached_children = th[u].detached_children
  <2>1. PICK r \in Thread : r = th[u]
    BY TreeFacts
  <2>2. Usual(th, tg, u, Y) /\ u # Nil
    BY <1>1, ThreadsAssumption DEF UsualCut
  <2>3. \A c \in X : th[c].parent # u
    BY <1>1, <2>2 DEF UsualCut
  <2>4. r.children \cap X = {}
    BY <2>1, <2>3, TreeFacts
  <2>5. ~Dead(r) => r.detached_children \cap X = {}
    BY <2>1, <2>3, TreeFacts
  <2>6. Keeps(r, tg[u], X, Y)
    BY <2>1, <2>2, <2>4, KeepsParts DEF Usual
  <2>7. /\ SameStatement(r, tg[u]) /\ Calm(r, tg[u])
        /\ tg[u].detached_children = r.detached_children
    <3>1. CASE tg[u] = r
      BY <3>1 DEF SameStatement, Calm
    <3>2. CASE tg[u] = Orphan(r)
      BY <3>2, OrphanFields DEF SameStatement, Calm
    <3>3. QED
      BY <2>1, <2>2, <3>1, <3>2 DEF Usual
  <2>8. ASSUME r.i_am_joining, NEW c \in r.children, tg[c].i_have_ended PROVE th[c].i_have_ended
    <3>1. c \in Tid /\ c \notin X
      BY <2>1, <2>4, <2>8, TreeFacts
    <3>2. CASE c \in E
      BY <1>1, <2>1, <2>8, <3>1, <3>2 DEF UsualCut
    <3>3. CASE c \notin E
      <4>1. PICK k \in Thread : k = th[c]
        BY <3>1, TreeFacts
      <4>2. tg[c] = k \/ tg[c] = Orphan(k)
        BY <3>1, <3>3, <4>1 DEF UsualCut, Usual
      <4>3. tg[c].i_have_ended = k.i_have_ended
        BY <4>1, <4>2, OrphanFields
      <4>4. QED
        BY <2>8, <4>1, <4>3
    <3>4. QED
      BY <3>2, <3>3
  <2>9. Ordinary(th, tg, u, X)
    BY <2>1, <2>4, <2>7, <2>8 DEF Ordinary
  <2>10. QED
    BY <2>1, <2>5, <2>6, <2>7, <2>9
<1>2. ASSUME NEW u \in Tid, u \notin X
      PROVE  /\ Keeps(th[u], tg[u], X, Y)
             /\ ~Dead(th[u]) =>
                  /\ u \in Y => tg[u].detached_children = {}
                  /\ u \notin Y => tg[u].detached_children = th[u].detached_children \ X
  <2>1. CASE u \in E
    BY <1>2, <2>1 DEF UsualCut, Special
  <2>2. CASE u \notin E
    <3>1. u \notin Y
      BY <1>2, <2>2 DEF UsualCut
    <3>2. QED
      BY <1>1, <1>2, <2>2, <3>1
  <2>3. QED
    BY <2>1, <2>2
<1>3. Cut(th, tg, X, Y)
  BY <1>2 DEF Cut, UsualCut
<1>4. QED
  BY <1>1, <1>3

\* vthread_reap of a thread that has ended cuts it off.
LEMMA ReapCut ==
  ASSUME NEW th \in Threads, NEW t \in Tid, NEW p, p = th[t].parent, p # Nil,
         Tree(th), th[t].i_have_ended
  PROVE  /\ p \in Tid /\ p # t /\ t \in th[p].children
         /\ UsualCut(th, vthread_reap(th, t), {t}, {t}, {p})
         /\ vthread_reap(th, t)[p] = [th[p] EXCEPT !.children = th[p].children \ {t}]
<1> DEFINE tg == vthread_reap(th, t)
<1>1. /\ p \in Tid /\ ~Dead(th[p]) /\ ~Dead(th[t]) /\ p # t
      /\ \A u \in Tid : th[u] \in Thread
  BY TreeFacts
<1>2. th[t].pc = "null" /\ th[t].children = {} /\ ~th[t].i_am_detached
  <2>1. Sound(th[t]) /\ th[t].status = "alive"
    BY <1>1, TreeFacts DEF Dead
  <2>2. th[t].pc = "null"
    BY <2>1 DEF Sound
  <2>3. QED
    BY <2>1, <2>2 DEF Sound
<1>3. t \in th[p].children
  BY <1>1, <1>2 DEF Tree, Linked
<1>4. \A u \in Tid : u \in th[t].detached_children <=> Lost(th[u], {t})
  BY <1>1 DEF Tree, Linked, Lost
<1>5. th[p].parent # t
  <2>1. \E v \in {t, p} : th[v].parent \notin {t, p}
    BY <1>1 DEF Tree, Founded
  <2>2. QED
    BY <2>1
<1>6. ~Lost(th[p], {t})
  BY <1>5 DEF Lost
<1>7. tg[t] = ReleaseIfIdle(Unlinked(th[t]))
  BY DEF vthread_reap
<1>8. tg[p] = [th[p] EXCEPT !.children = th[p].children \ {t}]
  BY <1>1, <1>2, <1>4, <1>6 DEF vthread_reap
<1>9. \A u \in Tid : u # t /\ u # p => Usual(th, tg, u, {t})
  BY <1>1, <1>2, <1>4 DEF vthread_reap, Usual
<1>10. CutOff(tg[t])
  <2>1. Fit(th[t])
    BY TreeFacts
  <2>2. QED
    BY <1>1, <1>2, <1>7, <2>1, ReapedCutOff
<1>11. Special(th, tg, p, {t}, {t}) /\ tg[p].i_have_ended = th[p].i_have_ended
  <2>1. PICK r \in Thread : r = th[p]
    BY <1>1
  <2>2. PICK S \in SUBSET Tid : S = r.children \ {t}
    BY DEF Thread
  <2>3. PICK x : x = [r EXCEPT !.children = S]
    OBVIOUS
  <2>4. /\ x.status = r.status /\ x.parent_scope = r.parent_scope /\ x.in_scope = r.in_scope
        /\ x.parent = r.parent /\ x.i_am_detached = r.i_am_detached /\ x.children = S
        /\ x.pc = r.pc /\ x.i_have_ended = r.i_have_ended
        /\ x.detached_children = r.detached_children
        /\ x.is_scheduled = r.is_scheduled /\ x.i_am_in_function = r.i_am_in_function
    BY <2>3 DEF Thread
  <2>5. t \notin r.detached_children
    BY <1>1, <1>2, <2>1 DEF Tree, Linked
  <2>6. r.detached_children \ {t} = r.detached_children
    BY <2>5
  <2>7. Keeps(r, x, {t}, {t})
    BY <1>6, <2>1, <2>2, <2>4 DEF Keeps, Stays
  <2>8. tg[p] = x
    BY <1>8, <2>1, <2>2, <2>3
  <2>9. QED
    BY <1>1, <2>1, <2>4, <2>6, <2>7, <2>8 DEF Special
<1>12. UsualCut(th, tg, {t}, {t}, {p})
  <2>1. \A u \in Tid : th[u].parent \in {t} /\ ~th[u].i_am_detached => u \in {t}
    BY <1>1, <1>2 DEF Tree, Linked
  <2>2. th[t].parent \in {t} \cup {p} \cup {Nil}
    OBVIOUS
  <2> HIDE DEF tg
  <2>3. QED
    BY <1>9, <1>10, <1>11, <2>1, <2>2 DEF UsualCut
<1>13. QED
  BY <1>1, <1>3, <1>8, <1>12

\* The thread t and those below it.
LEMMA Below ==
  ASSUME NEW th \in Threads, Tree(th), NEW t \in Tid, ~Dead(th[t]), NEW D, D = Descendants(th, t)
  PROVE  /\ D \in SUBSET Tid /\ t \in D
         /\ \A u \in D : ~Dead(th[u]) /\ (u # t => th[u].parent \in D /\ ~th[u].i_am_detached)
         /\ \A u \in Tid : th[u].parent \in D /\ ~th[u].i_am_detached => u \in D
         /\ th[t].parent \notin D
         /\ th[t].parent # Nil => th[th[t].parent].parent \notin D
<1>1. D \in SUBSET Tid /\ t \in D
  BY DEF Descendants
<1>2. ASSUME NEW v \in D, NEW c \in th[v].children PROVE c \in D
  <2>1. c \in Tid
    BY <1>1, TreeFacts
  <2>2. SUFFICES ASSUME NEW S \in SUBSET Tid, t \in S, \A w \in S : th[w].children \subseteq S
                 PROVE  c \in S
    BY <2>1 DEF Descendants
  <2>3. v \in S
    BY <2>2 DEF Descendants
  <2>4. QED
    BY <2>2, <2>3
<1>3. PICK S \in SUBSET Tid :
        S = {u \in D : ~Dead(th[u]) /\ (u # t => th[u].parent \in D /\ ~th[u].i_am_detached)}
  BY <1>1
<1>4. ASSUME NEW v \in S, NEW c \in th[v].children PROVE c \in S
  <2>1. c \in Tid /\ th[c].parent = v /\ ~th[c].i_am_detached
    BY TreeFacts
  <2>2. c \in D /\ v \in D
    BY <1>2, <1>3
  <2>3. ~Dead(th[c])
    BY <2>1, TreeFacts, ThreadsAssumption
  <2>4. QED
    BY <1>3, <2>1, <2>2, <2>3
<1>5. D \subseteq S
  <2>1. t \in S /\ \A w \in S : th[w].children \subseteq S
    BY <1>1, <1>3, <1>4
  <2>2. QED
    BY <2>1 DEF Descendants
<1>6. \A u \in D : ~Dead(th[u]) /\ (u # t => th[u].parent \in D /\ ~th[u].i_am_detached)
  BY <1>3, <1>5
<1>7. ASSUME NEW u \in Tid, th[u].parent \in D, ~th[u].i_am_detached PROVE u \in D
  <2>1. PICK v \in D : v = th[u].parent
    BY <1>7
  <2>2. u \in th[v].children
    BY <1>1, <1>6, <1>7, <2>1 DEF Tree, Linked
  <2>3. QED
    BY <1>2, <2>2
<1>8. th[t].parent \notin D
  BY <1>1, <1>6 DEF Tree, Founded
<1>9. ASSUME th[t].parent # Nil, th[th[t].parent].parent \in D PROVE FALSE
  <2>1. PICK p \in Tid : p = th[t].parent
    BY <1>9, TreeFacts
  <2>2. \E u \in D \cup {p} : th[u].parent \notin D \cup {p}
    BY <1>1, <2>1 DEF Tree, Founded
  <2>3. QED
    BY <1>6, <1>9, <2>1, <2>2
<1>10. QED
  BY <1>1, <1>6, <1>7, <1>8, <1>9

\* The first half of do_disable.
LEMMA TurnOffShape ==
  ASSUME NEW th \in Threads, Tree(th), NEW t \in Tid, ~Dead(th[t]), NEW D, D = Descendants(th, t)
  PROVE  /\ TurnOff(th, t) \in Threads /\ TurnOff(th, t)[t] = Off(th[t])
         /\ \A u \in D \ {t} : TurnOff(th, t)[u] = ReleaseIfIdle(Unlinked(Off(th[u])))
         /\ \A u \in Tid \ D : Usual(th, TurnOff(th, t), u, D \ {t})
<1> DEFINE off == TurnOff(th, t)
<1>1. D \in SUBSET Tid /\ t \in D /\ \A u \in D : ~Dead(th[u])
  BY Below
<1>2. ASSUME NEW u \in Tid
      PROVE  (\E v \in D \ {t} : u \in th[v].detached_children) <=> Lost(th[u], D \ {t})
  BY <1>1 DEF Tree, Linked, Lost
<1>3. off[t] = Off(th[t])
  BY DEF TurnOff
<1>4. \A u \in D \ {t} : off[u] = ReleaseIfIdle(Unlinked(Off(th[u])))
  BY <1>1 DEF TurnOff
<1>5. ASSUME NEW u \in Tid \ D PROVE Usual(th, off, u, D \ {t})
  <2>1. u # t /\ u \notin D \ {t}
    BY <1>1, <1>5
  <2>2. PICK B : B = D \ {t}
    OBVIOUS
  <2>3. off[u] = CASE u = t -> Off(th[t])
          [] u \in B -> ReleaseIfIdle(Unlinked(Off(th[u])))
          [] u \notin B \cup {t} /\ (\E v \in B : u \in th[v].detached_children) ->
               Orphan(th[u])
          [] OTHER -> th[u]
    BY <1>5, <2>2 DEF TurnOff
  <2>4. (Lost(th[u], B) => off[u] = Orphan(th[u])) /\ (~Lost(th[u], B) => off[u] = th[u])
    BY <1>2, <1>5, <2>1, <2>2, <2>3
  <2>5. QED
    BY <2>2, <2>4 DEF Usual
<1>6. off \in Threads
  BY TurnOffQuiet
<1>7. QED
  BY <1>3, <1>4, <1>5, <1>6

\* A thread that is disabled while its parent does not wait in a %join for it.
LEMMA DisableStays ==
  ASSUME NEW th \in Threads, Tree(th), NEW t \in Tid, ~Dead(th[t]), NEW D, D = Descendants(th, t),
         th[t].parent # Nil, ~th[t].i_am_detached, ~WakesParent(TurnOff(th, t), t)
  PROVE  /\ ~th[th[t].parent].i_am_joining /\ do_disable(th, t)[t] = Off(th[t])
         /\ UsualCut(th, do_disable(th, t), D \ {t}, D \ {t}, {t})
<1>1. PICK B \in SUBSET Tid : B = D \ {t}
  <2>1. D \in SUBSET Tid
    BY Below
  <2>2. QED
    BY <2>1
<1>2. PICK off \in Threads : off = TurnOff(th, t)
  BY TurnOffShape
<1>3. PICK p \in Tid : p = th[t].parent
  BY TreeFacts
<1>4. /\ off[t] = Off(th[t]) /\ (\A u \in B : off[u] = ReleaseIfIdle(Unlinked(Off(th[u]))))
      /\ \A u \in Tid \ D : Usual(th, off, u, B)
  BY <1>1, <1>2, TurnOffShape
<1>5. do_disable(th, t) = off
  BY <1>2 DEF do_disable
<1>6. PICK r \in Thread : r = th[t]
  BY TreeFacts
<1>7. /\ p \notin D /\ th[p].parent \notin D /\ D \in SUBSET Tid /\ t \in D
      /\ \A u \in B : th[u].parent \in D /\ ~th[u].i_am_detached
      /\ \A u \in Tid : th[u].parent \in D /\ ~th[u].i_am_detached => u \in D
  BY <1>1, <1>3, Below
<1>8. off[p] = th[p]
  BY <1>1, <1>4, <1>7 DEF Usual, Lost
<1>9. ~th[p].i_am_joining
  <2>1. off[t].parent = p
    BY <1>3, <1>4, <1>6, OffFields
  <2>2. QED
    BY <1>2, <1>3, <1>8, <2>1 DEF WakesParent
<1>10. \A u \in B : CutOff(off[u])
  <2>1. \A u \in B : th[u] \in Thread /\ Fit(th[u])
    BY TreeFacts
  <2>2. QED
    BY <1>4, <2>1, ReapedCutOff
<1>11. Special(th, off, t, B, B)
  <2>1. r.children \ B = {}
    <3>1. \A c \in r.children : c \in D /\ c # t
      BY <1>6, <1>7, TreeFacts
    <3>2. QED
      BY <1>1, <3>1
  <2>2. r.detached_children \ B = r.detached_children
    BY <1>1, <1>6, <1>7, TreeFacts
  <2>3. ~Lost(r, B)
    BY <1>1, <1>3, <1>6, <1>7 DEF Lost
  <2>4. PICK x \in Thread : x = Off(r)
    BY OffFields
  <2>5. /\ x.pc = "null" /\ ~x.in_scope /\ x.i_have_ended /\ x.children = {}
        /\ x.status = r.status /\ x.parent_scope = r.parent_scope /\ x.parent = r.parent
        /\ x.detached_children = r.detached_children /\ x.i_am_detached = r.i_am_detached
    BY <2>4, OffFields
  <2>6. Keeps(r, x, B, B)
    <3>1. Stays(r, x)
      BY <2>4, OffFields DEF Stays
    <3>2. QED
      BY <1>3, <1>6, <2>1, <2>3, <2>5, <3>1 DEF Keeps
  <2>7. QED
    BY <1>1, <1>4, <1>6, <2>2, <2>4, <2>5, <2>6 DEF Special
<1>12. UsualCut(th, off, B, B, {t})
  <2>1. \A u \in Tid : th[u].parent \in B /\ ~th[u].i_am_detached => u \in B
    BY <1>1, <1>3, <1>7
  <2>2. \A u \in B : th[u].parent \in B \cup {t} \cup {Nil}
    BY <1>1, <1>7
  <2>3. \A u \in Tid \ (B \cup {t}) : Usual(th, off, u, B)
    BY <1>1, <1>4
  <2>4. \A u \in Tid \ (B \cup {t}) : t \in th[u].children => ~th[u].i_am_joining
    BY <1>3, <1>9, TreeFacts
  <2>5. QED
    BY <1>10, <1>11, <2>1, <2>2, <2>3, <2>4 DEF UsualCut
<1>13. QED
  BY <1>1, <1>3, <1>4, <1>5, <1>9, <1>12

\* A thread that waits in a %join and is woken up, when its child t goes.
Awakened(r, t) == [r EXCEPT !.i_am_joining = FALSE, !.is_scheduled = TRUE, !.children = r.children \ {t}]

LEMMA AwakenedFields ==
  ASSUME NEW r \in Thread, NEW t \in Tid, NEW x, x = Awakened(r, t)
  PROVE  /\ x \in Thread /\ ~x.i_am_joining /\ x.is_scheduled /\ x.children = r.children \ {t}
         /\ x.status = r.status /\ x.parent_scope = r.parent_scope /\ x.in_scope = r.in_scope
         /\ x.pc = r.pc /\ x.parent = r.parent /\ x.detached_children = r.detached_children
         /\ x.i_am_detached = r.i_am_detached /\ x.i_am_waiting = r.i_am_waiting
         /\ x.i_have_ended = r.i_have_ended /\ SameStatement(r, x)
         /\ x.i_am_in_function = r.i_am_in_function
<1>1. PICK S \in SUBSET Tid : S = r.children \ {t}
  BY DEF Thread
<1>2. x = [r EXCEPT !.i_am_joining = FALSE, !.is_scheduled = TRUE, !.children = S]
  BY <1>1 DEF Awakened
<1>3. /\ x \in Thread /\ ~x.i_am_joining /\ x.is_scheduled /\ x.children = S
      /\ x.status = r.status /\ x.parent_scope = r.parent_scope /\ x.in_scope = r.in_scope
      /\ x.pc = r.pc /\ x.parent = r.parent /\ x.detached_children = r.detached_children
      /\ x.i_am_detached = r.i_am_detached /\ x.i_am_waiting = r.i_am_waiting
      /\ x.i_have_ended = r.i_have_ended /\ x.i_am_in_function = r.i_am_in_function
  BY <1>2 DEF Thread
<1>4. SameStatement(r, x)
  BY <1>2 DEF Thread, SameStatement
<1>5. QED
  BY <1>1, <1>3, <1>4

LEMMA AwakenedSpecial ==
  ASSUME NEW th \in Threads, NEW tg \in Threads, NEW p \in Tid, NEW t \in Tid, NEW X \in SUBSET Tid,
         t \in X, p \notin X, ~Lost(th[p], X), th[p].status = "alive", th[p].children \cap X \subseteq {t},
         th[p].detached_children \cap X = {}, tg[p] = Awakened(th[p], t)
  PROVE  Special(th, tg, p, X, X)
<1>1. PICK r \in Thread : r = th[p]
  BY DEF Threads
<1>2. PICK x \in Thread : x = Awakened(r, t)
  BY AwakenedFields
<1>3. r.children \ {t} = r.children \ X /\ r.detached_children \ X = r.detached_children
  BY <1>1
<1>4. Keeps(r, x, X, X)
  <2>1. ~Lost(r, X)
    BY <1>1
  <2>2. /\ x.children = r.children \ X
        /\ x.status = r.status /\ x.parent_scope = r.parent_scope /\ x.in_scope = r.in_scope
        /\ x.pc = r.pc /\ x.parent = r.parent
        /\ x.i_am_detached = r.i_am_detached /\ x.i_have_ended = r.i_have_ended
    BY <1>2, <1>3, AwakenedFields
  <2>3. Stays(r, x)
    BY <1>1, <1>2, AwakenedFields DEF Stays
  <2>4. QED
    BY <2>1, <2>2, <2>3 DEF Keeps
<1>5. x.detached_children = r.detached_children
  BY <1>2, AwakenedFields
<1>6. QED
  BY <1>1, <1>2, <1>3, <1>4, <1>5 DEF Special

\* A thread that is disabled and reaped.
LEMMA DisableReaps ==
  ASSUME NEW th \in Threads, Tree(th), NEW t \in Tid, ~Dead(th[t]), NEW D, D = Descendants(th, t),
         NEW p, p = th[t].parent, p # Nil => ~th[t].i_am_detached,
         p = Nil \/ WakesParent(TurnOff(th, t), t)
  PROVE  \/ /\ p = Nil /\ UsualCut(th, do_disable(th, t), D, D, {})
         \/ /\ p \in Tid /\ p \notin D /\ th[p].i_am_joining /\ t \in th[p].children
            /\ do_disable(th, t)[p] = Awakened(th[p], t)
            /\ UsualCut(th, do_disable(th, t), D, D, {p})
<1> DEFINE tg == do_disable(th, t)
<1>1. PICK B \in SUBSET Tid : B = D \ {t}
  <2>1. D \in SUBSET Tid
    BY Below
  <2>2. QED
    BY <2>1
<1>2. PICK off \in Threads : off = TurnOff(th, t)
  BY TurnOffShape
<1>3. /\ off[t] = Off(th[t]) /\ (\A u \in B : off[u] = ReleaseIfIdle(Unlinked(Off(th[u]))))
      /\ \A u \in Tid \ D : Usual(th, off, u, B)
  BY <1>1, <1>2, TurnOffShape
<1>4. PICK r \in Thread : r = th[t]
  BY TreeFacts
<1>5. /\ p \notin D /\ (p # Nil => th[p].parent \notin D) /\ D \in SUBSET Tid /\ t \in D
      /\ \A u \in B : th[u].parent \in D /\ ~th[u].i_am_detached
      /\ \A u \in Tid : th[u].parent \in D /\ ~th[u].i_am_detached => u \in D
  BY <1>1, Below
<1>6. /\ off[t] \in Thread /\ off[t].parent = p /\ off[t].children = {}
      /\ off[t].detached_children = r.detached_children /\ off[t].i_am_detached = r.i_am_detached
      /\ off[t].i_have_ended
  BY <1>3, <1>4, OffFields
<1>7. \A u \in Tid : u \in r.detached_children <=> Lost(th[u], {t})
  BY <1>4 DEF Tree, Linked, Lost
<1>8. \A u \in B : u \notin r.detached_children
  BY <1>5, <1>7 DEF Lost
<1>9. \A u \in Tid : Lost(th[u], D) <=> Lost(th[u], B) \/ u \in r.detached_children
  BY <1>1, <1>5, <1>7 DEF Lost
<1>10. \A u \in Tid : ~(Lost(th[u], B) /\ u \in r.detached_children)
  BY <1>1, <1>7 DEF Lost
<1>11. ASSUME NEW up \in Threads, tg = vthread_reap(up, t), up[t] = off[t],
              \A u \in Tid : u # p => up[u] = off[u]
       PROVE  /\ \A u \in D : CutOff(tg[u])
              /\ \A u \in Tid \ D : u # p => Usual(th, tg, u, D)
  <2>1. up[t].children = {} /\ up[t].detached_children = r.detached_children /\ up[t].parent = p
    BY <1>6, <1>11
  <2>2. CutOff(tg[t])
    <3>1. tg[t] = ReleaseIfIdle(Unlinked(up[t]))
      BY <1>11 DEF vthread_reap
    <3>2. Fit(off[t])
      BY <1>3, <1>4, TreeFacts, FitKept
    <3>3. QED
      BY <1>6, <1>11, <3>1, <3>2, ReapedCutOff
  <2>3. ASSUME NEW u \in Tid, u # t, u # p
        PROVE  /\ u \in r.detached_children => tg[u] = Orphan(off[u])
               /\ u \notin r.detached_children => tg[u] = off[u]
    BY <1>11, <2>1, <2>3 DEF vthread_reap
  <2> HIDE DEF tg
  <2>4. ASSUME NEW u \in B PROVE CutOff(tg[u])
    <3>1. u # t /\ u # p /\ u \notin r.detached_children /\ u \in Tid
      BY <1>1, <1>5, <1>8
    <3>2. tg[u] = ReleaseIfIdle(Unlinked(Off(th[u])))
      BY <1>3, <2>3, <3>1
    <3>3. th[u] \in Thread /\ Fit(th[u])
      BY <3>1, TreeFacts
    <3>4. QED
      BY <3>2, <3>3, ReapedCutOff
  <2>5. ASSUME NEW u \in Tid \ D, u # p PROVE Usual(th, tg, u, D)
    <3>1. u # t
      BY <1>5
    <3>2. CASE u \in r.detached_children
      <4>1. off[u] = th[u]
        BY <1>3, <1>10, <3>2 DEF Usual
      <4>2. QED
        BY <1>9, <2>3, <2>5, <3>1, <3>2, <4>1 DEF Usual
    <3>3. CASE u \notin r.detached_children
      BY <1>3, <1>9, <2>3, <2>5, <3>1, <3>3 DEF Usual
    <3>4. QED
      BY <3>2, <3>3
  <2>6. \A u \in D : u = t \/ u \in B
    BY <1>1
  <2>7. QED
    BY <2>2, <2>4, <2>5, <2>6
<1>12. CASE p = Nil
  <2>1. tg = vthread_reap(off, t)
    BY <1>2, <1>6, <1>12 DEF do_disable, WakesParent
  <2>2. /\ \A u \in D : CutOff(tg[u])
        /\ \A u \in Tid \ D : u # p => Usual(th, tg, u, D)
    BY <1>11, <2>1
  <2> HIDE DEF tg
  <2>3. \A u \in D : th[u].parent \in D \cup {} \cup {Nil}
    BY <1>1, <1>5, <1>12
  <2>4. UsualCut(th, tg, D, D, {})
    BY <1>5, <1>12, <2>2, <2>3, ThreadsAssumption DEF UsualCut
  <2>5. QED
    BY <1>12, <2>4 DEF tg
<1>13. CASE p # Nil
  <2>1. p \in Tid /\ ~Dead(th[p])
    BY <1>13, TreeFacts
  <2>2. ~r.i_am_detached
    BY <1>4, <1>13
  <2>3. ~Lost(th[p], D) /\ ~Lost(th[p], B) /\ p \notin r.detached_children
    BY <1>5, <1>9, <1>13, <2>1 DEF Lost
  <2>4. off[p] = th[p]
    BY <1>3, <1>5, <2>1, <2>3 DEF Usual
  <2>5. th[p].i_am_joining /\ WakesParent(off, t)
    BY <1>2, <1>6, <1>13, <2>4 DEF WakesParent
  <2>6. t \in th[p].children /\ ~th[p].i_have_ended
    <3>1. t \in th[p].children
      BY <1>4, <2>1, <2>2 DEF Tree, Linked
    <3>2. Sound(th[p]) /\ th[p].pc # "null"
      BY <2>1, <3>1, TreeFacts
    <3>3. th[p].status = "alive"
      BY <2>1 DEF Dead
    <3>4. QED
      BY <3>1, <3>2, <3>3 DEF Sound
  <2>7. PICK q \in Thread : q = th[p]
    BY <2>1, TreeFacts
  <2>8. PICK w \in Thread : w = [q EXCEPT !.i_am_joining = FALSE, !.is_scheduled = TRUE]
    BY DEF Thread
  <2>9. PICK up \in Threads : up = [off EXCEPT ![p] = w]
    BY <2>1 DEF Threads
  <2>10. [off EXCEPT ![p].i_am_joining = FALSE, ![p].is_scheduled = @ \/ ~off[p].i_have_ended] = up
    BY <2>1, <2>4, <2>6, <2>7, <2>8, <2>9 DEF Threads
  <2>11. tg = vthread_reap(up, t)
    BY <1>2, <2>5, <2>10 DEF do_disable
  <2>12. up[p] = w /\ \A u \in Tid : u # p => up[u] = off[u]
    BY <2>1, <2>9 DEF Threads
  <2>13. up[t] = off[t]
    BY <1>5, <2>12
  <2>14. /\ \A u \in D : CutOff(tg[u])
         /\ \A u \in Tid \ D : u # p => Usual(th, tg, u, D)
    BY <1>11, <2>11, <2>12, <2>13
  <2>15. tg[p] = Awakened(th[p], t)
    <3>1. tg[p] = [w EXCEPT !.children = @ \ {t}]
      <4>1. /\ p # t /\ up[t].parent = p /\ up[t].children = {} /\ ~up[t].i_am_detached
            /\ p \notin up[t].detached_children
        BY <1>4, <1>5, <1>6, <2>2, <2>3, <2>13
      <4>2. vthread_reap(up, t)[p] = [up[p] EXCEPT !.children = @ \ {t}]
        BY <2>1, <4>1 DEF vthread_reap
      <4>3. QED
        BY <2>11, <2>12, <4>2
    <3>2. [w EXCEPT !.children = @ \ {t}] = Awakened(q, t)
      BY <2>8 DEF Awakened, Thread
    <3>3. QED
      BY <2>7, <3>1, <3>2
  <2>16. tg \in Threads
    BY <2>11, ReapQuiet
  <2> HIDE DEF tg
  <2>17. Special(th, tg, p, D, D)
    <3>1. th[p].children \cap D \subseteq {t}
      BY <1>1, <1>5, <2>1, TreeFacts
    <3>2. th[p].detached_children \cap D = {}
      BY <1>1, <1>4, <1>5, <2>1, <2>2, TreeFacts
    <3>3. th[p].status = "alive"
      BY <2>1 DEF Dead
    <3>4. QED
      BY <1>5, <2>1, <2>3, <2>15, <2>16, <3>1, <3>2, <3>3, AwakenedSpecial
  <2>18. tg[p].i_have_ended = th[p].i_have_ended
    BY <2>7, <2>15, AwakenedFields
  <2>19. \A u \in D : th[u].parent \in D \cup {p} \cup {Nil}
    BY <1>1, <1>5
  <2>20. UsualCut(th, tg, D, D, {p})
    BY <1>5, <2>6, <2>14, <2>17, <2>18, <2>19 DEF UsualCut
  <2>21. QED
    BY <1>5, <2>1, <2>5, <2>6, <2>15, <2>20 DEF tg
<1>14. QED
  BY <1>12, <1>13

\* A step after which the threads in X are cut off, those in E are as they
\* should, and the others are as usual.
UsualStep(th, tg, X, Y, E, K, C, T, K2, C2, T2) ==
  /\ UsualCut(th, tg, X, Y, E)
  /\ \A u \in Tid \ (X \cup E) : CallsSame(u, K, C, T, K2, C2, T2)
  /\ \A u \in E \ X : Held(tg, u, K2, C2, T2)

LEMMA UsualFamily ==
  ASSUME NEW th \in Threads, NEW tg \in Threads, NEW X \in SUBSET Tid, NEW Y \in SUBSET Tid,
         NEW E \in SUBSET Tid, NEW K, NEW C, NEW T, NEW K2, NEW C2, NEW T2,
         FamilyOf(th, K, C, T), UsualStep(th, tg, X, Y, E, K, C, T, K2, C2, T2)
  PROVE  FamilyOf(tg, K2, C2, T2) /\ Cut(th, tg, X, Y)
<1>1. UsualCut(th, tg, X, Y, E) /\ Tree(th)
  BY DEF UsualStep, FamilyOf
<1>2. Cut(th, tg, X, Y) /\ \A u \in Tid \ (X \cup E) : Ordinary(th, tg, u, X)
  BY <1>1, CutUsual
<1>3. \A u \in Tid \ (X \cup E) : Ordinary(th, tg, u, X) /\ CallsSame(u, K, C, T, K2, C2, T2)
  BY <1>2 DEF UsualStep
<1>4. \A u \in E \ X : Held(tg, u, K2, C2, T2)
  BY DEF UsualStep
<1>5. FamilyOf(tg, K2, C2, T2)
  BY <1>2, <1>3, <1>4, CutFamily
<1>6. QED
  BY <1>2, <1>5

\* A thread that waits in a %join is in no call, and waits for nothing else.
JoinsAlone(th, K) ==
  \A u \in Tid : th[u].i_am_joining => ~th[u].i_am_waiting /\ \A c \in Tid : <<u, c>> \notin K

LEMMA AwakenedHeld ==
  ASSUME NEW th \in Threads, NEW tg \in Threads, NEW K, NEW C, NEW T, NEW C2, NEW T2,
         FamilyOf(th, K, C, T), JoinsAlone(th, K),
         NEW p \in Tid, NEW t \in Tid, th[p].i_am_joining, t \in th[p].children,
         tg[p] = Awakened(th[p], t),
         \A c \in th[p].children : c # t => tg[c].parent_scope = th[c].parent_scope
  PROVE  Held(tg, p, K, C2, T2)
<1>1. PICK r \in Thread : r = th[p]
  BY DEF Threads
<1>2. PICK x \in Thread : x = tg[p] /\ x = Awakened(r, t)
  BY <1>1 DEF Threads
<1>3. /\ ~x.i_am_joining /\ x.is_scheduled /\ x.children = r.children \ {t}
      /\ x.status = r.status /\ x.pc = r.pc /\ x.i_am_waiting = r.i_am_waiting
      /\ x.scope = r.scope /\ x.forks = r.forks /\ x.joins = r.joins /\ x.detach = r.detach
  BY <1>2, AwakenedFields DEF SameStatement
<1>4. ~r.i_am_waiting /\ \A c \in Tid : <<p, c>> \notin K
  BY <1>1 DEF JoinsAlone
<1>5. StatementOf(tg, p, K)
  <2> SUFFICES ASSUME x.pc = "code" PROVE StatementOf(tg, p, K)
    BY <1>2 DEF StatementOf
  <2>1. StatementOf(th, p, K) /\ r.pc = "code"
    BY <1>3 DEF FamilyOf, Statements
  <2>2. Cardinality(r.children) + r.forks = r.joins + r.detach + 1
    BY <1>1, <1>4, <2>1 DEF StatementOf
  <2>3. IsFiniteSet(r.children) /\ Cardinality(r.children \ {t}) = Cardinality(r.children) - 1
    <3>1. IsFiniteSet(r.children)
      BY ThreadsAssumption, FS_Subset DEF Thread
    <3>2. QED
      BY <1>1, <3>1, FS_RemoveElement
  <2>4. PICK m \in Nat, n \in Nat : m = Cardinality(r.children) /\ n = Cardinality(x.children) /\ n = m - 1
    <3>1. IsFiniteSet(x.children)
      BY <1>3, <2>3, FS_Subset
    <3>2. QED
      BY <1>3, <2>3, <3>1, FS_CardinalityType
  <2>5. n + x.forks = x.joins + x.detach
    <3>1. r.forks \in Nat /\ r.joins \in Nat /\ r.detach \in Nat
      BY DEF Thread
    <3>2. QED
      BY <1>3, <2>2, <2>4, <3>1
  <2>6. x.detach > 0 => Detachable(x.scope) /\ \A c \in x.children : Detachable(tg[c].parent_scope)
    BY <1>1, <1>3, <2>1 DEF StatementOf
  <2>7. QED
    <3>1. Cardinality(x.children) + x.forks = x.joins + x.detach + 0
      <4>1. x.joins \in Nat /\ x.detach \in Nat
        BY DEF Thread
      <4>2. QED
        BY <2>4, <2>5, <4>1
    <3>2. QED
      BY <1>2, <1>3, <1>4, <2>6, <3>1 DEF StatementOf
<1>6. WaitOf(tg[p]) /\ CaredOf(tg, p, C2, T2)
  BY <1>2, <1>3, <1>4 DEF WaitOf, CaredOf
<1>7. QED
  BY <1>5, <1>6 DEF Held

\* What is certain of the threads that are disabled, and of those that are not.
TurnedOff(tg, D) == \A u \in D : CutOff(tg[u]) \/ (tg[u].pc = "null" /\ tg[u].parent # Nil)

OthersStay(th, tg, D) ==
  \A u \in Tid \ D :
    /\ tg[u].status = th[u].status
    /\ th[u].pc = "null" => tg[u].pc = "null" /\ tg[u].parent = th[u].parent

\* do_disable of the thread t; the innermost call may return afterwards if it is
\* one of the threads that are disabled.
LEMMA DisableFamily ==
  ASSUME NEW th \in Threads, NEW K, NEW C, NEW T, FamilyOf(th, K, C, T), JoinsAlone(th, K),
         NEW t \in Tid, ~Dead(th[t]), th[t].parent # Nil => ~th[t].i_am_detached,
         NEW D, D = Descendants(th, t), NEW tg, tg = do_disable(th, t), NEW C2, NEW T2,
         \A u \in Tid \ D : (u \in C => u \in C2) /\ (u \in T => u \in T2)
  PROVE  /\ FamilyOf(tg, K, C2, T2)
         /\ TurnedOff(tg, D)
         /\ OthersStay(th, tg, D)
<1>1. tg \in Threads
  BY DisableEffect
<1>2. PICK p : p = th[t].parent
  OBVIOUS
<1>3. Tree(th)
  BY DEF FamilyOf
<1>4. D \in SUBSET Tid /\ t \in D /\ \A u \in Tid : u \in D => ~Dead(th[u])
  BY <1>3, Below
<1>5. ASSUME NEW X \in SUBSET D, Cut(th, tg, X, X), t \notin X => tg[t] = Off(th[t])
      PROVE  OthersStay(th, tg, D)
  <2> SUFFICES ASSUME NEW u \in Tid \ D
               PROVE  /\ tg[u].status = th[u].status
                      /\ th[u].pc = "null" => tg[u].pc = "null" /\ tg[u].parent = th[u].parent
    BY DEF OthersStay
  <2>1. Keeps(th[u], tg[u], X, X) /\ Sound(th[u]) /\ Nil \notin X
    BY <1>3, <1>4, <1>5, ThreadsAssumption DEF Cut, Tree
  <2>2. th[u].pc = "null" => ~Lost(th[u], X)
    BY <2>1 DEF Sound, Lost
  <2>3. QED
    BY <2>1, <2>2 DEF Keeps
<1>6. CASE p # Nil /\ ~WakesParent(TurnOff(th, t), t)
  <2>1. PICK X \in SUBSET D : X = D \ {t}
    OBVIOUS
  <2>2. tg[t] = Off(th[t]) /\ UsualCut(th, tg, X, X, {t})
    BY <1>2, <1>3, <1>6, <2>1, DisableStays
  <2>3. X \in SUBSET Tid /\ {t} \in SUBSET Tid
    BY <1>4
  <2>4. Cut(th, tg, X, X) /\ \A u \in Tid \ (X \cup {t}) : Ordinary(th, tg, u, X)
    BY <1>1, <1>3, <2>2, <2>3, CutUsual
  <2>5. tg[t].pc = "null" /\ tg[t].parent # Nil /\ tg[t].i_have_ended
    BY <1>2, <1>3, <1>6, <2>2, OffFields, TreeFacts
  <2>6. Held(tg, t, K, C2, T2)
    BY <2>5 DEF Held, StatementOf, WaitOf, CaredOf
  <2>7. \A u \in Tid \ (X \cup {t}) : CallsSame(u, K, C, T, K, C2, T2)
    BY <2>1 DEF CallsSame
  <2>8. FamilyOf(tg, K, C2, T2)
    <3>1. UsualStep(th, tg, X, X, {t}, K, C, T, K, C2, T2)
      BY <2>2, <2>6, <2>7 DEF UsualStep
    <3>2. QED
      BY <1>1, <2>3, <3>1, UsualFamily
  <2>9. TurnedOff(tg, D)
    BY <2>1, <2>4, <2>5 DEF Cut, TurnedOff
  <2>10. OthersStay(th, tg, D)
    BY <1>5, <2>2, <2>4
  <2>11. QED
    BY <2>8, <2>9, <2>10
<1>7. CASE p = Nil \/ WakesParent(TurnOff(th, t), t)
  <2>1. \/ p = Nil /\ UsualCut(th, tg, D, D, {})
        \/ /\ p \in Tid /\ p \notin D /\ th[p].i_am_joining /\ t \in th[p].children
           /\ tg[p] = Awakened(th[p], t)
           /\ UsualCut(th, tg, D, D, {p})
    BY <1>2, <1>3, <1>7, DisableReaps
  <2>2. PICK E \in SUBSET Tid :
          /\ UsualCut(th, tg, D, D, E)
          /\ \A u \in E : /\ u = p /\ p \notin D /\ th[p].i_am_joining /\ t \in th[p].children
                          /\ tg[p] = Awakened(th[p], t)
    <3>1. CASE p = Nil /\ UsualCut(th, tg, D, D, {})
      BY <3>1
    <3>2. CASE /\ p \in Tid /\ p \notin D /\ th[p].i_am_joining /\ t \in th[p].children
               /\ tg[p] = Awakened(th[p], t) /\ UsualCut(th, tg, D, D, {p})
      <4>1. {p} \in SUBSET Tid
        BY <3>2
      <4>2. QED
        BY <3>2, <4>1
    <3>3. QED
      BY <2>1, <3>1, <3>2
  <2>3. Cut(th, tg, D, D) /\ \A u \in Tid \ (D \cup E) : Ordinary(th, tg, u, D)
    BY <1>1, <1>3, <1>4, <2>2, CutUsual
  <2>4. ASSUME NEW u \in E PROVE Held(tg, u, K, C2, T2)
    <3>1. /\ p \in Tid /\ th[p].i_am_joining /\ t \in th[p].children
          /\ tg[p] = Awakened(th[p], t) /\ u = p /\ p \notin D
      BY <2>2, <2>4
    <3>2. ASSUME NEW c \in th[p].children, c # t PROVE tg[c].parent_scope = th[c].parent_scope
      <4>1. c \in Tid /\ th[c].parent = p
        BY <1>3, <3>1, <3>2, TreeFacts
      <4>2. c \notin D
        BY <1>3, <3>1, <3>2, <4>1, Below
      <4>3. QED
        BY <2>3, <4>1, <4>2 DEF Cut, Keeps
    <3>3. QED
      BY <1>1, <3>1, <3>2, AwakenedHeld
  <2>5. \A u \in Tid \ (D \cup E) : CallsSame(u, K, C, T, K, C2, T2)
    BY DEF CallsSame
  <2>6. FamilyOf(tg, K, C2, T2)
    <3>1. UsualStep(th, tg, D, D, E, K, C, T, K, C2, T2)
      BY <2>2, <2>4, <2>5 DEF UsualStep
    <3>2. QED
      BY <1>1, <1>4, <3>1, UsualFamily
  <2>7. TurnedOff(tg, D)
    BY <2>3 DEF Cut, TurnedOff
  <2>8. OthersStay(th, tg, D)
    <3>1. D \in SUBSET D
      OBVIOUS
    <3>2. QED
      BY <1>4, <1>5, <2>3, <3>1
  <2>9. QED
    BY <2>6, <2>7, <2>8
<1>8. QED
  BY <1>6, <1>7

-----------------------------------------------------------------------------
(***************************************************************************)
(* The invariant behind Family, Balanced, WaitsCanEnd and NoneForgotten.   *)
(***************************************************************************)

\* The thread that executes %disable is the innermost one, and once it has been
\* disabled itself it is gone or waits for its parent.
DisablingHolds ==
  disabling # Nil =>
    /\ disabling.match = stack[1].thr
    /\ Disablable(disabling.scope)
    /\ disabling.myself =>
         \/ thread[stack[1].thr].status # "alive"
         \/ thread[stack[1].thr].pc = "null" /\ thread[stack[1].thr].parent # Nil

\* Only an event runs a list of threads.
CallsAlone == \A i \in DOMAIN stack : stack[i].call # "event" => stack[i].rest = << >>

FamilyInv ==
  ~failed => FamilyOf(thread, Calling, Calls, Tops) /\ DisablingHolds /\ CallsAlone

LEMMA InCalling ==
  \A u, c : <<u, c>> \in Calling <=>
    \E i \in 1..(Len(stack) - 1) : stack[i].call = "callf" /\ stack[i + 1].thr = u /\ stack[i].thr = c
<1> SUFFICES ASSUME NEW u, NEW c
             PROVE  <<u, c>> \in Calling <=>
                      \E i \in 1..(Len(stack) - 1) :
                        stack[i].call = "callf" /\ stack[i + 1].thr = u /\ stack[i].thr = c
  OBVIOUS
<1>1. ASSUME <<u, c>> \in Calling
      PROVE  \E i \in 1..(Len(stack) - 1) : stack[i].call = "callf" /\ stack[i + 1].thr = u /\ stack[i].thr = c
  BY <1>1 DEF Calling
<1>2. ASSUME NEW i \in 1..(Len(stack) - 1), stack[i].call = "callf", stack[i + 1].thr = u, stack[i].thr = c
      PROVE  <<u, c>> \in Calling
  BY <1>2 DEF Calling
<1>3. QED
  BY <1>1, <1>2

\* Who makes the calls in progress.
LEMMA CallFacts ==
  ASSUME FlagInv
  PROVE  /\ \A u, c \in Tid : <<u, c>> \in Calling => u \in Calls /\ stack # << >> /\ u # stack[1].thr
         /\ Tops \subseteq Calls
         /\ \A u \in Tops : stack # << >> /\ u = stack[1].thr
         /\ JoinsAlone(thread, Calling)
<1>1. /\ DOMAIN stack = 1..Len(stack) /\ Len(stack) \in Nat
      /\ \A i, k \in DOMAIN stack : stack[i].thr = stack[k].thr => i = k
  BY FlagTypes DEF FlagInv, Frames
<1>2. ASSUME NEW u \in Tid, NEW c \in Tid, <<u, c>> \in Calling
      PROVE  u \in Calls /\ stack # << >> /\ u # stack[1].thr
  <2>1. PICK i \in 1..(Len(stack) - 1) : stack[i + 1].thr = u
    BY <1>2, InCalling
  <2>2. i + 1 \in DOMAIN stack /\ 1 \in DOMAIN stack /\ i + 1 # 1
    BY <1>1, <2>1
  <2>3. QED
    BY <1>1, <2>1, <2>2 DEF Calls
<1>3. \A u \in Tops : u \in Calls /\ stack # << >> /\ u = stack[1].thr
  <2>1. stack # << >> => 1 \in DOMAIN stack
    BY <1>1, FlagTypes
  <2>2. QED
    BY <2>1 DEF Tops, Calls
<1>4. ASSUME NEW u \in Tid, thread[u].i_am_joining
      PROVE  ~thread[u].i_am_waiting /\ u \notin Calls
  <2>1. FlagsOf(thread[u], u \in Queued, u \in Mems(waiting), u \in Calls, u \in later)
    BY DEF FlagInv, FlagsHold
  <2>2. QED
    BY <1>4, <2>1, Zenon DEF FlagsOf
<1>5. QED
  BY <1>2, <1>3, <1>4 DEF JoinsAlone

\* What a step does to the calls that does not run another thread.
LEMMA SameCallsSame ==
  ASSUME FlagInv, stack' = stack
  PROVE  /\ Calling' = Calling
         /\ \A u \in Tid : (stack # << >> => u # stack[1].thr) \/ ret' = ret =>
              CallsSame(u, Calling, Calls, Tops, Calling', Calls', Tops')
<1>1. stack' = stack /\ Calling' = Calling
  BY DEF Calling
<1>2. ASSUME NEW u \in Tid, (stack # << >> => u # stack[1].thr) \/ ret' = ret
      PROVE  (u \in Calls => u \in Calls') /\ (u \in Tops => u \in Tops')
  <2>1. CASE ret' = ret
    BY <1>1, <2>1 DEF Calls, Tops
  <2>2. CASE stack # << >> => u # stack[1].thr
    <3>1. u \notin Tops
      BY <2>2 DEF Tops
    <3>2. u \in Calls => u \in Calls'
      BY <1>1, <2>2 DEF Calls
    <3>3. QED
      BY <3>1, <3>2
  <2>3. QED
    BY <1>2, <2>1, <2>2
<1>3. QED
  BY <1>1, <1>2 DEF CallsSame

\* What the family needs of a thread.
SameFamily(r, x) ==
  /\ x.status = r.status /\ x.parent_scope = r.parent_scope /\ x.in_scope = r.in_scope
  /\ x.pc = r.pc /\ x.parent = r.parent /\ x.children = r.children
  /\ x.detached_children = r.detached_children
  /\ x.i_am_detached = r.i_am_detached /\ x.i_have_ended = r.i_have_ended
  /\ Stays(r, x)

LEMMA SpecialSame ==
  ASSUME NEW th \in Threads, NEW tg \in Threads, NEW u \in Tid, SameFamily(th[u], tg[u])
  PROVE  Special(th, tg, u, {}, {}) /\ tg[u].i_have_ended = th[u].i_have_ended
<1>1. Keeps(th[u], tg[u], {}, {})
  <2>1. ~Lost(th[u], {}) /\ th[u].children \ {} = th[u].children
    BY DEF Lost
  <2>2. QED
    BY <2>1 DEF Keeps, SameFamily, Stays
<1>2. QED
  BY <1>1 DEF Special, SameFamily, Stays

\* A step that changes the threads in E, but not the family.
LEMMA SomeChange ==
  ASSUME NEW th \in Threads, NEW tg \in Threads, NEW E \in SUBSET Tid, NEW K, NEW C, NEW T,
         NEW K2, NEW C2, NEW T2, FamilyOf(th, K, C, T),
         \A u \in E : SameFamily(th[u], tg[u]) /\ Held(tg, u, K2, C2, T2),
         \A u \in Tid \ E : tg[u] = th[u] /\ CallsSame(u, K, C, T, K2, C2, T2)
  PROVE  FamilyOf(tg, K2, C2, T2)
<1>1. \A u \in E : Special(th, tg, u, {}, {}) /\ tg[u].i_have_ended = th[u].i_have_ended
  BY SpecialSame
<1>2. \A u \in Tid \ E : Usual(th, tg, u, {})
  BY DEF Usual, Lost
<1>3. UsualCut(th, tg, {}, {}, E)
  BY <1>1, <1>2 DEF UsualCut
<1>4. UsualStep(th, tg, {}, {}, E, K, C, T, K2, C2, T2)
  BY <1>3 DEF UsualStep
<1>5. QED
  BY <1>4, UsualFamily

\* Only the calls change.
LEMMA OtherCalls ==
  ASSUME NEW th \in Threads, NEW K, NEW C, NEW T, NEW K2, NEW C2, NEW T2, FamilyOf(th, K, C, T),
         \A u \in Tid : CallsSame(u, K, C, T, K2, C2, T2)
  PROVE  FamilyOf(th, K2, C2, T2)
<1>1. {} \in SUBSET Tid
  OBVIOUS
<1>2. \A u \in {} : SameFamily(th[u], th[u]) /\ Held(th, u, K2, C2, T2)
  OBVIOUS
<1>3. \A u \in Tid \ {} : th[u] = th[u] /\ CallsSame(u, K, C, T, K2, C2, T2)
  OBVIOUS
<1>4. QED
  BY <1>1, <1>2, <1>3, SomeChange

\* The statement of the thread u, when nothing happens to the family.
LEMMA StatementSame ==
  ASSUME NEW th \in Threads, NEW tg \in Threads, NEW u \in Tid, NEW K, NEW K2, StatementOf(th, u, K),
         \A v \in Tid : SameFamily(th[v], tg[v]),
         SameStatement(th[u], tg[u]), tg[u].i_am_joining = th[u].i_am_joining,
         \A c \in Tid : <<u, c>> \in K2 <=> <<u, c>> \in K
  PROVE  StatementOf(tg, u, K2)
<1>1. /\ tg[u].children = th[u].children /\ tg[u].pc = th[u].pc
      /\ tg[u].scope = th[u].scope /\ tg[u].forks = th[u].forks /\ tg[u].joins = th[u].joins
      /\ tg[u].detach = th[u].detach
  BY DEF SameFamily, SameStatement, Stays
<1>2. \A c \in th[u].children : tg[c].parent_scope = th[c].parent_scope /\ tg[c].i_have_ended = th[c].i_have_ended
  <2>1. th[u].children \subseteq Tid
    BY DEF Threads, Thread
  <2>2. QED
    BY <2>1 DEF SameFamily, Stays
<1>3. (\A c \in Tid : <<u, c>> \notin K2) <=> (\A c \in Tid : <<u, c>> \notin K)
  OBVIOUS
<1> SUFFICES ASSUME th[u].pc = "code" PROVE StatementOf(tg, u, K2)
  BY <1>1 DEF StatementOf
<1>4. (\A c \in Tid : <<u, c>> \notin K2) =>
        Cardinality(tg[u].children) + tg[u].forks
          = tg[u].joins + tg[u].detach + (IF tg[u].i_am_joining THEN 1 ELSE 0)
  BY <1>1, <1>3 DEF StatementOf
<1>5. \A c \in Tid : <<u, c>> \in K2 =>
        tg[u].forks = 0 /\ tg[u].joins = 0 /\ tg[u].detach = 0 /\ tg[u].children = {c}
  BY <1>1 DEF StatementOf
<1>6. /\ tg[u].detach > 0 => Detachable(tg[u].scope) /\ \A c \in tg[u].children : Detachable(tg[c].parent_scope)
      /\ tg[u].i_am_joining => \E c \in tg[u].children : ~tg[c].i_have_ended
  BY <1>1, <1>2 DEF StatementOf
<1>7. QED
  BY <1>4, <1>5, <1>6 DEF StatementOf

-----------------------------------------------------------------------------
(***************************************************************************)
(* The steps of the thread that runs that leave the family as it is.       *)
(***************************************************************************)

LEMMA FamilyNow ==
  ASSUME FlagInv, FamilyInv, ~failed
  PROVE  /\ FamilyOf(thread, Calling, Calls, Tops) /\ DisablingHolds /\ CallsAlone
         /\ thread \in Threads /\ Tree(thread) /\ JoinsAlone(thread, Calling)
         /\ \A u \in Tid : /\ thread[u] \in Thread /\ Sound(thread[u])
                           /\ Held(thread, u, Calling, Calls, Tops)
<1>1. thread \in Threads /\ JoinsAlone(thread, Calling) /\ \A u \in Tid : thread[u] \in Thread
  BY FlagTypes, CallFacts
<1>2. FamilyOf(thread, Calling, Calls, Tops) /\ DisablingHolds /\ CallsAlone
  BY DEF FamilyInv
<1>3. QED
  BY <1>1, <1>2 DEF FamilyOf, Tree, Held, Statements, Waits, Cared

\* The thread whose opcode is executed, in the family.
LEMMA RunsFamily ==
  ASSUME FlagInv, FamilyInv, NEW t, Running(t)
  PROVE  /\ t \in Tid /\ ~failed /\ thread[t] \in Thread /\ Sound(thread[t])
         /\ FamilyOf(thread, Calling, Calls, Tops) /\ Tree(thread) /\ CallsAlone
         /\ ~thread[t].is_scheduled /\ ~thread[t].waiting_for_event
         /\ ~thread[t].i_am_joining /\ ~thread[t].i_am_waiting
         /\ \A c \in Tid : <<t, c>> \notin Calling
         /\ thread[t].pc = "code" => /\ thread[t].status = "alive" /\ ~thread[t].i_have_ended
                                     /\ ~Dead(thread[t])
                                     /\ Cardinality(thread[t].children) + thread[t].forks
                                          = thread[t].joins + thread[t].detach
         /\ stack # << >> /\ stack[1].thr = t /\ ~ret /\ t \in Calls
<1>1. /\ t \in Tid /\ ~thread[t].i_am_joining /\ ~thread[t].i_am_waiting /\ thread[t] \in Thread
      /\ ~thread[t].is_scheduled /\ ~thread[t].waiting_for_event
      /\ stack # << >> /\ stack[1].thr = t /\ ~ret /\ ~failed /\ t \in Calls
  BY Runs DEF Running
<1>2. FamilyOf(thread, Calling, Calls, Tops) /\ Tree(thread) /\ CallsAlone /\ Sound(thread[t])
  BY <1>1, FamilyNow
<1>3. \A c \in Tid : <<t, c>> \notin Calling
  BY <1>1, CallFacts
<1>4. ASSUME thread[t].pc = "code"
      PROVE  /\ thread[t].status = "alive" /\ ~thread[t].i_have_ended /\ ~Dead(thread[t])
             /\ Cardinality(thread[t].children) + thread[t].forks = thread[t].joins + thread[t].detach
  <2>1. thread[t].status = "alive" /\ ~thread[t].i_have_ended /\ ~Dead(thread[t])
    BY <1>2, <1>4 DEF Sound, Dead
  <2>2. StatementOf(thread, t, Calling)
    BY <1>1, <1>2 DEF FamilyOf, Statements
  <2>3. Cardinality(thread[t].children) + thread[t].forks = thread[t].joins + thread[t].detach + 0
    BY <1>1, <1>3, <1>4, <2>2 DEF StatementOf
  <2>4. thread[t].joins \in Nat /\ thread[t].detach \in Nat
    BY <1>1 DEF Thread
  <2>5. QED
    BY <2>1, <2>3, <2>4
<1>5. QED
  BY <1>1, <1>2, <1>3, <1>4

LEMMA RunnerStep ==
  ASSUME FlagInv, FamilyInv, NEW t, Running(t), stack' = stack, disabling' = Nil,
         FamilyOf(thread', Calling', Calls', Tops')
  PROVE  FamilyInv'
<1>1. CallsAlone'
  BY RunsFamily DEF CallsAlone
<1>2. DisablingHolds'
  BY DEF DisablingHolds
<1>3. QED
  BY <1>1, <1>2 DEF FamilyInv

\* The thread t that runs changes, but the family does not.
LEMMA RunnerChanges ==
  ASSUME FlagInv, FamilyInv, NEW t, Running(t), stack' = stack, disabling' = Nil,
         NEW x \in Thread, thread' = [thread EXCEPT ![t] = x], SameFamily(thread[t], x),
         Held(thread', t, Calling, Calls', Tops')
  PROVE  FamilyInv'
<1>1. t \in Tid /\ FamilyOf(thread, Calling, Calls, Tops) /\ stack[1].thr = t /\ stack # << >>
  BY RunsFamily
<1>2. PICK th \in Threads : th = thread
  BY FlagTypes
<1>3. PICK tg \in Threads : tg = thread'
  BY <1>1, <1>2 DEF Threads
<1>4. tg[t] = x /\ \A u \in Tid : u # t => tg[u] = th[u]
  BY <1>1, <1>2, <1>3 DEF Threads
<1>5. Calling' = Calling /\ \A u \in Tid \ {t} : CallsSame(u, Calling, Calls, Tops, Calling, Calls', Tops')
  BY <1>1, SameCallsSame
<1>6. FamilyOf(tg, Calling, Calls', Tops')
  <2>1. {t} \in SUBSET Tid
    BY <1>1
  <2>2. FamilyOf(th, Calling, Calls, Tops)
    BY <1>1, <1>2
  <2>3. \A u \in {t} : SameFamily(th[u], tg[u]) /\ Held(tg, u, Calling, Calls', Tops')
    BY <1>2, <1>3, <1>4
  <2>4. \A u \in Tid \ {t} : tg[u] = th[u] /\ CallsSame(u, Calling, Calls, Tops, Calling, Calls', Tops')
    BY <1>4, <1>5
  <2>5. QED
    BY <2>1, <2>2, <2>3, <2>4, SomeChange
<1>7. QED
  BY <1>3, <1>5, <1>6, RunnerStep

\* The thread t that runs stays in its statement.
LEMMA RunnerSleeps ==
  ASSUME FlagInv, FamilyInv, NEW t, Running(t), stack' = stack, disabling' = Nil,
         NEW x \in Thread, thread' = [thread EXCEPT ![t] = x], SameFamily(thread[t], x),
         SameStatement(thread[t], x), x.i_am_joining = thread[t].i_am_joining, WaitOf(x),
         x.status = "alive" => \/ x.is_scheduled \/ x.waiting_for_event
                               \/ x.pc = "code" /\ (x.i_am_waiting \/ t \in Calls')
  PROVE  FamilyInv'
<1>1. t \in Tid /\ FamilyOf(thread, Calling, Calls, Tops)
  BY RunsFamily
<1>2. PICK th \in Threads : th = thread
  BY FlagTypes
<1>3. PICK tg \in Threads : tg = thread'
  BY <1>1, <1>2 DEF Threads
<1>4. tg[t] = x /\ \A u \in Tid : u # t => tg[u] = th[u]
  BY <1>1, <1>2, <1>3 DEF Threads
<1>5. \A v \in Tid : SameFamily(th[v], tg[v])
  BY <1>2, <1>4 DEF SameFamily, Stays
<1>6. StatementOf(th, t, Calling)
  BY <1>1, <1>2 DEF FamilyOf, Statements
<1>7. StatementOf(tg, t, Calling)
  BY <1>1, <1>2, <1>4, <1>5, <1>6, StatementSame
<1>8. Held(tg, t, Calling, Calls', Tops')
  BY <1>4, <1>7 DEF Held, CaredOf
<1>9. QED
  BY <1>3, <1>8, RunnerChanges

LEMMA FamilySleeps ==
  ASSUME FlagInv, FamilyInv, NEW t, Executes(t), stack' = stack, disabling' = Nil,
         \/ thread' = [thread EXCEPT ![t].is_scheduled = TRUE]
         \/ thread' = [thread EXCEPT ![t].waiting_for_event = TRUE]
         \/ thread' = [thread EXCEPT ![t].i_am_waiting = TRUE] /\ thread[t].detached_children # {}
         \/ thread' = [thread EXCEPT ![t].delay_delete = TRUE] /\ ret' = ret
         \/ thread' = thread /\ ret' = ret
  PROVE  FamilyInv'
<1>1. Running(t) /\ thread[t].pc = "code"
  BY DEF Executes
<1>2. PICK r \in Thread : r = thread[t]
  BY <1>1, RunsFamily
<1>3. /\ t \in Tid /\ r.pc = "code" /\ r.status = "alive" /\ ~r.i_am_waiting
  BY <1>1, <1>2, RunsFamily
<1>4. ret' = ret => t \in Calls'
  <2>1. t \in Calls
    BY <1>1, RunsFamily
  <2>2. QED
    BY <2>1 DEF Calls
<1>5. PICK x : /\ thread' = [thread EXCEPT ![t] = x]
               /\ \/ x = [r EXCEPT !.is_scheduled = TRUE] \/ x = [r EXCEPT !.waiting_for_event = TRUE]
                  \/ x = [r EXCEPT !.i_am_waiting = TRUE] /\ r.detached_children # {}
                  \/ x = [r EXCEPT !.delay_delete = TRUE] /\ ret' = ret
                  \/ x = r /\ ret' = ret
  <2>1. thread = [thread EXCEPT ![t] = r]
    BY <1>2, <1>3, FlagTypes DEF Threads
  <2>2. QED
    BY <1>2, <2>1
<1>6. /\ x \in Thread /\ SameFamily(r, x) /\ SameStatement(r, x) /\ x.i_am_joining = r.i_am_joining
      /\ WaitOf(x)
      /\ \/ x.is_scheduled \/ x.waiting_for_event
         \/ x.pc = "code" /\ (x.i_am_waiting \/ t \in Calls')
  <2>1. CASE x = [r EXCEPT !.is_scheduled = TRUE]
    BY <1>3, <2>1 DEF Thread, SameFamily, SameStatement, WaitOf, Stays
  <2>2. CASE x = [r EXCEPT !.waiting_for_event = TRUE]
    BY <1>3, <2>2 DEF Thread, SameFamily, SameStatement, WaitOf, Stays
  <2>3. CASE x = [r EXCEPT !.i_am_waiting = TRUE] /\ r.detached_children # {}
    BY <1>3, <2>3 DEF Thread, SameFamily, SameStatement, WaitOf, Stays
  <2>4. CASE x = [r EXCEPT !.delay_delete = TRUE] /\ ret' = ret
    BY <1>3, <1>4, <2>4 DEF Thread, SameFamily, SameStatement, WaitOf, Stays
  <2>5. CASE x = r /\ ret' = ret
    BY <1>3, <1>4, <2>5 DEF SameFamily, SameStatement, WaitOf, Stays
  <2>6. QED
    BY <1>5, <2>1, <2>2, <2>3, <2>4, <2>5
<1>7. QED
  BY <1>1, <1>2, <1>5, <1>6, RunnerSleeps

LEMMA SleepsFamily ==
  ASSUME FlagInv, FamilyInv, NEW t,
         \/ of_DELAY(t) \/ of_DELAY0(t) \/ of_JMP(t) \/ of_VPI_CALL(t) \/ of_WAIT_FORK(t)
         \/ \E e \in Events : of_WAIT(t, e)
  PROVE  FamilyInv'
<1>1. CASE of_DELAY(t) \/ of_DELAY0(t)
  BY <1>1, FamilySleeps DEF of_DELAY, of_DELAY0, Reschedule, Does, Idle, Executes, Running
<1>2. CASE of_JMP(t)
  BY <1>2, FamilySleeps DEF of_JMP, Reschedule, Executes, Running
<1>3. CASE of_VPI_CALL(t)
  BY <1>3, FamilySleeps DEF of_VPI_CALL, Reschedule, Does, Idle, Executes, Running
<1>4. CASE of_WAIT_FORK(t)
  BY <1>4, FamilySleeps DEF of_WAIT_FORK, Does, Idle, Executes, Running
<1>5. CASE \E e \in Events : of_WAIT(t, e)
  BY <1>5, FamilySleeps DEF of_WAIT, Does, Idle, Executes, Running
<1>6. QED
  BY <1>1, <1>2, <1>3, <1>4, <1>5

\* A fork statement is entered.
LEMMA EnterFamily ==
  ASSUME FlagInv, FlagInv', FamilyInv, NEW t, NEW k \in {"join", "join_any", "join_none"},
         NEW s \in Scopes, NEW n \in 1..2, Enter(t, k, s, n)
  PROVE  FamilyInv'
<1> DEFINE any == k = "join_any" /\ n >= 2
<1>1. /\ Running(t) /\ thread[t].pc = "code" /\ disabling = Nil
      /\ thread[t].forks + thread[t].joins + thread[t].detach = 0
      /\ [op |-> k, arg |-> s, n |-> n] \in Code[thread[t].parent_scope]
  BY DEF Enter, Does, Idle, Executes, Running
<1>2. PICK r \in Thread : r = thread[t]
  BY <1>1, RunsFamily
<1>3. /\ t \in Tid /\ r.pc = "code" /\ r.status = "alive" /\ ~r.i_am_waiting /\ ~r.i_am_joining
      /\ \A c \in Tid : <<t, c>> \notin Calling
      /\ Cardinality(r.children) + r.forks = r.joins + r.detach
      /\ t \in Calls
  BY <1>1, <1>2, RunsFamily
<1>4. r.forks = 0 /\ r.joins = 0 /\ r.detach = 0
  <2>1. PICK a \in Nat, b \in Nat, d \in Nat : a = r.forks /\ b = r.joins /\ d = r.detach
    BY DEF Thread
  <2>2. a + b + d = 0
    BY <1>1, <1>2, <2>1
  <2>3. a = 0 /\ b = 0 /\ d = 0
    BY <2>2
  <2>4. QED
    BY <2>1, <2>3
<1>5. Cardinality(r.children) = 0 /\ r.children = {}
  <2>1. IsFiniteSet(r.children)
    BY ThreadsAssumption, FS_Subset DEF Thread
  <2>2. Cardinality(r.children) \in Nat
    BY <2>1, FS_CardinalityType
  <2>3. Cardinality(r.children) = 0
    BY <1>3, <1>4, <2>2
  <2>4. QED
    BY <2>1, <2>3, FS_EmptySet
<1>6. PICK j \in Nat : j = IF any THEN 1 ELSE IF k = "join_none" THEN 0 ELSE n
  OBVIOUS
<1>7. PICK d \in Nat : d = IF any THEN n - 1 ELSE IF k = "join_none" THEN n ELSE 0
  OBVIOUS
<1>8. PICK x : x = [r EXCEPT !.scope = s, !.forks = n, !.joins = j, !.detach = d]
  OBVIOUS
<1>9. thread' = [thread EXCEPT ![t] = x] /\ stack' = stack /\ ret' = ret /\ disabling' = Nil
  BY <1>1, <1>2, <1>3, <1>6, <1>7, <1>8, FlagTypes DEF Enter, Threads
<1>10. /\ x \in Thread /\ SameFamily(r, x) /\ x.i_am_joining = r.i_am_joining /\ x.i_am_waiting = r.i_am_waiting
       /\ x.scope = s /\ x.forks = n /\ x.joins = j /\ x.detach = d
  <2>1. n \in Nat
    OBVIOUS
  <2>2. /\ x \in Thread /\ x.i_am_joining = r.i_am_joining /\ x.i_am_waiting = r.i_am_waiting
        /\ x.scope = s /\ x.forks = n /\ x.joins = j /\ x.detach = d
    BY <1>8, <2>1 DEF Thread
  <2>3. SameFamily(r, x)
    BY <1>8 DEF Thread, SameFamily, Stays
  <2>4. QED
    BY <2>2, <2>3
<1>11. n = j + d /\ (d > 0 => Detachable(s))
  <2>1. n = j + d
    BY <1>6, <1>7
  <2>2. d > 0 => k = "join_none" \/ (k = "join_any" /\ n >= 2)
    BY <1>7
  <2>3. PICK y \in Code[r.parent_scope] : y.op = k /\ y.arg = s /\ y.n = n
    BY <1>1, <1>2
  <2>4. r.parent_scope \in Scopes
    BY DEF Thread
  <2>5. QED
    BY <2>1, <2>2, <2>3, <2>4 DEF Detachable
<1>12. thread'[t] = x
  BY <1>3, <1>9, FlagTypes DEF Threads
<1>13. StatementOf(thread', t, Calling)
  <2>1. Cardinality(x.children) + x.forks = x.joins + x.detach + 0
    BY <1>5, <1>10, <1>11 DEF SameFamily, Stays
  <2>2. \A c \in Tid : <<t, c>> \notin Calling
    BY <1>3
  <2>3. x.children = {} /\ ~x.i_am_joining
    BY <1>3, <1>5, <1>10 DEF SameFamily, Stays
  <2>4. x.detach > 0 => Detachable(x.scope)
    BY <1>10, <1>11
  <2>5. QED
    BY <1>12, <2>1, <2>2, <2>3, <2>4 DEF StatementOf
<1>14. Held(thread', t, Calling, Calls', Tops')
  <2>1. t \in Calls'
    BY <1>3, <1>9 DEF Calls
  <2>2. x.pc = "code" /\ ~x.i_am_waiting
    BY <1>3, <1>10 DEF SameFamily, Stays
  <2>3. QED
    BY <1>12, <1>13, <2>1, <2>2 DEF Held, WaitOf, CaredOf
<1>15. QED
  BY <1>1, <1>2, <1>9, <1>10, <1>14, RunnerChanges

\* A thread in a wait list.
LEMMA WaitsThere ==
  ASSUME FlagInv, NEW e \in Events, NEW u \in {waiting[e][i] : i \in 1..Len(waiting[e])}
  PROVE  u \in Tid /\ thread[u].waiting_for_event /\ thread[u].status = "alive"
<1>1. PICK w \in [Events -> Seq(Tid)] : w = waiting
  BY FlagTypes
<1>2. PICK l \in Seq(Tid) : l = w[e]
  OBVIOUS
<1>3. PICK i \in 1..Len(l) : u = l[i]
  BY <1>1, <1>2
<1>4. u \in Tid
  BY <1>2, <1>3
<1>5. u \in Mems(w)
  <2>1. e \in DOMAIN w /\ i \in DOMAIN w[e] /\ u = w[e][i]
    BY <1>2, <1>3, LenProperties
  <2>2. QED
    BY <2>1, InMems
<1>6. (u \in Mems(waiting)) = TRUE
  BY <1>1, <1>5
<1>7. FlagsOf(thread[u], u \in Queued, TRUE, u \in Calls, u \in later)
  <2>1. FlagsOf(thread[u], u \in Queued, u \in Mems(waiting), u \in Calls, u \in later)
    BY <1>4 DEF FlagInv, FlagsHold
  <2>2. QED
    BY <1>6, <2>1
<1>8. thread[u].waiting_for_event = TRUE /\ (thread[u].status # "alive" => ~TRUE)
  BY <1>7, Zenon DEF FlagsOf
<1>9. QED
  BY <1>4, <1>8

\* The threads that an event wakes.
LEMMA EventFamily ==
  ASSUME FlagInv, FlagInv', FamilyInv, NEW t, NEW e \in Events, of_EVENT(t, e)
  PROVE  FamilyInv'
<1>1. Running(t) /\ disabling = Nil /\ stack' = stack /\ ret' = ret /\ disabling' = Nil
  BY DEF of_EVENT, Does, Idle, Executes, Running
<1>2. PICK W \in SUBSET Tid : W = {waiting[e][i] : i \in 1..Len(waiting[e])}
  <2>1. PICK q \in Seq(Tid) : q = waiting[e]
    BY FlagTypes
  <2>2. \A i \in 1..Len(q) : q[i] \in Tid
    BY <2>1
  <2>3. {q[i] : i \in 1..Len(q)} \in SUBSET Tid
    BY <2>2
  <2>4. QED
    BY <2>1, <2>3
<1>3. thread' = [u \in Tid |->
           IF u \in W THEN [thread[u] EXCEPT !.waiting_for_event = FALSE,
                                             !.is_scheduled = TRUE]
                      ELSE thread[u]]
  BY <1>2 DEF of_EVENT
<1>4. PICK th \in Threads : th = thread
  BY FlagTypes
<1>5. PICK tg \in Threads : tg = thread'
  BY FlagTypes DEF FlagInv, TypeOK, Threads
<1>6. FamilyOf(th, Calling, Calls, Tops) /\ \A u \in Tid : Held(th, u, Calling, Calls, Tops)
  BY <1>1, <1>4, RunsFamily, FamilyNow
<1>7. Calling' = Calling /\ \A u \in Tid : CallsSame(u, Calling, Calls, Tops, Calling, Calls', Tops')
  BY <1>1, SameCallsSame
<1>8. ASSUME NEW u \in W
      PROVE  /\ SameFamily(th[u], tg[u]) /\ SameStatement(th[u], tg[u])
             /\ tg[u].i_am_joining = th[u].i_am_joining /\ tg[u].i_am_waiting = th[u].i_am_waiting
             /\ tg[u].is_scheduled
  <2>1. PICK r \in Thread : r = th[u]
    BY DEF Threads
  <2>2. PICK x : x = [r EXCEPT !.waiting_for_event = FALSE, !.is_scheduled = TRUE]
    OBVIOUS
  <2>3. /\ SameFamily(r, x) /\ SameStatement(r, x)
        /\ x.i_am_joining = r.i_am_joining /\ x.i_am_waiting = r.i_am_waiting /\ x.is_scheduled
    <3>1. r.status = "alive"
      BY <1>2, <1>4, <1>8, <2>1, WaitsThere
    <3>2. Stays(r, x)
      BY <2>2, <3>1 DEF Thread, Stays
    <3>3. QED
      BY <2>2, <3>2 DEF Thread, SameFamily, SameStatement
  <2>4. tg[u] = x
    BY <1>3, <1>4, <1>5, <2>1, <2>2
  <2>5. QED
    BY <2>1, <2>3, <2>4
<1>9. \A u \in Tid \ W : tg[u] = th[u]
  BY <1>3, <1>4, <1>5
<1>10. \A u \in Tid : SameFamily(th[u], tg[u])
  BY <1>8, <1>9 DEF SameFamily, Stays
<1>11. ASSUME NEW u \in W PROVE Held(tg, u, Calling, Calls', Tops')
  <2>1. Held(th, u, Calling, Calls, Tops)
    BY <1>6
  <2>2. StatementOf(tg, u, Calling)
    <3>1. StatementOf(th, u, Calling)
      BY <2>1 DEF Held
    <3>2. SameStatement(th[u], tg[u]) /\ tg[u].i_am_joining = th[u].i_am_joining
      BY <1>8
    <3>3. QED
      BY <1>10, <3>1, <3>2, StatementSame
  <2>3. WaitOf(tg[u])
    BY <1>8, <2>1 DEF Held, WaitOf, SameFamily, Stays
  <2>4. QED
    BY <1>8, <2>2, <2>3 DEF Held, CaredOf
<1>12. FamilyOf(tg, Calling, Calls', Tops')
  <2>1. \A u \in W : SameFamily(th[u], tg[u]) /\ Held(tg, u, Calling, Calls', Tops')
    BY <1>8, <1>11
  <2>2. \A u \in Tid \ W : tg[u] = th[u] /\ CallsSame(u, Calling, Calls, Tops, Calling, Calls', Tops')
    BY <1>7, <1>9
  <2>3. QED
    BY <1>6, <2>1, <2>2, SomeChange
<1>13. QED
  BY <1>1, <1>5, <1>7, <1>12, RunnerStep

\* Threads that only a list held, or that do not exist, are deleted.
LEMMA DeadCut ==
  ASSUME NEW th \in Threads, NEW tg \in Threads, NEW X \in SUBSET Tid, Tree(th),
         \A u \in X : Dead(th[u]) /\ CutOff(tg[u]),
         \A u \in Tid \ X : tg[u] = th[u]
  PROVE  UsualCut(th, tg, X, X, {})
<1>1. \A u \in X : th[u].parent = Nil
  BY TreeFacts
<1>2. \A u \in Tid : th[u].parent \notin X
  BY TreeFacts, ThreadsAssumption
<1>3. \A u \in Tid : ~Lost(th[u], X)
  BY <1>2 DEF Lost
<1>4. \A u \in Tid \ X : Usual(th, tg, u, X)
  BY <1>3 DEF Usual
<1>5. QED
  BY <1>1, <1>2, <1>4 DEF UsualCut

LEMMA ZombieFamily ==
  ASSUME FlagInv, FlagInv', FamilyInv, NEW t, of_ZOMBIE(t)
  PROVE  FamilyInv'
<1>1. Running(t) /\ disabling = Nil /\ stack' = stack /\ ret' = TRUE /\ disabling' = Nil /\ thread[t].pc = "null"
  BY DEF of_ZOMBIE, Running
<1>2. PICK r \in Thread : r = thread[t]
  BY <1>1, RunsFamily
<1>3. /\ t \in Tid /\ r.pc = "null" /\ Sound(r) /\ ~r.i_am_waiting /\ Tree(thread)
      /\ FamilyOf(thread, Calling, Calls, Tops) /\ stack[1].thr = t
  BY <1>1, <1>2, RunsFamily
<1>4. /\ Calling' = Calling
      /\ \A u \in Tid : u # t => CallsSame(u, Calling, Calls, Tops, Calling, Calls', Tops')
  BY <1>1, <1>3, SameCallsSame
<1>5. thread \in Threads /\ thread' \in Threads
  BY FlagTypes DEF FlagInv, TypeOK, Threads
<1>6. CASE r.parent = Nil
  <2>1. thread' = [thread EXCEPT ![t] = Release(r)]
    <3>1. r.children = {}
      BY <1>3 DEF Sound
    <3>2. thread' = [thread EXCEPT ![t] = Release(@)]
      BY <1>2, <1>6, <3>1 DEF of_ZOMBIE
    <3>3. QED
      BY <1>2, <1>3, <1>5, <3>2 DEF Threads
  <2>2. PICK x \in Thread : x = Release(r)
    BY ReleaseType
  <2>3. Dead(r) /\ ~r.in_scope /\ r.children = {}
    BY <1>3, <1>6 DEF Sound, Dead
  <2>4. CutOff(x)
    <3>1. /\ x.status \in {"del_thr", "deleted"} /\ x.pc = "null" /\ x.parent = Nil /\ ~x.in_scope
          /\ x.children = {} /\ (x.i_am_waiting => r.i_am_waiting)
      BY <1>3, <1>6, <2>2, <2>3, ReleaseFields
    <3>2. Fit(x)
      <4>1. Fit(r) /\ ~r.is_scheduled
        BY <1>1, <1>2, <1>3, RunsFamily DEF Sound
      <4>2. QED
        BY <2>2, <4>1, FitKept
    <3>3. QED
      BY <1>3, <3>1, <3>2 DEF CutOff
  <2>5. thread'[t] = x /\ \A u \in Tid : u # t => thread'[u] = thread[u]
    BY <1>3, <1>5, <2>1, <2>2 DEF Threads
  <2>6. UsualCut(thread, thread', {t}, {t}, {})
    <3>1. {t} \in SUBSET Tid /\ \A u \in {t} : Dead(thread[u]) /\ CutOff(thread'[u])
      BY <1>2, <1>3, <2>3, <2>4, <2>5
    <3>2. \A u \in Tid \ {t} : thread'[u] = thread[u]
      BY <2>5
    <3>3. QED
      BY <1>3, <1>5, <3>1, <3>2, DeadCut
  <2>7. UsualStep(thread, thread', {t}, {t}, {}, Calling, Calls, Tops, Calling, Calls', Tops')
    BY <1>4, <2>6 DEF UsualStep
  <2>8. FamilyOf(thread', Calling', Calls', Tops')
    <3>1. {t} \in SUBSET Tid
      BY <1>3
    <3>2. FamilyOf(thread', Calling, Calls', Tops')
      BY <1>3, <1>5, <2>7, <3>1, UsualFamily
    <3>3. QED
      BY <1>4, <3>2
  <2>9. QED
    BY <1>1, <2>8, RunnerStep
<1>7. CASE r.parent # Nil
  <2>1. thread' = thread
    BY <1>2, <1>7 DEF of_ZOMBIE
  <2>2. thread' = [thread EXCEPT ![t] = r]
    BY <1>2, <1>3, <1>5, <2>1 DEF Threads
  <2>3. SameFamily(r, r)
    BY DEF SameFamily, Stays
  <2>4. Held(thread', t, Calling, Calls', Tops')
    BY <1>2, <1>3, <1>7, <2>1 DEF Held, StatementOf, WaitOf, CaredOf, Sound
  <2>5. QED
    BY <1>1, <1>2, <2>2, <2>3, <2>4, RunnerChanges
<1>8. QED
  BY <1>6, <1>7

LEMMA DeletedFamily ==
  ASSUME FlagInv, FlagInv', FamilyInv, RunDelThr
  PROVE  FamilyInv'
<1>1. ~failed /\ stack = << >> /\ stack' = stack /\ ret' = ret /\ disabling' = disabling
  BY DEF RunDelThr, EndOfStep
<1>2. PICK X \in SUBSET Tid : X = {u \in Tid : thread[u].status = "del_thr"}
  OBVIOUS
<1>3. /\ thread \in Threads /\ thread' \in Threads /\ Tree(thread)
      /\ FamilyOf(thread, Calling, Calls, Tops) /\ CallsAlone /\ DisablingHolds
  BY <1>1, FamilyNow, FlagTypes DEF FlagInv, TypeOK, Threads
<1>4. /\ \A u \in X : thread'[u] = Deleted
      /\ \A u \in Tid \ X : thread'[u] = thread[u]
  BY <1>2 DEF RunDelThr
<1>5. \A u \in X : Dead(thread[u]) /\ CutOff(thread'[u])
  <2>1. CutOff(Deleted)
    BY NewFields DEF CutOff, Fit
  <2>2. QED
    BY <1>2, <1>4, <2>1 DEF Dead
<1>6. UsualCut(thread, thread', X, X, {})
  BY <1>3, <1>4, <1>5, DeadCut
<1>7. \A u \in Tid : CallsSame(u, Calling, Calls, Tops, Calling', Calls', Tops')
  BY <1>1, SameCallsSame
<1>8. UsualStep(thread, thread', X, X, {}, Calling, Calls, Tops, Calling', Calls', Tops')
  BY <1>6, <1>7 DEF UsualStep
<1>9. FamilyOf(thread', Calling', Calls', Tops')
  BY <1>3, <1>8, UsualFamily
<1>10. DisablingHolds' /\ CallsAlone'
  <2>1. disabling = Nil
    BY <1>1 DEF FlagInv, Frames
  <2>2. QED
    BY <1>1, <1>3, <2>1 DEF DisablingHolds, CallsAlone
<1>11. QED
  BY <1>9, <1>10 DEF FamilyInv

\* The steps that leave the threads and the calls alone.
LEMMA IdleFamily ==
  ASSUME FlagInv, FamilyInv, UNCHANGED <<thread, stack, ret, disabling, failed>>
  PROVE  FamilyInv'
<1>1. Calling' = Calling /\ Calls' = Calls /\ Tops' = Tops
  BY DEF Calling, Calls, Tops
<1>2. DisablingHolds => DisablingHolds'
  BY DEF DisablingHolds
<1>3. CallsAlone => CallsAlone'
  BY DEF CallsAlone
<1>4. QED
  BY <1>1, <1>2, <1>3 DEF FamilyInv

\* %disable begins, and ends.
LEMMA DisableBegins ==
  ASSUME FlagInv, FamilyInv, NEW t, NEW s \in Scopes, of_DISABLE(t, s)
  PROVE  FamilyInv'
<1>1. /\ Running(t) /\ thread' = thread /\ stack' = stack /\ ret' = ret
      /\ disabling' = [scope |-> s, match |-> t, myself |-> FALSE]
      /\ [op |-> "disable", arg |-> s, n |-> 0] \in Code[thread[t].parent_scope]
  BY DEF of_DISABLE, Does, Idle, Executes
<1>2. t \in Tid /\ stack[1].thr = t /\ thread[t].parent_scope \in Scopes /\ CallsAlone
      /\ FamilyOf(thread, Calling, Calls, Tops)
  BY <1>1, RunsFamily DEF Thread
<1>3. Calling' = Calling /\ Calls' = Calls /\ Tops' = Tops
  BY <1>1 DEF Calling, Calls, Tops
<1>4. Disablable(s)
  <2>1. PICK y \in Code[thread[t].parent_scope] : y.op = "disable" /\ y.arg = s
    BY <1>1
  <2>2. QED
    BY <1>2, <2>1 DEF Disablable
<1>5. DisablingHolds'
  BY <1>1, <1>2, <1>4 DEF DisablingHolds
<1>6. CallsAlone'
  BY <1>1, <1>2 DEF CallsAlone
<1>7. QED
  BY <1>1, <1>2, <1>3, <1>5, <1>6 DEF FamilyInv

LEMMA DisableEnds ==
  ASSUME FlagInv, FlagInv', FamilyInv, DisableDone
  PROVE  FamilyInv'
<1>1. /\ ~failed /\ disabling # Nil /\ thread' = thread /\ stack' = stack
      /\ ret' = disabling.myself /\ disabling' = Nil
  BY DEF DisableDone
<1>2. ~ret /\ stack # << >> /\ 1 \in DOMAIN stack
  BY <1>1, FlagTypes DEF FlagInv, Frames
<1>3. PICK t \in Tid : t = stack[1].thr
  BY <1>2, FlagTypes
<1>4. /\ FamilyOf(thread, Calling, Calls, Tops) /\ Held(thread, t, Calling, Calls, Tops)
      /\ DisablingHolds /\ CallsAlone /\ thread \in Threads
  BY <1>1, FamilyNow
<1>5. CallsAlone' /\ DisablingHolds'
  BY <1>1, <1>4 DEF CallsAlone, DisablingHolds
<1>6. FamilyOf(thread', Calling', Calls', Tops')
  <2>1. CASE ret' = ret
    <3>1. Calling' = Calling /\ Calls' = Calls /\ Tops' = Tops
      BY <1>1, <2>1 DEF Calling, Calls, Tops
    <3>2. QED
      BY <1>1, <1>4, <3>1
  <2>2. CASE ret' # ret
    <3>1. disabling.myself
      <4>1. ret' \in BOOLEAN /\ ret \in BOOLEAN
        BY DEF FlagInv, TypeOK
      <4>2. QED
        BY <1>1, <1>2, <2>2, <4>1
    <3>2. thread[t].status # "alive" \/ (thread[t].pc = "null" /\ thread[t].parent # Nil)
      BY <1>1, <1>3, <1>4, <3>1 DEF DisablingHolds
    <3>3. Held(thread, t, Calling, Calls', Tops')
      BY <1>4, <3>2 DEF Held, CaredOf
    <3>4. Calling' = Calling
          /\ \A u \in Tid \ {t} : CallsSame(u, Calling, Calls, Tops, Calling, Calls', Tops')
      BY <1>1, <1>3, SameCallsSame
    <3>5. \A u \in {t} : SameFamily(thread[u], thread[u]) /\ Held(thread, u, Calling, Calls', Tops')
      BY <3>3 DEF SameFamily, Stays
    <3>6. \A u \in Tid \ {t} : thread[u] = thread[u] /\ CallsSame(u, Calling, Calls, Tops, Calling, Calls', Tops')
      BY <3>4
    <3>7. {t} \in SUBSET Tid
      OBVIOUS
    <3>8. FamilyOf(thread, Calling, Calls', Tops')
      BY <1>4, <3>5, <3>6, <3>7, SomeChange
    <3>9. QED
      BY <1>1, <3>4, <3>8
  <2>3. QED
    BY <2>1, <2>2
<1>7. QED
  BY <1>5, <1>6 DEF FamilyInv

\* A thread of a scope that is disabled has no parent to join it, or is not detached.
LEMMA NotDetached ==
  ASSUME DisablesJoined, NEW r \in Thread, Sound(r), Disablable(r.parent_scope), r.parent # Nil
  PROVE  ~r.i_am_detached
BY DEF DisablesJoined, Sound, Thread

LEMMA DisableNextFamily ==
  ASSUME DisablesJoined, FlagInv, FlagInv', FamilyInv, DisableNext
  PROVE  FamilyInv'
<1>1. PICK cur \in threads(disabling.scope) :
        /\ thread' = do_disable(thread, cur)
        /\ disabling' = [disabling EXCEPT !.myself = @ \/ disabling.match \in Descendants(thread, cur)]
  BY DEF DisableNext
<1>2. ~failed /\ disabling # Nil /\ stack' = stack /\ ret' = ret
  BY DEF DisableNext
<1>3. ~ret /\ stack # << >> /\ 1 \in DOMAIN stack
  BY <1>2, FlagTypes DEF FlagInv, Frames
<1>4. PICK t \in Tid : t = stack[1].thr
  BY <1>3, FlagTypes
<1>5. /\ FamilyOf(thread, Calling, Calls, Tops) /\ DisablingHolds /\ CallsAlone /\ thread \in Threads
      /\ JoinsAlone(thread, Calling) /\ Tree(thread)
  BY <1>2, FamilyNow
<1>6. cur \in Tid /\ thread[cur].in_scope /\ thread[cur].parent_scope = disabling.scope
  BY <1>1 DEF threads
<1>7. thread[cur] \in Thread /\ Sound(thread[cur]) /\ ~Dead(thread[cur])
  BY <1>2, <1>6, FamilyNow DEF Sound
<1>8. thread[cur].parent # Nil => ~thread[cur].i_am_detached
  <2>1. Disablable(thread[cur].parent_scope)
    BY <1>2, <1>5, <1>6 DEF DisablingHolds
  <2>2. QED
    BY <1>7, <2>1, NotDetached
<1>9. PICK D : D = Descendants(thread, cur)
  OBVIOUS
<1>10. Calling' = Calling /\ Calls' = Calls /\ Tops' = Tops
  BY <1>2 DEF Calling, Calls, Tops
<1>11. FamilyOf(thread', Calling, Calls, Tops) /\ TurnedOff(thread', D) /\ OthersStay(thread, thread', D)
  BY <1>1, <1>5, <1>6, <1>7, <1>8, <1>9, DisableFamily
<1>12. CallsAlone'
  BY <1>2, <1>5 DEF CallsAlone
<1>13. DisablingHolds'
  <2>1. PICK d \in [scope: Scopes, match: Tid, myself: BOOLEAN] : d = disabling
    BY <1>2 DEF FlagInv, TypeOK
  <2>2. PICK e \in [scope: Scopes, match: Tid, myself: BOOLEAN] \cup {Nil} : e = disabling'
    BY DEF FlagInv, TypeOK
  <2>3. d.match = t /\ Disablable(d.scope)
    BY <1>2, <1>4, <1>5, <2>1 DEF DisablingHolds
  <2>4. e = [d EXCEPT !.myself = @ \/ t \in D]
    BY <1>1, <1>9, <2>1, <2>2, <2>3
  <2>5. e.match = t /\ e.scope = d.scope /\ (e.myself => d.myself \/ t \in D)
    BY <2>1, <2>3, <2>4
  <2>6. t \in Calls'
    BY <1>2, <1>3, <1>4 DEF Calls
  <2>7. ~thread'[t].is_scheduled /\ ~thread'[t].waiting_for_event
    <3>1. FlagsOf(thread'[t], t \in Queued', t \in Mems(waiting)', t \in Calls', t \in later')
      BY DEF FlagInv, FlagsHold
    <3>2. QED
      BY <2>6, <3>1, Zenon DEF FlagsOf
  <2>8. CASE t \in D
    <3>1. CutOff(thread'[t]) \/ (thread'[t].pc = "null" /\ thread'[t].parent # Nil)
      BY <1>11, <2>8 DEF TurnedOff
    <3>2. thread'[t].status # "alive" \/ (thread'[t].pc = "null" /\ thread'[t].parent # Nil)
      BY <2>7, <3>1 DEF CutOff
    <3>3. QED
      BY <1>2, <1>4, <2>2, <2>3, <2>5, <3>2 DEF DisablingHolds
  <2>9. CASE t \notin D
    <3>1. /\ thread'[t].status = thread[t].status
          /\ thread[t].pc = "null" => thread'[t].pc = "null" /\ thread'[t].parent = thread[t].parent
      BY <1>11, <2>9 DEF OthersStay
    <3>2. e.myself => thread'[t].status # "alive" \/ (thread'[t].pc = "null" /\ thread'[t].parent # Nil)
      BY <1>2, <1>4, <1>5, <2>1, <2>5, <2>9, <3>1 DEF DisablingHolds
    <3>3. QED
      BY <1>2, <1>4, <2>2, <2>3, <2>5, <3>2 DEF DisablingHolds
  <2>10. QED
    BY <2>8, <2>9
<1>14. QED
  BY <1>10, <1>11, <1>12, <1>13 DEF FamilyInv

LEMMA DisableFlowFamily ==
  ASSUME DisablesJoined, FlagInv, FlagInv', FamilyInv, NEW t, NEW s \in Scopes, of_DISABLE_FLOW(t, s)
  PROVE  FamilyInv'
<1>1. /\ Running(t) /\ stack' = stack /\ disabling' = Nil /\ thread[t].pc = "code"
      /\ [op |-> "flow", arg |-> s, n |-> 0] \in Code[thread[t].parent_scope]
  BY DEF of_DISABLE_FLOW, Does, Idle, Executes, Running
<1>2. PICK cur \in Ancestors(t) :
        /\ thread[cur].parent_scope = s /\ thread' = do_disable(thread, cur)
        /\ ret' = (t \in Descendants(thread, cur))
  BY DEF of_DISABLE_FLOW
<1>3. /\ t \in Tid /\ stack[1].thr = t /\ ~failed /\ thread[t].parent_scope \in Scopes /\ ~ret
      /\ ~Dead(thread[t]) /\ FamilyOf(thread, Calling, Calls, Tops) /\ Tree(thread)
  BY <1>1, RunsFamily DEF Thread
<1>4. thread \in Threads /\ JoinsAlone(thread, Calling)
  BY <1>3, FamilyNow
<1>5. cur \in Tid /\ ~Dead(thread[cur])
  <2>1. PICK S \in SUBSET Tid : S = {u \in Tid : ~Dead(thread[u])}
    OBVIOUS
  <2>2. t \in S
    BY <1>3, <2>1
  <2>3. \A v \in S : thread[v].parent \in S \cup {Nil}
    BY <1>3, <1>4, <2>1, TreeFacts
  <2>4. QED
    BY <1>2, <2>1, <2>2, <2>3 DEF Ancestors
<1>6. thread[cur].parent # Nil => ~thread[cur].i_am_detached
  <2>1. Disablable(s)
    <3>1. PICK y \in Code[thread[t].parent_scope] : y.op = "flow" /\ y.arg = s
      BY <1>1
    <3>2. QED
      BY <1>3, <3>1 DEF Disablable
  <2>2. thread[cur] \in Thread /\ Sound(thread[cur])
    BY <1>3, <1>5, FamilyNow
  <2>3. QED
    BY <1>2, <2>1, <2>2, NotDetached
<1>7. PICK D : D = Descendants(thread, cur)
  OBVIOUS
<1>8. ret' = ret \/ t \in D
  BY <1>2, <1>3, <1>7 DEF FlagInv, TypeOK
<1>9. Calling' = Calling /\ \A u \in Tid \ D : (u \in Calls => u \in Calls') /\ (u \in Tops => u \in Tops')
  BY <1>1, <1>3, <1>8, SameCallsSame DEF CallsSame
<1>10. FamilyOf(thread', Calling, Calls', Tops')
  BY <1>2, <1>3, <1>4, <1>5, <1>6, <1>7, <1>9, DisableFamily
<1>11. QED
  BY <1>1, <1>9, <1>10, RunnerStep

-----------------------------------------------------------------------------
(***************************************************************************)
(* The calls in progress, when one begins or ends.                         *)
(***************************************************************************)

CallingOf(s) == {<<s[i + 1].thr, s[i].thr>> : i \in {j \in 1..(Len(s) - 1) : s[j].call = "callf"}}

CallsOf(s, r) == {t \in Tid : \E i \in DOMAIN s : s[i].thr = t /\ (i = 1 => ~r)}

AloneIn(s) == \A i \in DOMAIN s : s[i].call # "event" => s[i].rest = << >>

LEMMA FramesOf ==
  /\ Calling = CallingOf(stack) /\ Calling' = CallingOf(stack')
  /\ Calls = CallsOf(stack, ret) /\ Calls' = CallsOf(stack', ret')
  /\ CallsAlone = AloneIn(stack) /\ CallsAlone' = AloneIn(stack')
BY DEF Calling, CallingOf, Calls, CallsOf, CallsAlone, AloneIn

\* The calls w are what is left of s when the innermost call is over.
Popped(s, w) ==
  /\ s \in Seq(Frame) /\ w \in Seq(Frame) /\ Len(s) = Len(w) + 1
  /\ \A i \in 1..Len(w) : w[i] = s[i + 1]

LEMMA InCallingOf ==
  \A s, u, c : <<u, c>> \in CallingOf(s) <=>
    \E i \in 1..(Len(s) - 1) : s[i].call = "callf" /\ s[i + 1].thr = u /\ s[i].thr = c
<1> SUFFICES ASSUME NEW s, NEW u, NEW c
             PROVE  <<u, c>> \in CallingOf(s) <=>
                      \E i \in 1..(Len(s) - 1) : s[i].call = "callf" /\ s[i + 1].thr = u /\ s[i].thr = c
  OBVIOUS
<1>1. ASSUME <<u, c>> \in CallingOf(s)
      PROVE  \E i \in 1..(Len(s) - 1) : s[i].call = "callf" /\ s[i + 1].thr = u /\ s[i].thr = c
  BY <1>1 DEF CallingOf
<1>2. ASSUME NEW i \in 1..(Len(s) - 1), s[i].call = "callf", s[i + 1].thr = u, s[i].thr = c
      PROVE  <<u, c>> \in CallingOf(s)
  BY <1>2 DEF CallingOf
<1>3. QED
  BY <1>1, <1>2

LEMMA PopCalls ==
  ASSUME NEW s, NEW w, Popped(s, w)
  PROVE  /\ \A u, c : <<u, c>> \in CallingOf(s) <=>
              <<u, c>> \in CallingOf(w) \/ (w # << >> /\ s[1].call = "callf" /\ w[1].thr = u /\ s[1].thr = c)
         /\ \A u : u \in CallsOf(s, TRUE) <=> u \in CallsOf(w, FALSE)
         /\ s[1].thr \in Tid /\ \A u : u \in CallsOf(s, FALSE) <=> u \in CallsOf(w, FALSE) \/ u = s[1].thr
         /\ \A u : u \in CallsOf(w, FALSE) /\ (w # << >> => u # w[1].thr) => u \in CallsOf(w, TRUE)
         /\ AloneIn(s) <=> AloneIn(w) /\ (s[1].call # "event" => s[1].rest = << >>)
         /\ w # << >> => w[1].thr \in Tid /\ w[1] = s[2]
<1>1. PICK n \in Nat : n = Len(w)
  BY DEF Popped
<1>2. /\ DOMAIN w = 1..n /\ DOMAIN s = 1..(n + 1) /\ Len(s) = n + 1
      /\ \A i \in 1..n : w[i] = s[i + 1] /\ i + 1 \in 1..(n + 1) /\ i + 1 # 1
      /\ \A i \in 1..(n + 1) : i = 1 \/ (i - 1 \in 1..n /\ s[i] = w[i - 1])
      /\ 1 \in 1..(n + 1) /\ (w # << >> => 1 \in 1..n) /\ (n > 0 => w # << >>)
  <2>1. /\ DOMAIN w = 1..n /\ DOMAIN s = 1..(n + 1) /\ Len(s) = n + 1
        /\ \A i \in 1..n : w[i] = s[i + 1]
    BY <1>1 DEF Popped
  <2>2. ASSUME NEW i \in 1..(n + 1) PROVE i = 1 \/ (i - 1 \in 1..n /\ s[i] = w[i - 1])
    <3>1. i # 1 => i - 1 \in 1..n /\ (i - 1) + 1 = i
      OBVIOUS
    <3>2. QED
      BY <2>1, <3>1
  <2>3. (w # << >> => 1 \in 1..n) /\ (n > 0 => w # << >>)
    BY <1>1 DEF Popped
  <2>4. QED
    BY <2>1, <2>2, <2>3
<1>3. ASSUME NEW u, NEW c
      PROVE  <<u, c>> \in CallingOf(s) <=>
              <<u, c>> \in CallingOf(w) \/ (w # << >> /\ s[1].call = "callf" /\ w[1].thr = u /\ s[1].thr = c)
  <2>1. ASSUME <<u, c>> \in CallingOf(s)
        PROVE  <<u, c>> \in CallingOf(w) \/ (w # << >> /\ s[1].call = "callf" /\ w[1].thr = u /\ s[1].thr = c)
    <3>1. PICK i \in 1..n : s[i].call = "callf" /\ s[i + 1].thr = u /\ s[i].thr = c
      <4>1. Len(s) - 1 = n
        BY <1>2
      <4>2. QED
        BY <2>1, <4>1, InCallingOf
    <3>2. CASE i = 1
      BY <1>2, <3>1, <3>2
    <3>3. CASE i # 1
      <4>1. PICK k \in 1..(n - 1) : k = i - 1 /\ k \in 1..n /\ k + 1 = i
        BY <3>3
      <4>2. w[k] = s[i] /\ w[k + 1] = s[i + 1]
        BY <1>2, <4>1
      <4>3. QED
        BY <1>1, <3>1, <4>1, <4>2, InCallingOf
    <3>4. QED
      BY <3>2, <3>3
  <2>2. ASSUME <<u, c>> \in CallingOf(w) PROVE <<u, c>> \in CallingOf(s)
    <3>1. PICK i \in 1..(n - 1) : w[i].call = "callf" /\ w[i + 1].thr = u /\ w[i].thr = c
      BY <1>1, <2>2, InCallingOf
    <3>2. i \in 1..n /\ i + 1 \in 1..n /\ (i + 1) + 1 \in 1..(n + 1)
      OBVIOUS
    <3>3. w[i] = s[i + 1] /\ w[i + 1] = s[(i + 1) + 1]
      BY <1>2, <3>2
    <3>4. i + 1 \in 1..(Len(s) - 1)
      BY <1>2, <3>2
    <3>5. QED
      BY <3>1, <3>3, <3>4, InCallingOf
  <2>3. ASSUME w # << >>, s[1].call = "callf", w[1].thr = u, s[1].thr = c PROVE <<u, c>> \in CallingOf(s)
    <3>1. 1 \in 1..(Len(s) - 1) /\ s[1 + 1] = w[1]
      BY <1>2, <2>3
    <3>2. QED
      BY <2>3, <3>1, InCallingOf
  <2>4. QED
    BY <2>1, <2>2, <2>3
<1>4. ASSUME NEW u
      PROVE  /\ u \in CallsOf(s, TRUE) <=> u \in CallsOf(w, FALSE)
             /\ u \in CallsOf(w, FALSE) /\ (w # << >> => u # w[1].thr) => u \in CallsOf(w, TRUE)
  <2>1. ASSUME u \in CallsOf(s, TRUE) PROVE u \in CallsOf(w, FALSE)
    <3>1. u \in Tid /\ \E i \in 1..(n + 1) : s[i].thr = u /\ i # 1
      BY <1>2, <2>1 DEF CallsOf
    <3>2. QED
      BY <1>2, <3>1 DEF CallsOf
  <2>2. ASSUME u \in CallsOf(w, FALSE) PROVE u \in CallsOf(s, TRUE)
    <3>1. u \in Tid /\ \E i \in 1..n : w[i].thr = u
      BY <1>2, <2>2 DEF CallsOf
    <3>2. QED
      BY <1>2, <3>1 DEF CallsOf
  <2>3. u \in CallsOf(w, FALSE) /\ (w # << >> => u # w[1].thr) => u \in CallsOf(w, TRUE)
    BY <1>2 DEF CallsOf
  <2>4. QED
    BY <2>1, <2>2, <2>3
<1>5. s[1].thr \in Tid /\ (w # << >> => w[1].thr \in Tid /\ w[1] = s[2])
  <2>1. s[1] \in Frame /\ (w # << >> => w[1] \in Frame)
    BY <1>2 DEF Popped
  <2>2. w # << >> => w[1] = s[1 + 1]
    BY <1>2
  <2>3. QED
    BY <2>1, <2>2 DEF Frame
<1>6. ASSUME NEW u PROVE u \in CallsOf(s, FALSE) <=> u \in CallsOf(w, FALSE) \/ u = s[1].thr
  <2>1. u \in CallsOf(s, FALSE) <=> u \in CallsOf(s, TRUE) \/ u = s[1].thr
    BY <1>2, <1>5 DEF CallsOf
  <2>2. QED
    BY <1>4, <2>1
<1>7. AloneIn(s) <=> AloneIn(w) /\ (s[1].call # "event" => s[1].rest = << >>)
  <2>1. ASSUME AloneIn(s) PROVE AloneIn(w) /\ (s[1].call # "event" => s[1].rest = << >>)
    <3>1. ASSUME NEW i \in 1..n, w[i].call # "event" PROVE w[i].rest = << >>
      <4>1. i + 1 \in DOMAIN s /\ w[i] = s[i + 1]
        BY <1>2
      <4>2. QED
        BY <2>1, <3>1, <4>1 DEF AloneIn
    <3>2. s[1].call # "event" => s[1].rest = << >>
      BY <1>2, <2>1 DEF AloneIn
    <3>3. QED
      BY <1>2, <3>1, <3>2 DEF AloneIn
  <2>2. ASSUME AloneIn(w), s[1].call # "event" => s[1].rest = << >> PROVE AloneIn(s)
    <3>1. ASSUME NEW i \in 1..(n + 1), s[i].call # "event" PROVE s[i].rest = << >>
      <4>1. CASE i = 1
        BY <2>2, <3>1, <4>1
      <4>2. CASE i # 1
        <5>1. PICK k \in DOMAIN w : s[i] = w[k]
          BY <1>2, <4>2
        <5>2. QED
          BY <2>2, <3>1, <5>1 DEF AloneIn
      <4>3. QED
        BY <4>1, <4>2
    <3>2. QED
      BY <1>2, <3>1 DEF AloneIn
  <2>3. QED
    BY <2>1, <2>2
<1>8. QED
  BY <1>3, <1>4, <1>5, <1>6, <1>7

LEMMA PopCalling ==
  ASSUME NEW s, NEW w, Popped(s, w), NEW u, NEW c
  PROVE  <<u, c>> \in CallingOf(s) <=>
           <<u, c>> \in CallingOf(w) \/ (w # << >> /\ s[1].call = "callf" /\ w[1].thr = u /\ s[1].thr = c)
<1>1. \A v, d : <<v, d>> \in CallingOf(s) <=>
           <<v, d>> \in CallingOf(w) \/ (w # << >> /\ s[1].call = "callf" /\ w[1].thr = v /\ s[1].thr = d)
  BY PopCalls
<1>2. QED
  BY <1>1

\* A thread is taken from a list and run.
LEMMA StartFamily ==
  ASSUME FlagInv, FamilyInv, ~failed, NEW t \in Queued, Start(t), disabling' = Nil,
         t \in Calls', t \in Tops', CallsAlone',
         \A u \in Tid : /\ \A c \in Tid : <<u, c>> \in Calling' <=> <<u, c>> \in Calling
                        /\ u \in Calls => u \in Calls'
                        /\ u \in Tops => u \in Tops'
  PROVE  FamilyInv'
<1>1. PICK th \in Threads : th = thread
  BY FlagTypes
<1>2. PICK r \in Thread : r = th[t] /\ t \in Tid
  BY <1>1, QueuedFlags
<1>3. PICK x \in Thread : x = [r EXCEPT !.is_scheduled = FALSE]
  BY DEF Thread
<1>4. PICK tg \in Threads : tg = thread' /\ tg[t] = x /\ \A u \in Tid : u # t => tg[u] = th[u]
  <2>1. thread' = [th EXCEPT ![t] = x]
    BY <1>1, <1>2, <1>3 DEF Start, Threads
  <2>2. QED
    BY <1>2, <2>1 DEF Threads
<1>5. SameFamily(r, x) /\ SameStatement(r, x) /\ x.i_am_joining = r.i_am_joining /\ x.i_am_waiting = r.i_am_waiting
  BY <1>3 DEF Thread, SameFamily, SameStatement, Stays
<1>6. FamilyOf(th, Calling, Calls, Tops) /\ Held(th, t, Calling, Calls, Tops)
  BY <1>1, <1>2, FamilyNow
<1>7. \A u \in Tid : SameFamily(th[u], tg[u])
  BY <1>2, <1>4, <1>5 DEF SameFamily, Stays
<1>8. StatementOf(tg, t, Calling')
  <2>1. StatementOf(th, t, Calling)
    BY <1>6 DEF Held
  <2>2. SameStatement(th[t], tg[t]) /\ tg[t].i_am_joining = th[t].i_am_joining
    BY <1>2, <1>4, <1>5
  <2>3. \A c \in Tid : <<t, c>> \in Calling' <=> <<t, c>> \in Calling
    BY <1>2
  <2>4. QED
    BY <1>2, <1>7, <2>1, <2>2, <2>3, StatementSame
<1>9. WaitOf(tg[t])
  BY <1>2, <1>4, <1>5, <1>6 DEF Held, WaitOf, SameFamily, Stays
<1>10. CaredOf(tg, t, Calls', Tops')
  BY <1>2, <1>4 DEF CaredOf, Threads, Thread
<1>11. FamilyOf(tg, Calling', Calls', Tops')
  <2>1. \A u \in {t} : SameFamily(th[u], tg[u]) /\ Held(tg, u, Calling', Calls', Tops')
    BY <1>2, <1>7, <1>8, <1>9, <1>10 DEF Held
  <2>2. \A u \in Tid \ {t} : tg[u] = th[u] /\ CallsSame(u, Calling, Calls, Tops, Calling', Calls', Tops')
    BY <1>4 DEF CallsSame
  <2>3. {t} \in SUBSET Tid
    BY <1>2
  <2>4. QED
    BY <1>6, <2>1, <2>2, <2>3, SomeChange
<1>12. QED
  BY <1>4, <1>11 DEF FamilyInv, DisablingHolds

LEMMA RunEventFamily ==
  ASSUME FlagInv, FamilyInv, RunEvent
  PROVE  FamilyInv'
<1>1. ListTypes /\ ListsOnce /\ CallTypes
  BY FlagInvParts
<1>2. stack = << >> /\ active # << >> /\ ~ret /\ disabling = Nil /\ ~failed
  BY <1>1 DEF RunEvent, CallTypes, DisablingOK
<1>3. PICK q \in Seq(Seq(Tid)) : q = active /\ Once(q) /\ q # << >>
  BY <1>1, <1>2, FlagTypes DEF ListsOnce
<1>4. PICK l \in Seq(Tid) : l = q[1] /\ Mems(q) = Mem(l) \cup Mems(Tail(q))
  BY <1>3, FirstList
<1>5. l # << >> /\ IsInjective(l)
  <2>1. active \in Seq(Seq(Tid) \ {<< >>})
    BY <1>1 DEF ListTypes
  <2>2. active[1] \in Seq(Tid) \ {<< >>}
    BY <1>2, <2>1
  <2>3. QED
    BY <1>3, <1>4, <2>2, FirstList
<1>6. PICK t \in Tid, m \in Seq(Tid) : t = l[1] /\ t \in Mem(l) /\ m = Tail(l)
  BY <1>4, <1>5, ShorterList
<1>7. PICK fr : fr = [thr |-> t, rest |-> m, call |-> "event"]
  OBVIOUS
<1>8. stack' = <<fr>> /\ Start(t) /\ ret' = ret /\ disabling' = Nil /\ fr.thr = t /\ fr.call = "event"
  BY <1>2, <1>3, <1>4, <1>6, <1>7 DEF RunEvent
<1>9. DOMAIN stack' = {1} /\ stack'[1] = fr /\ stack' # << >> /\ Len(stack') = 1
  BY <1>8
<1>10. t \in Queued
  BY <1>3, <1>4, <1>6 DEF Queued
<1>11. t \in Calls' /\ t \in Tops' /\ CallsAlone'
  BY <1>2, <1>8, <1>9 DEF Calls, Tops, CallsAlone
<1>12. Calls = {} /\ Tops = {} /\ Calling = {} /\ Calling' = {}
  <2>1. Calls = {} /\ Tops = {}
    BY <1>2 DEF Calls, Tops
  <2>2. 1..(Len(stack) - 1) = {} /\ 1..(Len(stack') - 1) = {}
    BY <1>2, <1>9
  <2>3. QED
    BY <2>1, <2>2 DEF Calling
<1>13. QED
  BY <1>2, <1>8, <1>10, <1>11, <1>12, StartFamily

LEMMA RunNextFamily ==
  ASSUME FlagInv, FamilyInv, RunNext
  PROVE  FamilyInv'
<1>1. ListTypes /\ ListsOnce /\ CallTypes
  BY FlagInvParts
<1>2. stack # << >> /\ ret /\ disabling = Nil /\ stack[1].rest # << >> /\ ~failed
  BY <1>1 DEF RunNext, Returning, CallTypes, DisablingOK
<1>3. PICK st \in Seq(Frame) : st = stack /\ 1 \in DOMAIN st /\ DOMAIN st = 1..Len(st) /\ Len(st) \in Nat
  BY <1>2, FlagTypes
<1>4. PICK fr \in Frame : fr = st[1]
  BY <1>3, ElementOfSeq
<1>5. PICK l \in Seq(Tid) : l = fr.rest /\ l # << >> /\ IsInjective(l) /\ Mem(l) \subseteq Mems(Rests)
  <2>1. fr.rest \in Seq(Tid) /\ fr.rest # << >> /\ Rests[1] = fr.rest /\ 1 \in DOMAIN Rests
    BY <1>2, <1>3, <1>4, FlagTypes DEF Frame
  <2>2. IsInjective(Rests[1])
    BY <1>1, <2>1 DEF ListsOnce, Once, IsInjective
  <2>3. Mem(Rests[1]) \subseteq Mems(Rests)
    BY <2>1, InMem, InMems
  <2>4. QED
    BY <2>1, <2>2, <2>3
<1>6. PICK t \in Tid, m \in Seq(Tid) : t = Head(l) /\ t \in Mem(l) /\ m = Tail(l)
  BY <1>5, ShorterList
<1>7. PICK gr : gr = [fr EXCEPT !.thr = t, !.rest = m]
  OBVIOUS
<1>8. gr.thr = t /\ gr.rest = m /\ gr.call = fr.call /\ gr \in Frame
  BY <1>7 DEF Frame
<1>9. stack' = [st EXCEPT ![1] = gr]
  <2>1. stack' = [st EXCEPT ![1].thr = t, ![1].rest = Tail(@)]
    BY <1>3, <1>4, <1>5, <1>6 DEF RunNext
  <2>2. QED
    BY <1>3, <1>4, <1>5, <1>6, <1>7, <2>1
<1>10. /\ DOMAIN stack' = DOMAIN stack /\ Len(stack') = Len(stack) /\ stack'[1] = gr /\ stack' # << >>
       /\ \A i \in DOMAIN stack : i # 1 => stack'[i] = stack[i]
  BY <1>2, <1>3, <1>8, <1>9
<1>11. Start(t) /\ ret' = FALSE /\ disabling' = Nil
  BY <1>2, <1>3, <1>4, <1>5, <1>6 DEF RunNext
<1>12. t \in Queued
  BY <1>5, <1>6 DEF Queued
<1>13. fr.call = "event" /\ CallsAlone
  <2>1. CallsAlone
    BY <1>2, FamilyNow
  <2>2. QED
    BY <1>2, <1>3, <1>4, <2>1 DEF CallsAlone
<1>14. CallsAlone'
  BY <1>3, <1>4, <1>8, <1>10, <1>13 DEF CallsAlone
<1>15. t \in Calls' /\ t \in Tops' /\ Tops = {}
  BY <1>2, <1>3, <1>8, <1>10, <1>11 DEF Calls, Tops
<1>16. \A u \in Calls : u \in Calls'
  BY <1>2, <1>10, <1>11 DEF Calls
<1>17. ASSUME NEW u \in Tid, NEW c \in Tid PROVE <<u, c>> \in Calling' <=> <<u, c>> \in Calling
  <2>1. <<u, c>> \in Calling' <=>
          \E i \in 1..(Len(stack) - 1) : stack'[i].call = "callf" /\ stack'[i + 1].thr = u /\ stack'[i].thr = c
    <3>1. PICK w : w = stack' /\ Calling' = CallingOf(w) /\ Len(w) = Len(stack)
      BY <1>10, FramesOf
    <3>2. <<u, c>> \in CallingOf(w) <=>
            \E i \in 1..(Len(w) - 1) : w[i].call = "callf" /\ w[i + 1].thr = u /\ w[i].thr = c
      <4>1. ASSUME <<u, c>> \in CallingOf(w)
            PROVE  \E i \in 1..(Len(w) - 1) : w[i].call = "callf" /\ w[i + 1].thr = u /\ w[i].thr = c
        BY <4>1 DEF CallingOf
      <4>2. ASSUME NEW i \in 1..(Len(w) - 1), w[i].call = "callf", w[i + 1].thr = u, w[i].thr = c
            PROVE  <<u, c>> \in CallingOf(w)
        BY <4>2 DEF CallingOf
      <4>3. QED
        BY <4>1, <4>2
    <3>3. QED
      BY <3>1, <3>2
  <2>2. ASSUME NEW i \in 1..(Len(stack) - 1)
        PROVE  /\ stack'[i].call = stack[i].call
               /\ stack[i].call = "callf" => stack'[i] = stack[i]
               /\ stack'[i + 1] = stack[i + 1]
    <3>1. i \in DOMAIN stack /\ i + 1 \in DOMAIN stack /\ i + 1 # 1
      BY <1>3
    <3>2. stack'[i + 1] = stack[i + 1]
      BY <1>10, <3>1
    <3>3. CASE i = 1
      <4>1. stack'[i].call = "event" /\ stack[i].call = "event"
        BY <1>3, <1>4, <1>8, <1>10, <1>13, <3>3
      <4>2. QED
        BY <3>2, <4>1
    <3>4. CASE i # 1
      BY <1>10, <3>1, <3>2, <3>4
    <3>5. QED
      BY <3>2, <3>3, <3>4
  <2>3. ASSUME <<u, c>> \in Calling PROVE <<u, c>> \in Calling'
    <3>1. PICK i \in 1..(Len(stack) - 1) : stack[i].call = "callf" /\ stack[i + 1].thr = u /\ stack[i].thr = c
      BY <2>3 DEF Calling
    <3>2. stack'[i].call = "callf" /\ stack'[i + 1].thr = u /\ stack'[i].thr = c
      BY <2>2, <3>1
    <3>3. QED
      BY <2>1, <3>2
  <2>4. ASSUME <<u, c>> \in Calling' PROVE <<u, c>> \in Calling
    <3>1. PICK i \in 1..(Len(stack) - 1) : stack'[i].call = "callf" /\ stack'[i + 1].thr = u /\ stack'[i].thr = c
      BY <2>1, <2>4
    <3>2. stack[i].call = "callf" /\ stack[i + 1].thr = u /\ stack[i].thr = c
      BY <2>2, <3>1
    <3>3. QED
      BY <3>2 DEF Calling
  <2>5. QED
    BY <2>3, <2>4
<1>18. QED
  BY <1>2, <1>11, <1>12, <1>14, <1>15, <1>16, <1>17, StartFamily

LEMMA TailPopped ==
  ASSUME FlagInv, stack # << >>, stack' = Tail(stack)
  PROVE  Popped(stack, stack')
<1>1. PICK s \in Seq(Frame) : s = stack /\ s # << >>
  BY FlagTypes
<1>2. PICK w \in Seq(Frame) : w = Tail(s) /\ Len(w) = Len(s) - 1 /\ \A i \in 1..Len(w) : w[i] = s[i + 1]
  BY <1>1
<1>3. Len(s) = Len(w) + 1
  BY <1>1, <1>2
<1>4. QED
  BY <1>1, <1>2, <1>3 DEF Popped

LEMMA RunDoneFamily ==
  ASSUME FlagInv, FamilyInv, RunDone
  PROVE  FamilyInv'
<1>1. /\ ~failed /\ ret /\ stack[1].call # "callf" /\ stack' = Tail(stack) /\ ret' = FALSE
      /\ thread' = thread /\ disabling' = disabling
  BY DEF RunDone, Returning
<1>2. stack # << >> /\ disabling = Nil
  BY <1>1, FlagInvParts DEF CallTypes, DisablingOK
<1>3. Popped(stack, stack')
  BY <1>1, <1>2, TailPopped
<1>4. FamilyOf(thread, Calling, Calls, Tops) /\ CallsAlone /\ thread \in Threads
  BY <1>1, FamilyNow
<1>5. \A u \in Tid : \A c \in Tid : <<u, c>> \in Calling' <=> <<u, c>> \in Calling
  BY <1>1, <1>3, PopCalls, FramesOf
<1>6. \A u \in Tid : u \in Calls => u \in Calls'
  <2>1. Calls = CallsOf(stack, TRUE) /\ Calls' = CallsOf(stack', FALSE)
    BY <1>1 DEF Calls, CallsOf
  <2>2. QED
    BY <1>3, <2>1, PopCalls
<1>7. Tops = {}
  BY <1>1 DEF Tops
<1>8. \A u \in Tid : CallsSame(u, Calling, Calls, Tops, Calling', Calls', Tops')
  <2> SUFFICES ASSUME NEW u \in Tid PROVE CallsSame(u, Calling, Calls, Tops, Calling', Calls', Tops')
    OBVIOUS
  <2>1. \A c \in Tid : <<u, c>> \in Calling' <=> <<u, c>> \in Calling
    BY <1>5
  <2>2. (u \in Calls => u \in Calls') /\ (u \in Tops => u \in Tops')
    BY <1>6, <1>7
  <2>3. QED
    BY <2>1, <2>2 DEF CallsSame
<1>9. FamilyOf(thread, Calling', Calls', Tops')
  BY <1>4, <1>8, OtherCalls
<1>10. CallsAlone'
  BY <1>3, <1>4, PopCalls, FramesOf
<1>11. QED
  BY <1>1, <1>2, <1>9, <1>10 DEF FamilyInv, DisablingHolds

\* The calls that are left when a function returns.
LEMMA ReturnFacts ==
  ASSUME FlagInv, FamilyInv, CallfReturns, NEW child, child = stack[1].thr, NEW t, t = stack[2].thr
  PROVE  /\ t \in Tid /\ child \in Tid /\ <<t, child>> \in Calling /\ t \in Calls /\ t # child
         /\ \A c \in Tid : <<t, c>> \notin Calling'
         /\ \A u \in Tid : u # t =>
              /\ \A c \in Tid : <<u, c>> \in Calling' <=> <<u, c>> \in Calling
              /\ u \in Calls => u \in Calls'
         /\ Tops = {} /\ CallsAlone' /\ disabling' = Nil
         /\ ret' = FALSE => t \in Calls' /\ t \in Tops'
<1>1. /\ ~failed /\ ret /\ stack[1].call = "callf" /\ stack' = Tail(stack) /\ disabling' = disabling
  BY DEF CallfReturns, Returning
<1>2. stack # << >> /\ disabling = Nil
  BY <1>1, FlagInvParts DEF CallTypes, DisablingOK
<1>3. Popped(stack, stack')
  BY <1>1, <1>2, TailPopped
<1>4. PICK s, w : s = stack /\ w = stack' /\ Popped(s, w)
  BY <1>3
<1>5. 1 \in DOMAIN s /\ 2 \in DOMAIN s /\ DOMAIN s = 1..Len(s) /\ Len(s) \in Nat /\ Len(s) = Len(w) + 1
  <2>1. 1 \in DOMAIN s /\ DOMAIN s = 1..Len(s) /\ Len(s) \in Nat
    BY <1>2, <1>4, FlagTypes
  <2>2. 1 + 1 \in DOMAIN s
    BY <1>1, <1>4, <2>1, FlagInvParts DEF CallTypes
  <2>3. QED
    BY <1>4, <2>1, <2>2 DEF Popped
<1>6. t \in Tid /\ child \in Tid /\ w # << >> /\ w[1].thr = t /\ s[1].thr = child
  <2>1. t \in Tid /\ child \in Tid
    BY <1>4, <1>5, FlagTypes
  <2>2. Len(w) \in Nat /\ Len(w) >= 1 /\ w # << >>
    BY <1>4, <1>5 DEF Popped
  <2>3. w[1] = s[1 + 1]
    BY <1>4, <2>2 DEF Popped
  <2>4. QED
    BY <1>4, <2>1, <2>2, <2>3
<1>7. t # child /\ \A i, k \in DOMAIN s : s[i].thr = s[k].thr => i = k
  <2>1. \A i, k \in DOMAIN s : s[i].thr = s[k].thr => i = k
    BY <1>4 DEF FlagInv, Frames
  <2>2. QED
    BY <1>4, <1>5, <1>6, <2>1
<1>8. ASSUME NEW u \in Tid, NEW c \in Tid
      PROVE  <<u, c>> \in Calling <=> <<u, c>> \in Calling' \/ (u = t /\ c = child)
  <2>1. <<u, c>> \in Calling <=>
          <<u, c>> \in Calling' \/ (stack' # << >> /\ stack[1].call = "callf" /\ stack'[1].thr = u /\ stack[1].thr = c)
    BY <1>3, PopCalling, FramesOf
  <2>2. QED
    BY <1>1, <1>4, <1>6, <2>1
<1>9. ASSUME NEW c \in Tid, <<t, c>> \in Calling' PROVE FALSE
  <2>1. <<t, c>> \in CallingOf(w)
    BY <1>4, <1>9, FramesOf
  <2>2. PICK i \in 1..(Len(w) - 1) : w[i + 1].thr = t
    BY <2>1, InCallingOf
  <2>3. PICK k \in Nat : k = i + 1 /\ k \in 1..Len(w) /\ k + 1 \in DOMAIN s /\ k + 1 # 2
    BY <1>5
  <2>4. w[k] = s[k + 1]
    BY <1>4, <2>3 DEF Popped
  <2>5. s[k + 1].thr = s[2].thr
    BY <1>4, <2>2, <2>3, <2>4
  <2>6. QED
    BY <1>5, <1>7, <2>3, <2>5
<1>10. \A u \in Tid : u \in Calls <=> u \in CallsOf(w, FALSE)
  <2>1. Calls = CallsOf(s, TRUE)
    BY <1>1, <1>4 DEF Calls, CallsOf
  <2>2. QED
    BY <1>4, <2>1, PopCalls
<1>11. ASSUME NEW u \in Tid, u # t, u \in Calls PROVE u \in Calls'
  <2>1. u \in CallsOf(w, FALSE) /\ u \in CallsOf(w, TRUE)
    BY <1>4, <1>6, <1>10, <1>11, PopCalls
  <2>2. Calls' = CallsOf(w, ret') /\ ret' \in BOOLEAN
    BY <1>4, FramesOf DEF CallfReturns
  <2>3. QED
    BY <2>1, <2>2
<1>12. t \in Calls
  BY <1>4, <1>5, <1>6 DEF Calls
<1>13. Tops = {} /\ CallsAlone'
  <2>1. CallsAlone
    BY <1>1, FamilyNow
  <2>2. QED
    BY <1>1, <1>3, <2>1, PopCalls, FramesOf DEF Tops
<1>14. ret' = FALSE => t \in Calls' /\ t \in Tops'
  <2>1. 1 \in DOMAIN w
    BY <1>4, <1>6 DEF Popped
  <2>2. QED
    BY <1>4, <1>6, <2>1 DEF Calls, Tops
<1>15. QED
  BY <1>1, <1>2, <1>6, <1>7, <1>8, <1>9, <1>11, <1>12, <1>13, <1>14

\* The thread t that has called the function child, when it goes on or joins it.
LEMMA CallerHeld ==
  ASSUME NEW th \in Threads, NEW tg \in Threads, NEW K, NEW C, NEW T, NEW K2, NEW C2, NEW T2,
         NEW t \in Tid, NEW child \in Tid, Held(th, t, K, C, T), <<t, child>> \in K, t \notin T,
         ~th[t].is_scheduled, ~th[t].waiting_for_event, ~th[t].i_am_joining, ~th[t].i_am_waiting,
         \A c \in Tid : <<t, c>> \notin K2,
         tg[t].pc = th[t].pc, tg[t].status = th[t].status, tg[t].parent = th[t].parent,
         SameStatement(th[t], tg[t]), ~tg[t].i_am_waiting,
         \/ tg[t].children = th[t].children \ {child} /\ ~tg[t].i_am_joining /\ t \in C2
         \/ tg[t].children = th[t].children /\ tg[t].i_am_joining /\ ~tg[child].i_have_ended
            /\ tg[child].parent_scope = th[child].parent_scope
  PROVE  Held(tg, t, K2, C2, T2)
<1>1. StatementOf(tg, t, K2)
  <2> SUFFICES ASSUME tg[t].pc = "code" PROVE StatementOf(tg, t, K2)
    BY DEF StatementOf
  <2>1. th[t].forks = 0 /\ th[t].joins = 0 /\ th[t].detach = 0 /\ th[t].children = {child}
    BY DEF Held, StatementOf
  <2>2. tg[t].forks = 0 /\ tg[t].joins = 0 /\ tg[t].detach = 0
    BY <2>1 DEF SameStatement
  <2>3. CASE tg[t].children = th[t].children \ {child} /\ ~tg[t].i_am_joining
    <3>1. tg[t].children = {} /\ Cardinality(tg[t].children) = 0
      BY <2>1, <2>3, FS_EmptySet
    <3>2. QED
      BY <2>2, <2>3, <3>1 DEF StatementOf
  <2>4. CASE tg[t].children = th[t].children /\ tg[t].i_am_joining /\ ~tg[child].i_have_ended
    <3>1. Cardinality({child}) = 1
      BY FS_Singleton
    <3>2. tg[t].children = {child} /\ Cardinality(tg[t].children) = 1
      BY <2>1, <2>4, <3>1
    <3>3. QED
      BY <2>2, <2>4, <3>2 DEF StatementOf
  <2>5. QED
    BY <2>3, <2>4
<1>2. WaitOf(tg[t])
  BY DEF WaitOf
<1>3. CaredOf(tg, t, C2, T2)
  <2> SUFFICES ASSUME tg[t].status = "alive" PROVE CaredOf(tg, t, C2, T2)
    BY DEF CaredOf
  <2>1. th[t].pc = "code" \/ (th[t].pc = "null" /\ th[t].parent # Nil)
    BY DEF Held, CaredOf
  <2>2. CASE th[t].pc = "code"
    BY <2>2 DEF CaredOf
  <2>3. CASE th[t].pc = "null" /\ th[t].parent # Nil
    BY <2>3 DEF CaredOf
  <2>4. QED
    BY <2>1, <2>2, <2>3
<1>4. QED
  BY <1>1, <1>2, <1>3 DEF Held

LEMMA CallfReturnsFamily ==
  ASSUME FlagInv, FlagInv', FamilyInv, CallfReturns
  PROVE  FamilyInv'
<1> SUFFICES ASSUME ~failed' PROVE FamilyInv'
  BY DEF FamilyInv
<1>1. PICK child, t : child = stack[1].thr /\ t = stack[2].thr
  OBVIOUS
<1>2. /\ t \in Tid /\ child \in Tid /\ <<t, child>> \in Calling /\ t \in Calls /\ t # child
      /\ \A c \in Tid : <<t, c>> \notin Calling'
      /\ \A u \in Tid : u # t =>
           /\ \A c \in Tid : <<u, c>> \in Calling' <=> <<u, c>> \in Calling
           /\ u \in Calls => u \in Calls'
      /\ Tops = {} /\ CallsAlone' /\ disabling' = Nil
      /\ ret' = FALSE => t \in Calls' /\ t \in Tops'
  BY <1>1, ReturnFacts
<1>3. ~failed
  BY DEF CallfReturns, Returning
<1>4. PICK th \in Threads : th = thread
  BY FlagTypes
<1>5. PICK tg \in Threads : tg = thread'
  BY DEF FlagInv, TypeOK, Threads
<1>6. PICK r \in Thread : r = th[t]
  BY <1>2 DEF Threads
<1>7. /\ FamilyOf(th, Calling, Calls, Tops) /\ Held(th, t, Calling, Calls, Tops) /\ Tree(th)
      /\ t \notin Tops /\ FlagsOf(r, FALSE, FALSE, TRUE, FALSE)
  BY <1>2, <1>3, <1>4, <1>6, FamilyNow, CallFlags
<1>8. ~r.is_scheduled /\ ~r.waiting_for_event /\ ~r.i_am_joining /\ ~r.i_am_waiting
  BY <1>7, Zenon DEF FlagsOf
<1>9. \A u \in Tid \ {t} : CallsSame(u, Calling, Calls, Tops, Calling', Calls', Tops')
  <2> SUFFICES ASSUME NEW u \in Tid, u # t
               PROVE  CallsSame(u, Calling, Calls, Tops, Calling', Calls', Tops')
    OBVIOUS
  <2>1. (\A c \in Tid : <<u, c>> \in Calling' <=> <<u, c>> \in Calling) /\ (u \in Calls => u \in Calls')
        /\ u \notin Tops
    BY <1>2
  <2>2. QED
    BY <2>1 DEF CallsSame
<1>10. CASE th[child].i_have_ended
  <2>1. th[child].parent = t /\ tg = vthread_reap(th, child) /\ ret' = FALSE
    BY <1>1, <1>4, <1>5, <1>10 DEF CallfReturns
  <2>2. t # Nil
    BY <1>2, ThreadsAssumption
  <2>3. UsualCut(th, tg, {child}, {child}, {t}) /\ tg[t] = [r EXCEPT !.children = r.children \ {child}]
    BY <1>2, <1>6, <1>7, <1>10, <2>1, <2>2, ReapCut
  <2>4. PICK S \in SUBSET Tid : S = r.children \ {child}
    BY DEF Thread
  <2>5. PICK x \in Thread : x = [r EXCEPT !.children = S]
    BY DEF Thread
  <2>6. /\ x.children = S /\ x.pc = r.pc /\ x.status = r.status /\ x.parent = r.parent /\ SameStatement(r, x)
        /\ x.i_am_joining = r.i_am_joining /\ x.i_am_waiting = r.i_am_waiting
    BY <2>5 DEF Thread, SameStatement
  <2>7. tg[t] = x
    BY <2>3, <2>4, <2>5
  <2>8. Held(tg, t, Calling', Calls', Tops')
    <3>1. /\ tg[t].pc = th[t].pc /\ tg[t].status = th[t].status /\ tg[t].parent = th[t].parent
          /\ SameStatement(th[t], tg[t]) /\ ~tg[t].i_am_waiting
          /\ tg[t].children = th[t].children \ {child} /\ ~tg[t].i_am_joining /\ t \in Calls'
          /\ ~th[t].is_scheduled /\ ~th[t].waiting_for_event /\ ~th[t].i_am_joining /\ ~th[t].i_am_waiting
      BY <1>2, <1>6, <1>8, <2>1, <2>4, <2>6, <2>7
    <3>2. QED
      BY <1>2, <1>7, <3>1, CallerHeld
  <2>9. UsualStep(th, tg, {child}, {child}, {t}, Calling, Calls, Tops, Calling', Calls', Tops')
    BY <1>9, <2>3, <2>8 DEF UsualStep
  <2>10. FamilyOf(tg, Calling', Calls', Tops')
    <3>1. {child} \in SUBSET Tid /\ {t} \in SUBSET Tid
      BY <1>2
    <3>2. QED
      BY <1>7, <2>9, <3>1, UsualFamily
  <2>11. QED
    BY <1>2, <1>5, <2>10 DEF FamilyInv, DisablingHolds
<1>11. CASE ~th[child].i_have_ended
  <2>1. PICK x \in Thread : x = [r EXCEPT !.i_am_joining = TRUE]
    BY DEF Thread
  <2>2. /\ x.children = r.children /\ x.pc = r.pc /\ x.status = r.status /\ x.parent = r.parent
        /\ SameStatement(r, x) /\ x.i_am_joining /\ x.i_am_waiting = r.i_am_waiting /\ SameFamily(r, x)
    BY <2>1 DEF Thread, SameStatement, SameFamily, Stays
  <2>3. tg[t] = x /\ \A u \in Tid : u # t => tg[u] = th[u]
    <3>1. tg = [th EXCEPT ![t].i_am_joining = TRUE]
      BY <1>1, <1>4, <1>5, <1>11 DEF CallfReturns
    <3>2. QED
      BY <1>2, <1>6, <2>1, <3>1 DEF Threads
  <2>4. Held(tg, t, Calling', Calls', Tops')
    <3>1. /\ tg[t].pc = th[t].pc /\ tg[t].status = th[t].status /\ tg[t].parent = th[t].parent
          /\ SameStatement(th[t], tg[t]) /\ ~tg[t].i_am_waiting
          /\ tg[t].children = th[t].children /\ tg[t].i_am_joining
          /\ tg[child].parent_scope = th[child].parent_scope /\ ~tg[child].i_have_ended
          /\ ~th[t].is_scheduled /\ ~th[t].waiting_for_event /\ ~th[t].i_am_joining /\ ~th[t].i_am_waiting
      BY <1>2, <1>6, <1>8, <1>11, <2>2, <2>3
    <3>2. QED
      BY <1>2, <1>7, <3>1, CallerHeld
  <2>5. FamilyOf(tg, Calling', Calls', Tops')
    <3>1. \A u \in {t} : SameFamily(th[u], tg[u]) /\ Held(tg, u, Calling', Calls', Tops')
      BY <1>6, <2>2, <2>3, <2>4
    <3>2. \A u \in Tid \ {t} : tg[u] = th[u] /\ CallsSame(u, Calling, Calls, Tops, Calling', Calls', Tops')
      BY <1>9, <2>3
    <3>3. {t} \in SUBSET Tid
      BY <1>2
    <3>4. QED
      BY <1>7, <3>1, <3>2, <3>3, SomeChange
  <2>6. QED
    BY <1>2, <1>5, <2>5 DEF FamilyInv, DisablingHolds
<1>12. QED
  BY <1>10, <1>11

-----------------------------------------------------------------------------
(***************************************************************************)
(* The steps that create a thread, in the family.                          *)
(***************************************************************************)

\* The thread t, which executes, has the new child c.
Born(th, tg, t, c) ==
  /\ t # c /\ th[t].pc = "code" /\ ~Dead(th[t]) /\ th[c].status # "alive"
  /\ tg[c].status = "alive" /\ tg[c].pc = "code" /\ tg[c].parent = t /\ ~tg[c].i_am_detached
  /\ tg[c].children = {} /\ tg[c].detached_children = {} /\ ~tg[c].i_have_ended
  /\ Fit(tg[c]) /\ Stays(th[t], tg[t])
  /\ tg[t].status = th[t].status /\ tg[t].parent_scope = th[t].parent_scope
  /\ tg[t].pc = th[t].pc /\ tg[t].parent = th[t].parent /\ tg[t].children = th[t].children \cup {c}
  /\ tg[t].detached_children = th[t].detached_children
  /\ tg[t].i_am_detached = th[t].i_am_detached /\ tg[t].i_have_ended = th[t].i_have_ended
  /\ \A u \in Tid : u # t /\ u # c => tg[u] = th[u]

LEMMA BornTree ==
  ASSUME NEW th \in Threads, NEW tg \in Threads, NEW t \in Tid, NEW c \in Tid, Tree(th), Born(th, tg, t, c)
  PROVE  /\ Tree(tg)
         /\ \A u \in Tid : c \notin th[u].children
<1>1. Dead(th[c]) /\ th[c].parent = Nil /\ ~Dead(tg[c]) /\ ~Dead(tg[t]) /\ t # Nil /\ t # c
  <2>1. Dead(th[c]) /\ ~Dead(tg[c]) /\ ~Dead(tg[t]) /\ t # Nil /\ t # c
    BY ThreadsAssumption DEF Born, Dead
  <2>2. QED
    BY <2>1, TreeFacts
<1>2. \A u \in Tid : th[u].parent # c /\ c \notin th[u].children
  BY <1>1, TreeFacts, ThreadsAssumption
<1>3. ASSUME NEW u \in Tid, u # c
      PROVE  /\ tg[u].parent = th[u].parent /\ (Dead(tg[u]) <=> Dead(th[u]))
             /\ tg[u].i_am_detached = th[u].i_am_detached
             /\ tg[u].detached_children = th[u].detached_children
             /\ \A v \in Tid : v # c => (v \in tg[u].children <=> v \in th[u].children)
             /\ c \in tg[u].children <=> u = t
             /\ ~Dead(th[u]) => c \notin tg[u].detached_children
  <2>1. /\ tg[u].parent = th[u].parent /\ (Dead(tg[u]) <=> Dead(th[u]))
        /\ tg[u].i_am_detached = th[u].i_am_detached
        /\ tg[u].detached_children = th[u].detached_children
    <3>1. CASE u = t
      BY <3>1 DEF Born, Dead
    <3>2. CASE u # t
      BY <1>3, <3>2 DEF Born
    <3>3. QED
      BY <3>1, <3>2
  <2>2. /\ \A v \in Tid : v # c => (v \in tg[u].children <=> v \in th[u].children)
        /\ c \in tg[u].children <=> u = t
    <3>1. CASE u = t
      BY <3>1 DEF Born
    <3>2. CASE u # t
      BY <1>2, <1>3, <3>2 DEF Born
    <3>3. QED
      BY <3>1, <3>2
  <2>3. ~Dead(th[u]) => c \notin tg[u].detached_children
    BY <1>1, <2>1, TreeFacts, ThreadsAssumption
  <2>4. QED
    BY <2>1, <2>2, <2>3
<1>4. ASSUME NEW u \in Tid, tg[u].parent # Nil PROVE ~Dead(tg[tg[u].parent])
  <2>1. CASE u = c
    BY <1>1, <2>1 DEF Born
  <2>2. CASE u # c
    <3>1. PICK p \in Tid : p = th[u].parent /\ p = tg[u].parent /\ p # c
      BY <1>2, <1>3, <1>4, <2>2, TreeFacts
    <3>2. ~Dead(th[p])
      BY <1>4, <3>1, TreeFacts
    <3>3. QED
      BY <1>3, <3>1, <3>2
  <2>3. QED
    BY <2>1, <2>2
<1>5. ASSUME NEW p \in Tid, NEW u \in Tid, ~Dead(tg[p])
      PROVE  /\ u \in tg[p].children <=> tg[u].parent = p /\ ~tg[u].i_am_detached
             /\ u \in tg[p].detached_children <=> tg[u].parent = p /\ tg[u].i_am_detached
  <2>1. CASE p = c
    <3>1. tg[u].parent # c
      BY <1>1, <1>2, <1>3 DEF Born
    <3>2. QED
      BY <2>1, <3>1 DEF Born
  <2>2. CASE p # c /\ u = c
    <3>1. ~Dead(th[p])
      BY <1>3, <1>5, <2>2
    <3>2. (u \in tg[p].children <=> p = t) /\ u \notin tg[p].detached_children
      BY <1>3, <2>2, <3>1
    <3>3. tg[u].parent = t /\ ~tg[u].i_am_detached
      BY <2>2 DEF Born
    <3>4. QED
      BY <3>2, <3>3
  <2>3. CASE p # c /\ u # c
    <3>1. ~Dead(th[p])
      BY <1>3, <1>5, <2>3
    <3>2. /\ u \in th[p].children <=> th[u].parent = p /\ ~th[u].i_am_detached
          /\ u \in th[p].detached_children <=> th[u].parent = p /\ th[u].i_am_detached
      BY <3>1 DEF Tree, Linked
    <3>3. (u \in tg[p].children <=> u \in th[p].children) /\ tg[p].detached_children = th[p].detached_children
      BY <1>3, <2>3
    <3>4. tg[u].parent = th[u].parent /\ tg[u].i_am_detached = th[u].i_am_detached
      BY <1>3, <2>3
    <3>5. QED
      BY <3>2, <3>3, <3>4
  <2>4. QED
    BY <2>1, <2>2, <2>3
<1>6. ASSUME NEW u \in Tid PROVE Sound(tg[u])
  <2>1. Sound(th[u])
    BY DEF Tree
  <2>2. CASE u = c
    BY <1>1, <2>2 DEF Born, Sound
  <2>3. CASE u = t
    <3>1. Fit(tg[t])
      BY <2>1, <2>3 DEF Born, Sound, Fit, Stays
    <3>2. QED
      BY <1>1, <2>1, <2>3, <3>1 DEF Born, Sound, Dead
  <2>4. CASE u # c /\ u # t
    BY <2>1, <2>4 DEF Born
  <2>5. QED
    BY <2>2, <2>3, <2>4
<1>7. Founded(tg)
  <2> SUFFICES ASSUME NEW S \in SUBSET Tid, S # {} PROVE \E u \in S : tg[u].parent \notin S
    BY DEF Founded
  <2>1. CASE S \ {c} = {}
    <3>1. c \in S /\ t \notin S /\ tg[c].parent = t
      BY <1>1, <2>1 DEF Born
    <3>2. QED
      BY <3>1
  <2>2. CASE S \ {c} # {}
    <3>1. PICK R \in SUBSET Tid : R = S \ {c} /\ R # {}
      BY <2>2
    <3>2. PICK u \in R : th[u].parent \notin R
      BY <3>1 DEF Tree, Founded
    <3>3. u \in Tid /\ u # c /\ u \in S
      BY <3>1, <3>2
    <3>4. tg[u].parent = th[u].parent /\ th[u].parent # c
      BY <1>2, <1>3, <3>3
    <3>5. QED
      BY <3>1, <3>2, <3>3, <3>4
  <2>3. QED
    BY <2>1, <2>2
<1>8. QED
  BY <1>2, <1>4, <1>5, <1>6, <1>7 DEF Tree, Linked

LEMMA BornFamily ==
  ASSUME NEW th \in Threads, NEW tg \in Threads, NEW t \in Tid, NEW c \in Tid, Born(th, tg, t, c),
         NEW K, NEW C, NEW T, NEW K2, NEW C2, NEW T2, FamilyOf(th, K, C, T),
         \A u \in Tid : u # t /\ u # c => CallsSame(u, K, C, T, K2, C2, T2),
         Held(tg, t, K2, C2, T2), Held(tg, c, K2, C2, T2)
  PROVE  FamilyOf(tg, K2, C2, T2)
<1>1. Tree(th) /\ Tree(tg) /\ \A u \in Tid : c \notin th[u].children
  BY BornTree DEF FamilyOf
<1>2. ASSUME NEW u \in Tid, u # t, u # c PROVE Held(tg, u, K2, C2, T2)
  <2>1. tg[u] = th[u] /\ CallsSame(u, K, C, T, K2, C2, T2)
    BY <1>2 DEF Born
  <2>2. StatementOf(th, u, K) /\ WaitOf(th[u]) /\ CaredOf(th, u, C, T)
    BY DEF FamilyOf, Statements, Waits, Cared
  <2>3. StatementOf(tg, u, K2)
    <3>1. \A v \in th[u].children : tg[v].parent_scope = th[v].parent_scope /\ tg[v].i_have_ended = th[v].i_have_ended
      <4>1. \A v \in th[u].children : v \in Tid /\ v # c
        BY <1>1, TreeFacts
      <4>2. QED
        BY <4>1 DEF Born
    <3>2. /\ (\A d \in Tid : <<u, d>> \notin K2) <=> (\A d \in Tid : <<u, d>> \notin K)
          /\ \A d \in Tid : <<u, d>> \in K2 <=> <<u, d>> \in K
      BY <2>1 DEF CallsSame
    <3> SUFFICES ASSUME th[u].pc = "code" PROVE StatementOf(tg, u, K2)
      BY <2>1 DEF StatementOf
    <3>3. /\ (\A d \in Tid : <<u, d>> \notin K2) =>
               Cardinality(tg[u].children) + tg[u].forks
                 = tg[u].joins + tg[u].detach + (IF tg[u].i_am_joining THEN 1 ELSE 0)
          /\ \A d \in Tid : <<u, d>> \in K2 =>
               tg[u].forks = 0 /\ tg[u].joins = 0 /\ tg[u].detach = 0 /\ tg[u].children = {d}
      BY <2>1, <2>2, <3>2 DEF StatementOf
    <3>4. /\ tg[u].detach > 0 => Detachable(tg[u].scope) /\ \A d \in tg[u].children : Detachable(tg[d].parent_scope)
          /\ tg[u].i_am_joining => \E d \in tg[u].children : ~tg[d].i_have_ended
      BY <2>1, <2>2, <3>1 DEF StatementOf
    <3>5. QED
      BY <3>3, <3>4 DEF StatementOf
  <2>4. WaitOf(tg[u]) /\ CaredOf(tg, u, C2, T2)
    BY <2>1, <2>2 DEF CallsSame, CaredOf
  <2>5. QED
    BY <2>3, <2>4 DEF Held
<1>3. \A u \in Tid : Held(tg, u, K2, C2, T2)
  BY <1>2
<1>4. QED
  BY <1>1, <1>3 DEF FamilyOf, Held, Statements, Waits, Cared

\* A new thread n that gets a parent, and a thread that gets a child.
Adopted(n, p, fn, sc) == [n EXCEPT !.parent = p, !.i_am_in_function = fn, !.is_scheduled = sc]
Parent(r, c, f) == [r EXCEPT !.children = r.children \cup {c}, !.forks = f]

LEMMA ChildParts ==
  ASSUME NEW n \in Thread, NEW p \in Tid, NEW fn \in BOOLEAN, NEW sc \in BOOLEAN,
         NEW x, x = Adopted(n, p, fn, sc)
  PROVE  /\ x \in Thread /\ x.parent = p /\ x.is_scheduled = sc /\ x.i_am_in_function = fn
         /\ x.status = n.status /\ x.pc = n.pc /\ x.children = n.children
         /\ x.detached_children = n.detached_children /\ x.i_am_detached = n.i_am_detached
         /\ x.i_have_ended = n.i_have_ended /\ x.parent_scope = n.parent_scope
         /\ x.forks = n.forks /\ x.joins = n.joins /\ x.detach = n.detach
         /\ x.i_am_joining = n.i_am_joining /\ x.i_am_waiting = n.i_am_waiting
<1>1. x \in Thread /\ x.parent = p /\ x.is_scheduled = sc /\ x.i_am_in_function = fn
  BY DEF Thread, Adopted
<1>2. /\ x.status = n.status /\ x.pc = n.pc /\ x.children = n.children
      /\ x.detached_children = n.detached_children /\ x.i_am_detached = n.i_am_detached
      /\ x.i_have_ended = n.i_have_ended /\ x.parent_scope = n.parent_scope
      /\ x.forks = n.forks /\ x.joins = n.joins /\ x.detach = n.detach
      /\ x.i_am_joining = n.i_am_joining /\ x.i_am_waiting = n.i_am_waiting
  BY DEF Thread, Adopted
<1>3. QED
  BY <1>1, <1>2

LEMMA NewChild ==
  ASSUME NEW s \in Scopes, NEW p \in Tid, NEW fn \in BOOLEAN, NEW sc \in BOOLEAN, NEW x, x = Child(s, p, fn, sc)
  PROVE  /\ x \in Thread /\ x.status = "alive" /\ x.pc = "code" /\ x.parent = p /\ x.children = {}
         /\ x.detached_children = {} /\ ~x.i_am_detached /\ ~x.i_have_ended /\ x.parent_scope = s
         /\ x.forks = 0 /\ x.joins = 0 /\ x.detach = 0 /\ ~x.i_am_joining /\ ~x.i_am_waiting
         /\ x.is_scheduled = sc /\ x.i_am_in_function = fn
<1>1. PICK n \in Thread : n = vthread_new(s)
  BY NewType
<1>2. /\ n.status = "alive" /\ n.pc = "code" /\ n.children = {}
      /\ n.detached_children = {} /\ ~n.i_am_detached /\ ~n.i_have_ended /\ n.parent_scope = s
      /\ n.forks = 0 /\ n.joins = 0 /\ n.detach = 0 /\ ~n.i_am_joining /\ ~n.i_am_waiting
  BY <1>1 DEF vthread_new
<1>3. x = Adopted(n, p, fn, sc)
  <2>1. PICK z : z = Child(s, p, fn, sc)
    OBVIOUS
  <2>2. z = Adopted(n, p, fn, sc)
    BY <1>1, <2>1 DEF Child, Adopted
  <2>3. QED
    BY <2>1, <2>2
<1>4. /\ x \in Thread /\ x.parent = p /\ x.is_scheduled = sc /\ x.i_am_in_function = fn
      /\ x.status = n.status /\ x.pc = n.pc /\ x.children = n.children
      /\ x.detached_children = n.detached_children /\ x.i_am_detached = n.i_am_detached
      /\ x.i_have_ended = n.i_have_ended /\ x.parent_scope = n.parent_scope
      /\ x.forks = n.forks /\ x.joins = n.joins /\ x.detach = n.detach
      /\ x.i_am_joining = n.i_am_joining /\ x.i_am_waiting = n.i_am_waiting
  BY <1>3, ChildParts
<1>5. QED
  BY <1>2, <1>4

LEMMA NewParent ==
  ASSUME NEW r \in Thread, NEW c \in Tid, NEW f \in Nat, NEW y,
         y = Parent(r, c, f)
  PROVE  /\ y \in Thread /\ y.children = r.children \cup {c} /\ y.forks = f
         /\ y.status = r.status /\ y.parent_scope = r.parent_scope /\ y.pc = r.pc /\ y.parent = r.parent
         /\ y.detached_children = r.detached_children
         /\ y.i_am_detached = r.i_am_detached /\ y.i_have_ended = r.i_have_ended
         /\ y.scope = r.scope /\ y.joins = r.joins /\ y.detach = r.detach
         /\ y.i_am_joining = r.i_am_joining /\ y.i_am_waiting = r.i_am_waiting
         /\ Stays(r, y)
<1>1. PICK S \in SUBSET Tid : S = r.children \cup {c}
  BY DEF Thread
<1>2. y = [r EXCEPT !.children = S, !.forks = f]
  BY <1>1 DEF Parent
<1>3. /\ y \in Thread /\ y.children = S /\ y.forks = f
      /\ y.status = r.status /\ y.parent_scope = r.parent_scope /\ y.pc = r.pc /\ y.parent = r.parent
      /\ y.detached_children = r.detached_children
      /\ y.i_am_detached = r.i_am_detached /\ y.i_have_ended = r.i_have_ended
  BY <1>2 DEF Thread
<1>4. /\ y.scope = r.scope /\ y.joins = r.joins /\ y.detach = r.detach
      /\ y.i_am_joining = r.i_am_joining /\ y.i_am_waiting = r.i_am_waiting
  BY <1>2 DEF Thread
<1>5. Stays(r, y)
  BY <1>2 DEF Thread, Stays
<1>6. QED
  BY <1>1, <1>3, <1>4, <1>5

\* A thread that begins or ends a statement has no children to join.
LEMMA IdleFacts ==
  ASSUME FlagInv, FamilyInv, NEW t, Idle(t)
  PROVE  /\ Running(t) /\ thread[t].pc = "code" /\ disabling = Nil
         /\ thread[t].forks = 0 /\ thread[t].joins = 0 /\ thread[t].detach = 0
         /\ thread[t].children = {}
<1>1. /\ Running(t) /\ thread[t].pc = "code" /\ disabling = Nil
      /\ thread[t].forks + thread[t].joins + thread[t].detach = 0
  BY DEF Idle, Executes, Running
<1>2. PICK r \in Thread : r = thread[t]
  BY <1>1, RunsFamily
<1>3. Cardinality(r.children) + r.forks = r.joins + r.detach
  BY <1>1, <1>2, RunsFamily
<1>4. r.forks = 0 /\ r.joins = 0 /\ r.detach = 0
  <2>1. PICK a \in Nat, b \in Nat, d \in Nat : a = r.forks /\ b = r.joins /\ d = r.detach
    BY DEF Thread
  <2>2. a + b + d = 0
    BY <1>1, <1>2, <2>1
  <2>3. a = 0 /\ b = 0 /\ d = 0
    BY <2>2
  <2>4. QED
    BY <2>1, <2>3
<1>5. r.children = {}
  <2>1. IsFiniteSet(r.children)
    BY ThreadsAssumption, FS_Subset DEF Thread
  <2>2. Cardinality(r.children) \in Nat
    BY <2>1, FS_CardinalityType
  <2>3. Cardinality(r.children) = 0
    BY <1>3, <1>4, <2>2
  <2>4. QED
    BY <2>1, <2>3, FS_EmptySet
<1>6. QED
  BY <1>1, <1>2, <1>4, <1>5

\* The calls when the thread t runs the thread c at once.
LEMMA PushFacts ==
  ASSUME FlagInv, FamilyInv, NEW t, Running(t), NEW c \in Tid, NEW call \in {"callf", "fork"},
         stack' = Push(c, call), ret' = ret
  PROVE  /\ \A u \in Tid : \A d \in Tid :
              <<u, d>> \in Calling' <=> <<u, d>> \in Calling \/ (call = "callf" /\ u = t /\ d = c)
         /\ \A u \in Calls : u \in Calls'
         /\ c \in Calls' /\ c \in Tops' /\ CallsAlone'
<1>1. t \in Tid /\ stack # << >> /\ stack[1].thr = t /\ ~ret /\ CallsAlone /\ stack \in Seq(Frame)
  BY RunsFamily, FlagTypes
<1>2. PICK fr \in Frame : fr = [thr |-> c, rest |-> << >>, call |-> call]
  <2>1. << >> \in Seq(Tid) /\ call \in {"event", "callf", "fork"}
    OBVIOUS
  <2>2. [thr |-> c, rest |-> << >>, call |-> call] \in Frame
    BY <2>1 DEF Frame
  <2>3. QED
    BY <2>2
<1>3. fr.thr = c /\ fr.rest = << >> /\ fr.call = call
  BY <1>2
<1>4. stack' = <<fr>> \o stack
  BY <1>2 DEF Push
<1>5. /\ stack' \in Seq(Frame) /\ Len(stack') = Len(stack) + 1 /\ stack'[1] = fr
      /\ \A i \in 1..Len(stack) : stack[i] = stack'[i + 1]
  BY <1>1, <1>2, <1>4
<1>6. Popped(stack', stack)
  BY <1>1, <1>5 DEF Popped
<1>7. ASSUME NEW u \in Tid, NEW d \in Tid
      PROVE  <<u, d>> \in Calling' <=> <<u, d>> \in Calling \/ (call = "callf" /\ u = t /\ d = c)
  <2>1. <<u, d>> \in Calling' <=>
          <<u, d>> \in Calling \/ (stack # << >> /\ stack'[1].call = "callf" /\ stack[1].thr = u /\ stack'[1].thr = d)
    BY <1>6, PopCalling, FramesOf
  <2>2. QED
    BY <1>1, <1>3, <1>5, <2>1
<1>8. \A u : u \in Calls' <=> u \in Calls \/ u = c
  <2>1. Calls = CallsOf(stack, FALSE) /\ Calls' = CallsOf(stack', FALSE)
    BY <1>1 DEF Calls, CallsOf
  <2>2. \A u : u \in CallsOf(stack', FALSE) <=> u \in CallsOf(stack, FALSE) \/ u = stack'[1].thr
    BY <1>6, PopCalls
  <2>3. stack'[1].thr = c
    BY <1>3, <1>5
  <2>4. QED
    BY <2>1, <2>2, <2>3
<1>9. c \in Tops'
  BY <1>1, <1>3, <1>4, <1>5 DEF Tops
<1>10. CallsAlone'
  BY <1>1, <1>3, <1>5, <1>6, PopCalls, FramesOf
<1>11. QED
  BY <1>7, <1>8, <1>9, <1>10

\* The thread t forks or calls the thread c: x is the new thread, y its parent.
LEMMA BornStep ==
  ASSUME FlagInv, FlagInv', FamilyInv, NEW t, Running(t), thread[t].pc = "code",
         NEW c \in Tid, c = Fresh, Free # {},
         NEW s \in Scopes, NEW fn \in BOOLEAN, NEW sc \in BOOLEAN, NEW x, x = Child(s, t, fn, sc),
         NoCalls => ~fn, NEW f \in Nat, NEW y, y = Parent(thread[t], c, f),
         thread' = [[thread EXCEPT ![c] = x] EXCEPT ![t] = y],
         StatementOf(thread', t, Calling'),
         \A u \in Tid : u # t => \A d \in Tid : <<u, d>> \in Calling' <=> <<u, d>> \in Calling,
         \A u \in Calls : u \in Calls',
         sc \/ c \in Calls',
         CallsAlone', disabling' = Nil
  PROVE  FamilyInv'
<1>1. PICK th \in Threads : th = thread
  BY FlagTypes
<1>2. PICK tg \in Threads : tg = thread'
  BY DEF FlagInv, TypeOK, Threads
<1>3. PICK r \in Thread : r = th[t] /\ t \in Tid /\ ~Dead(r) /\ r.status = "alive" /\ r.pc = "code"
  BY <1>1, RunsFamily
<1>4. /\ FamilyOf(th, Calling, Calls, Tops) /\ t \in Calls /\ ~r.i_am_waiting
      /\ stack[1].thr = t /\ stack # << >>
  BY <1>1, <1>3, RunsFamily
<1>5. th[c].status = "unborn" /\ c \notin Calls /\ c # t
  BY <1>1, <1>3, FreshFacts
<1>6. tg[c] = x /\ tg[t] = y /\ \A u \in Tid : u # t /\ u # c => tg[u] = th[u]
  BY <1>1, <1>2, <1>3, <1>5 DEF Threads
<1>7. /\ x.status = "alive" /\ x.pc = "code" /\ x.parent = t /\ x.children = {}
      /\ x.detached_children = {} /\ ~x.i_am_detached /\ ~x.i_have_ended
      /\ x.forks = 0 /\ x.joins = 0 /\ x.detach = 0 /\ ~x.i_am_joining /\ ~x.i_am_waiting
      /\ x.is_scheduled = sc /\ x.i_am_in_function = fn
  BY <1>3, NewChild
<1>8. /\ y.children = r.children \cup {c} /\ y.status = r.status /\ y.parent_scope = r.parent_scope
      /\ y.pc = r.pc /\ y.parent = r.parent /\ y.detached_children = r.detached_children
      /\ y.i_am_detached = r.i_am_detached /\ y.i_have_ended = r.i_have_ended
      /\ y.i_am_waiting = r.i_am_waiting /\ Stays(r, y)
  <2>1. y = Parent(r, c, f)
    BY <1>1, <1>3
  <2>2. QED
    BY <2>1, NewParent
<1>9. Born(th, tg, t, c)
  <2>1. Fit(x)
    BY <1>7 DEF Fit
  <2>2. QED
    BY <1>3, <1>5, <1>6, <1>7, <1>8, <2>1 DEF Born
<1>10. Held(tg, c, Calling', Calls', Tops')
  <2>1. \A d \in Tid : <<c, d>> \notin Calling'
    BY <1>5, CallFacts
  <2>2. Cardinality(x.children) = 0
    BY <1>7, FS_EmptySet
  <2>3. StatementOf(tg, c, Calling')
    BY <1>6, <1>7, <2>1, <2>2 DEF StatementOf
  <2>4. QED
    BY <1>6, <1>7, <2>3 DEF Held, WaitOf, CaredOf
<1>11. Held(tg, t, Calling', Calls', Tops')
  <2>1. t \in Calls'
    BY <1>4
  <2>2. StatementOf(tg, t, Calling')
    BY <1>2
  <2>3. QED
    BY <1>3, <1>4, <1>6, <1>8, <2>1, <2>2 DEF Held, WaitOf, CaredOf
<1>12. \A u \in Tid : u # t /\ u # c => CallsSame(u, Calling, Calls, Tops, Calling', Calls', Tops')
  <2> SUFFICES ASSUME NEW u \in Tid, u # t
               PROVE  CallsSame(u, Calling, Calls, Tops, Calling', Calls', Tops')
    OBVIOUS
  <2>1. \A d \in Tid : <<u, d>> \in Calling' <=> <<u, d>> \in Calling
    OBVIOUS
  <2>2. (u \in Calls => u \in Calls') /\ u \notin Tops
    BY <1>4 DEF Tops
  <2>3. QED
    BY <2>1, <2>2 DEF CallsSame
<1>13. FamilyOf(tg, Calling', Calls', Tops')
  BY <1>3, <1>4, <1>9, <1>10, <1>11, <1>12, BornFamily
<1>14. QED
  BY <1>2, <1>13 DEF FamilyInv, DisablingHolds

LEMMA ForkFamily ==
  ASSUME FlagInv, FlagInv', FamilyInv, NEW t, of_FORK(t)
  PROVE  FamilyInv'
<1>1. Running(t) /\ thread[t].forks > 0 /\ Free # {} /\ thread[t].pc = "code" /\ ret' = ret /\ disabling' = Nil
  BY DEF of_FORK, Executes, Running
<1>2. PICK r \in Thread : r = thread[t] /\ t \in Tid /\ r.pc = "code"
  BY <1>1, RunsFamily
<1>3. PICK c \in Tid : c = Fresh /\ c # t /\ thread[c].status = "unborn"
  BY <1>1, <1>2, FreshFacts, RunsFamily
<1>4. PICK fn \in BOOLEAN, sc \in BOOLEAN, s \in Scopes : fn = r.i_am_in_function /\ sc = ~fn /\ s = r.scope
  <2>1. r.i_am_in_function \in BOOLEAN /\ r.scope \in Scopes
    BY DEF Thread
  <2>2. QED
    BY <2>1
<1>5. PICK f \in Nat : f = r.forks - 1 /\ r.forks = f + 1
  BY <1>1, <1>2 DEF Thread
<1>6. PICK x : x = Child(s, t, fn, sc)
  OBVIOUS
<1>7. PICK y : y = Parent(r, c, f)
  OBVIOUS
<1>8. thread' = [[thread EXCEPT ![c] = x] EXCEPT ![t] = y]
  <2>1. thread' = [thread EXCEPT ![c] = x, ![t].children = @ \cup {c}, ![t].forks = @ - 1]
    BY <1>2, <1>3, <1>4, <1>6 DEF of_FORK, Child
  <2>2. QED
    BY <1>2, <1>3, <1>5, <1>7, <2>1, FlagTypes DEF Threads, Parent
<1>9. x.parent_scope = s
  BY <1>2, <1>6, NewChild
<1>10. /\ y.children = r.children \cup {c} /\ y.forks = f /\ y.scope = r.scope /\ y.joins = r.joins
       /\ y.detach = r.detach /\ y.i_am_joining = r.i_am_joining /\ y.parent_scope = r.parent_scope
  BY <1>2, <1>7, NewParent
<1>11. thread'[c] = x /\ thread'[t] = y /\ \A u \in Tid : u # t /\ u # c => thread'[u] = thread[u]
  BY <1>2, <1>3, <1>8, FlagTypes DEF Threads
<1>12. /\ Tree(thread) /\ FamilyOf(thread, Calling, Calls, Tops) /\ ~r.i_am_joining
       /\ Cardinality(r.children) + r.forks = r.joins + r.detach
       /\ \A d \in Tid : <<t, d>> \notin Calling
       /\ StatementOf(thread, t, Calling) /\ thread \in Threads
  BY <1>1, <1>2, RunsFamily, FamilyNow DEF FamilyOf, Statements
<1>13. c \notin r.children
  <2>1. Dead(thread[c])
    BY <1>3 DEF Dead
  <2>2. thread[c].parent = Nil
    BY <1>12, <2>1, TreeFacts
  <2>3. QED
    BY <1>2, <1>12, <2>2, TreeFacts, ThreadsAssumption
<1>14. /\ \A u \in Tid : \A d \in Tid : <<u, d>> \in Calling' <=> <<u, d>> \in Calling
       /\ \A u \in Calls : u \in Calls'
       /\ sc \/ c \in Calls'
       /\ CallsAlone'
  <2>1. CASE fn
    <3>1. stack' = Push(c, "fork")
      BY <1>2, <1>3, <1>4, <2>1 DEF of_FORK
    <3>2. "fork" \in {"callf", "fork"}
      OBVIOUS
    <3>3. QED
      BY <1>1, <3>1, <3>2, PushFacts
  <2>2. CASE ~fn
    <3>1. stack' = stack /\ sc
      BY <1>2, <1>3, <1>4, <2>2 DEF of_FORK
    <3>2. Calling' = Calling /\ Calls' = Calls /\ CallsAlone' = CallsAlone
      BY <1>1, <3>1 DEF Calling, Calls, CallsAlone
    <3>3. QED
      BY <1>1, <3>1, <3>2, RunsFamily
  <2>3. QED
    BY <2>1, <2>2
<1>15. StatementOf(thread', t, Calling')
  <2>1. PICK n \in Nat : n = Cardinality(r.children) /\ Cardinality(r.children \cup {c}) = n + 1
    <3>1. IsFiniteSet(r.children)
      BY ThreadsAssumption, FS_Subset DEF Thread
    <3>2. Cardinality(r.children) \in Nat /\ Cardinality(r.children \cup {c}) = Cardinality(r.children) + 1
      BY <1>13, <3>1, FS_CardinalityType, FS_AddElement
    <3>3. QED
      BY <3>2
  <2>2. Cardinality(y.children) + y.forks = y.joins + y.detach + 0
    <3>1. r.joins \in Nat /\ r.detach \in Nat
      BY DEF Thread
    <3>2. n + (f + 1) = r.joins + r.detach
      BY <1>5, <1>12, <2>1
    <3>3. (n + 1) + f = r.joins + r.detach + 0
      BY <3>1, <3>2
    <3>4. QED
      BY <1>10, <2>1, <3>3
  <2>3. ASSUME y.detach > 0 PROVE Detachable(y.scope) /\ \A d \in y.children : Detachable(thread'[d].parent_scope)
    <3>1. Detachable(r.scope) /\ \A d \in r.children : Detachable(thread[d].parent_scope)
      BY <1>2, <1>10, <1>12, <2>3 DEF StatementOf
    <3>2. ASSUME NEW d \in y.children PROVE Detachable(thread'[d].parent_scope)
      <4>1. CASE d = c
        BY <1>4, <1>9, <1>11, <3>1, <4>1
      <4>2. CASE d # c
        <5>1. d \in r.children /\ d \in Tid
          BY <1>10, <3>2, <4>2 DEF Thread
        <5>2. thread'[d].parent_scope = thread[d].parent_scope
          BY <1>2, <1>10, <1>11, <4>2, <5>1
        <5>3. QED
          BY <3>1, <5>1, <5>2
      <4>3. QED
        BY <4>1, <4>2
    <3>3. QED
      BY <1>10, <3>1, <3>2
  <2>4. \A d \in Tid : <<t, d>> \notin Calling'
    BY <1>2, <1>12, <1>14
  <2>5. ~y.i_am_joining
    BY <1>10, <1>12
  <2>6. QED
    BY <1>11, <2>2, <2>3, <2>4, <2>5 DEF StatementOf
<1>16. y = Parent(thread[t], c, f)
  BY <1>2, <1>7
<1>17. QED
  <2>1. NoCalls => ~fn
    BY <1>1, <1>2, <1>4, RunsFamily DEF Sound, Fit
  <2>2. QED
    BY <1>1, <1>2, <1>3, <1>6, <1>8, <1>14, <1>15, <1>16, <2>1, BornStep

LEMMA CallfFamily ==
  ASSUME FlagInv, FlagInv', FamilyInv, NEW t, NEW s \in Scopes, of_CALLF(t, s)
  PROVE  FamilyInv'
<1>1. Running(t) /\ Free # {} /\ Idle(t) /\ ret' = ret /\ disabling' = Nil
  BY DEF of_CALLF, Does, Idle, Executes, Running
<1>2. PICK r \in Thread : r = thread[t] /\ t \in Tid
  BY <1>1, RunsFamily
<1>3. /\ r.pc = "code" /\ r.forks = 0 /\ r.joins = 0 /\ r.detach = 0 /\ r.children = {}
      /\ ~r.i_am_joining /\ \A d \in Tid : <<t, d>> \notin Calling
  BY <1>1, <1>2, IdleFacts, RunsFamily
<1>4. PICK c \in Tid : c = Fresh /\ c # t
  BY <1>1, <1>2, FreshFacts, RunsFamily
<1>5. PICK x : x = Child(s, t, TRUE, FALSE)
  OBVIOUS
<1>6. PICK f \in Nat : f = 0
  OBVIOUS
<1>7. PICK y : y = Parent(r, c, f)
  OBVIOUS
<1>8. thread' = [[thread EXCEPT ![c] = x] EXCEPT ![t] = y]
  <2>1. PICK n \in Thread : n = vthread_new(s) /\ n.is_scheduled = FALSE
    BY NewType DEF vthread_new
  <2>2. [n EXCEPT !.parent = t, !.i_am_in_function = TRUE]
          = [n EXCEPT !.parent = t, !.i_am_in_function = TRUE, !.is_scheduled = FALSE]
    BY <2>1 DEF Thread
  <2>3. x = [n EXCEPT !.parent = t, !.i_am_in_function = TRUE]
    BY <1>5, <2>1, <2>2 DEF Child
  <2>4. thread' = [thread EXCEPT ![c] = x, ![t].children = @ \cup {c}]
    BY <1>4, <2>1, <2>3 DEF of_CALLF
  <2>5. y = [r EXCEPT !.children = r.children \cup {c}]
    BY <1>3, <1>6, <1>7 DEF Parent, Thread
  <2>6. QED
    BY <1>2, <1>4, <2>4, <2>5, FlagTypes DEF Threads
<1>9. /\ y.children = {c} /\ y.forks = 0 /\ y.joins = 0 /\ y.detach = 0 /\ ~y.i_am_joining
  BY <1>2, <1>3, <1>6, <1>7, NewParent
<1>10. /\ \A u \in Tid : \A d \in Tid :
            <<u, d>> \in Calling' <=> <<u, d>> \in Calling \/ (u = t /\ d = c)
       /\ \A u \in Calls : u \in Calls'
       /\ c \in Calls' /\ CallsAlone'
  <2>1. stack' = Push(c, "callf") /\ "callf" \in {"callf", "fork"}
    BY <1>4 DEF of_CALLF
  <2>2. QED
    BY <1>1, <2>1, PushFacts
<1>11. StatementOf(thread', t, Calling')
  <2>1. thread'[t] = y
    BY <1>2, <1>8, FlagTypes DEF Threads
  <2>2. <<t, c>> \in Calling' /\ \A d \in Tid : <<t, d>> \in Calling' => d = c
    BY <1>2, <1>3, <1>10
  <2>3. QED
    BY <1>9, <2>1, <2>2 DEF StatementOf
<1>12. \A u \in Tid : u # t => \A d \in Tid : <<u, d>> \in Calling' <=> <<u, d>> \in Calling
  BY <1>10
<1>13. y = Parent(thread[t], c, f) /\ TRUE \in BOOLEAN /\ FALSE \in BOOLEAN /\ thread[t].pc = "code"
  BY <1>2, <1>3, <1>7
<1>14. ~NoCalls
  <2>1. [op |-> "callf", arg |-> s, n |-> 0] \in Code[r.parent_scope] /\ r.parent_scope \in Scopes
    BY <1>2 DEF of_CALLF, Does, Thread
  <2>2. QED
    BY <2>1 DEF NoCalls
<1>15. QED
  BY <1>1, <1>2, <1>4, <1>5, <1>8, <1>10, <1>11, <1>12, <1>13, <1>14, BornStep

-----------------------------------------------------------------------------
(***************************************************************************)
(* The opcodes that join, detach and end threads, in the family.           *)
(***************************************************************************)

\* The thread t has code to execute, runs on or waits in a %join, and its
\* statement accounts for its children.
LEMMA RunnerHeld ==
  ASSUME NEW tg, NEW t \in Tid, NEW K, NEW C2, NEW T2, NEW x, tg[t] = x,
         x.pc = "code", ~x.i_am_waiting, \A c \in Tid : <<t, c>> \notin K,
         x.i_am_joining \/ t \in C2,
         Cardinality(x.children) + x.forks
           = x.joins + x.detach + (IF x.i_am_joining THEN 1 ELSE 0),
         x.detach > 0 => Detachable(x.scope) /\ \A c \in x.children : Detachable(tg[c].parent_scope),
         x.i_am_joining => \E c \in x.children : ~tg[c].i_have_ended
  PROVE  Held(tg, t, K, C2, T2)
<1>1. StatementOf(tg, t, K)
  BY DEF StatementOf
<1>2. WaitOf(tg[t]) /\ CaredOf(tg, t, C2, T2)
  BY DEF WaitOf, CaredOf
<1>3. QED
  BY <1>1, <1>2 DEF Held

\* The thread t that runs cuts off the threads in X.
LEMMA RunnerCuts ==
  ASSUME FlagInv, FlagInv', FamilyInv, NEW t, Running(t), stack' = stack, disabling' = Nil,
         NEW X \in SUBSET Tid, NEW Y \in SUBSET Tid, NEW E \in SUBSET Tid, t \in X \cup E,
         UsualCut(thread, thread', X, Y, E),
         \A u \in E \ X : Held(thread', u, Calling, Calls', Tops')
  PROVE  FamilyInv'
<1>1. t \in Tid /\ FamilyOf(thread, Calling, Calls, Tops) /\ stack[1].thr = t /\ stack # << >>
  BY RunsFamily
<1>2. thread \in Threads /\ thread' \in Threads
  BY FlagTypes DEF FlagInv, TypeOK, Threads
<1>3. Calling' = Calling /\ \A u \in Tid \ (X \cup E) : CallsSame(u, Calling, Calls, Tops, Calling, Calls', Tops')
  BY <1>1, SameCallsSame
<1>4. UsualStep(thread, thread', X, Y, E, Calling, Calls, Tops, Calling, Calls', Tops')
  BY <1>3 DEF UsualStep
<1>5. FamilyOf(thread', Calling, Calls', Tops')
  BY <1>1, <1>2, <1>4, UsualFamily
<1>6. QED
  BY <1>3, <1>5, RunnerStep

\* A cut of the threads after those in E have changed, but not their family.
LEMMA UsualAfter ==
  ASSUME NEW th \in Threads, NEW t0 \in Threads, NEW tg \in Threads, NEW X \in SUBSET Tid,
         NEW Y \in SUBSET Tid, NEW E \in SUBSET Tid, UsualCut(t0, tg, X, Y, E),
         \A u \in E : SameFamily(th[u], t0[u]), \A u \in Tid \ E : t0[u] = th[u]
  PROVE  UsualCut(th, tg, X, Y, E)
<1>1. \A u \in Tid : SameFamily(th[u], t0[u])
  BY DEF SameFamily, Stays
<1>2. \A u \in Tid : t0[u].parent = th[u].parent /\ t0[u].i_am_detached = th[u].i_am_detached
                     /\ t0[u].i_have_ended = th[u].i_have_ended /\ t0[u].children = th[u].children
  BY <1>1 DEF SameFamily, Stays
<1>3. /\ X \subseteq Y /\ Y \subseteq X \cup E
      /\ \A u \in Tid : th[u].parent \in X /\ ~th[u].i_am_detached => u \in X
      /\ \A u \in X : th[u].parent \in X \cup E \cup {Nil}
      /\ \A u \in X : CutOff(tg[u])
  BY <1>2 DEF UsualCut
<1>4. \A u \in Tid \ (X \cup E) : Usual(th, tg, u, Y)
  <2> SUFFICES ASSUME NEW u \in Tid, u \notin X, u \notin E PROVE Usual(th, tg, u, Y)
    OBVIOUS
  <2>1. Usual(t0, tg, u, Y) /\ t0[u] = th[u]
    BY DEF UsualCut
  <2>2. QED
    BY <2>1 DEF Usual
<1>5. ASSUME NEW u \in E, u \notin X PROVE Special(th, tg, u, X, Y)
  <2>1. Special(t0, tg, u, X, Y) /\ SameFamily(th[u], t0[u])
    BY <1>5 DEF UsualCut
  <2>2. Keeps(th[u], tg[u], X, Y)
    BY <2>1 DEF Special, Keeps, SameFamily, Lost, Stays
  <2>3. QED
    BY <2>1, <2>2 DEF Special, SameFamily, Stays
<1>6. ASSUME NEW c \in E, c \notin X, tg[c].i_have_ended
      PROVE  th[c].i_have_ended \/ (\A u \in Tid \ (X \cup E) : c \in th[u].children => ~th[u].i_am_joining)
  <2>1. t0[c].i_have_ended \/ (\A u \in Tid \ (X \cup E) : c \in t0[u].children => ~t0[u].i_am_joining)
    BY <1>6 DEF UsualCut
  <2>2. QED
    BY <1>2, <2>1
<1>7. QED
  BY <1>3, <1>4, <1>5, <1>6 DEF UsualCut

\* The threads are a tree, whatever happens to the threads in E but to their family.
LEMMA SameTree ==
  ASSUME NEW th \in Threads, NEW tg \in Threads, NEW E \in SUBSET Tid, Tree(th),
         \A u \in E : SameFamily(th[u], tg[u]), \A u \in Tid \ E : tg[u] = th[u]
  PROVE  Tree(tg)
<1>1. \A u \in E : Special(th, tg, u, {}, {}) /\ tg[u].i_have_ended = th[u].i_have_ended
  BY SpecialSame
<1>2. \A u \in Tid \ E : Usual(th, tg, u, {})
  BY DEF Usual, Lost
<1>3. UsualCut(th, tg, {}, {}, E)
  BY <1>1, <1>2 DEF UsualCut
<1>4. Cut(th, tg, {}, {})
  BY <1>3, CutUsual
<1>5. QED
  BY <1>4, CutTree

\* %join.
LEMMA JoinFamily ==
  ASSUME FlagInv, FlagInv', FamilyInv, NEW t, of_JOIN(t)
  PROVE  FamilyInv'
<1> SUFFICES ASSUME ~failed' PROVE FamilyInv'
  BY DEF FamilyInv
<1>1. /\ Running(t) /\ thread[t].pc = "code" /\ disabling' = Nil /\ stack' = stack
      /\ thread[t].joins > 0
  BY DEF of_JOIN, Executes, Running
<1>2. PICK r \in Thread : r = thread[t]
  BY <1>1, RunsFamily
<1>3. /\ t \in Tid /\ r.pc = "code" /\ ~r.i_am_waiting /\ ~r.i_am_joining
      /\ \A c \in Tid : <<t, c>> \notin Calling
      /\ Cardinality(r.children) + r.forks = r.joins + r.detach
      /\ t \in Calls /\ Tree(thread) /\ StatementOf(thread, t, Calling)
  BY <1>1, <1>2, RunsFamily DEF FamilyOf, Statements
<1>4. PICK th \in Threads : th = thread
  BY FlagTypes
<1>5. PICK tg \in Threads : tg = thread'
  BY DEF FlagInv, TypeOK, Threads
<1>6. PICK j \in Nat : j = r.joins - 1
  BY <1>1, <1>2 DEF Thread
<1>7. PICK y \in Thread : y = [r EXCEPT !.joins = j]
  BY DEF Thread
<1>8. PICK t0 \in Threads : t0 = [thread EXCEPT ![t] = y]
  BY <1>3, FlagTypes DEF Threads
<1>9. [thread EXCEPT ![t].joins = @ - 1] = t0
  BY <1>2, <1>3, <1>6, <1>7, <1>8, FlagTypes DEF Threads
<1>10. t0[t] = y /\ \A u \in Tid : u # t => t0[u] = th[u]
  BY <1>3, <1>4, <1>8 DEF Threads
<1>11. /\ SameFamily(r, y) /\ y.joins = j /\ y.forks = r.forks /\ y.detach = r.detach /\ y.scope = r.scope
       /\ y.i_am_joining = r.i_am_joining /\ y.i_am_waiting = r.i_am_waiting /\ y.children = r.children
  BY <1>7 DEF Thread, SameFamily, Stays
<1>12. PICK a \in Nat, f \in Nat, d \in Nat :
         a = Cardinality(r.children) /\ f = r.forks /\ d = r.detach /\ IsFiniteSet(r.children)
  <2>1. IsFiniteSet(r.children)
    BY ThreadsAssumption, FS_Subset DEF Thread
  <2>2. Cardinality(r.children) \in Nat /\ r.forks \in Nat /\ r.detach \in Nat
    BY <2>1, FS_CardinalityType DEF Thread
  <2>3. QED
    BY <2>1, <2>2
<1>13. a + f = j + 1 + d
  <2>1. r.joins = j + 1
    BY <1>6 DEF Thread
  <2>2. QED
    BY <1>3, <1>12, <2>1
<1>14. d > 0 => Detachable(r.scope) /\ \A c \in r.children : Detachable(th[c].parent_scope)
  BY <1>2, <1>3, <1>4, <1>12 DEF StatementOf
<1>15. CASE EndedChildren(t) # {}
  <2>1. PICK c \in EndedChildren(t) : thread' = vthread_reap(t0, c)
    BY <1>9, <1>15 DEF of_JOIN
  <2>2. ret' = ret
    BY <1>15 DEF of_JOIN
  <2>3. c \in Tid /\ c \in r.children /\ th[c].i_have_ended /\ th[c].parent = t /\ c # t
    <3>1. c \in r.children /\ th[c].i_have_ended
      BY <1>2, <1>4 DEF EndedChildren
    <3>2. c \in Tid /\ th[c].parent = t
      BY <1>2, <1>3, <1>4, <3>1, TreeFacts
    <3>3. th[t].parent # t
      BY <1>3, <1>4, TreeFacts
    <3>4. c # t
      BY <3>2, <3>3
    <3>5. QED
      BY <3>1, <3>2, <3>4
  <2>4. t0[c] = th[c] /\ t # Nil
    BY <1>3, <1>10, <2>3, ThreadsAssumption
  <2>5. Tree(t0)
    <3>1. {t} \in SUBSET Tid /\ \A u \in {t} : SameFamily(th[u], t0[u])
      BY <1>2, <1>3, <1>4, <1>10, <1>11
    <3>2. QED
      BY <1>3, <1>4, <1>10, <3>1, SameTree
  <2>6. UsualCut(t0, tg, {c}, {c}, {t}) /\ tg[t] = [y EXCEPT !.children = y.children \ {c}]
    BY <1>3, <1>5, <1>10, <2>1, <2>3, <2>4, <2>5, ReapCut
  <2>7. {c} \in SUBSET Tid /\ {t} \in SUBSET Tid
    BY <1>3, <2>3
  <2>8. UsualCut(th, tg, {c}, {c}, {t})
    <3>1. \A u \in {t} : SameFamily(th[u], t0[u])
      BY <1>2, <1>4, <1>10, <1>11
    <3>2. QED
      BY <1>10, <2>6, <2>7, <3>1, UsualAfter
  <2>9. PICK S \in SUBSET Tid : S = r.children \ {c}
    BY DEF Thread
  <2>10. PICK x \in Thread : x = [y EXCEPT !.children = S]
    BY DEF Thread
  <2>11. /\ x.children = S /\ x.pc = y.pc /\ x.joins = y.joins /\ x.forks = y.forks /\ x.detach = y.detach
         /\ x.scope = y.scope /\ x.i_am_joining = y.i_am_joining /\ x.i_am_waiting = y.i_am_waiting
    BY <2>10 DEF Thread
  <2>12. tg[t] = x
    BY <1>11, <2>6, <2>9, <2>10
  <2>13. Cardinality(S) = a - 1 /\ Cardinality(S) \in Nat
    BY <1>12, <2>3, <2>9, FS_RemoveElement, FS_CardinalityType, FS_Subset
  <2>14. Cardinality(x.children) + x.forks = x.joins + x.detach + 0
    <3>1. PICK b \in Nat : b = Cardinality(S) /\ b = a - 1
      BY <2>13
    <3>2. b + f = j + d + 0
      BY <1>13, <3>1
    <3>3. QED
      BY <1>11, <1>12, <2>11, <3>1, <3>2
  <2>15. ~x.i_am_joining /\ ~x.i_am_waiting /\ x.pc = "code"
    BY <1>3, <1>11, <2>11 DEF SameFamily, Stays
  <2>16. x.detach > 0 => Detachable(x.scope) /\ \A u \in x.children : Detachable(tg[u].parent_scope)
    <3>1. \A u \in S : u \in Tid /\ u # c
      BY <2>9
    <3>2. Cut(th, tg, {c}, {c})
      BY <1>3, <1>4, <2>7, <2>8, CutUsual
    <3>3. \A u \in S : tg[u].parent_scope = th[u].parent_scope
      BY <3>1, <3>2 DEF Cut, Keeps
    <3>4. QED
      BY <1>11, <1>12, <1>14, <2>9, <2>11, <3>3
  <2>17. t \in Calls'
    BY <1>1, <1>3, <2>2 DEF Calls
  <2>18. Held(tg, t, Calling, Calls', Tops')
    BY <1>3, <2>12, <2>14, <2>15, <2>16, <2>17, RunnerHeld
  <2>19. \A u \in {t} \ {c} : Held(thread', u, Calling, Calls', Tops')
    BY <1>5, <2>18
  <2>20. UsualCut(thread, thread', {c}, {c}, {t})
    BY <1>4, <1>5, <2>8
  <2>21. t \in {c} \cup {t}
    OBVIOUS
  <2>22. QED
    BY <1>1, <2>7, <2>19, <2>20, <2>21, RunnerCuts
<1>16. CASE EndedChildren(t) = {}
  <2>1. PICK x \in Thread : x = [y EXCEPT !.i_am_joining = TRUE]
    BY DEF Thread
  <2>2. thread' = [thread EXCEPT ![t] = x] /\ tg[t] = x /\ \A u \in Tid : u # t => tg[u] = th[u]
    <3>1. thread' = [t0 EXCEPT ![t].i_am_joining = TRUE]
      BY <1>9, <1>16 DEF of_JOIN
    <3>2. t0[t] = y
      BY <1>10
    <3>3. thread' = [t0 EXCEPT ![t] = x]
      BY <1>3, <2>1, <3>1, <3>2 DEF Threads
    <3>4. QED
      BY <1>3, <1>4, <1>5, <1>8, <3>3 DEF Threads
  <2>3. /\ x.children = y.children /\ x.pc = y.pc /\ x.joins = y.joins /\ x.forks = y.forks /\ x.detach = y.detach
        /\ x.scope = y.scope /\ x.i_am_joining /\ x.i_am_waiting = y.i_am_waiting
    BY <2>1 DEF Thread
  <2>4. SameFamily(r, x)
    BY <1>7, <2>1 DEF Thread, SameFamily, Stays
  <2>5. Cardinality(x.children) + x.forks = x.joins + x.detach + 1
    BY <1>11, <1>12, <1>13, <2>3
  <2>6. PICK c \in r.children : c \in Tid /\ c # t /\ ~th[c].i_have_ended
    <3>1. thread[t].children # {}
      BY <1>16 DEF of_JOIN
    <3>2. PICK c \in r.children : c \in Tid
      BY <1>2, <3>1 DEF Thread
    <3>3. c # t /\ ~thread[c].i_have_ended
      BY <1>2, <1>3, <1>4, <1>16, <3>2, TreeFacts DEF EndedChildren
    <3>4. QED
      BY <1>4, <3>2, <3>3
  <2>7. x.i_am_joining => \E u \in x.children : ~tg[u].i_have_ended
    BY <1>11, <2>2, <2>3, <2>6
  <2>8. x.detach > 0 => Detachable(x.scope) /\ \A u \in x.children : Detachable(tg[u].parent_scope)
    <3>1. \A u \in r.children : u \in Tid /\ u # t
      BY <1>2, <1>3, <1>4, TreeFacts
    <3>2. QED
      BY <1>11, <1>12, <1>14, <2>2, <2>3, <3>1
  <2>9. ~x.i_am_waiting /\ x.pc = "code"
    BY <1>3, <1>11, <2>3 DEF SameFamily, Stays
  <2>10. Held(tg, t, Calling, Calls', Tops')
    BY <1>3, <2>2, <2>3, <2>5, <2>7, <2>8, <2>9, RunnerHeld
  <2>11. QED
    BY <1>1, <1>2, <1>5, <2>2, <2>4, <2>10, RunnerChanges
<1>17. QED
  BY <1>15, <1>16

\* The thread that detaches its children S.
Detacher(r, S) == [r EXCEPT !.detach = 0, !.children = {}, !.detached_children = @ \cup S]

\* What the family needs to know of it.
Detaches(r, x, S) ==
  /\ x.status = r.status /\ x.parent_scope = r.parent_scope
  /\ x.in_scope = r.in_scope /\ x.pc = r.pc /\ x.parent = r.parent
  /\ x.i_have_ended = r.i_have_ended
  /\ x.scope = r.scope /\ x.forks = r.forks /\ x.joins = r.joins
  /\ x.children = {} /\ x.detach = 0 /\ x.detached_children = r.detached_children \cup S
  /\ x.i_am_detached = r.i_am_detached /\ Calm(r, x) /\ Stays(r, x)

LEMMA DetacherFields ==
  ASSUME NEW r \in Thread, NEW S \in SUBSET Tid
  PROVE  Detaches(r, Detacher(r, S), S)
<1>1. PICK B \in SUBSET Tid : B = r.detached_children \cup S
  BY DEF Thread
<1>2. PICK x : x = [r EXCEPT !.detach = 0, !.children = {}, !.detached_children = B]
  OBVIOUS
<1>3. /\ x.status = r.status /\ x.parent_scope = r.parent_scope
      /\ x.in_scope = r.in_scope /\ x.pc = r.pc /\ x.parent = r.parent
      /\ x.i_have_ended = r.i_have_ended
      /\ x.scope = r.scope /\ x.forks = r.forks /\ x.joins = r.joins
      /\ x.children = {} /\ x.detach = 0 /\ x.detached_children = B
      /\ x.i_am_detached = r.i_am_detached
  BY <1>2 DEF Thread
<1>4. Calm(r, x) /\ Stays(r, x)
  BY <1>2 DEF Thread, Calm, Stays
<1>5. Detacher(r, S) = x
  BY <1>1, <1>2 DEF Detacher
<1>6. QED
  BY <1>1, <1>3, <1>4, <1>5 DEF Detaches

LEMMA DetachShape ==
  ASSUME NEW t \in Tid, of_JOIN_DETACH(t), NEW X, X = EndedChildren(t), NEW S, S = thread[t].children \ X,
         t \notin S, t \notin X,
         \A c \in X : \A u \in thread[c].detached_children : u # t /\ u \notin S /\ u \notin X
  PROVE  /\ thread'[t] = Detacher(thread[t], S)
         /\ \A u \in Tid : u # t /\ u \in S => thread'[u] = [thread[u] EXCEPT !.i_am_detached = TRUE]
         /\ \A u \in Tid : u # t /\ u \notin S /\ u \in X => thread'[u] = ReleaseIfIdle(Unlinked(thread[u]))
         /\ \A u \in Tid : u # t /\ u \notin S /\ u \notin X =>
              /\ (\E c \in X : u \in thread[c].detached_children) => thread'[u] = Orphan(thread[u])
              /\ ~(\E c \in X : u \in thread[c].detached_children) => thread'[u] = thread[u]
<1>1. thread' = [v \in Tid |->
         CASE v = t -> Detacher(thread[t], S)
           [] v \in S -> [thread[v] EXCEPT !.i_am_detached = TRUE]
           [] v \in X -> ReleaseIfIdle(Unlinked(thread[v]))
           [] \E c \in X : v \in thread[c].detached_children -> Orphan(thread[v])
           [] OTHER -> thread[v]]
  BY DEF of_JOIN_DETACH, Detacher
<1>2. thread'[t] = Detacher(thread[t], S)
  <2>1. ~(\E c \in X : t \in thread[c].detached_children)
    OBVIOUS
  <2>2. QED
    BY <1>1, <2>1
<1>4. ASSUME NEW u \in Tid, u # t, u \in S
      PROVE  thread'[u] = [thread[u] EXCEPT !.i_am_detached = TRUE]
  <2>1. u \notin X /\ ~(\E c \in X : u \in thread[c].detached_children)
    BY <1>4
  <2>2. QED
    BY <1>1, <1>4, <2>1
<1>5. ASSUME NEW u \in Tid, u # t, u \notin S, u \in X
      PROVE  thread'[u] = ReleaseIfIdle(Unlinked(thread[u]))
  <2>1. ~(\E c \in X : u \in thread[c].detached_children)
    BY <1>5
  <2>2. QED
    BY <1>1, <1>5, <2>1
<1>6. ASSUME NEW u \in Tid, u # t, u \notin S, u \notin X
      PROVE  /\ (\E c \in X : u \in thread[c].detached_children) => thread'[u] = Orphan(thread[u])
             /\ ~(\E c \in X : u \in thread[c].detached_children) => thread'[u] = thread[u]
  BY <1>1, <1>6
<1>7. QED
  BY <1>2, <1>4, <1>5, <1>6

\* A thread without children that is between two statements.
LEMMA NoChildren ==
  ASSUME NEW th, NEW u, NEW K, th[u].children = {}, th[u].forks = 0, th[u].joins = 0,
         th[u].detach = 0, ~th[u].i_am_joining, \A c \in Tid : <<u, c>> \notin K
  PROVE  StatementOf(th, u, K)
<1>1. Cardinality({}) = 0
  BY FS_EmptySet
<1>2. Cardinality(th[u].children) + th[u].forks = th[u].joins + th[u].detach + 0
  BY <1>1
<1>3. ~(th[u].detach > 0)
  OBVIOUS
<1>4. QED
  BY <1>2, <1>3 DEF StatementOf

\* The children of the thread t become its detached children.
LEMMA DetachFamily ==
  ASSUME NEW th \in Threads, NEW tg \in Threads, NEW t \in Tid, NEW K, NEW C, NEW T,
         FamilyOf(th, K, C, T), NEW S \in SUBSET Tid, S = th[t].children,
         th[t].pc = "code", ~th[t].i_am_joining, ~th[t].i_am_waiting, th[t].forks = 0, th[t].joins = 0,
         \A c \in Tid : <<t, c>> \notin K,
         \A u \in S : ~th[u].i_have_ended /\ Detachable(th[u].parent_scope),
         Detaches(th[t], tg[t], S),
         \A u \in S : tg[u] = [th[u] EXCEPT !.i_am_detached = TRUE],
         \A u \in Tid : u # t /\ u \notin S => tg[u] = th[u]
  PROVE  FamilyOf(tg, K, C, T)
<1>1. /\ \A u \in Tid : th[u] \in Thread /\ tg[u] \in Thread
      /\ Tree(th) /\ ~Dead(th[t])
      /\ \A u \in S : u # t /\ th[u].parent = t /\ ~th[u].i_am_detached
  <2>1. Tree(th)
    BY DEF FamilyOf
  <2>2. ~Dead(th[t]) /\ th[t].parent # t /\ \A u \in S : u \in Tid /\ th[u].parent = t /\ ~th[u].i_am_detached
    BY <2>1, TreeFacts
  <2>3. \A u \in S : u # t
    BY <2>2
  <2>4. QED
    BY <2>1, <2>2, <2>3 DEF Threads
<1>2. ASSUME NEW u \in Tid
      PROVE  /\ tg[u].status = th[u].status /\ tg[u].parent_scope = th[u].parent_scope
             /\ tg[u].in_scope = th[u].in_scope /\ tg[u].pc = th[u].pc /\ tg[u].parent = th[u].parent
             /\ tg[u].i_have_ended = th[u].i_have_ended
             /\ tg[u].scope = th[u].scope /\ tg[u].forks = th[u].forks /\ tg[u].joins = th[u].joins
             /\ Calm(th[u], tg[u]) /\ Stays(th[u], tg[u])
             /\ u = t => tg[u].children = {} /\ tg[u].detach = 0
                         /\ tg[u].detached_children = th[u].detached_children \cup S
                         /\ tg[u].i_am_detached = th[u].i_am_detached
             /\ u # t => tg[u].children = th[u].children /\ tg[u].detach = th[u].detach
                         /\ tg[u].detached_children = th[u].detached_children
             /\ u \in S => tg[u].i_am_detached
             /\ u \notin S => tg[u].i_am_detached = th[u].i_am_detached
  <2>1. PICK r \in Thread : r = th[u]
    BY <1>1
  <2>2. CASE u = t
    <3>1. Detaches(r, tg[u], S) /\ u \notin S
      BY <1>1, <2>1, <2>2
    <3>2. QED
      BY <2>1, <2>2, <3>1 DEF Detaches
  <2>3. CASE u \in S
    <3>1. PICK x : x = [r EXCEPT !.i_am_detached = TRUE]
      OBVIOUS
    <3>2. /\ x.status = r.status /\ x.parent_scope = r.parent_scope
          /\ x.in_scope = r.in_scope /\ x.pc = r.pc /\ x.parent = r.parent
          /\ x.i_have_ended = r.i_have_ended
          /\ x.scope = r.scope /\ x.forks = r.forks /\ x.joins = r.joins
          /\ x.children = r.children /\ x.detach = r.detach /\ x.detached_children = r.detached_children
          /\ x.i_am_detached
      BY <3>1 DEF Thread
    <3>3. Calm(r, x) /\ Stays(r, x)
      BY <3>1 DEF Thread, Calm, Stays
    <3>4. tg[u] = x /\ u # t
      BY <1>1, <2>1, <2>3, <3>1
    <3>5. QED
      BY <2>1, <2>3, <3>2, <3>3, <3>4
  <2>4. CASE u # t /\ u \notin S
    BY <2>4 DEF Calm, Stays
  <2>5. QED
    BY <2>2, <2>3, <2>4
<1>3. \A u \in Tid : Dead(tg[u]) <=> Dead(th[u])
  BY <1>2 DEF Dead
<1>4. Linked(tg)
  <2>1. ASSUME NEW u \in Tid, tg[u].parent # Nil PROVE ~Dead(tg[tg[u].parent])
    <3>1. tg[u].parent = th[u].parent
      BY <1>2
    <3>2. th[u].parent \in Tid /\ ~Dead(th[th[u].parent])
      BY <1>1, <2>1, <3>1, TreeFacts
    <3>3. QED
      BY <1>3, <3>1, <3>2
  <2>2. ASSUME NEW p \in Tid, NEW u \in Tid, ~Dead(tg[p])
        PROVE  /\ u \in tg[p].children <=> tg[u].parent = p /\ ~tg[u].i_am_detached
               /\ u \in tg[p].detached_children <=> tg[u].parent = p /\ tg[u].i_am_detached
    <3>1. /\ u \in th[p].children <=> th[u].parent = p /\ ~th[u].i_am_detached
          /\ u \in th[p].detached_children <=> th[u].parent = p /\ th[u].i_am_detached
      BY <1>1, <1>3, <2>2 DEF Tree, Linked
    <3>2. tg[u].parent = th[u].parent
      BY <1>2
    <3>3. CASE p = t
      <4>1. tg[p].children = {} /\ tg[p].detached_children = th[p].detached_children \cup S /\ th[p].children = S
        BY <1>2, <3>3
      <4>2. CASE u \in S
        BY <1>1, <1>2, <3>2, <3>3, <4>1, <4>2
      <4>3. CASE u \notin S
        <5>1. tg[u].i_am_detached = th[u].i_am_detached
          BY <1>2, <4>3
        <5>2. QED
          BY <3>1, <3>2, <4>1, <4>3, <5>1
      <4>4. QED
        BY <4>2, <4>3
    <3>4. CASE p # t
      <4>1. tg[p].children = th[p].children /\ tg[p].detached_children = th[p].detached_children
        BY <1>2, <3>4
      <4>2. u \in S => th[u].parent # p
        BY <1>1, <3>4
      <4>3. u \notin S => tg[u].i_am_detached = th[u].i_am_detached
        BY <1>2
      <4>4. QED
        BY <3>1, <3>2, <4>1, <4>2, <4>3
    <3>5. QED
      BY <3>3, <3>4
  <2>3. QED
    BY <2>1, <2>2 DEF Linked
<1>5. ASSUME NEW u \in Tid PROVE Sound(tg[u])
  <2>1. Sound(th[u])
    BY <1>1 DEF Tree
  <2>2. /\ tg[u].parent # Nil => tg[u].status = "alive"
        /\ Dead(tg[u]) => ~tg[u].in_scope
        /\ tg[u].status = "alive" => (tg[u].i_have_ended <=> tg[u].pc = "null")
        /\ tg[u].status # "alive" => tg[u].pc = "null"
    BY <1>2, <1>3, <2>1 DEF Sound
  <2>3. tg[u].pc = "null" => tg[u].children = {}
    BY <1>2, <2>1 DEF Sound
  <2>4. tg[u].parent # Nil /\ tg[u].i_am_detached => tg[u].pc = "code" /\ Detachable(tg[u].parent_scope)
    <3>1. CASE u \in S
      <4>1. ~th[u].i_have_ended /\ Detachable(th[u].parent_scope)
        BY <3>1
      <4>2. th[u].pc \in {"code", "null"}
        BY <1>1 DEF Thread
      <4>3. QED
        BY <1>2, <2>1, <4>1, <4>2 DEF Sound
    <3>2. CASE u \notin S
      BY <1>2, <2>1, <3>2 DEF Sound
    <3>3. QED
      BY <3>1, <3>2
  <2>5. tg[u].parent = Nil /\ tg[u].pc = "code" => ~tg[u].i_am_detached
    <3>1. u \in S => th[u].parent # Nil
      BY <1>1, ThreadsAssumption
    <3>2. QED
      BY <1>2, <2>1, <3>1 DEF Sound
  <2>6. Fit(tg[u])
    BY <1>2, <2>1 DEF Sound, Fit, Stays
  <2>7. QED
    BY <2>2, <2>3, <2>4, <2>5, <2>6 DEF Sound
<1>6. Founded(tg)
  <2>1. \A u \in Tid : tg[u].parent = th[u].parent
    BY <1>2
  <2>2. QED
    BY <1>1, <2>1 DEF Tree, Founded
<1>7. ASSUME NEW u \in Tid PROVE Held(tg, u, K, C, T)
  <2>1. Held(th, u, K, C, T)
    BY DEF FamilyOf, Held, Statements, Waits, Cared
  <2>2. StatementOf(tg, u, K)
    <3>1. CASE u = t
      <4>1. tg[t].children = {} /\ tg[t].forks = 0 /\ tg[t].joins = 0 /\ tg[t].detach = 0 /\ ~tg[t].i_am_joining
        BY <1>2 DEF Calm
      <4>2. StatementOf(tg, t, K)
        BY <4>1, NoChildren
      <4>3. QED
        BY <3>1, <4>2
    <3>2. CASE u # t
      <4>1. /\ tg[u].children = th[u].children /\ tg[u].pc = th[u].pc
            /\ tg[u].scope = th[u].scope /\ tg[u].forks = th[u].forks /\ tg[u].joins = th[u].joins
            /\ tg[u].detach = th[u].detach /\ tg[u].i_am_joining = th[u].i_am_joining
        BY <1>2, <3>2 DEF Calm
      <4>2. \A c \in th[u].children : tg[c].parent_scope = th[c].parent_scope /\ tg[c].i_have_ended = th[c].i_have_ended
        <5>1. th[u].children \subseteq Tid
          BY <1>1 DEF Thread
        <5>2. QED
          BY <1>2, <5>1
      <4> SUFFICES ASSUME th[u].pc = "code" PROVE StatementOf(tg, u, K)
        BY <4>1 DEF StatementOf
      <4>3. StatementOf(th, u, K)
        BY <2>1 DEF Held
      <4>4. (\A c \in Tid : <<u, c>> \notin K) =>
              Cardinality(tg[u].children) + tg[u].forks
                = tg[u].joins + tg[u].detach + (IF tg[u].i_am_joining THEN 1 ELSE 0)
        BY <4>1, <4>3 DEF StatementOf
      <4>5. \A c \in Tid : <<u, c>> \in K =>
              tg[u].forks = 0 /\ tg[u].joins = 0 /\ tg[u].detach = 0 /\ tg[u].children = {c}
        BY <4>1, <4>3 DEF StatementOf
      <4>6. /\ tg[u].detach > 0 => Detachable(tg[u].scope) /\ \A c \in tg[u].children : Detachable(tg[c].parent_scope)
            /\ tg[u].i_am_joining => \E c \in tg[u].children : ~tg[c].i_have_ended
        BY <4>1, <4>2, <4>3 DEF StatementOf
      <4>7. QED
        BY <4>4, <4>5, <4>6 DEF StatementOf
    <3>3. QED
      BY <3>1, <3>2
  <2>3. WaitOf(tg[u])
    <3>1. th[u].detached_children \subseteq tg[u].detached_children
      BY <1>2
    <3>2. QED
      BY <1>2, <2>1, <3>1 DEF Held, WaitOf, Calm
  <2>4. CaredOf(tg, u, C, T)
    BY <1>2, <2>1 DEF Held, CaredOf, Calm
  <2>5. QED
    BY <2>2, <2>3, <2>4 DEF Held
<1>8. QED
  BY <1>4, <1>5, <1>6, <1>7 DEF FamilyOf, Tree, Held, Statements, Waits, Cared

\* %join/detach: the children that have ended are reaped, the others detached.
LEMMA JoinDetachFamily ==
  ASSUME FlagInv, FlagInv', FamilyInv, NEW t, of_JOIN_DETACH(t)
  PROVE  FamilyInv'
<1>1. /\ Running(t) /\ thread[t].pc = "code" /\ disabling' = Nil /\ stack' = stack /\ ret' = ret
      /\ thread[t].forks + thread[t].joins = 0 /\ thread[t].detach > 0
  BY DEF of_JOIN_DETACH, Executes, Running
<1>2. PICK r \in Thread : r = thread[t]
  BY <1>1, RunsFamily
<1>3. /\ t \in Tid /\ r.pc = "code" /\ ~r.i_am_waiting /\ ~r.i_am_joining
      /\ \A c \in Tid : <<t, c>> \notin Calling
      /\ t \in Calls /\ Tree(thread) /\ StatementOf(thread, t, Calling)
      /\ FamilyOf(thread, Calling, Calls, Tops) /\ ~Dead(r)
  BY <1>1, <1>2, RunsFamily DEF FamilyOf, Statements
<1>4. PICK th \in Threads : th = thread
  BY FlagTypes
<1>5. PICK tg \in Threads : tg = thread'
  BY DEF FlagInv, TypeOK, Threads
<1>6. r.forks = 0 /\ r.joins = 0
  <2>1. PICK f \in Nat, j \in Nat : f = r.forks /\ j = r.joins
    BY DEF Thread
  <2>2. f + j = 0
    BY <1>1, <1>2, <2>1
  <2>3. f = 0 /\ j = 0
    BY <2>2
  <2>4. QED
    BY <2>1, <2>3
<1>7. \A c \in r.children : Detachable(th[c].parent_scope)
  BY <1>1, <1>2, <1>3, <1>4 DEF StatementOf
<1>8. PICK X \in SUBSET Tid : X = EndedChildren(t)
  BY <1>2 DEF EndedChildren, Thread
<1>9. PICK S \in SUBSET Tid : S = r.children \ X
  BY DEF Thread
<1>11. X \subseteq r.children /\ \A u \in r.children : u \in X <=> th[u].i_have_ended
  BY <1>2, <1>4, <1>8 DEF EndedChildren
<1>12. /\ \A u \in r.children : u \in Tid /\ u # t /\ th[u].parent = t /\ ~th[u].i_am_detached
                                /\ ~Dead(th[u]) /\ th[u] \in Thread
       /\ th[t] = r /\ t # Nil
  <2>1. \A u \in r.children : u \in Tid /\ th[u].parent = t /\ ~th[u].i_am_detached
    BY <1>2, <1>3, <1>4, TreeFacts
  <2>2. t # Nil /\ th[t].parent # t
    BY <1>3, <1>4, TreeFacts, ThreadsAssumption
  <2>3. \A u \in r.children : ~Dead(th[u]) /\ th[u] \in Thread
    BY <1>3, <1>4, <2>1, <2>2, TreeFacts
  <2>4. QED
    BY <1>2, <1>4, <2>1, <2>2, <2>3
<1>13. \A u \in X : th[u].children = {} /\ u # t /\ u \in Tid /\ th[u].parent = t /\ ~th[u].i_am_detached /\ th[u] \in Thread
  <2> SUFFICES ASSUME NEW u \in X PROVE th[u].children = {}
    BY <1>11, <1>12
  <2>1. u \in Tid /\ th[u].i_have_ended /\ th[u].status = "alive"
    BY <1>11, <1>12 DEF Dead
  <2>2. Sound(th[u])
    BY <1>3, <1>4, <2>1 DEF Tree
  <2>3. QED
    BY <2>1, <2>2 DEF Sound
<1>14. \A u \in Tid : Lost(th[u], X) <=> \E c \in X : u \in th[c].detached_children
  <2>1. \A c \in X : ~Dead(th[c])
    BY <1>11, <1>12
  <2>2. \A c \in X, u \in Tid : u \in th[c].detached_children <=> th[u].parent = c /\ th[u].i_am_detached
    BY <1>3, <1>4, <2>1 DEF Tree, Linked
  <2>3. QED
    BY <2>2 DEF Lost
<1>15. PICK n \in Nat : n = Cardinality(S)
  <2>1. IsFiniteSet(S)
    BY ThreadsAssumption, FS_Subset
  <2>2. QED
    BY <2>1, FS_CardinalityType
<1>16. PICK y \in Thread : y = [r EXCEPT !.children = S, !.detach = n]
  BY DEF Thread
<1>a. Stays(r, y)
  BY <1>16 DEF Thread, Stays
<1>17. /\ y.children = S /\ y.detach = n /\ y.status = r.status /\ y.parent_scope = r.parent_scope
       /\ y.in_scope = r.in_scope /\ y.pc = r.pc /\ y.parent = r.parent
       /\ y.i_am_detached = r.i_am_detached /\ y.i_have_ended = r.i_have_ended
       /\ y.detached_children = r.detached_children
       /\ y.scope = r.scope /\ y.forks = r.forks /\ y.joins = r.joins
       /\ y.i_am_joining = r.i_am_joining /\ y.i_am_waiting = r.i_am_waiting
  BY <1>16 DEF Thread
<1>18. PICK t1 : t1 = [u \in Tid |-> IF u = t THEN y ELSE IF u \in X THEN ReleaseIfIdle(Unlinked(th[u]))
                                     ELSE IF Lost(th[u], X) THEN Orphan(th[u]) ELSE th[u]]
  OBVIOUS
<1>19. /\ t1[t] = y
       /\ \A u \in X : t1[u] = ReleaseIfIdle(Unlinked(th[u]))
       /\ \A u \in Tid : u # t /\ u \notin X => Usual(th, t1, u, X)
  BY <1>3, <1>13, <1>18 DEF Usual
<1>20. t1 \in Threads
  <2>1. ASSUME NEW u \in Tid PROVE t1[u] \in Thread
    <3>1. PICK k \in Thread : k = th[u]
      BY DEF Threads
    <3>2. ReleaseIfIdle(Unlinked(k)) \in Thread /\ Orphan(k) \in Thread
      BY QuietReaped, OrphanFields
    <3>3. t1[u] \in {y, ReleaseIfIdle(Unlinked(k)), Orphan(k), k}
      BY <1>18, <3>1
    <3>4. QED
      BY <3>2, <3>3
  <2>2. QED
    BY <1>18, <2>1 DEF Threads
<1>21. th[t].parent \notin X
  <2> SUFFICES ASSUME th[t].parent \in X PROVE FALSE
    OBVIOUS
  <2>1. PICK c \in X : c = th[t].parent
    OBVIOUS
  <2>2. \E v \in {t, c} : th[v].parent \notin {t, c}
    BY <1>3, <1>4, <1>13 DEF Tree, Founded
  <2>3. QED
    BY <1>13, <2>1, <2>2
<1>22. UsualCut(th, t1, X, X, {t})
  <2>1. \A u \in Tid : th[u].parent \in X /\ ~th[u].i_am_detached => u \in X
    <3>1. \A c \in X, u \in Tid : u \in th[c].children <=> th[u].parent = c /\ ~th[u].i_am_detached
      BY <1>3, <1>4, <1>11, <1>12 DEF Tree, Linked
    <3>2. QED
      BY <1>13, <3>1
  <2>2. \A u \in X : CutOff(t1[u])
    <3>1. \A u \in X : Fit(th[u])
      BY <1>3, <1>4, <1>13, TreeFacts
    <3>2. QED
      BY <1>11, <1>13, <1>19, <3>1, ReapedCutOff
  <2>3. Special(th, t1, t, X, X)
    <3>1. ~Lost(r, X)
      BY <1>12, <1>21 DEF Lost
    <3>2. Keeps(r, y, X, X)
      BY <1>9, <1>17, <1>a, <3>1 DEF Keeps
    <3>3. r.detached_children \ X = r.detached_children
      <4>1. \A u \in r.detached_children : th[u].i_am_detached
        BY <1>2, <1>3, <1>4, TreeFacts
      <4>2. QED
        BY <1>13, <4>1
    <3>4. t \notin X
      BY <1>13
    <3>5. QED
      BY <1>12, <1>17, <1>19, <3>2, <3>3, <3>4 DEF Special
  <2>4. t1[t].i_have_ended => th[t].i_have_ended
    BY <1>12, <1>17, <1>19
  <2>5. \A u \in X : th[u].parent = t
    BY <1>13
  <2>6. QED
    BY <1>19, <2>1, <2>2, <2>3, <2>4, <2>5 DEF UsualCut
<1>23. \A u \in S : t1[u].i_have_ended = th[u].i_have_ended /\ t1[u].parent_scope = th[u].parent_scope
                    /\ t1[u] = th[u] /\ u \in Tid /\ u # t /\ u \notin X /\ ~th[u].i_have_ended
  <2> SUFFICES ASSUME NEW u \in S PROVE t1[u] = th[u] /\ u # t /\ u \notin X /\ ~th[u].i_have_ended
    OBVIOUS
  <2>1. u \in r.children /\ u \notin X /\ u # t /\ ~th[u].i_am_detached /\ ~th[u].i_have_ended
    BY <1>9, <1>11, <1>12
  <2>2. ~Lost(th[u], X)
    BY <2>1 DEF Lost
  <2>3. QED
    BY <1>19, <2>1, <2>2 DEF Usual
<1>24. Held(t1, t, Calling, Calls', Tops')
  <2>1. Cardinality(y.children) + y.forks = y.joins + y.detach + 0
    BY <1>6, <1>15, <1>17
  <2>2. t \in Calls'
    BY <1>1, <1>3 DEF Calls
  <2>3. \A c \in y.children : Detachable(t1[c].parent_scope)
    BY <1>7, <1>9, <1>17, <1>23
  <2>4. Detachable(y.scope)
    BY <1>1, <1>2, <1>3, <1>17 DEF StatementOf
  <2>5. ~y.i_am_joining /\ ~y.i_am_waiting /\ y.pc = "code"
    BY <1>3, <1>17
  <2>6. QED
    BY <1>3, <1>19, <2>1, <2>2, <2>3, <2>4, <2>5, RunnerHeld
<1>25. Calling' = Calling /\ Calls' = Calls /\ Tops' = Tops
  BY <1>1 DEF Calling, Calls, Tops
<1>26. FamilyOf(t1, Calling, Calls, Tops)
  <2>1. {t} \in SUBSET Tid
    BY <1>3
  <2>2. \A u \in Tid \ (X \cup {t}) : CallsSame(u, Calling, Calls, Tops, Calling, Calls, Tops)
    BY DEF CallsSame
  <2>3. Held(t1, t, Calling, Calls, Tops)
    BY <1>24, <1>25
  <2>4. UsualStep(th, t1, X, X, {t}, Calling, Calls, Tops, Calling, Calls, Tops)
    BY <1>22, <2>2, <2>3 DEF UsualStep
  <2>5. FamilyOf(th, Calling, Calls, Tops)
    BY <1>3, <1>4
  <2>6. QED
    BY <1>20, <2>1, <2>4, <2>5, UsualFamily
<1>27. /\ Detaches(y, tg[t], S)
       /\ \A u \in S : tg[u] = [t1[u] EXCEPT !.i_am_detached = TRUE]
       /\ \A u \in Tid : u # t /\ u \notin S => tg[u] = t1[u]
  <2>1. S = thread[t].children \ X
    BY <1>2, <1>9
  <2>2. /\ tg[t] = Detacher(r, S)
        /\ \A u \in Tid : u # t /\ u \in S => tg[u] = [th[u] EXCEPT !.i_am_detached = TRUE]
        /\ \A u \in Tid : u # t /\ u \notin S /\ u \in X => tg[u] = ReleaseIfIdle(Unlinked(th[u]))
        /\ \A u \in Tid : u # t /\ u \notin S /\ u \notin X =>
             /\ (\E c \in X : u \in th[c].detached_children) => tg[u] = Orphan(th[u])
             /\ ~(\E c \in X : u \in th[c].detached_children) => tg[u] = th[u]
    <3>1. t \notin S /\ t \notin X
      BY <1>9, <1>12, <1>13
    <3>2. ASSUME NEW c \in X, NEW u \in th[c].detached_children PROVE u # t /\ u \notin S /\ u \notin X
      <4>1. u \in Tid
        BY <1>13, <3>2 DEF Thread
      <4>2. Lost(th[u], X)
        BY <1>14, <3>2, <4>1
      <4>3. u # t
        BY <1>21, <4>2 DEF Lost
      <4>4. u \notin r.children
        BY <1>12, <4>2 DEF Lost
      <4>5. QED
        BY <1>9, <1>11, <4>3, <4>4
    <3>3. \A c \in X : \A u \in thread[c].detached_children : u # t /\ u \notin S /\ u \notin X
      BY <1>4, <3>2
    <3>4. th = thread /\ tg = thread' /\ r = thread[t]
      BY <1>2, <1>4, <1>5
    <3>5. QED
      BY <1>3, <1>8, <2>1, <3>1, <3>3, <3>4, DetachShape
  <2>3. Detaches(r, tg[t], S)
    BY <2>2, DetacherFields
  <2>4. Detaches(y, tg[t], S)
    <3>1. y.detached_children \cup S = r.detached_children \cup S
      BY <1>17
    <3>2. PICK x : x = tg[t]
      OBVIOUS
    <3>3. Calm(r, x) => Calm(y, x)
      <4>1. y.is_scheduled = r.is_scheduled /\ y.waiting_for_event = r.waiting_for_event
        BY <1>16 DEF Thread
      <4>2. QED
        BY <1>17, <4>1 DEF Calm
    <3>4. Stays(r, x) => Stays(y, x)
      <4>1. y.is_scheduled = r.is_scheduled /\ y.i_am_in_function = r.i_am_in_function
        BY <1>16 DEF Thread
      <4>2. QED
        BY <1>17, <4>1 DEF Stays
    <3>5. QED
      BY <1>17, <2>3, <3>1, <3>2, <3>3, <3>4 DEF Detaches
  <2>5. ASSUME NEW u \in S PROVE tg[u] = [th[u] EXCEPT !.i_am_detached = TRUE]
    <3>1. u \in Tid /\ u # t
      BY <1>23
    <3>2. QED
      BY <1>4, <2>2, <3>1
  <2>6. \A u \in X : tg[u] = ReleaseIfIdle(Unlinked(th[u]))
    BY <1>4, <1>9, <1>13, <2>2
  <2>7. \A u \in Tid : u # t /\ u \notin S /\ u \notin X => Usual(th, tg, u, X)
    BY <1>4, <1>14, <2>2 DEF Usual
  <2>8. ASSUME NEW u \in Tid, u # t, u \notin S PROVE tg[u] = t1[u]
    <3>1. CASE u \in X
      BY <1>19, <2>6, <3>1
    <3>2. CASE u \notin X
      BY <1>19, <2>7, <2>8, <3>2 DEF Usual
    <3>3. QED
      BY <3>1, <3>2
  <2>9. QED
    BY <1>23, <2>3, <2>4, <2>5, <2>8
<1>28. FamilyOf(tg, Calling, Calls, Tops)
  <2>1. /\ t1[t].children = S /\ t1[t].pc = "code" /\ ~t1[t].i_am_joining /\ ~t1[t].i_am_waiting
        /\ t1[t].forks = 0 /\ t1[t].joins = 0
    BY <1>3, <1>6, <1>17, <1>19
  <2>2. \A u \in S : ~t1[u].i_have_ended /\ Detachable(t1[u].parent_scope)
    BY <1>7, <1>9, <1>23
  <2>3. Detaches(t1[t], tg[t], S)
    BY <1>19, <1>27
  <2>4. \A c \in Tid : <<t, c>> \notin Calling
    BY <1>3
  <2>5. \A u \in S : tg[u] = [t1[u] EXCEPT !.i_am_detached = TRUE]
    BY <1>27
  <2>6. \A u \in Tid : u # t /\ u \notin S => tg[u] = t1[u]
    BY <1>27
  <2>7. QED
    BY <1>3, <1>20, <1>26, <2>1, <2>2, <2>3, <2>4, <2>5, <2>6, DetachFamily
<1>29. QED
  BY <1>1, <1>5, <1>25, <1>28, RunnerStep

\* The detached children of the thread t and all below them.
Gone(th, t) == UNION {Descendants(th, c) : c \in th[t].detached_children}

LEMMA GoneFacts ==
  ASSUME NEW th \in Threads, Tree(th), NEW t \in Tid, ~Dead(th[t]),
         NEW X, X = Gone(th, t)
  PROVE  /\ X \in SUBSET Tid /\ th[t].detached_children \subseteq X
         /\ \A u \in X : ~Dead(th[u]) /\ th[u].parent \in X \cup {t} /\ th[u] \in Thread
         /\ \A u \in Tid : th[u].parent \in X /\ ~th[u].i_am_detached => u \in X
         /\ t \notin X /\ th[t].parent \notin X
<1>1. \A c \in th[t].detached_children : c \in Tid /\ th[c].parent = t /\ ~Dead(th[c])
  <2> SUFFICES ASSUME NEW c \in th[t].detached_children PROVE c \in Tid /\ th[c].parent = t /\ ~Dead(th[c])
    OBVIOUS
  <2>1. c \in Tid /\ th[c].parent = t
    BY TreeFacts
  <2>2. QED
    BY <2>1, TreeFacts, ThreadsAssumption
<1>2. ASSUME NEW u \in X
      PROVE  u \in Tid /\ ~Dead(th[u]) /\ th[u].parent \in X \cup {t} /\ th[u] \in Thread
  <2>1. PICK c \in th[t].detached_children : u \in Descendants(th, c)
    BY <1>2 DEF Gone
  <2>2. PICK D : D = Descendants(th, c)
    OBVIOUS
  <2>3. D \subseteq X
    BY <2>2 DEF Gone
  <2>4. D \in SUBSET Tid /\ \A v \in D : ~Dead(th[v]) /\ (v # c => th[v].parent \in D)
    BY <1>1, <2>2, Below
  <2>5. u \in Tid /\ ~Dead(th[u]) /\ th[u].parent \in X \cup {t}
    BY <1>1, <2>1, <2>2, <2>3, <2>4
  <2>6. QED
    BY <2>5, TreeFacts
<1>3. ASSUME NEW c \in th[t].detached_children PROVE c \in X
  <2>1. c \in Descendants(th, c)
    BY <1>1, Below
  <2>2. QED
    BY <2>1 DEF Gone
<1>4. ASSUME NEW u \in Tid, th[u].parent \in X, ~th[u].i_am_detached PROVE u \in X
  <2>1. PICK c \in th[t].detached_children : th[u].parent \in Descendants(th, c)
    BY <1>4 DEF Gone
  <2>2. u \in Descendants(th, c)
    BY <1>1, <1>4, <2>1, Below
  <2>3. QED
    BY <2>2 DEF Gone
<1>5. X \in SUBSET Tid
  BY <1>2
<1>6. t \notin X
  <2> SUFFICES ASSUME t \in X PROVE FALSE
    OBVIOUS
  <2>1. \E u \in X : th[u].parent \notin X
    BY <1>5 DEF Tree, Founded
  <2>2. QED
    BY <1>2, <2>1
<1>7. th[t].parent \notin X
  <2> SUFFICES ASSUME th[t].parent \in X PROVE FALSE
    OBVIOUS
  <2>1. PICK S \in SUBSET Tid : S = X \cup {t}
    BY <1>5
  <2>2. \E u \in S : th[u].parent \notin S
    BY <2>1 DEF Tree, Founded
  <2>3. QED
    BY <1>2, <2>1, <2>2
<1>8. QED
  BY <1>2, <1>3, <1>4, <1>5, <1>6, <1>7

LEMMA DisableForkShape ==
  ASSUME NEW t \in Tid, of_DISABLE_FORK(t),
         NEW X, X = Gone(thread, t), t \notin X
  PROVE  /\ thread'[t] = [thread[t] EXCEPT !.detached_children = {}]
         /\ \A u \in Tid : u \in X => thread'[u] = ReleaseIfIdle(Unlinked(Off(thread[u])))
         /\ \A u \in Tid : u # t /\ u \notin X =>
              /\ (\E v \in X : u \in thread[v].detached_children) => thread'[u] = Orphan(thread[u])
              /\ ~(\E v \in X : u \in thread[v].detached_children) => thread'[u] = thread[u]
<1>1. thread' = [u \in Tid |->
         CASE u = t -> [thread[t] EXCEPT !.detached_children = {}]
           [] u \in X -> ReleaseIfIdle(Unlinked(Off(thread[u])))
           [] u \notin X \cup {t} /\ (\E v \in X : u \in thread[v].detached_children) ->
                Orphan(thread[u])
           [] OTHER -> thread[u]]
  BY DEF of_DISABLE_FORK, Gone
<1>2. thread'[t] = [thread[t] EXCEPT !.detached_children = {}]
  BY <1>1
<1>3. ASSUME NEW u \in Tid, u \in X PROVE thread'[u] = ReleaseIfIdle(Unlinked(Off(thread[u])))
  BY <1>1, <1>3
<1>4. ASSUME NEW u \in Tid, u # t, u \notin X
      PROVE  /\ (\E v \in X : u \in thread[v].detached_children) => thread'[u] = Orphan(thread[u])
             /\ ~(\E v \in X : u \in thread[v].detached_children) => thread'[u] = thread[u]
  BY <1>1, <1>4
<1>5. QED
  BY <1>2, <1>3, <1>4

\* %disable/fork.
LEMMA DisableForkFamily ==
  ASSUME FlagInv, FlagInv', FamilyInv, NEW t, of_DISABLE_FORK(t)
  PROVE  FamilyInv'
<1>1. Idle(t) /\ disabling' = disabling /\ stack' = stack /\ ret' = ret
  BY DEF of_DISABLE_FORK, Does
<1>2. /\ Running(t) /\ thread[t].pc = "code" /\ disabling = Nil
      /\ thread[t].forks = 0 /\ thread[t].joins = 0 /\ thread[t].detach = 0
      /\ thread[t].children = {}
  BY <1>1, IdleFacts
<1>3. PICK r \in Thread : r = thread[t]
  BY <1>2, RunsFamily
<1>4. /\ t \in Tid /\ r.pc = "code" /\ ~r.i_am_waiting /\ ~r.i_am_joining
      /\ \A c \in Tid : <<t, c>> \notin Calling
      /\ t \in Calls /\ Tree(thread) /\ ~Dead(r)
  BY <1>2, <1>3, RunsFamily
<1>5. PICK th \in Threads : th = thread
  BY FlagTypes
<1>6. PICK tg \in Threads : tg = thread'
  BY DEF FlagInv, TypeOK, Threads
<1>7. PICK X : X = Gone(thread, t)
  OBVIOUS
<1>8. /\ X \in SUBSET Tid /\ th[t].detached_children \subseteq X
      /\ \A u \in X : ~Dead(th[u]) /\ th[u].parent \in X \cup {t} /\ th[u] \in Thread
      /\ \A u \in Tid : th[u].parent \in X /\ ~th[u].i_am_detached => u \in X
      /\ t \notin X /\ th[t].parent \notin X
  BY <1>3, <1>4, <1>5, <1>7, GoneFacts
<1>9. PICK x \in Thread : x = [r EXCEPT !.detached_children = {}]
  BY DEF Thread
<1>10. /\ x.children = r.children /\ x.detach = r.detach /\ x.status = r.status /\ x.parent_scope = r.parent_scope
       /\ x.in_scope = r.in_scope /\ x.pc = r.pc /\ x.parent = r.parent
       /\ x.i_am_detached = r.i_am_detached /\ x.i_have_ended = r.i_have_ended
       /\ x.detached_children = {}
       /\ x.forks = r.forks /\ x.joins = r.joins
       /\ x.i_am_joining = r.i_am_joining /\ x.i_am_waiting = r.i_am_waiting
  BY <1>9 DEF Thread
<1>a. Stays(r, x)
  BY <1>9 DEF Thread, Stays
<1>11. /\ tg[t] = x
       /\ \A u \in X : tg[u] = ReleaseIfIdle(Unlinked(Off(th[u])))
       /\ \A u \in Tid : u # t /\ u \notin X =>
            /\ (\E v \in X : u \in th[v].detached_children) => tg[u] = Orphan(th[u])
            /\ ~(\E v \in X : u \in th[v].detached_children) => tg[u] = th[u]
  <2>1. /\ thread'[t] = [thread[t] EXCEPT !.detached_children = {}]
        /\ \A u \in Tid : u \in X => thread'[u] = ReleaseIfIdle(Unlinked(Off(thread[u])))
        /\ \A u \in Tid : u # t /\ u \notin X =>
             /\ (\E v \in X : u \in thread[v].detached_children) => thread'[u] = Orphan(thread[u])
             /\ ~(\E v \in X : u \in thread[v].detached_children) => thread'[u] = thread[u]
    <3>1. t \in Tid /\ t \notin X
      BY <1>4, <1>8
    <3>2. QED
      BY <1>7, <3>1, DisableForkShape
  <2>2. tg[t] = x
    BY <1>3, <1>6, <1>9, <2>1
  <2>3. \A u \in X : tg[u] = ReleaseIfIdle(Unlinked(Off(th[u])))
    BY <1>5, <1>6, <1>8, <2>1
  <2>4. \A u \in Tid : u # t /\ u \notin X =>
          /\ (\E v \in X : u \in th[v].detached_children) => tg[u] = Orphan(th[u])
          /\ ~(\E v \in X : u \in th[v].detached_children) => tg[u] = th[u]
    BY <1>5, <1>6, <2>1
  <2>5. QED
    BY <2>2, <2>3, <2>4
<1>12. \A u \in Tid : Lost(th[u], X) <=> \E v \in X : u \in th[v].detached_children
  <2>1. \A v \in X, u \in Tid : u \in th[v].detached_children <=> th[u].parent = v /\ th[u].i_am_detached
    BY <1>4, <1>5, <1>8 DEF Tree, Linked
  <2>2. QED
    BY <2>1 DEF Lost
<1>13. UsualCut(th, tg, X, X, {t})
  <2>1. \A u \in X : CutOff(tg[u])
    <3>1. \A u \in X : Fit(th[u])
      BY <1>4, <1>5, <1>8, TreeFacts
    <3>2. QED
      BY <1>8, <1>11, <3>1, ReapedCutOff
  <2>2. \A u \in Tid : u # t /\ u \notin X => Usual(th, tg, u, X)
    BY <1>11, <1>12 DEF Usual
  <2>3. Special(th, tg, t, X, X)
    <3>1. ~Lost(r, X) /\ r.children \ X = r.children
      BY <1>2, <1>3, <1>5, <1>8 DEF Lost
    <3>2. Keeps(r, x, X, X)
      BY <1>10, <1>a, <3>1 DEF Keeps
    <3>3. r.detached_children \ X = {}
      BY <1>3, <1>5, <1>8
    <3>4. QED
      BY <1>3, <1>5, <1>8, <1>10, <1>11, <3>2, <3>3 DEF Special
  <2>4. tg[t].i_have_ended => th[t].i_have_ended
    BY <1>3, <1>5, <1>10, <1>11
  <2>5. \A u \in X : th[u].parent \in X \cup {t} \cup {Nil}
    BY <1>8
  <2>6. QED
    BY <1>8, <2>1, <2>2, <2>3, <2>4, <2>5 DEF UsualCut
<1>14. Held(tg, t, Calling, Calls', Tops')
  <2>1. t \in Calls'
    BY <1>1, <1>4 DEF Calls
  <2>2. x.children = {} /\ x.forks = 0 /\ x.joins = 0 /\ x.detach = 0 /\ ~x.i_am_joining
        /\ ~x.i_am_waiting /\ x.pc = "code"
    BY <1>2, <1>3, <1>4, <1>10
  <2>3. StatementOf(tg, t, Calling)
    BY <1>4, <1>11, <2>2, NoChildren
  <2>4. QED
    BY <1>11, <2>1, <2>2, <2>3 DEF Held, WaitOf, CaredOf
<1>15. \A u \in {t} \ X : Held(thread', u, Calling, Calls', Tops')
  BY <1>6, <1>14
<1>16. UsualCut(thread, thread', X, X, {t}) /\ {t} \in SUBSET Tid /\ t \in X \cup {t} /\ X \in SUBSET Tid
  BY <1>4, <1>5, <1>6, <1>8, <1>13
<1>17. disabling' = Nil
  BY <1>1, <1>2
<1>18. QED
  BY <1>1, <1>2, <1>15, <1>16, <1>17, RunnerCuts

\* A thread that has ended and has no children left is reaped.
LEMMA ReapEnded ==
  ASSUME NEW g \in Threads, NEW t \in Tid, g[t].children = {}, g[t].detached_children = {},
         NEW p, p = g[t].parent, p # t
  PROVE  /\ vthread_reap(g, t)[t] = ReleaseIfIdle(Unlinked(g[t]))
         /\ \A u \in Tid : u # t /\ u # p => vthread_reap(g, t)[u] = g[u]
         /\ p \in Tid /\ ~g[t].i_am_detached =>
              vthread_reap(g, t)[p] = [g[p] EXCEPT !.children = @ \ {t}]
<1>1. vthread_reap(g, t)[t] = ReleaseIfIdle(Unlinked(g[t]))
  BY DEF vthread_reap
<1>2. ASSUME NEW u \in Tid, u # t, u # p PROVE vthread_reap(g, t)[u] = g[u]
  BY <1>2 DEF vthread_reap
<1>3. ASSUME p \in Tid, ~g[t].i_am_detached
      PROVE  vthread_reap(g, t)[p] = [g[p] EXCEPT !.children = @ \ {t}]
  BY <1>3 DEF vthread_reap
<1>4. QED
  BY <1>1, <1>2, <1>3

LEMMA ReapIs ==
  ASSUME NEW g \in Threads, NEW t \in Tid, NEW z, z = g[t], z.children = {}, z.detached_children = {},
         z.parent # t, NEW G, G = vthread_reap(g, t)
  PROVE  /\ G[t] = ReleaseIfIdle(Unlinked(z))
         /\ \A u \in Tid : u # t /\ u # z.parent => G[u] = g[u]
<1>1. PICK p : p = z.parent
  OBVIOUS
<1>2. g[t].children = {} /\ g[t].detached_children = {} /\ p = g[t].parent /\ p # t
  BY <1>1
<1>3. vthread_reap(g, t)[t] = ReleaseIfIdle(Unlinked(g[t]))
  BY <1>2 DEF vthread_reap
<1>4. ASSUME NEW u \in Tid, u # t, u # p PROVE vthread_reap(g, t)[u] = g[u]
  BY <1>2, <1>4 DEF vthread_reap
<1>5. QED
  BY <1>1, <1>3, <1>4

\* The thread r when it has ended.
AtEnd(r) == [r EXCEPT !.i_have_ended = TRUE, !.pc = "null", !.detached_children = {}]

LEMMA AtEndFields ==
  ASSUME NEW r \in Thread, NEW x, x = AtEnd(r)
  PROVE  /\ x \in Thread /\ x.i_have_ended /\ x.pc = "null" /\ x.detached_children = {}
         /\ x.children = r.children /\ x.status = r.status /\ x.parent_scope = r.parent_scope
         /\ x.in_scope = r.in_scope /\ x.parent = r.parent /\ x.i_am_detached = r.i_am_detached
         /\ Stays(r, x) /\ x.is_scheduled = r.is_scheduled
<1>1. x = [r EXCEPT !.i_have_ended = TRUE, !.pc = "null", !.detached_children = {}]
  BY DEF AtEnd
<1>2. x.is_scheduled = r.is_scheduled /\ x.i_am_in_function = r.i_am_in_function
  BY <1>1 DEF Thread
<1>3. Stays(r, x)
  BY <1>2 DEF Stays
<1>4. /\ x \in Thread /\ x.i_have_ended /\ x.pc = "null" /\ x.detached_children = {}
      /\ x.children = r.children /\ x.status = r.status /\ x.parent_scope = r.parent_scope
      /\ x.in_scope = r.in_scope /\ x.parent = r.parent /\ x.i_am_detached = r.i_am_detached
  BY <1>1 DEF Thread
<1>5. QED
  BY <1>2, <1>3, <1>4

LEMMA EndedShape ==
  ASSUME NEW t \in Tid, t \notin thread[t].detached_children
  PROVE  /\ Ended(t)[t] = AtEnd(thread[t])
         /\ \A u \in Tid : u # t => /\ u \in thread[t].detached_children => Ended(t)[u] = Orphan(thread[u])
                                    /\ u \notin thread[t].detached_children => Ended(t)[u] = thread[u]
<1>1. Ended(t) = [u \in Tid |->
        CASE u = t -> AtEnd(thread[t])
          [] u \in thread[t].detached_children -> Orphan(thread[u])
          [] OTHER -> thread[u]]
  BY DEF Ended, AtEnd
<1>2. Ended(t)[t] = AtEnd(thread[t])
  BY <1>1
<1>3. ASSUME NEW u \in Tid, u # t
      PROVE  /\ u \in thread[t].detached_children => Ended(t)[u] = Orphan(thread[u])
             /\ u \notin thread[t].detached_children => Ended(t)[u] = thread[u]
  BY <1>1, <1>3
<1>4. QED
  BY <1>2, <1>3

\* What is left of the parent q of a detached thread t that has ended: it is
\* woken out of a %wait/fork if t was its last detached child.
Leaves(q, x, t) ==
  /\ x.status = q.status /\ x.parent_scope = q.parent_scope /\ x.in_scope = q.in_scope
  /\ x.pc = q.pc /\ x.parent = q.parent /\ x.children = q.children
  /\ x.detached_children = q.detached_children \ {t}
  /\ x.i_am_detached = q.i_am_detached /\ x.i_have_ended = q.i_have_ended
  /\ SameStatement(q, x) /\ x.i_am_joining = q.i_am_joining
  /\ x.i_am_in_function = q.i_am_in_function
  /\ \/ x.is_scheduled /\ ~x.i_am_waiting
     \/ Calm(q, x) /\ ~(q.i_am_waiting /\ q.detached_children = {t})

LEMMA LeavesFields ==
  ASSUME NEW q \in Thread, NEW t, NEW D \in SUBSET Tid, D = q.detached_children \ {t}
  PROVE  /\ Leaves(q, [q EXCEPT !.i_am_waiting = FALSE, !.is_scheduled = TRUE, !.detached_children = D], t)
         /\ ~(q.i_am_waiting /\ q.detached_children = {t}) => Leaves(q, [q EXCEPT !.detached_children = D], t)
<1>1. PICK x : x = [q EXCEPT !.i_am_waiting = FALSE, !.is_scheduled = TRUE, !.detached_children = D]
  OBVIOUS
<1>2. /\ x.status = q.status /\ x.parent_scope = q.parent_scope /\ x.in_scope = q.in_scope
      /\ x.pc = q.pc /\ x.parent = q.parent /\ x.children = q.children
      /\ x.detached_children = D
      /\ x.i_am_detached = q.i_am_detached /\ x.i_have_ended = q.i_have_ended
      /\ x.i_am_joining = q.i_am_joining /\ x.i_am_in_function = q.i_am_in_function
      /\ x.is_scheduled /\ ~x.i_am_waiting
  BY <1>1 DEF Thread
<1>3. SameStatement(q, x)
  BY <1>1 DEF Thread, SameStatement
<1>4. PICK z : z = [q EXCEPT !.detached_children = D]
  OBVIOUS
<1>5. /\ z.status = q.status /\ z.parent_scope = q.parent_scope /\ z.in_scope = q.in_scope
      /\ z.pc = q.pc /\ z.parent = q.parent /\ z.children = q.children
      /\ z.detached_children = D
      /\ z.i_am_detached = q.i_am_detached /\ z.i_have_ended = q.i_have_ended
      /\ z.i_am_joining = q.i_am_joining /\ z.i_am_in_function = q.i_am_in_function
  BY <1>4 DEF Thread
<1>6. SameStatement(q, z) /\ Calm(q, z)
  BY <1>4 DEF Thread, SameStatement, Calm
<1>7. Leaves(q, x, t)
  BY <1>2, <1>3 DEF Leaves
<1>8. ~(q.i_am_waiting /\ q.detached_children = {t}) => Leaves(q, z, t)
  BY <1>5, <1>6 DEF Leaves
<1>9. QED
  BY <1>1, <1>4, <1>7, <1>8

\* What %end does to the thread t and to its parent p; nothing happens to the
\* others but that they lose t as their parent.
LEMMA EndShape ==
  ASSUME FlagInv, FamilyInv, NEW t, of_END(t), NEW p, p = thread[t].parent
  PROVE  /\ t \in Tid /\ p \in Tid \cup {Nil} /\ p # t /\ thread[t].children = {}
         /\ \A u \in Tid : u # t /\ u # p => Usual(thread, thread', u, {t})
         /\ p # Nil => ~Lost(thread[p], {t})
         /\ CASE p = Nil -> CutOff(thread'[t])
              [] p # Nil /\ thread[t].i_am_detached ->
                   CutOff(thread'[t]) /\ Leaves(thread[p], thread'[p], t)
              [] p # Nil /\ ~thread[t].i_am_detached /\ thread[p].i_am_joining ->
                   CutOff(thread'[t]) /\ thread'[p] = Awakened(thread[p], t)
              [] OTHER -> thread'[t] = AtEnd(thread[t]) /\ thread'[p] = thread[p]
<1> DEFINE r == thread[t]
<1>1. Running(t) /\ r.pc = "code" /\ r.children = {}
  BY IdleFacts DEF of_END
<1>2. t \in Tid /\ r \in Thread /\ Tree(thread) /\ ~Dead(r) /\ ~failed /\ thread \in Threads
  BY <1>1, RunsFamily, FlagTypes
<1>3. p \in Tid \cup {Nil} /\ p # t
  BY <1>2, TreeFacts DEF Thread
<1>4. \A u \in Tid : u \in r.detached_children <=> Lost(thread[u], {t})
  BY <1>2 DEF Tree, Linked, Lost
<1>5. t \notin r.detached_children /\ (p # Nil => p \notin r.detached_children)
  <2>1. ~Lost(thread[t], {t})
    BY <1>3 DEF Lost
  <2>2. ASSUME p # Nil PROVE thread[p].parent # t
    <3>1. p \in Tid
      BY <1>3, <2>2
    <3>2. \E v \in {t, p} : thread[v].parent \notin {t, p}
      BY <1>2, <3>1 DEF Tree, Founded
    <3>3. QED
      BY <3>2
  <2>3. QED
    BY <1>2, <1>3, <1>4, <2>1, <2>2 DEF Lost
<1>6. r.i_am_detached => p # Nil
  <2>1. Sound(r)
    BY <1>2, TreeFacts
  <2>2. QED
    BY <1>1, <2>1 DEF Sound
<1> HIDE DEF r
<1>7. PICK y \in Thread : /\ y = AtEnd(r) /\ y.i_have_ended /\ y.children = {} /\ y.detached_children = {}
                          /\ y.parent = p /\ y.i_am_detached = r.i_am_detached /\ Fit(y)
  <2>1. Fit(r)
    BY <1>2, TreeFacts DEF r
  <2>2. PICK y \in Thread : y = AtEnd(r)
    BY <1>2, AtEndFields DEF r
  <2>3. Fit(y)
    BY <1>2, <2>1, <2>2, AtEndFields DEF Fit, Stays, r
  <2>4. QED
    BY <1>1, <1>2, <2>2, <2>3, AtEndFields DEF r
<1>8. PICK f : f = Ended(t)
  OBVIOUS
<1>9. f \in Threads
  BY <1>2, <1>8, EndedQuiet
<1>10. f[t] = y /\ \A u \in Tid : u # t => Usual(thread, f, u, {t})
  BY <1>2, <1>4, <1>5, <1>7, <1>8, EndedShape DEF r, Usual
<1>11. p # Nil => f[p] = thread[p] /\ ~Lost(thread[p], {t})
  BY <1>3, <1>4, <1>5, <1>10 DEF Usual
<1>12. PICK h : h = Alone(t)
  OBVIOUS
<1>13. thread' = IF Reaps(t) THEN vthread_reap(h, t) ELSE h
  BY <1>12 DEF of_END
<1>14. CASE p = Nil
  <2>1. ~r.i_am_detached
    BY <1>6, <1>14
  <2>2. h = f
    BY <1>8, <1>12, <1>14, <2>1 DEF Alone, Woken, WakesJoin, WakesWaitFork, r
  <2>3. thread' = vthread_reap(f, t)
    BY <1>13, <1>14, <2>2 DEF Reaps
  <2>4. thread'[t] = ReleaseIfIdle(Unlinked(y)) /\ \A u \in Tid : u # t /\ u # p => thread'[u] = f[u]
    <3>1. y = f[t] /\ y.children = {} /\ y.detached_children = {} /\ y.parent = p /\ y.parent # t
      BY <1>3, <1>7, <1>10
    <3>2. t \in Tid
      BY <1>2
    <3>3. /\ thread'[t] = ReleaseIfIdle(Unlinked(y))
          /\ \A u \in Tid : u # t /\ u # y.parent => thread'[u] = f[u]
      BY <1>9, <2>3, <3>1, <3>2, ReapIs
    <3>4. QED
      BY <3>1, <3>3
  <2>5. CutOff(thread'[t])
    BY <1>7, <2>4, ReapedCutOff
  <2>6. \A u \in Tid : u # t /\ u # p => Usual(thread, thread', u, {t})
    BY <1>10, <2>4 DEF Usual
  <2>7. QED
    BY <1>1, <1>2, <1>3, <1>14, <2>5, <2>6 DEF r
<1>15. CASE p # Nil /\ r.i_am_detached
  <2>1. p \in Tid
    BY <1>3, <1>15
  <2>2. ~WakesJoin(t) /\ Reaps(t)
    BY <1>15 DEF WakesJoin, Reaps, r
  <2>3. PICK q \in Thread : q = thread[p] /\ q = f[p]
    BY <1>2, <1>11, <1>15, <2>1 DEF Threads
  <2>4. PICK D \in SUBSET Tid : D = q.detached_children \ {t}
    BY DEF Thread
  <2>5. PICK w \in Thread : \/ /\ WakesWaitFork(t) /\ w = [q EXCEPT !.i_am_waiting = FALSE, !.is_scheduled = TRUE]
                            \/ ~WakesWaitFork(t) /\ w = q
    BY DEF Thread
  <2>6. PICK g \in Threads : g = [f EXCEPT ![p] = w]
    BY <1>9, <2>1 DEF Threads
  <2>7. Woken(t) = g
    BY <1>8, <1>9, <2>1, <2>2, <2>3, <2>5, <2>6 DEF Woken, Threads
  <2>8. PICK x : x = [w EXCEPT !.detached_children = D]
    OBVIOUS
  <2>9. Leaves(q, x, t)
    <3>1. WakesWaitFork(t) <=> q.i_am_waiting /\ q.detached_children = {t}
      BY <1>15, <2>3 DEF WakesWaitFork, r
    <3>2. CASE WakesWaitFork(t)
      <4>1. x = [q EXCEPT !.i_am_waiting = FALSE, !.is_scheduled = TRUE, !.detached_children = D]
        BY <2>5, <2>8, <3>2
      <4>2. QED
        BY <2>4, <4>1, LeavesFields
    <3>3. CASE ~WakesWaitFork(t)
      BY <2>4, <2>5, <2>8, <3>1, <3>3, LeavesFields
    <3>4. QED
      BY <3>2, <3>3
  <2>10. w.detached_children = q.detached_children
    BY <2>5 DEF Thread
  <2>11. PICK z \in Thread : z = [y EXCEPT !.i_am_detached = FALSE, !.parent = Nil]
    BY DEF Thread
  <2>12. z.children = {} /\ z.detached_children = {} /\ z.parent = Nil /\ z.i_have_ended /\ Fit(z)
    <3>1. /\ z.status = y.status /\ z.is_scheduled = y.is_scheduled
          /\ z.i_am_in_function = y.i_am_in_function
      BY <2>11 DEF Thread
    <3>2. Fit(z)
      BY <1>7, <3>1 DEF Fit
    <3>3. QED
      BY <1>7, <2>11, <3>2 DEF Thread
  <2>13. h = [[g EXCEPT ![p] = x] EXCEPT ![t] = z]
    <3>1. h = [g EXCEPT ![p].detached_children = @ \ {t}, ![t].i_am_detached = FALSE, ![t].parent = Nil]
      BY <1>12, <1>15, <2>7 DEF Alone, r
    <3>2. g[p] = w /\ g[t] = y
      BY <1>2, <1>3, <1>9, <1>10, <2>1, <2>6 DEF Threads
    <3>3. [g EXCEPT ![p].detached_children = @ \ {t}] = [g EXCEPT ![p] = x]
      BY <2>1, <2>4, <2>8, <2>10, <3>2 DEF Threads
    <3>4. h = [[g EXCEPT ![p] = x] EXCEPT ![t].i_am_detached = FALSE, ![t].parent = Nil]
      BY <3>1, <3>3
    <3>5. [g EXCEPT ![p] = x][t] = y
      BY <1>2, <1>3, <3>2 DEF Threads
    <3>6. QED
      BY <1>2, <2>11, <3>4, <3>5 DEF Threads
  <2>14. h[t] = z /\ h[p] = x /\ \A u \in Tid : u # t /\ u # p => h[u] = f[u]
    BY <1>2, <1>3, <1>9, <2>1, <2>6, <2>13 DEF Threads
  <2>15. h \in Threads
    <3>1. Woken(t) \in Threads /\ p \in Tid \cup {Nil}
      BY <1>3, <2>7
    <3>2. QED
      BY <1>2, <1>12, <1>15, <3>1, QuietAlone DEF Alone, r
  <2>16. thread'[t] = ReleaseIfIdle(Unlinked(z)) /\ \A u \in Tid : u # t => thread'[u] = h[u]
    <3>1. z = h[t] /\ z.children = {} /\ z.detached_children = {} /\ z.parent = Nil /\ z.parent # t
      BY <1>2, <2>12, <2>14, ThreadsAssumption
    <3>2. thread' = vthread_reap(h, t)
      BY <1>13, <2>2
    <3>3. (\A u \in Tid : u # Nil) /\ t \in Tid
      BY <1>2, ThreadsAssumption
    <3>4. /\ thread'[t] = ReleaseIfIdle(Unlinked(z))
          /\ \A u \in Tid : u # t /\ u # z.parent => thread'[u] = h[u]
      BY <2>15, <3>1, <3>2, <3>3, ReapIs
    <3>5. QED
      BY <3>1, <3>3, <3>4
  <2>17. CutOff(thread'[t])
    BY <2>12, <2>16, ReapedCutOff
  <2>18. Leaves(thread[p], thread'[p], t)
    BY <1>3, <2>1, <2>3, <2>9, <2>14, <2>16
  <2>19. \A u \in Tid : u # t /\ u # p => Usual(thread, thread', u, {t})
    BY <1>10, <2>14, <2>16 DEF Usual
  <2>20. QED
    BY <1>1, <1>2, <1>3, <1>11, <1>15, <2>17, <2>18, <2>19 DEF r
<1>16. CASE p # Nil /\ ~r.i_am_detached
  <2>1. p \in Tid /\ h = Woken(t) /\ ~WakesWaitFork(t)
    BY <1>3, <1>12, <1>16 DEF Alone, WakesWaitFork, r
  <2>2. CASE thread[p].i_am_joining
    <3>1. WakesJoin(t) /\ Reaps(t)
      BY <1>16, <2>2 DEF WakesJoin, Reaps, r
    <3>2. PICK q \in Thread : q = thread[p] /\ q = f[p]
      BY <1>2, <1>11, <1>16, <2>1 DEF Threads
    <3>3. PICK w \in Thread : w = [q EXCEPT !.i_am_joining = FALSE, !.is_scheduled = TRUE]
      BY DEF Thread
    <3>4. PICK g \in Threads : g = [f EXCEPT ![p] = w]
      BY <1>9, <2>1 DEF Threads
    <3>5. h = g
      BY <1>8, <1>9, <2>1, <3>1, <3>2, <3>3, <3>4 DEF Woken, Threads
    <3>6. g[p] = w /\ g[t] = y /\ \A u \in Tid : u # p => g[u] = f[u]
      BY <1>2, <1>3, <1>9, <1>10, <2>1, <3>4 DEF Threads
    <3>7. /\ thread'[t] = ReleaseIfIdle(Unlinked(y)) /\ \A u \in Tid : u # t /\ u # p => thread'[u] = g[u]
          /\ thread'[p] = [w EXCEPT !.children = @ \ {t}]
      <4>1. g[t].children = {} /\ g[t].detached_children = {} /\ p = g[t].parent /\ ~g[t].i_am_detached
        BY <1>7, <1>16, <3>6
      <4>2. thread' = vthread_reap(g, t)
        BY <1>13, <3>1, <3>5
      <4>3. QED
        BY <1>2, <1>3, <2>1, <3>6, <4>1, <4>2, ReapEnded
    <3>8. [w EXCEPT !.children = @ \ {t}] = Awakened(q, t)
      BY <3>3 DEF Awakened, Thread
    <3>9. CutOff(thread'[t])
      BY <1>7, <3>7, ReapedCutOff
    <3>10. \A u \in Tid : u # t /\ u # p => Usual(thread, thread', u, {t})
      BY <1>10, <3>6, <3>7 DEF Usual
    <3>11. thread'[p] = Awakened(thread[p], t)
      BY <3>2, <3>7, <3>8
    <3>12. QED
      BY <1>1, <1>2, <1>3, <1>11, <1>16, <2>2, <3>9, <3>10, <3>11 DEF r
  <2>3. CASE ~thread[p].i_am_joining
    <3>1. ~WakesJoin(t) /\ ~Reaps(t)
      BY <1>16, <2>3 DEF WakesJoin, Reaps, r
    <3>2. thread' = f
      BY <1>8, <1>13, <2>1, <3>1 DEF Woken
    <3>3. QED
      BY <1>1, <1>2, <1>3, <1>7, <1>10, <1>11, <1>16, <2>1, <2>3, <3>2 DEF r
  <2>4. QED
    BY <2>2, <2>3
<1>17. QED
  BY <1>14, <1>15, <1>16

\* A thread without children that is cut off; its parent, if it has one, stays.
LEMMA OneCut ==
  ASSUME NEW th \in Threads, NEW tg \in Threads, Tree(th), NEW t \in Tid, ~Dead(th[t]), th[t].children = {},
         NEW E \in SUBSET Tid, th[t].parent \in E \cup {Nil}, t \notin E,
         CutOff(tg[t]), \A u \in Tid : u # t /\ u \notin E => Usual(th, tg, u, {t}),
         \A u \in E : Special(th, tg, u, {t}, {t}) /\ tg[u].i_have_ended = th[u].i_have_ended
  PROVE  UsualCut(th, tg, {t}, {t}, E)
<1>1. \A u \in Tid : th[u].parent \in {t} /\ ~th[u].i_am_detached => u \in {t}
  <2>1. \A u \in Tid : u \in th[t].children <=> th[u].parent = t /\ ~th[u].i_am_detached
    BY DEF Tree, Linked
  <2>2. QED
    BY <2>1
<1>2. QED
  BY <1>1 DEF UsualCut

\* The parent of a detached thread that ends is woken, or goes on as it did.
LEMMA LeavesHeld ==
  ASSUME NEW th \in Threads, NEW tg \in Threads, Tree(th), NEW p \in Tid, NEW t \in Tid, th[t].parent = p,
         ~Dead(th[p]), th[t].i_am_detached, Leaves(th[p], tg[p], t), ~Lost(th[p], {t}), p # t,
         \A c \in th[p].children :
           tg[c].parent_scope = th[c].parent_scope /\ (tg[c].i_have_ended => th[c].i_have_ended),
         NEW K, NEW C, NEW T, NEW C2, NEW T2, Held(th, p, K, C, T),
         (p \in C => p \in C2) /\ (p \in T => p \in T2)
  PROVE  Special(th, tg, p, {t}, {t}) /\ Held(tg, p, K, C2, T2)
<1>1. PICK q \in Thread : q = th[p]
  BY DEF Threads
<1>2. PICK x \in Thread : x = tg[p]
  BY DEF Threads
<1>3. /\ x.status = q.status /\ x.parent_scope = q.parent_scope /\ x.in_scope = q.in_scope
      /\ x.pc = q.pc /\ x.parent = q.parent /\ x.children = q.children
      /\ x.detached_children = q.detached_children \ {t}
      /\ x.i_am_detached = q.i_am_detached /\ x.i_have_ended = q.i_have_ended
      /\ SameStatement(q, x) /\ x.i_am_joining = q.i_am_joining
      /\ \/ x.is_scheduled /\ ~x.i_am_waiting
         \/ Calm(q, x) /\ ~(q.i_am_waiting /\ q.detached_children = {t})
  BY <1>1, <1>2 DEF Leaves
<1>4. t \notin q.children
  BY <1>1, TreeFacts
<1>5. Special(th, tg, p, {t}, {t})
  <2>1. x.children = q.children \ {t} /\ ~Lost(q, {t})
    BY <1>1, <1>3, <1>4
  <2>2. Stays(q, x)
    BY <1>1, <1>2 DEF Leaves, Dead, Stays
  <2>3. Keeps(q, x, {t}, {t})
    BY <1>3, <2>1, <2>2 DEF Keeps
  <2>4. QED
    BY <1>1, <1>2, <1>3, <2>3 DEF Special
<1>6. StatementOf(tg, p, K)
  <2> SUFFICES ASSUME x.pc = "code" PROVE StatementOf(tg, p, K)
    BY <1>2 DEF StatementOf
  <2>1. StatementOf(th, p, K) /\ q.pc = "code"
    BY <1>3 DEF Held
  <2>2. /\ x.scope = q.scope /\ x.forks = q.forks /\ x.joins = q.joins /\ x.detach = q.detach
        /\ x.children = q.children /\ x.i_am_joining = q.i_am_joining
    BY <1>3 DEF SameStatement
  <2>3. /\ (\A c \in Tid : <<p, c>> \notin K) =>
            Cardinality(x.children) + x.forks = x.joins + x.detach + (IF x.i_am_joining THEN 1 ELSE 0)
        /\ \A c \in Tid : <<p, c>> \in K =>
             x.forks = 0 /\ x.joins = 0 /\ x.detach = 0 /\ x.children = {c}
    BY <1>1, <2>1, <2>2 DEF StatementOf
  <2>4. x.detach > 0 => Detachable(x.scope) /\ \A c \in x.children : Detachable(tg[c].parent_scope)
    BY <1>1, <2>1, <2>2 DEF StatementOf
  <2>5. x.i_am_joining => \E c \in x.children : ~tg[c].i_have_ended
    BY <1>1, <2>1, <2>2 DEF StatementOf
  <2>6. QED
    BY <1>2, <2>3, <2>4, <2>5 DEF StatementOf
<1>7. WaitOf(x)
  <2>1. WaitOf(q)
    BY <1>1 DEF Held
  <2>2. t \in q.detached_children
    BY <1>1 DEF Tree, Linked
  <2>3. Calm(q, x) => x.i_am_waiting = q.i_am_waiting
    BY DEF Calm
  <2>4. QED
    BY <1>3, <2>1, <2>2, <2>3 DEF WaitOf
<1>8. CaredOf(tg, p, C2, T2)
  <2>1. CaredOf(th, p, C, T)
    BY DEF Held
  <2>2. Calm(q, x) => /\ x.is_scheduled = q.is_scheduled /\ x.waiting_for_event = q.waiting_for_event
                      /\ x.i_am_joining = q.i_am_joining /\ x.i_am_waiting = q.i_am_waiting
    BY DEF Calm
  <2>3. QED
    BY <1>1, <1>2, <1>3, <2>1, <2>2 DEF CaredOf
<1>9. QED
  BY <1>2, <1>5, <1>6, <1>7, <1>8 DEF Held

\* A thread that has ended and waits for its parent to join it.
LEMMA AtEndCut ==
  ASSUME NEW th \in Threads, NEW tg \in Threads, Tree(th), NEW t \in Tid, NEW p \in Tid,
         th[t].parent = p, p # t, ~th[t].i_am_detached, ~th[p].i_am_joining, th[t].children = {},
         tg[t] = AtEnd(th[t]), \A u \in Tid : u # t => Usual(th, tg, u, {t})
  PROVE  UsualCut(th, tg, {}, {t}, {t})
<1>1. PICK r \in Thread : r = th[t]
  BY DEF Threads
<1>2. PICK x \in Thread : x = AtEnd(r)
  BY AtEndFields
<1>3. /\ x.i_have_ended /\ x.pc = "null" /\ x.detached_children = {}
      /\ x.children = r.children /\ x.status = r.status /\ x.parent_scope = r.parent_scope
      /\ x.in_scope = r.in_scope /\ x.parent = r.parent /\ x.i_am_detached = r.i_am_detached
  BY <1>2, AtEndFields
<1>4. ~Lost(r, {t}) /\ r.children = {} /\ r.parent = p /\ ~r.i_am_detached
  BY <1>1 DEF Lost
<1>5. Keeps(r, x, {}, {t})
  <2>1. Stays(r, x)
    BY <1>2, AtEndFields
  <2>2. QED
    BY <1>3, <1>4, <2>1, ThreadsAssumption DEF Keeps
<1>6. Special(th, tg, t, {}, {t})
  BY <1>1, <1>2, <1>3, <1>5 DEF Special
<1>7. \A u \in Tid : t \in th[u].children => u = p
  BY TreeFacts
<1>8. QED
  BY <1>6, <1>7 DEF UsualCut

\* %end.
LEMMA EndFamily ==
  ASSUME FlagInv, FlagInv', FamilyInv, NEW t, of_END(t)
  PROVE  FamilyInv'
<1> SUFFICES ASSUME ~failed' PROVE FamilyInv'
  BY DEF FamilyInv
<1>1. /\ Running(t) /\ thread[t].pc = "code" /\ disabling' = Nil /\ stack' = stack
  BY IdleFacts DEF of_END, Running
<1>2. PICK th \in Threads : th = thread
  BY FlagTypes
<1>3. PICK tg \in Threads : tg = thread'
  BY DEF FlagInv, TypeOK, Threads
<1>4. PICK p : p = th[t].parent
  OBVIOUS
<1>5. /\ t \in Tid /\ p \in Tid \cup {Nil} /\ p # t /\ th[t].children = {}
      /\ \A u \in Tid : u # t /\ u # p => Usual(th, tg, u, {t})
      /\ p # Nil => ~Lost(th[p], {t})
      /\ CASE p = Nil -> CutOff(tg[t])
           [] p # Nil /\ th[t].i_am_detached -> CutOff(tg[t]) /\ Leaves(th[p], tg[p], t)
           [] p # Nil /\ ~th[t].i_am_detached /\ th[p].i_am_joining ->
                CutOff(tg[t]) /\ tg[p] = Awakened(th[p], t)
           [] OTHER -> tg[t] = AtEnd(th[t]) /\ tg[p] = th[p]
  BY <1>2, <1>3, <1>4, EndShape
<1>6. FamilyOf(th, Calling, Calls, Tops) /\ Tree(th) /\ ~Dead(th[t]) /\ stack[1].thr = t /\ JoinsAlone(th, Calling)
  BY <1>1, <1>2, RunsFamily, CallFacts
<1>7. p # Nil => p \in Tid /\ ~Dead(th[p])
  BY <1>4, <1>5, <1>6 DEF Tree, Linked
<1>8. p # Nil => /\ Held(th, p, Calling, Calls, Tops)
                 /\ (p \in Calls => p \in Calls') /\ (p \in Tops => p \in Tops')
  <2>1. p # Nil => Held(th, p, Calling, Calls, Tops)
    BY <1>6, <1>7 DEF FamilyOf, Held, Statements, Waits, Cared
  <2>2. p # Nil => CallsSame(p, Calling, Calls, Tops, Calling', Calls', Tops')
    BY <1>1, <1>5, <1>6, <1>7, SameCallsSame
  <2>3. QED
    BY <2>1, <2>2 DEF CallsSame
<1>9. {t} \in SUBSET Tid /\ {} \in SUBSET Tid /\ (p # Nil => {p} \in SUBSET Tid)
  BY <1>5, <1>7
<1>10. p # Nil => \A c \in th[p].children : c \in Tid /\ c # p
  BY <1>6, <1>7, TreeFacts
<1>11. CASE p = Nil
  <2>1. CutOff(tg[t]) /\ \A u \in Tid : u # t /\ u \notin {} => Usual(th, tg, u, {t})
    BY <1>5, <1>11, ThreadsAssumption
  <2>2. th[t].parent \in {} \cup {Nil} /\ t \notin {}
    BY <1>4, <1>11
  <2>3. UsualCut(th, tg, {t}, {t}, {})
    BY <1>5, <1>6, <1>9, <2>1, <2>2, OneCut
  <2>4. UsualCut(thread, thread', {t}, {t}, {}) /\ t \in {t} \cup {}
    BY <1>2, <1>3, <2>3
  <2>5. QED
    BY <1>1, <1>9, <2>4, RunnerCuts
<1>12. CASE p # Nil /\ th[t].i_am_detached
  <2>1. CutOff(tg[t]) /\ Leaves(th[p], tg[p], t) /\ ~Lost(th[p], {t})
    BY <1>5, <1>12
  <2>2. \A c \in th[p].children :
          tg[c].parent_scope = th[c].parent_scope /\ (tg[c].i_have_ended => th[c].i_have_ended)
    <3>1. SUFFICES ASSUME NEW c \in th[p].children
                   PROVE  tg[c].parent_scope = th[c].parent_scope /\ (tg[c].i_have_ended => th[c].i_have_ended)
      OBVIOUS
    <3>2. c \in Tid /\ c # p
      BY <1>10, <1>12
    <3>3. c # t
      BY <1>6, <1>7, <1>12, TreeFacts
    <3>4. Usual(th, tg, c, {t})
      BY <1>5, <3>2, <3>3
    <3>5. Orphan(th[c]).parent_scope = th[c].parent_scope /\ Orphan(th[c]).i_have_ended = th[c].i_have_ended
      <4>1. th[c] \in Thread
        BY <3>2 DEF Threads
      <4>2. QED
        BY <4>1 DEF Orphan, Thread
    <3>6. QED
      BY <3>4, <3>5 DEF Usual
  <2>3. Special(th, tg, p, {t}, {t}) /\ Held(tg, p, Calling, Calls', Tops')
    <3>1. p \in Tid /\ ~Dead(th[p]) /\ th[t].parent = p /\ th[t].i_am_detached /\ p # t /\ t \in Tid /\ Tree(th)
      BY <1>4, <1>5, <1>6, <1>7, <1>12
    <3>2. PICK K, C, T, C2, T2 : K = Calling /\ C = Calls /\ T = Tops /\ C2 = Calls' /\ T2 = Tops'
      OBVIOUS
    <3>3. Held(th, p, K, C, T) /\ (p \in C => p \in C2) /\ (p \in T => p \in T2)
      BY <1>8, <1>12, <3>2
    <3>4. Special(th, tg, p, {t}, {t}) /\ Held(tg, p, K, C2, T2)
      BY <2>1, <2>2, <3>1, <3>3, LeavesHeld
    <3>5. QED
      BY <3>2, <3>4
  <2>4. tg[p].i_have_ended = th[p].i_have_ended
    BY <2>1 DEF Leaves
  <2>5. \A u \in {p} : Special(th, tg, u, {t}, {t}) /\ tg[u].i_have_ended = th[u].i_have_ended
    BY <2>3, <2>4
  <2>6. \A u \in Tid : u # t /\ u \notin {p} => Usual(th, tg, u, {t})
    BY <1>5
  <2>7. UsualCut(th, tg, {t}, {t}, {p})
    <3>1. th[t].parent \in {p} \cup {Nil} /\ t \notin {p} /\ {p} \in SUBSET Tid
      BY <1>4, <1>5, <1>9, <1>12
    <3>2. QED
      BY <1>5, <1>6, <2>1, <2>5, <2>6, <3>1, OneCut
  <2>8. UsualCut(thread, thread', {t}, {t}, {p}) /\ t \in {t} \cup {p} /\ {p} \in SUBSET Tid
    BY <1>2, <1>3, <1>9, <1>12, <2>7
  <2>9. \A u \in {p} \ {t} : Held(thread', u, Calling, Calls', Tops')
    BY <1>3, <2>3
  <2>10. QED
    BY <1>1, <1>9, <2>8, <2>9, RunnerCuts
<1>13. CASE p # Nil /\ ~th[t].i_am_detached /\ th[p].i_am_joining
  <2>1. CutOff(tg[t]) /\ tg[p] = Awakened(th[p], t) /\ ~Lost(th[p], {t})
    BY <1>5, <1>13
  <2>2. t \in th[p].children /\ t \notin th[p].detached_children
    BY <1>4, <1>5, <1>6, <1>7, <1>13 DEF Tree, Linked
  <2>3. Special(th, tg, p, {t}, {t})
    <3>1. t \in {t} /\ p \notin {t} /\ th[p].children \cap {t} \subseteq {t} /\ th[p].detached_children \cap {t} = {}
      BY <1>5, <2>2
    <3>2. p \in Tid
      BY <1>7, <1>13
    <3>3. QED
      BY <1>5, <1>7, <1>9, <1>13, <2>1, <3>1, <3>2, AwakenedSpecial DEF Dead
  <2>4. \A c \in th[p].children : c # t => tg[c].parent_scope = th[c].parent_scope
    <3>1. SUFFICES ASSUME NEW c \in th[p].children, c # t PROVE tg[c].parent_scope = th[c].parent_scope
      OBVIOUS
    <3>2. c \in Tid /\ c # p
      BY <1>10, <1>13
    <3>3. Usual(th, tg, c, {t})
      BY <1>5, <3>1, <3>2
    <3>4. Orphan(th[c]).parent_scope = th[c].parent_scope
      <4>1. th[c] \in Thread
        BY <3>2 DEF Threads
      <4>2. QED
        BY <4>1 DEF Orphan, Thread
    <3>5. QED
      BY <3>3, <3>4 DEF Usual
  <2>5. Held(tg, p, Calling, Calls', Tops')
    <3>1. p \in Tid /\ th[p].i_am_joining
      BY <1>7, <1>13
    <3>2. QED
      BY <1>5, <1>6, <2>1, <2>2, <2>4, <3>1, AwakenedHeld
  <2>6. tg[p].i_have_ended = th[p].i_have_ended
    <3>1. PICK q \in Thread : q = th[p]
      BY <1>7, <1>13 DEF Threads
    <3>2. Awakened(q, t).i_have_ended = q.i_have_ended
      BY DEF Awakened, Thread
    <3>3. QED
      BY <2>1, <3>1, <3>2
  <2>7. \A u \in {p} : Special(th, tg, u, {t}, {t}) /\ tg[u].i_have_ended = th[u].i_have_ended
    BY <2>3, <2>6
  <2>8. \A u \in Tid : u # t /\ u \notin {p} => Usual(th, tg, u, {t})
    BY <1>5
  <2>9. UsualCut(th, tg, {t}, {t}, {p})
    <3>1. th[t].parent \in {p} \cup {Nil} /\ t \notin {p} /\ {p} \in SUBSET Tid
      BY <1>4, <1>5, <1>9, <1>13
    <3>2. QED
      BY <1>5, <1>6, <2>1, <2>7, <2>8, <3>1, OneCut
  <2>10. UsualCut(thread, thread', {t}, {t}, {p}) /\ t \in {t} \cup {p} /\ {p} \in SUBSET Tid
    BY <1>2, <1>3, <1>9, <1>13, <2>9
  <2>11. \A u \in {p} \ {t} : Held(thread', u, Calling, Calls', Tops')
    BY <1>3, <2>5
  <2>12. QED
    BY <1>1, <1>9, <2>10, <2>11, RunnerCuts
<1>14. CASE p # Nil /\ ~th[t].i_am_detached /\ ~th[p].i_am_joining
  <2>1. tg[t] = AtEnd(th[t]) /\ tg[p] = th[p] /\ ~Lost(th[p], {t}) /\ p \in Tid
    BY <1>5, <1>7, <1>14
  <2>2. \A u \in Tid : u # t => Usual(th, tg, u, {t})
    <3>1. Usual(th, tg, p, {t})
      BY <2>1 DEF Usual
    <3>2. QED
      BY <1>5, <3>1
  <2>3. UsualCut(th, tg, {}, {t}, {t})
    BY <1>4, <1>5, <1>6, <1>14, <2>1, <2>2, AtEndCut
  <2>4. /\ tg[t].i_have_ended /\ tg[t].pc = "null" /\ tg[t].parent = p
    <3>1. th[t] \in Thread
      BY <1>5 DEF Threads
    <3>2. QED
      BY <1>4, <2>1, <3>1, AtEndFields
  <2>5. Held(tg, t, Calling, Calls', Tops')
    BY <1>14, <2>4 DEF Held, StatementOf, WaitOf, CaredOf
  <2>6. UsualCut(thread, thread', {}, {t}, {t}) /\ t \in {} \cup {t}
    BY <1>2, <1>3, <2>3
  <2>7. \A u \in {t} \ {} : Held(thread', u, Calling, Calls', Tops')
    BY <1>3, <2>5
  <2>8. QED
    BY <1>1, <1>9, <2>6, <2>7, RunnerCuts
<1>15. QED
  BY <1>11, <1>12, <1>13, <1>14

-----------------------------------------------------------------------------
(***************************************************************************)
(* The theorem about the family of threads.                                *)
(***************************************************************************)

\* A thread that is new, or does not exist yet.
LEMMA FreshParts ==
  ASSUME NEW m, NEW r, r = [vthread_new(m) EXCEPT !.is_scheduled = TRUE] \/ r = Unborn
  PROVE  /\ Sound(r) /\ r.parent = Nil /\ r.children = {} /\ ~r.i_am_detached /\ ~r.i_am_waiting
         /\ ~r.i_am_joining /\ r.forks = 0 /\ r.joins = 0 /\ r.detach = 0
         /\ ~Dead(r) => r.detached_children = {}
         /\ r.status = "alive" => r.is_scheduled
<1>1. CASE r = [vthread_new(m) EXCEPT !.is_scheduled = TRUE]
  <2>1. PICK x : x = vthread_new(m)
    OBVIOUS
  <2>2. r = [x EXCEPT !.is_scheduled = TRUE]
    BY <1>1, <2>1
  <2>3. /\ r.status = "alive" /\ r.pc = "code" /\ ~r.i_have_ended /\ r.is_scheduled
        /\ r.parent = Nil /\ r.children = {} /\ ~r.i_am_detached /\ ~r.i_am_waiting
        /\ ~r.i_am_joining /\ r.forks = 0 /\ r.joins = 0 /\ r.detach = 0 /\ r.detached_children = {}
    BY <2>1, <2>2 DEF vthread_new
  <2>4. Fit(r)
    BY <2>1, <2>2 DEF vthread_new, Fit
  <2>5. QED
    BY <2>3, <2>4 DEF Sound, Dead
<1>2. CASE r = Unborn
  <2>1. PICK x : x = vthread_new(CHOOSE v \in Modules : TRUE)
    OBVIOUS
  <2>2. r = [x EXCEPT !.status = "unborn", !.in_scope = FALSE, !.pc = "null"]
    BY <1>2, <2>1 DEF Unborn
  <2>3. /\ r.status = "unborn" /\ r.pc = "null" /\ ~r.in_scope
        /\ r.parent = Nil /\ r.children = {} /\ ~r.i_am_detached /\ ~r.i_am_waiting
        /\ ~r.i_am_joining /\ r.forks = 0 /\ r.joins = 0 /\ r.detach = 0 /\ r.detached_children = {}
    BY <2>1, <2>2 DEF vthread_new
  <2>4. Fit(r)
    BY <2>1, <2>2 DEF vthread_new, Fit
  <2>5. QED
    BY <2>3, <2>4 DEF Sound, Dead
<1>3. QED
  BY <1>1, <1>2

LEMMA FamilyInit == Init => FamilyInv
<1> SUFFICES ASSUME Init PROVE FamilyInv
  OBVIOUS
<1>1. PICK m \in Modules :
        thread = [t \in Tid |-> IF \E i \in DOMAIN Roots[m] : Roots[m][i] = t
                                  THEN [vthread_new(m) EXCEPT !.is_scheduled = TRUE]
                                  ELSE Unborn]
  BY DEF Init
<1>2. stack = << >> /\ disabling = Nil
  BY DEF Init
<1>3. Calling = {}
  <2>1. \A u, c : <<u, c>> \notin Calling
    <3>1. 1..(Len(stack) - 1) = {}
      BY <1>2
    <3>2. QED
      BY <3>1, InCalling
  <2>2. QED
    BY <1>2 DEF Calling
<1>4. \A t \in Tid : /\ Sound(thread[t]) /\ thread[t].parent = Nil /\ thread[t].children = {}
                     /\ ~thread[t].i_am_detached /\ ~thread[t].i_am_waiting /\ ~thread[t].i_am_joining
                     /\ thread[t].forks = 0 /\ thread[t].joins = 0 /\ thread[t].detach = 0
                     /\ ~Dead(thread[t]) => thread[t].detached_children = {}
                     /\ thread[t].status = "alive" => thread[t].is_scheduled
  <2>1. SUFFICES ASSUME NEW t \in Tid, NEW r, r = thread[t]
                 PROVE  /\ Sound(r) /\ r.parent = Nil /\ r.children = {}
                        /\ ~r.i_am_detached /\ ~r.i_am_waiting /\ ~r.i_am_joining
                        /\ r.forks = 0 /\ r.joins = 0 /\ r.detach = 0
                        /\ ~Dead(r) => r.detached_children = {}
                        /\ r.status = "alive" => r.is_scheduled
    OBVIOUS
  <2>2. r = [vthread_new(m) EXCEPT !.is_scheduled = TRUE] \/ r = Unborn
    BY <1>1, <2>1
  <2>3. QED
    BY <2>2, FreshParts
<1>5. Tree(thread)
  <2>1. Linked(thread)
    BY <1>4, ThreadsAssumption DEF Linked
  <2>2. Founded(thread)
    BY <1>4, ThreadsAssumption DEF Founded
  <2>3. QED
    BY <1>4, <2>1, <2>2 DEF Tree
<1>6. Statements(thread, Calling)
  <2>1. SUFFICES ASSUME NEW t \in Tid PROVE StatementOf(thread, t, Calling)
    BY DEF Statements
  <2>2. Cardinality(thread[t].children) = 0
    BY <1>4, FS_EmptySet
  <2>3. QED
    BY <1>3, <1>4, <2>2 DEF StatementOf
<1>7. Waits(thread) /\ Cared(thread, Calls, Tops)
  BY <1>4 DEF Waits, WaitOf, Cared, CaredOf
<1>8. DisablingHolds /\ CallsAlone
  BY <1>2 DEF DisablingHolds, CallsAlone
<1>9. QED
  BY <1>5, <1>6, <1>7, <1>8 DEF FamilyInv, FamilyOf

LEMMA OpcodeFamily ==
  ASSUME DisablesJoined, FlagInv, FlagInv', FamilyInv, NEW t \in Tid, Opcode(t)
  PROVE  FamilyInv'
<1>1. CASE of_ZOMBIE(t)
  BY <1>1, ZombieFamily
<1>2. CASE \E k \in {"join", "join_any", "join_none"}, s \in Named(t) \cap Scopes, n \in 1..2 : Enter(t, k, s, n)
  BY <1>2, EnterFamily
<1>3. CASE of_FORK(t)
  BY <1>3, ForkFamily
<1>4. CASE of_JOIN(t)
  BY <1>4, JoinFamily
<1>5. CASE of_JOIN_DETACH(t)
  BY <1>5, JoinDetachFamily
<1>6. CASE \E s \in Named(t) \cap Scopes : of_CALLF(t, s)
  BY <1>6, CallfFamily
<1>7. CASE \E s \in Named(t) \cap Scopes : of_DISABLE(t, s)
  BY <1>7, DisableBegins
<1>8. CASE \E s \in Named(t) \cap Scopes : of_DISABLE_FLOW(t, s)
  BY <1>8, DisableFlowFamily
<1>9. CASE of_DELAY(t) \/ of_DELAY0(t) \/ of_JMP(t) \/ of_VPI_CALL(t) \/ of_WAIT_FORK(t)
  BY <1>9, SleepsFamily
<1>10. CASE \E e \in Named(t) \cap Events : of_WAIT(t, e)
  BY <1>10, SleepsFamily
<1>11. CASE \E e \in Named(t) \cap Events : of_EVENT(t, e)
  BY <1>11, EventFamily
<1>12. CASE of_DISABLE_FORK(t)
  BY <1>12, DisableForkFamily
<1>13. CASE of_END(t)
  BY <1>13, EndFamily
<1>14. QED
  BY <1>1, <1>2, <1>3, <1>4, <1>5, <1>6, <1>7, <1>8, <1>9, <1>10, <1>11, <1>12, <1>13 DEF Opcode

LEMMA FamilyStep ==
  ASSUME DisablesJoined, FlagInv, FlagInv', FamilyInv, [Next]_vars
  PROVE  FamilyInv'
<1>1. CASE RunEvent
  BY <1>1, RunEventFamily
<1>2. CASE RunNext
  BY <1>2, RunNextFamily
<1>3. CASE RunDone
  BY <1>3, RunDoneFamily
<1>4. CASE CallfReturns
  BY <1>4, CallfReturnsFamily
<1>5. CASE \E t \in Tid : Opcode(t)
  BY <1>5, OpcodeFamily
<1>6. CASE DisableNext
  BY <1>6, DisableNextFamily
<1>7. CASE DisableDone
  BY <1>7, DisableEnds
<1>8. CASE RunDelThr
  BY <1>8, DeletedFamily
<1>9. CASE Inactive \/ AdvanceTime \/ Terminated \/ UNCHANGED vars
  <2>1. UNCHANGED <<thread, stack, ret, disabling, failed>>
    BY <1>9 DEF Inactive, AdvanceTime, Terminated, vars
  <2>2. QED
    BY <2>1, IdleFamily
<1>10. QED
  BY <1>1, <1>2, <1>3, <1>4, <1>5, <1>6, <1>7, <1>8, <1>9 DEF Next

\* What the invariant says of the family.
LEMMA FamilyHolds ==
  ASSUME FlagInv, FamilyInv, ~failed
  PROVE  Family /\ Balanced /\ WaitsCanEnd /\ NoneForgotten
<1>1. PICK th \in Threads : th = thread
  BY FlagTypes
<1>2. /\ Tree(th) /\ \A t \in Tid : Held(th, t, Calling, Calls, Tops)
      /\ \A t \in Tid : th[t] \in Thread /\ Sound(th[t])
  BY <1>1, FamilyNow
<1>3. Family
  <2>1. ASSUME NEW t \in Tid, th[t].parent # Nil
        PROVE  /\ th[th[t].parent].status = "alive"
               /\ (t \in th[th[t].parent].children) = ~th[t].i_am_detached
               /\ (t \in th[th[t].parent].detached_children) = th[t].i_am_detached
    <3>1. PICK p \in Tid : p = th[t].parent
      BY <1>2, <2>1, TreeFacts
    <3>2. ~Dead(th[p])
      BY <1>2, <2>1, <3>1 DEF Tree, Linked
    <3>3. /\ t \in th[p].children <=> ~th[t].i_am_detached
          /\ t \in th[p].detached_children <=> th[t].i_am_detached
      BY <1>2, <3>1, <3>2 DEF Tree, Linked
    <3>4. th[t].i_am_detached \in BOOLEAN
      BY <1>2 DEF Thread
    <3>5. th[p].status = "alive"
      BY <3>2 DEF Dead
    <3>6. QED
      BY <3>1, <3>3, <3>4, <3>5
  <2>2. ASSUME NEW t \in Tid, ~Reaped(t), NEW c \in th[t].children \cup th[t].detached_children
        PROVE  th[c].parent = t /\ th[c].status = "alive"
    <3>1. ~Dead(th[t])
      BY <1>1, <2>2 DEF Reaped, Dead
    <3>2. c \in Tid /\ th[c].parent = t
      BY <1>2, <2>2, <3>1, TreeFacts
    <3>3. QED
      BY <1>2, <3>2, ThreadsAssumption DEF Sound
  <2>3. QED
    BY <1>1, <2>1, <2>2 DEF Family
<1>4. Balanced
  <2>1. SUFFICES ASSUME NEW t \in Tid, th[t].pc = "code",
                        \A i \in 2..Len(stack) : stack[i].thr = t => stack[i - 1].call # "callf"
                 PROVE  Cardinality(th[t].children) + th[t].forks
                          = th[t].joins + th[t].detach + (IF th[t].i_am_joining THEN 1 ELSE 0)
    BY <1>1 DEF Balanced
  <2>2. \A c \in Tid : <<t, c>> \notin Calling
    <3>1. SUFFICES ASSUME NEW c \in Tid, <<t, c>> \in Calling PROVE FALSE
      OBVIOUS
    <3>2. PICK i \in 1..(Len(stack) - 1) : stack[i].call = "callf" /\ stack[i + 1].thr = t
      BY <3>1, InCalling
    <3>3. i + 1 \in 2..Len(stack) /\ (i + 1) - 1 = i
      BY FlagTypes
    <3>4. stack[(i + 1) - 1].call # "callf"
      BY <2>1, <3>2, <3>3
    <3>5. QED
      BY <3>2, <3>3, <3>4
  <2>3. StatementOf(th, t, Calling)
    BY <1>2 DEF Held
  <2>4. QED
    BY <2>1, <2>2, <2>3 DEF StatementOf
<1>5. WaitsCanEnd
  <2>1. JoinCanEnd
    BY <1>1, <1>2 DEF JoinCanEnd, Held, StatementOf
  <2>2. WaitForkCanEnd
    <3>1. SUFFICES ASSUME NEW t \in Tid, th[t].i_am_waiting, ~th[t].i_have_ended
                   PROVE  \E c \in th[t].detached_children : ~th[c].i_have_ended
      BY <1>1 DEF WaitForkCanEnd
    <3>2. th[t].status = "alive" /\ th[t].detached_children # {}
      BY <1>2, <3>1 DEF Held, WaitOf
    <3>3. ~Dead(th[t])
      BY <1>2, <3>1, <3>2 DEF Sound, Dead
    <3>4. PICK c \in th[t].detached_children : c \in Tid /\ th[c].parent = t /\ th[c].i_am_detached
      BY <1>2, <3>2, <3>3, TreeFacts
    <3>5. th[c].pc = "code" /\ th[c].status = "alive"
      BY <1>2, <3>4, ThreadsAssumption DEF Sound
    <3>6. ~th[c].i_have_ended
      BY <1>2, <3>4, <3>5 DEF Sound
    <3>7. QED
      BY <3>6
  <2>3. QED
    BY <2>1, <2>2 DEF WaitsCanEnd
<1>6. NoneForgotten
  <2>1. \A t \in Tid : t \in Calls \/ t \in Tops => \E i \in 1..Len(stack) : stack[i].thr = t
    BY CallFacts, FlagTypes DEF Calls
  <2>2. \A t \in Tid : CaredOf(th, t, Calls, Tops)
    BY <1>2 DEF Held
  <2>3. QED
    BY <1>1, <2>1, <2>2 DEF NoneForgotten, CaredOf
<1>7. QED
  BY <1>3, <1>4, <1>5, <1>6

\* vvp/vthread.cc: as long as no assertion has failed, and in a design that
\* disables no scope whose threads it detaches, parents and children point to
\* each other, the joins to come stand for the children, whoever waits has a
\* child that will wake it, and no thread is forgotten.
THEOREM FamilyTheorem ==
  ASSUME DisablesJoined
  PROVE  Spec => [](~failed => Family /\ Balanced /\ WaitsCanEnd /\ NoneForgotten)
<1>1. Init => FlagInv /\ FamilyInv
  BY FlagsInit, FamilyInit
<1>2. FlagInv /\ FamilyInv /\ [Next]_vars => FlagInv' /\ FamilyInv'
  BY FlagsStep, FamilyStep
<1>3. FlagInv /\ FamilyInv => (~failed => Family /\ Balanced /\ WaitsCanEnd /\ NoneForgotten)
  BY FamilyHolds
<1>4. QED
  BY <1>1, <1>2, <1>3, PTL DEF Spec

-----------------------------------------------------------------------------
(***************************************************************************)
(* The assertions of the thread code.                                      *)
(***************************************************************************)

\* A thread in a %join or a %wait/fork is not scheduled.
LEMMA SleepersUnscheduled ==
  ASSUME FlagInv, NEW u \in Tid
  PROVE  thread[u].i_am_joining \/ thread[u].i_am_waiting => ~thread[u].is_scheduled
<1>1. FlagsOf(thread[u], u \in Queued, u \in Mems(waiting), u \in Calls, u \in later)
  BY DEF FlagInv, FlagsHold
<1>2. PICK q, w, on, l : FlagsOf(thread[u], q, w, on, l)
  BY <1>1
<1>3. QED
  BY <1>2, Zenon DEF FlagsOf

\* vthread_reap of a child that has ended.
LEMMA ReapReady ==
  ASSUME NEW th \in Threads, Tree(th), NEW t \in Tid, ~Dead(th[t]), NEW c \in th[t].children, th[c].i_have_ended
  PROVE  th[c].parent = t /\ ReapAsserts(th, c)
<1>1. c \in Tid /\ th[c].parent = t /\ ~th[c].i_am_detached /\ t # Nil
  BY TreeFacts, ThreadsAssumption
<1>2. ~Dead(th[c]) /\ Sound(th[c]) /\ th[c].status = "alive"
  BY <1>1, TreeFacts DEF Dead
<1>3. th[c].children = {}
  BY <1>2 DEF Sound
<1>4. \A d \in th[c].detached_children : th[d].parent = c /\ th[d].i_am_detached
  BY <1>1, <1>2, TreeFacts
<1>5. QED
  BY <1>1, <1>3, <1>4 DEF ReapAsserts

\* The assertions of do_disable, whichever thread is disabled.
LEMMA DisableReady ==
  ASSUME NEW th \in Threads, Tree(th), NEW t \in Tid, ~Dead(th[t]),
         \A u \in Tid : th[u].i_am_joining => ~th[u].is_scheduled
  PROVE  DisableAsserts(th, t)
<1>1. PICK D : D = Descendants(th, t)
  OBVIOUS
<1>2. PICK p \in Tid \cup {Nil} : p = th[t].parent
  BY TreeFacts
<1>3. PICK off \in Threads : off = TurnOff(th, t)
  BY <1>1, TurnOffShape
<1>4. /\ D \in SUBSET Tid /\ t \in D /\ p \notin D /\ (p # Nil => th[p].parent \notin D)
      /\ \A u \in D : ~Dead(th[u]) /\ (u # t => ~th[u].i_am_detached)
  BY <1>1, <1>2, Below
<1>5. /\ off[t] = Off(th[t])
      /\ \A u \in Tid \ D : Usual(th, off, u, D \ {t})
  BY <1>1, <1>3, TurnOffShape
<1>6. p # Nil => p \in Tid /\ ~Dead(th[p]) /\ off[p] = th[p]
  <2>1. ASSUME p # Nil PROVE off[p] = th[p]
    <3>1. p \in Tid \ D /\ ~Lost(th[p], D \ {t})
      BY <1>2, <1>4, <2>1 DEF Lost
    <3>2. QED
      BY <1>5, <3>1 DEF Usual
  <2>2. QED
    BY <1>2, <2>1, TreeFacts
<1>7. PICK r \in Thread : r = th[t]
  BY TreeFacts
<1>8. /\ off[t].parent = p /\ off[t].children = {} /\ off[t].detached_children = r.detached_children
      /\ off[t].i_am_detached = r.i_am_detached
  BY <1>2, <1>5, <1>7, OffFields
<1>9. \A u \in D : \A c \in th[u].children : th[c].parent = u /\ ~th[c].i_am_detached
  BY <1>4, TreeFacts
<1>10. \A u \in D : \A c \in th[u].detached_children : c \in Tid /\ th[c].parent = u /\ th[c].i_am_detached
  BY <1>4, TreeFacts
<1>11. DisableSchedules(th, t) => ~th[p].is_scheduled
  BY <1>2, <1>3, <1>6, <1>8 DEF DisableSchedules, WakesParent
<1>12. ReapAsserts(off, t)
  <2>1. ASSUME NEW c \in r.detached_children PROVE off[c].parent = t /\ off[c].i_am_detached
    <3>1. c \in Tid /\ th[c].parent = t /\ th[c].i_am_detached /\ th[t].parent # t
      BY <1>4, <1>7, <1>10, TreeFacts
    <3>2. c \notin D /\ ~Lost(th[c], D \ {t})
      BY <1>4, <3>1 DEF Lost
    <3>3. off[c] = th[c]
      BY <1>5, <3>1, <3>2 DEF Usual
    <3>4. QED
      BY <3>1, <3>3
  <2>2. p # Nil => t \in IF r.i_am_detached THEN th[p].detached_children ELSE th[p].children
    BY <1>2, <1>6, <1>7 DEF Tree, Linked
  <2>3. off[t].parent # Nil =>
          t \in IF off[t].i_am_detached THEN off[off[t].parent].detached_children
                                        ELSE off[off[t].parent].children
    BY <1>6, <1>8, <2>2
  <2>4. QED
    BY <1>8, <2>1, <2>3 DEF ReapAsserts
<1>13. QED
  BY <1>1, <1>2, <1>3, <1>9, <1>10, <1>11, <1>12 DEF DisableAsserts

\* %join: there is a child to wait for.
LEMMA JoinAsserts ==
  ASSUME FlagInv, FamilyInv, NEW t, of_JOIN(t)
  PROVE  ~failed'
<1>1. Running(t) /\ thread[t].pc = "code" /\ thread[t].forks = 0 /\ thread[t].joins > 0
  BY DEF of_JOIN, Executes
<1>2. PICK th \in Threads : th = thread
  BY FlagTypes
<1>3. PICK r \in Thread : r = th[t]
  BY <1>1, <1>2, RunsFamily
<1>4. /\ t \in Tid /\ ~r.i_am_joining /\ Tree(th) /\ ~Dead(r)
      /\ Cardinality(r.children) + r.forks = r.joins + r.detach
  BY <1>1, <1>2, <1>3, RunsFamily
<1>5. r.children # {}
  <2> SUFFICES ASSUME r.children = {} PROVE FALSE
    OBVIOUS
  <2>1. r.joins \in Nat /\ r.detach \in Nat /\ r.joins > 0 /\ r.forks = 0
    BY <1>1, <1>2, <1>3 DEF Thread
  <2>2. 0 + 0 = r.joins + r.detach
    BY <1>4, <2>1, FS_EmptySet
  <2>3. QED
    BY <2>1, <2>2
<1>6. PICK j \in Nat : j = r.joins - 1
  BY <1>1, <1>2, <1>3 DEF Thread
<1>7. PICK y \in Thread : y = [r EXCEPT !.joins = j]
  BY DEF Thread
<1>8. PICK t0 \in Threads : t0 = [th EXCEPT ![t] = y]
  BY <1>4 DEF Threads
<1>9. [thread EXCEPT ![t].joins = @ - 1] = t0
  BY <1>2, <1>3, <1>4, <1>6, <1>7, <1>8 DEF Threads
<1>10. t0[t] = y /\ \A u \in Tid : u # t => t0[u] = th[u]
  BY <1>4, <1>8 DEF Threads
<1>11. SameFamily(r, y) /\ y.children = r.children
  BY <1>7 DEF Thread, SameFamily, Stays
<1>12. Tree(t0) /\ ~Dead(t0[t])
  <2>1. {t} \in SUBSET Tid /\ \A u \in {t} : SameFamily(th[u], t0[u])
    BY <1>3, <1>4, <1>10, <1>11
  <2>2. Tree(t0)
    BY <1>4, <1>10, <2>1, SameTree
  <2>3. QED
    BY <1>4, <1>10, <1>11, <2>2 DEF SameFamily, Dead
<1>13. ASSUME NEW c \in EndedChildren(t) PROVE thread[c].parent = t /\ ReapAsserts(t0, c)
  <2>1. c \in Tid /\ th[c].parent = t /\ th[t].parent # t /\ c \in r.children /\ th[c].i_have_ended
    BY <1>2, <1>3, <1>4, TreeFacts DEF EndedChildren
  <2>2. c # t
    BY <2>1
  <2>3. c \in t0[t].children /\ t0[c].i_have_ended
    BY <1>10, <1>11, <2>1, <2>2
  <2>4. QED
    BY <1>2, <1>4, <1>12, <2>1, <2>3, ReapReady
<1>14. QED
  BY <1>2, <1>3, <1>4, <1>5, <1>9, <1>13 DEF of_JOIN

\* %join/detach: every child left is one to detach.
LEMMA JoinDetachAsserts ==
  ASSUME FlagInv, FamilyInv, NEW t, of_JOIN_DETACH(t)
  PROVE  ~failed'
<1>1. Running(t) /\ thread[t].pc = "code" /\ thread[t].forks + thread[t].joins = 0
  BY DEF of_JOIN_DETACH, Executes
<1>2. PICK th \in Threads : th = thread
  BY FlagTypes
<1>3. PICK r \in Thread : r = th[t]
  BY <1>1, <1>2, RunsFamily
<1>4. /\ t \in Tid /\ Tree(th) /\ ~Dead(r)
      /\ Cardinality(r.children) + r.forks = r.joins + r.detach
  BY <1>1, <1>2, <1>3, RunsFamily
<1>5. Cardinality(r.children) = r.detach
  <2>1. PICK a \in Nat : a = Cardinality(r.children)
    <3>1. IsFiniteSet(r.children)
      BY ThreadsAssumption, FS_Subset DEF Thread
    <3>2. QED
      BY <3>1, FS_CardinalityType
  <2>2. PICK f \in Nat, j \in Nat, d \in Nat : f = r.forks /\ j = r.joins /\ d = r.detach
    BY DEF Thread
  <2>3. f + j = 0 /\ a + f = j + d
    BY <1>1, <1>2, <1>3, <1>4, <2>1, <2>2
  <2>4. a = d
    BY <2>3
  <2>5. QED
    BY <2>1, <2>2, <2>4
<1>6. \A c \in r.children : th[c].parent = t
  BY <1>3, <1>4, TreeFacts
<1>7. \A c \in EndedChildren(t) : ReapAsserts(th, c)
  BY <1>2, <1>3, <1>4, ReapReady DEF EndedChildren
<1>8. QED
  BY <1>2, <1>3, <1>5, <1>6, <1>7 DEF of_JOIN_DETACH

\* The opcodes that suspend the running thread.
LEMMA SuspendAsserts ==
  ASSUME FlagInv, FamilyInv, NoCalls, NEW t,
         \/ of_DELAY(t) \/ of_DELAY0(t) \/ of_JMP(t) \/ of_WAIT_FORK(t) \/ of_VPI_CALL(t)
         \/ \E e \in Events : of_WAIT(t, e)
  PROVE  ~failed'
<1>1. Executes(t) /\ Running(t)
  BY DEF of_DELAY, of_DELAY0, of_JMP, of_WAIT, of_WAIT_FORK, of_VPI_CALL, Does, Idle, Executes
<1>2. /\ ~failed /\ ~thread[t].is_scheduled /\ ~thread[t].waiting_for_event
      /\ ~thread[t].i_am_joining /\ ~thread[t].i_am_waiting /\ ~thread[t].i_am_in_function
  BY <1>1, RunsFamily DEF Sound, Fit
<1>3. CASE of_DELAY(t) \/ of_DELAY0(t) \/ of_JMP(t)
  BY <1>2, <1>3 DEF of_DELAY, of_DELAY0, of_JMP, Reschedule
<1>4. CASE of_VPI_CALL(t)
  BY <1>2, <1>4 DEF of_VPI_CALL, Reschedule
<1>5. CASE of_WAIT_FORK(t)
  <2>1. thread[t].children = {}
    BY <1>5, IdleFacts DEF of_WAIT_FORK, Does
  <2>2. QED
    BY <1>2, <1>5, <2>1 DEF of_WAIT_FORK
<1>6. CASE \E e \in Events : of_WAIT(t, e)
  BY <1>2, <1>6 DEF of_WAIT
<1>7. QED
  BY <1>3, <1>4, <1>5, <1>6

\* %event: who is in the wait list waits.
LEMMA EventAsserts ==
  ASSUME FlagInv, NEW t, NEW e \in Events, of_EVENT(t, e)
  PROVE  ~failed'
<1>1. \A u \in {waiting[e][i] : i \in 1..Len(waiting[e])} : thread[u].waiting_for_event
  BY WaitsThere
<1>2. QED
  BY <1>1 DEF of_EVENT

\* %disable, %disable/flow and %disable/fork.
LEMMA DisableOpAsserts ==
  ASSUME FlagInv, FamilyInv,
         \/ DisableNext
         \/ \E t \in Tid : of_DISABLE_FORK(t) \/ (\E s \in Scopes : of_DISABLE_FLOW(t, s))
  PROVE  ~failed'
<1>1. ~failed
  BY DEF DisableNext, of_DISABLE_FORK, of_DISABLE_FLOW, Does, Idle, Executes, Running
<1>2. PICK th \in Threads : th = thread
  BY FlagTypes
<1>3. Tree(th) /\ \A u \in Tid : th[u] \in Thread /\ Sound(th[u])
  BY <1>1, <1>2, FamilyNow
<1>4. \A u \in Tid : ~Dead(th[u]) => DisableAsserts(thread, u)
  <2>1. \A u \in Tid : th[u].i_am_joining => ~th[u].is_scheduled
    BY <1>2, SleepersUnscheduled
  <2>2. QED
    BY <1>2, <1>3, <2>1, DisableReady
<1>5. CASE DisableNext
  <2>1. PICK cur \in threads(disabling.scope) : failed' = ~DisableAsserts(thread, cur)
    BY <1>5 DEF DisableNext
  <2>2. cur \in Tid /\ th[cur].in_scope
    BY <1>2 DEF threads
  <2>3. ~Dead(th[cur])
    BY <1>3, <2>2 DEF Sound
  <2>4. QED
    BY <1>4, <2>1, <2>2, <2>3
<1>6. ASSUME NEW t \in Tid, NEW s \in Scopes, of_DISABLE_FLOW(t, s) PROVE ~failed'
  <2>1. PICK cur \in Ancestors(t) : failed' = ~DisableAsserts(thread, cur)
    BY <1>6 DEF of_DISABLE_FLOW
  <2>2. ~Dead(th[t])
    BY <1>2, <1>6, RunsFamily DEF of_DISABLE_FLOW, Does, Idle, Executes
  <2>3. cur \in Tid /\ ~Dead(th[cur])
    <3>1. PICK S \in SUBSET Tid : S = {u \in Tid : ~Dead(th[u])}
      OBVIOUS
    <3>2. t \in S /\ \A v \in S : thread[v].parent \in S \cup {Nil}
      BY <1>2, <1>3, <2>2, <3>1, TreeFacts
    <3>3. QED
      BY <2>1, <3>1, <3>2 DEF Ancestors
  <2>4. QED
    BY <1>4, <2>1, <2>3
<1>7. ASSUME NEW t \in Tid, of_DISABLE_FORK(t) PROVE ~failed'
  <2>1. /\ Running(t) /\ thread[t].pc = "code" /\ thread[t].children = {}
    BY <1>7, IdleFacts DEF of_DISABLE_FORK, Does
  <2>2. ~thread[t].i_am_joining /\ ~Dead(th[t])
    BY <1>2, <2>1, RunsFamily
  <2>3. t \notin Gone(th, t)
    BY <1>3, <2>2, GoneFacts
  <2>4. \A c \in th[t].detached_children : th[c].parent = t /\ c \in Tid /\ ~Dead(th[c])
    <3>1. \A c \in th[t].detached_children : th[c].parent = t /\ c \in Tid
      BY <1>3, <2>2, TreeFacts
    <3>2. QED
      BY <1>3, <3>1, TreeFacts, ThreadsAssumption
  <2>5. \A c \in thread[t].detached_children : thread[c].parent = t /\ DisableAsserts(thread, c)
    BY <1>2, <1>4, <2>4
  <2>6. t \notin UNION {Descendants(thread, c) : c \in thread[t].detached_children}
    BY <1>2, <2>3 DEF Gone
  <2>7. QED
    BY <1>7, <2>1, <2>2, <2>5, <2>6 DEF of_DISABLE_FORK
<1>8. QED
  BY <1>5, <1>6, <1>7

\* The threads that vthread_run takes from its list.
LEMMA StartAsserts ==
  ASSUME FlagInv, RunEvent \/ RunNext
  PROVE  \E t \in Tid : Start(t) /\ thread[t].is_scheduled /\ stack' # << >> /\ stack'[1].thr = t
<1>1. CASE RunEvent
  <2>1. PICK q \in Seq(Seq(Tid)) : q = active /\ q # << >>
    BY <1>1, FlagTypes DEF RunEvent
  <2>2. q[1] # << >> /\ 1 \in DOMAIN q
    <3>1. active \in Seq(Seq(Tid) \ {<< >>})
      BY DEF FlagInv, TypeOK
    <3>2. active[1] \in Seq(Tid) \ {<< >>}
      BY <2>1, <3>1
    <3>3. QED
      BY <2>1, <3>2
  <2>3. PICK l \in Seq(Tid) : l = q[1] /\ 1 \in DOMAIN l
    BY <2>1, <2>2
  <2>4. PICK t \in Tid : t = q[1][1]
    BY <2>3
  <2>5. t \in Mems(active)
    BY <2>1, <2>2, <2>3, <2>4, InMems
  <2>6. (t \in Queued) = TRUE
    BY <2>5 DEF Queued
  <2>7. thread[t].is_scheduled
    BY <2>6 DEF FlagInv, FlagsHold, FlagsOf
  <2>8. QED
    BY <1>1, <2>1, <2>4, <2>7 DEF RunEvent
<1>2. CASE RunNext
  <2>1. stack # << >> /\ 1 \in DOMAIN stack
    BY <1>2, FlagTypes DEF RunNext, Returning, FlagInv, TypeOK
  <2>2. PICK l \in Seq(Tid) : l = stack[1].rest /\ l = Rests[1] /\ 1 \in DOMAIN Rests
    BY <2>1, FlagTypes DEF Frame
  <2>3. 1 \in DOMAIN l
    BY <1>2, <2>2 DEF RunNext
  <2>4. PICK t \in Tid : t = l[1]
    BY <2>2, <2>3
  <2>5. t \in Mems(Rests)
    BY <2>2, <2>3, <2>4, InMems
  <2>6. (t \in Queued) = TRUE
    BY <2>5 DEF Queued
  <2>7. thread[t].is_scheduled
    BY <2>6 DEF FlagInv, FlagsHold, FlagsOf
  <2>8. Start(t) /\ stack' = [stack EXCEPT ![1].thr = t, ![1].rest = Tail(@)]
    BY <1>2, <2>2, <2>4 DEF RunNext
  <2>9. stack' # << >> /\ stack'[1].thr = t
    <3>1. PICK s \in Seq(Frame) : s = stack
      BY FlagTypes
    <3>2. PICK r \in Frame : r = s[1]
      BY <2>1, <3>1
    <3>3. PICK x : x = [r EXCEPT !.thr = t, !.rest = Tail(r.rest)]
      OBVIOUS
    <3>4. x.thr = t
      BY <3>3 DEF Frame
    <3>5. stack' = [s EXCEPT ![1] = x]
      BY <2>1, <2>8, <3>1, <3>2, <3>3
    <3>6. QED
      BY <2>1, <3>1, <3>4, <3>5
  <2>10. QED
    BY <2>7, <2>8, <2>9
<1>3. QED
  BY <1>1, <1>2

\* vthread_reap of a thread without children, which its parent still knows.
LEMMA LoneReady ==
  ASSUME NEW h, NEW t, h[t].children = {}, h[t].detached_children = {},
         \/ h[t].parent = Nil
         \/ ~h[t].i_am_detached /\ t \in h[h[t].parent].children
  PROVE  ReapAsserts(h, t)
BY DEF ReapAsserts

\* The thread t when it has ended and left its parent.
LEMMA AloneReady ==
  ASSUME FlagInv, FamilyInv, NEW t, of_END(t), Reaps(t)
  PROVE  ReapAsserts(Alone(t), t)
<1>1. Running(t) /\ thread[t].pc = "code" /\ thread[t].children = {}
  BY IdleFacts DEF of_END
<1>2. PICK th \in Threads : th = thread
  BY FlagTypes
<1>3. PICK r \in Thread : r = th[t]
  BY <1>1, <1>2, RunsFamily
<1>4. t \in Tid /\ Tree(th) /\ ~Dead(r) /\ Sound(r)
  BY <1>1, <1>2, <1>3, RunsFamily
<1>5. PICK p \in Tid \cup {Nil} : p = r.parent
  BY DEF Thread
<1>6. p # t /\ (p # Nil => p \in Tid /\ ~Dead(th[p])) /\ (r.i_am_detached => p # Nil)
  BY <1>1, <1>2, <1>3, <1>4, <1>5, TreeFacts DEF Sound
<1>7. t \notin r.detached_children
  BY <1>3, <1>4, <1>5, <1>6, TreeFacts
<1>8. PICK y \in Thread : /\ y = AtEnd(r) /\ y.children = {} /\ y.detached_children = {}
                          /\ y.parent = p /\ y.i_am_detached = r.i_am_detached
  BY <1>1, <1>2, <1>3, <1>5, AtEndFields
<1>9. PICK f \in Threads : f = Ended(t)
  BY <1>2, <1>4, EndedQuiet
<1>10. f[t] = y
  BY <1>2, <1>3, <1>4, <1>7, <1>8, <1>9, EndedShape
<1>11. PICK g \in Threads : g = Woken(t)
  <2>1. CASE WakesJoin(t) \/ WakesWaitFork(t)
    <3>1. p \in Tid /\ p = thread[t].parent
      BY <1>2, <1>3, <1>5, <1>6, <2>1 DEF WakesJoin, WakesWaitFork
    <3>2. PICK q \in Thread : q = f[p]
      BY <3>1 DEF Threads
    <3>3. PICK a \in Thread, b \in Thread : /\ a = [q EXCEPT !.i_am_joining = FALSE, !.is_scheduled = TRUE]
                                            /\ b = [q EXCEPT !.i_am_waiting = FALSE, !.is_scheduled = TRUE]
      BY DEF Thread
    <3>4. [f EXCEPT ![p] = a] \in Threads /\ [f EXCEPT ![p] = b] \in Threads
      BY <3>1 DEF Threads
    <3>5. Woken(t) = [f EXCEPT ![p] = a] \/ Woken(t) = [f EXCEPT ![p] = b]
      BY <1>9, <2>1, <3>1, <3>2, <3>3 DEF Woken, Threads
    <3>6. QED
      BY <3>4, <3>5
  <2>2. CASE ~(WakesJoin(t) \/ WakesWaitFork(t))
    BY <1>9, <2>2 DEF Woken
  <2>3. QED
    BY <2>1, <2>2
<1>12. g[t] = y /\ (WakesJoin(t) => g[p].children = f[p].children)
  <2>1. p = thread[t].parent
    BY <1>2, <1>3, <1>5
  <2>2. CASE p = Nil
    BY <1>9, <1>10, <1>11, <2>1, <2>2 DEF Woken, WakesJoin, WakesWaitFork
  <2>3. CASE p # Nil
    <3>1. p \in Tid
      BY <1>6, <2>3
    <3>2. PICK q \in Thread : q = f[p]
      BY <3>1 DEF Threads
    <3>3. PICK a, b : /\ a = [q EXCEPT !.i_am_joining = FALSE, !.is_scheduled = TRUE]
                      /\ b = [q EXCEPT !.i_am_waiting = FALSE, !.is_scheduled = TRUE]
      OBVIOUS
    <3>4. a.children = q.children
      BY <3>3 DEF Thread
    <3>5. g = IF WakesJoin(t) THEN [f EXCEPT ![p] = a] ELSE IF WakesWaitFork(t) THEN [f EXCEPT ![p] = b] ELSE f
      BY <1>9, <1>11, <2>1, <3>1, <3>2, <3>3 DEF Woken, Threads
    <3>6. QED
      BY <1>4, <1>6, <1>10, <3>1, <3>2, <3>4, <3>5 DEF Threads
  <2>4. QED
    BY <2>2, <2>3
<1>13. PICK h : h = Alone(t)
  OBVIOUS
<1>14. CASE r.i_am_detached
  <2>1. p \in Tid
    BY <1>6, <1>14
  <2>2. PICK m : m = [g EXCEPT ![p].detached_children = @ \ {t}]
    OBVIOUS
  <2>3. m[t] = y
    BY <1>4, <1>6, <1>12, <2>1, <2>2 DEF Threads
  <2>4. h = [m EXCEPT ![t].i_am_detached = FALSE, ![t].parent = Nil]
    BY <1>2, <1>3, <1>5, <1>11, <1>13, <1>14, <2>2 DEF Alone
  <2>5. PICK z : z = [y EXCEPT !.i_am_detached = FALSE, !.parent = Nil]
    OBVIOUS
  <2>6. z.children = {} /\ z.detached_children = {} /\ z.parent = Nil
    BY <1>8, <2>5 DEF Thread
  <2>7. h[t] = z
    BY <1>4, <2>2, <2>3, <2>4, <2>5 DEF Threads
  <2>8. QED
    BY <1>13, <2>6, <2>7, LoneReady
<1>15. CASE ~r.i_am_detached
  <2>1. h = g
    BY <1>2, <1>3, <1>11, <1>13, <1>15 DEF Alone
  <2>2. CASE p = Nil
    BY <1>8, <1>12, <1>13, <2>1, <2>2, LoneReady
  <2>3. CASE p # Nil
    <3>1. WakesJoin(t)
      BY <1>2, <1>3, <1>5, <1>15, <2>3 DEF Reaps
    <3>2. t \in th[p].children /\ p \notin r.detached_children
      <4>1. t \in th[p].children
        BY <1>3, <1>4, <1>5, <1>6, <1>15, <2>3 DEF Tree, Linked
      <4>2. p \in Tid
        BY <1>6, <2>3
      <4>3. th[p].parent # t
        <5>1. \E v \in {t, p} : th[v].parent \notin {t, p}
          BY <1>4, <4>2 DEF Tree, Founded
        <5>2. QED
          BY <1>3, <1>5, <5>1
      <4>4. \A c \in r.detached_children : th[c].parent = t
        BY <1>3, <1>4, TreeFacts
      <4>5. QED
        BY <4>1, <4>3, <4>4
    <3>3. f[p] = th[p]
      BY <1>2, <1>3, <1>4, <1>6, <1>7, <1>9, <2>3, <3>2, EndedShape
    <3>4. h[t].parent = p /\ ~h[t].i_am_detached /\ t \in h[p].children
      BY <1>8, <1>12, <1>15, <2>1, <3>1, <3>2, <3>3
    <3>5. QED
      BY <1>8, <1>12, <1>13, <2>1, <3>4, LoneReady
  <2>4. QED
    BY <2>2, <2>3
<1>16. QED
  BY <1>14, <1>15

\* %end.
LEMMA EndAsserts ==
  ASSUME FlagInv, FamilyInv, NEW t, of_END(t)
  PROVE  ~failed'
<1>1. Running(t) /\ thread[t].pc = "code" /\ thread[t].children = {}
  BY IdleFacts DEF of_END
<1>2. PICK th \in Threads : th = thread
  BY FlagTypes
<1>3. PICK r \in Thread : r = th[t]
  BY <1>1, <1>2, RunsFamily
<1>4. t \in Tid /\ Tree(th) /\ ~Dead(r) /\ Sound(r) /\ ~r.waiting_for_event
  BY <1>1, <1>2, <1>3, RunsFamily
<1>5. \A c \in r.detached_children : th[c].parent = t /\ th[c].i_am_detached
  BY <1>3, <1>4, TreeFacts
<1>6. r.i_am_detached => r.parent # Nil /\ t \in th[r.parent].detached_children
  <2> SUFFICES ASSUME r.i_am_detached PROVE r.parent # Nil /\ t \in th[r.parent].detached_children
    OBVIOUS
  <2>1. r.parent # Nil
    BY <1>1, <1>2, <1>3, <1>4 DEF Sound
  <2>2. r.parent \in Tid /\ ~Dead(th[r.parent])
    BY <1>3, <1>4, <2>1, TreeFacts
  <2>3. QED
    BY <1>3, <1>4, <2>1, <2>2 DEF Tree, Linked
<1>7. WakesJoin(t) \/ WakesWaitFork(t) => ~th[r.parent].is_scheduled
  <2>1. r.parent # Nil => r.parent \in Tid
    BY DEF Thread
  <2>2. \A u \in Tid : th[u].i_am_joining \/ th[u].i_am_waiting => ~th[u].is_scheduled
    BY <1>2, SleepersUnscheduled
  <2>3. QED
    BY <1>2, <1>3, <2>1, <2>2 DEF WakesJoin, WakesWaitFork
<1>8. Reaps(t) => ReapAsserts(Alone(t), t)
  BY AloneReady
<1>9. thread[t] = r /\ thread = th
  BY <1>2, <1>3
<1>10. QED
  BY <1>1, <1>4, <1>5, <1>6, <1>7, <1>8, <1>9 DEF of_END

-----------------------------------------------------------------------------
(***************************************************************************)
(* The calls of vthread_run in a design without function calls.            *)
(***************************************************************************)

\* vthread_run is only called by an event, and unless the opcode has just
\* returned false or %disable has hit its own thread, its thread exists.
RunInv ==
  ~failed =>
    /\ stack = << >> \/ (Len(stack) = 1 /\ stack[1].call = "event")
    /\ stack # << >> /\ ~ret /\ (disabling # Nil => ~disabling.myself) =>
         thread[stack[1].thr].status = "alive"

\* The running thread goes on, or its opcode returns false.
LEMMA RunsOn ==
  ASSUME RunInv, NEW t, Running(t), stack' = stack, disabling' = Nil,
         ret' \/ thread'[t].status = "alive"
  PROVE  RunInv'
<1>1. ~failed /\ stack[1].thr = t
  BY DEF Running
<1>2. QED
  BY <1>1 DEF RunInv

\* vthread_reap leaves the status of the other threads alone.
LEMMA ReapOthers ==
  ASSUME NEW th \in Threads, NEW c \in Tid, NEW u \in Tid, u # c
  PROVE  vthread_reap(th, c)[u].status = th[u].status
<1>1. PICK r \in Thread : r = th[u]
  BY DEF Threads
<1>2. PICK g : g = vthread_reap(th, c)
  OBVIOUS
<1>3. PICK p, D, S : p = th[c].parent /\ D = r.detached_children \ {c} /\ S = r.children \ {c}
  OBVIOUS
<1>4. \/ g[u] = [r EXCEPT !.parent = p] \/ g[u] = Orphan(r)
      \/ g[u] = [r EXCEPT !.detached_children = D]
      \/ g[u] = [r EXCEPT !.children = S] \/ g[u] = r
  BY <1>1, <1>2, <1>3 DEF vthread_reap
<1>5. Orphan(r).status = r.status
  BY DEF Orphan, Thread
<1>6. [r EXCEPT !.parent = p].status = r.status /\ [r EXCEPT !.children = S].status = r.status
      /\ [r EXCEPT !.detached_children = D].status = r.status
  BY DEF Thread
<1>7. QED
  BY <1>1, <1>2, <1>4, <1>5, <1>6

\* The opcodes that change only the running thread, and the next statement.
LEMMA StepsRun ==
  ASSUME FlagInv, FamilyInv, RunInv, NEW t,
         \/ of_ZOMBIE(t) \/ of_END(t) \/ of_DELAY(t) \/ of_DELAY0(t) \/ of_JMP(t) \/ of_WAIT_FORK(t)
         \/ of_VPI_CALL(t) \/ (\E e \in Events : of_WAIT(t, e))
         \/ (\E k \in {"join", "join_any", "join_none"}, s \in Scopes, n \in 1..2 : Enter(t, k, s, n))
  PROVE  RunInv'
<1>1. Running(t) /\ stack' = stack /\ disabling' = Nil
  BY DEF of_ZOMBIE, of_END, of_DELAY, of_DELAY0, of_JMP, of_WAIT_FORK, of_VPI_CALL, of_WAIT, Enter,
         Reschedule, Does, Idle, Executes, Running
<1>2. PICK r \in Thread : r = thread[t]
  BY <1>1, RunsFamily
<1>3. t \in Tid /\ thread \in Threads /\ (r.pc = "code" => r.status = "alive")
  BY <1>1, <1>2, RunsFamily, FlagTypes
<1>4. ret' \/ thread'[t].status = "alive"
  <2>1. CASE of_ZOMBIE(t) \/ of_END(t) \/ (\E e \in Events : of_WAIT(t, e))
    BY <2>1 DEF of_ZOMBIE, of_END, of_WAIT
  <2>2. CASE of_DELAY(t) \/ of_DELAY0(t) \/ of_JMP(t)
    BY <2>2 DEF of_DELAY, of_DELAY0, of_JMP, Reschedule
  <2>3. CASE of_WAIT_FORK(t)
    BY <1>2, <1>3, <2>3 DEF of_WAIT_FORK, Does, Idle, Executes
  <2>4. CASE of_VPI_CALL(t)
    <3>1. ret' \/ thread' = [thread EXCEPT ![t].delay_delete = TRUE]
      BY <2>4 DEF of_VPI_CALL, Reschedule
    <3>2. PICK x : x = [r EXCEPT !.delay_delete = TRUE]
      OBVIOUS
    <3>3. x.status = r.status /\ r.pc = "code"
      BY <1>2, <2>4, <3>2 DEF of_VPI_CALL, Does, Idle, Executes, Thread
    <3>4. ret' \/ thread'[t] = x
      BY <1>2, <1>3, <3>1, <3>2 DEF Threads
    <3>5. QED
      BY <1>3, <3>3, <3>4
  <2>5. CASE \E k \in {"join", "join_any", "join_none"}, s \in Scopes, n \in 1..2 : Enter(t, k, s, n)
    <3>1. r.pc = "code"
      BY <1>2, <2>5 DEF Enter, Does, Idle, Executes
    <3>2. PICK k, s, n : Enter(t, k, s, n)
      BY <2>5
    <3>3. PICK j, d : thread' = [thread EXCEPT ![t].scope = s, ![t].forks = n, ![t].joins = j, ![t].detach = d]
      <4>1. PICK any : any = (k = "join_any" /\ n >= 2)
        OBVIOUS
      <4>2. thread' = [thread EXCEPT
              ![t].scope = s,
              ![t].forks = n,
              ![t].joins = IF any THEN 1 ELSE IF k = "join_none" THEN 0 ELSE n,
              ![t].detach = IF any THEN n - 1 ELSE IF k = "join_none" THEN n ELSE 0]
        BY <3>2, <4>1 DEF Enter
      <4>3. QED
        BY <4>2, Zenon
    <3>4. PICK x : x = [r EXCEPT !.scope = s, !.forks = n, !.joins = j, !.detach = d]
      OBVIOUS
    <3>5. x.status = r.status
      BY <3>4 DEF Thread
    <3>6. thread'[t] = x
      BY <1>2, <1>3, <3>3, <3>4 DEF Threads
    <3>7. QED
      BY <1>3, <3>1, <3>5, <3>6
  <2>6. QED
    BY <2>1, <2>2, <2>3, <2>4, <2>5
<1>5. QED
  BY <1>1, <1>4, RunsOn

\* %fork, %join, %join/detach and %event.
LEMMA JoinsRun ==
  ASSUME FlagInv, FamilyInv, RunInv, NoCalls, NEW t,
         of_FORK(t) \/ of_JOIN(t) \/ of_JOIN_DETACH(t) \/ (\E e \in Events : of_EVENT(t, e))
  PROVE  RunInv'
<1>1. Running(t) /\ thread[t].pc = "code" /\ disabling' = Nil
  BY DEF of_FORK, of_JOIN, of_JOIN_DETACH, of_EVENT, Does, Idle, Executes, Running
<1>2. PICK th \in Threads : th = thread
  BY FlagTypes
<1>3. PICK r \in Thread : r = th[t]
  BY <1>1, <1>2, RunsFamily
<1>4. t \in Tid /\ Tree(th) /\ ~Dead(r) /\ r.status = "alive" /\ ~r.i_am_in_function
  BY <1>1, <1>2, <1>3, RunsFamily DEF Sound, Fit
<1>5. stack' = stack
  BY <1>2, <1>3, <1>4 DEF of_FORK, of_JOIN, of_JOIN_DETACH, of_EVENT
<1>6. ret' \/ thread'[t].status = "alive"
  <2>1. CASE of_FORK(t)
    <3>1. PICK c \in Tid : c = Fresh /\ thread[c].status = "unborn"
      BY <2>1 DEF of_FORK, Fresh, Free
    <3>2. PICK child : thread' = [thread EXCEPT ![c] = child, ![t].children = @ \cup {c}, ![t].forks = @ - 1]
      BY <2>1, <3>1 DEF of_FORK
    <3>3. c # t
      BY <1>2, <1>3, <1>4, <3>1
    <3>4. PICK S, f : S = r.children \cup {c} /\ f = r.forks - 1
      OBVIOUS
    <3>5. PICK x : x = [r EXCEPT !.children = S, !.forks = f]
      OBVIOUS
    <3>6. x.status = r.status
      BY <3>5 DEF Thread
    <3>7. PICK y : y = [r EXCEPT !.children = S]
      OBVIOUS
    <3>8. y.forks = r.forks /\ x = [y EXCEPT !.forks = f]
      BY <3>5, <3>7 DEF Thread
    <3>9. thread'[t] = x
      BY <1>2, <1>3, <1>4, <3>2, <3>3, <3>4, <3>7, <3>8 DEF Threads
    <3>10. QED
      BY <1>4, <3>6, <3>9
  <2>2. CASE of_JOIN(t)
    <3>1. PICK j : j = r.joins - 1
      OBVIOUS
    <3>2. PICK y \in Thread : y = [r EXCEPT !.joins = j]
      <4>1. j \in Nat
        BY <1>2, <1>3, <2>2, <3>1 DEF of_JOIN, Thread
      <4>2. QED
        BY <4>1 DEF Thread
    <3>3. PICK t0 \in Threads : t0 = [th EXCEPT ![t] = y]
      BY <1>4 DEF Threads
    <3>4. [thread EXCEPT ![t].joins = @ - 1] = t0
      BY <1>2, <1>3, <1>4, <3>1, <3>2, <3>3 DEF Threads
    <3>5. t0[t].status = "alive"
      BY <1>4, <3>2, <3>3 DEF Threads, Thread
    <3>6. \A c \in EndedChildren(t) : c \in Tid /\ c # t
      BY <1>2, <1>3, <1>4, TreeFacts DEF EndedChildren
    <3>7. ret' \/ \E c \in EndedChildren(t) : thread' = vthread_reap(t0, c)
      BY <2>2, <3>4 DEF of_JOIN
    <3>8. QED
      BY <1>4, <3>5, <3>6, <3>7, ReapOthers
  <2>3. CASE of_JOIN_DETACH(t)
    <3>1. PICK D : D = r.detached_children \cup (r.children \ EndedChildren(t))
      OBVIOUS
    <3>2. thread'[t] = [r EXCEPT !.detach = 0, !.children = {}, !.detached_children = D]
      <4>1. \A c \in r.children : c \in Tid /\ c # t /\ t \notin th[c].detached_children
        <5> SUFFICES ASSUME NEW c \in r.children PROVE c \in Tid /\ c # t /\ t \notin th[c].detached_children
          OBVIOUS
        <5>1. c \in Tid /\ th[c].parent = t /\ th[t].parent # t /\ t # Nil
          BY <1>3, <1>4, TreeFacts, ThreadsAssumption
        <5>2. ~Dead(th[c])
          BY <1>4, <5>1, TreeFacts
        <5>3. th[t].parent # c
          <6>1. \E v \in {t, c} : th[v].parent \notin {t, c}
            BY <1>4, <5>1 DEF Tree, Founded
          <6>2. QED
            BY <5>1, <6>1
        <5>4. t \notin th[c].detached_children
          BY <1>4, <5>1, <5>2, <5>3, TreeFacts
        <5>5. QED
          BY <5>1, <5>4
      <4>2. PICK X, S : X = EndedChildren(t) /\ S = r.children \ X
        OBVIOUS
      <4>3. t \notin S /\ t \notin X /\ ~\E c \in X : t \in thread[c].detached_children
        BY <1>2, <1>3, <4>1, <4>2 DEF EndedChildren
      <4>4. thread' = [u \in Tid |->
              CASE u = t -> [thread[t] EXCEPT !.detach = 0, !.children = {},
                                              !.detached_children = @ \cup S]
                [] u \in S -> [thread[u] EXCEPT !.i_am_detached = TRUE]
                [] u \in X -> ReleaseIfIdle(Unlinked(thread[u]))
                [] \E c \in X : u \in thread[c].detached_children -> Orphan(thread[u])
                [] OTHER -> thread[u]]
        BY <1>2, <1>3, <2>3, <4>2 DEF of_JOIN_DETACH
      <4>5. thread'[t] = [thread[t] EXCEPT !.detach = 0, !.children = {}, !.detached_children = @ \cup S]
        BY <1>4, <4>3, <4>4
      <4>6. QED
        BY <1>2, <1>3, <3>1, <4>2, <4>5
    <3>3. PICK x : x = [r EXCEPT !.detach = 0, !.children = {}, !.detached_children = D]
      OBVIOUS
    <3>4. x.status = r.status
      BY <3>3 DEF Thread
    <3>5. QED
      BY <1>4, <3>2, <3>3, <3>4
  <2>4. CASE \E e \in Events : of_EVENT(t, e)
    <3>1. PICK x : x = [r EXCEPT !.waiting_for_event = FALSE, !.is_scheduled = TRUE]
      OBVIOUS
    <3>2. x.status = r.status
      BY <3>1 DEF Thread
    <3>3. thread'[t] = x \/ thread'[t] = r
      BY <1>2, <1>3, <1>4, <2>4, <3>1 DEF of_EVENT
    <3>4. QED
      BY <1>4, <3>2, <3>3
  <2>5. QED
    BY <2>1, <2>2, <2>3, <2>4
<1>7. QED
  BY <1>1, <1>5, <1>6, RunsOn

\* %disable, %disable/flow and %disable/fork.
LEMMA DisablesRun ==
  ASSUME DisablesJoined, FlagInv, FamilyInv, RunInv,
         \/ DisableNext \/ DisableDone
         \/ \E t \in Tid : of_DISABLE_FORK(t) \/ (\E s \in Scopes : of_DISABLE(t, s) \/ of_DISABLE_FLOW(t, s))
  PROVE  RunInv'
<1>1. ~failed /\ stack' = stack
  BY DEF DisableNext, DisableDone, of_DISABLE, of_DISABLE_FORK, of_DISABLE_FLOW, Does, Idle, Executes, Running
<1>2. /\ FamilyOf(thread, Calling, Calls, Tops) /\ DisablingHolds /\ thread \in Threads
      /\ JoinsAlone(thread, Calling) /\ Tree(thread)
  BY <1>1, FamilyNow
<1>3. PICK th \in Threads : th = thread
  BY <1>2
<1>4. ASSUME NEW cur \in Tid, ~Dead(th[cur]), Disablable(th[cur].parent_scope), thread' = do_disable(th, cur),
             NEW t \in Tid, t \notin Descendants(th, cur)
      PROVE  thread'[t].status = th[t].status
  <2>1. th[cur].parent # Nil => ~th[cur].i_am_detached
    <3>1. th[cur] \in Thread /\ Sound(th[cur])
      BY <1>2, <1>3, <1>4, TreeFacts
    <3>2. QED
      BY <1>4, <3>1, NotDetached
  <2>2. PICK K, C, T : FamilyOf(th, K, C, T) /\ JoinsAlone(th, K)
    BY <1>2, <1>3
  <2>3. PICK D, tg : D = Descendants(th, cur) /\ tg = do_disable(th, cur)
    OBVIOUS
  <2>4. OthersStay(th, tg, D)
    BY <1>4, <2>1, <2>2, <2>3, DisableFamily
  <2>5. QED
    BY <1>4, <2>3, <2>4 DEF OthersStay
<1>5. CASE DisableNext
  <2>1. PICK cur \in threads(disabling.scope) :
          /\ thread' = do_disable(thread, cur)
          /\ disabling' = [disabling EXCEPT !.myself = @ \/ disabling.match \in Descendants(thread, cur)]
    BY <1>5 DEF DisableNext
  <2>2. disabling # Nil /\ ret' = ret
    BY <1>5 DEF DisableNext
  <2>3. ~ret /\ stack # << >> /\ 1 \in DOMAIN stack
    BY <2>2, FlagTypes DEF FlagInv, Frames
  <2>4. PICK t \in Tid : t = stack[1].thr
    BY <2>3, FlagTypes
  <2>5. cur \in Tid /\ th[cur].in_scope /\ th[cur].parent_scope = disabling.scope
    BY <1>3, <2>1 DEF threads
  <2>6. ~Dead(th[cur]) /\ Disablable(th[cur].parent_scope)
    <3>1. Sound(th[cur])
      BY <1>2, <1>3, <2>5, TreeFacts
    <3>2. QED
      BY <1>2, <2>2, <2>5, <3>1 DEF Sound, DisablingHolds
  <2>7. PICK d \in [scope: Scopes, match: Tid, myself: BOOLEAN] : d = disabling
    BY <2>2 DEF FlagInv, TypeOK
  <2>8. PICK D : D = Descendants(th, cur)
    OBVIOUS
  <2>9. disabling' = [d EXCEPT !.myself = @ \/ t \in D]
    <3>1. d.match = t
      BY <1>2, <2>2, <2>4, <2>7 DEF DisablingHolds
    <3>2. QED
      BY <1>3, <2>1, <2>7, <2>8, <3>1
  <2>10. disabling' # Nil => disabling'.myself = (d.myself \/ t \in D)
    BY <2>7, <2>9
  <2>11. disabling' # Nil
    <3>1. PICK e \in [scope: Scopes, match: Tid, myself: BOOLEAN] : e = [d EXCEPT !.myself = @ \/ t \in D]
      BY <2>7
    <3>2. QED
      BY <2>9, <3>1, NilAssumption
  <2>12. ~d.myself /\ t \notin D => thread'[t].status = "alive"
    <3>1. ~d.myself => th[t].status = "alive"
      BY <1>1, <1>3, <2>2, <2>3, <2>4, <2>7 DEF RunInv
    <3>2. t \notin D => thread'[t].status = th[t].status
      BY <1>3, <1>4, <2>1, <2>5, <2>6, <2>8
    <3>3. QED
      BY <3>1, <3>2
  <2>13. QED
    BY <1>1, <2>4, <2>10, <2>11, <2>12 DEF RunInv
<1>6. CASE DisableDone
  <2>1. /\ disabling # Nil /\ disabling' = Nil /\ thread' = thread /\ ret' = disabling.myself
    BY <1>6 DEF DisableDone
  <2>2. ~ret
    BY <2>1 DEF FlagInv, Frames
  <2>3. QED
    BY <1>1, <2>1, <2>2 DEF RunInv
<1>7. ASSUME NEW t \in Tid, NEW s \in Scopes, of_DISABLE(t, s) PROVE RunInv'
  <2>1. Running(t) /\ thread[t].pc = "code" /\ thread' = thread
        /\ disabling' = [scope |-> s, match |-> t, myself |-> FALSE]
    BY <1>7 DEF of_DISABLE, Does, Idle, Executes
  <2>2. thread[t].status = "alive" /\ stack[1].thr = t
    BY <2>1, RunsFamily
  <2>3. QED
    BY <1>1, <2>1, <2>2 DEF RunInv
<1>8. ASSUME NEW t \in Tid, NEW s \in Scopes, of_DISABLE_FLOW(t, s) PROVE RunInv'
  <2>1. /\ Running(t) /\ disabling' = Nil /\ thread[t].pc = "code"
        /\ [op |-> "flow", arg |-> s, n |-> 0] \in Code[thread[t].parent_scope]
    BY <1>8 DEF of_DISABLE_FLOW, Does, Idle, Executes, Running
  <2>2. th[t].status = "alive" /\ ~Dead(th[t]) /\ th[t].parent_scope \in Scopes
    BY <1>3, <2>1, RunsFamily DEF Thread
  <2>3. PICK cur \in Ancestors(t) :
          /\ th[cur].parent_scope = s /\ thread' = do_disable(th, cur)
          /\ ret' = (t \in Descendants(th, cur))
    BY <1>3, <1>8 DEF of_DISABLE_FLOW
  <2>4. cur \in Tid /\ ~Dead(th[cur])
    <3>1. PICK S \in SUBSET Tid : S = {u \in Tid : ~Dead(th[u])}
      OBVIOUS
    <3>2. t \in S
      BY <2>2, <3>1
    <3>3. \A v \in S : thread[v].parent \in S \cup {Nil}
      BY <1>2, <1>3, <3>1, TreeFacts
    <3>4. QED
      BY <2>3, <3>1, <3>2, <3>3 DEF Ancestors
  <2>5. Disablable(th[cur].parent_scope)
    <3>1. PICK y \in Code[th[t].parent_scope] : y.op = "flow" /\ y.arg = s
      BY <1>3, <2>1
    <3>2. QED
      BY <2>2, <2>3, <3>1 DEF Disablable
  <2>6. ret' \/ thread'[t].status = "alive"
    <3>1. t \notin Descendants(th, cur) => thread'[t].status = th[t].status
      BY <1>4, <2>3, <2>4, <2>5
    <3>2. QED
      BY <2>2, <2>3, <3>1
  <2>7. QED
    BY <1>1, <2>1, <2>6, RunsOn
<1>9. ASSUME NEW t \in Tid, of_DISABLE_FORK(t) PROVE RunInv'
  <2>1. /\ Running(t) /\ disabling' = Nil /\ thread[t].pc = "code"
    BY <1>9 DEF of_DISABLE_FORK, Does, Idle, Executes, Running
  <2>2. PICK r \in Thread : r = th[t]
    BY <1>3, <2>1, RunsFamily
  <2>3. r.status = "alive" /\ ~Dead(r)
    BY <1>3, <2>1, <2>2, RunsFamily
  <2>4. PICK X : X = Gone(th, t)
    OBVIOUS
  <2>5. t \notin X
    BY <1>2, <1>3, <2>2, <2>3, <2>4, GoneFacts
  <2>6. thread'[t] = [thread[t] EXCEPT !.detached_children = {}]
    <3>1. X = Gone(thread, t)
      BY <1>3, <2>4
    <3>2. QED
      BY <1>9, <2>5, <3>1, DisableForkShape
  <2>7. PICK x : x = [r EXCEPT !.detached_children = {}]
    OBVIOUS
  <2>8. x.status = r.status
    BY <2>7 DEF Thread
  <2>9. thread'[t] = x
    BY <1>3, <2>2, <2>6, <2>7
  <2>10. QED
    BY <1>1, <2>1, <2>3, <2>8, <2>9, RunsOn
<1>10. QED
  BY <1>5, <1>6, <1>7, <1>8, <1>9

\* A thread that vthread_run takes from its list exists.
LEMMA StartsRun ==
  ASSUME FlagInv, FamilyInv, RunInv, RunEvent \/ RunNext
  PROVE  RunInv'
<1>1. ~failed
  BY DEF RunEvent, RunNext, Returning
<1>2. PICK t \in Tid : Start(t) /\ thread[t].is_scheduled /\ stack' # << >> /\ stack'[1].thr = t
  BY StartAsserts
<1>3. PICK r \in Thread : r = thread[t]
  BY FlagTypes
<1>4. r.status = "alive"
  BY <1>1, <1>2, <1>3, FamilyNow DEF Sound, Fit
<1>5. thread'[t].status = "alive"
  <2>1. PICK x : x = [r EXCEPT !.is_scheduled = FALSE]
    OBVIOUS
  <2>2. x.status = r.status
    BY <2>1 DEF Thread
  <2>3. thread'[t] = x
    BY <1>2, <1>3, <2>1, FlagTypes DEF Start, Threads
  <2>4. QED
    BY <1>4, <2>2, <2>3
<1>6. stack' = << >> \/ (Len(stack') = 1 /\ stack'[1].call = "event")
  <2>1. CASE RunEvent
    <3>1. PICK q : stack' = <<q>> /\ q = [thr |-> active[1][1], rest |-> Tail(active[1]), call |-> "event"]
      BY <2>1 DEF RunEvent
    <3>2. QED
      BY <3>1
  <2>2. CASE RunNext
    <3>1. PICK s \in Seq(Frame) : s = stack
      BY FlagTypes
    <3>2. s # << >> /\ Len(s) = 1 /\ s[1].call = "event" /\ 1 \in DOMAIN s
      BY <1>1, <2>2, <3>1 DEF RunInv, RunNext, Returning, FlagInv, TypeOK
    <3>3. PICK fr \in Frame : fr = s[1]
      BY <3>1, <3>2
    <3>4. PICK h, l : h = Head(fr.rest) /\ l = Tail(fr.rest)
      OBVIOUS
    <3>5. PICK x : x = [fr EXCEPT !.thr = h, !.rest = l]
      OBVIOUS
    <3>6. x.call = fr.call
      BY <3>5 DEF Frame
    <3>7. stack' = [s EXCEPT ![1] = x]
      BY <2>2, <3>1, <3>2, <3>3, <3>4, <3>5 DEF RunNext
    <3>8. QED
      BY <3>1, <3>2, <3>3, <3>6, <3>7
  <2>3. QED
    BY <2>1, <2>2
<1>7. QED
  BY <1>2, <1>5, <1>6 DEF RunInv

LEMMA RunInit == Init => RunInv
BY DEF Init, RunInv

\* A design without function calls executes no %callf.
LEMMA NeverCalls ==
  ASSUME NoCalls, FlagInv, FamilyInv, NEW t, NEW s, of_CALLF(t, s)
  PROVE  FALSE
<1>1. Running(t) /\ [op |-> "callf", arg |-> s, n |-> 0] \in Code[thread[t].parent_scope]
  BY DEF of_CALLF, Does, Idle, Executes
<1>2. thread[t].parent_scope \in Scopes
  BY <1>1, RunsFamily DEF Thread
<1>3. PICK y \in Code[thread[t].parent_scope] : y.op = "callf"
  BY <1>1
<1>4. QED
  BY <1>2, <1>3 DEF NoCalls

\* No call returns in a design without function calls.
LEMMA NeverReturns ==
  ASSUME FlagInv, RunInv, CallfReturns
  PROVE  FALSE
<1>1. ~failed /\ ret /\ stack[1].call = "callf"
  BY DEF CallfReturns, Returning
<1>2. stack # << >>
  BY <1>1 DEF FlagInv, TypeOK
<1>3. QED
  BY <1>1, <1>2 DEF RunInv

LEMMA RunStep ==
  ASSUME DisablesJoined, NoCalls, FlagInv, FamilyInv, RunInv, [Next]_vars
  PROVE  RunInv'
<1>1. CASE RunEvent \/ RunNext
  BY <1>1, StartsRun
<1>2. CASE RunDone
  <2>1. ~failed /\ ret /\ stack' = Tail(stack)
    BY <1>2 DEF RunDone, Returning
  <2>2. stack # << >>
    BY <2>1 DEF FlagInv, TypeOK
  <2>3. PICK s \in Seq(Frame) : s = stack /\ Len(s) = 1
    BY <2>1, <2>2, FlagTypes DEF RunInv
  <2>4. stack' = << >>
    BY <2>1, <2>3
  <2>5. QED
    BY <2>4 DEF RunInv
<1>3. CASE CallfReturns
  BY <1>3, NeverReturns
<1>4. ASSUME NEW t \in Tid, Opcode(t) PROVE RunInv'
  <2>1. CASE \/ of_ZOMBIE(t) \/ of_END(t) \/ of_DELAY(t) \/ of_DELAY0(t) \/ of_JMP(t) \/ of_WAIT_FORK(t)
             \/ of_VPI_CALL(t) \/ (\E e \in Named(t) \cap Events : of_WAIT(t, e))
             \/ (\E k \in {"join", "join_any", "join_none"}, s \in Named(t) \cap Scopes, n \in 1..2 :
                   Enter(t, k, s, n))
    BY <2>1, StepsRun
  <2>2. CASE of_FORK(t) \/ of_JOIN(t) \/ of_JOIN_DETACH(t) \/ (\E e \in Named(t) \cap Events : of_EVENT(t, e))
    BY <2>2, JoinsRun
  <2>3. CASE \/ of_DISABLE_FORK(t)
             \/ \E s \in Named(t) \cap Scopes : of_DISABLE(t, s) \/ of_DISABLE_FLOW(t, s)
    BY <2>3, DisablesRun
  <2>4. CASE \E s \in Named(t) \cap Scopes : of_CALLF(t, s)
    BY <2>4, NeverCalls
  <2>5. QED
    BY <1>4, <2>1, <2>2, <2>3, <2>4 DEF Opcode
<1>5. CASE DisableNext \/ DisableDone
  BY <1>5, DisablesRun
<1>6. CASE RunDelThr
  BY <1>6 DEF RunDelThr, EndOfStep, RunInv
<1>7. CASE Inactive \/ AdvanceTime \/ Terminated \/ UNCHANGED vars
  BY <1>7 DEF Inactive, AdvanceTime, Terminated, vars, RunInv
<1>8. QED
  BY <1>1, <1>2, <1>3, <1>4, <1>5, <1>6, <1>7 DEF Next

\* Every assertion of the thread code holds at every step.
LEMMA AssertsStep ==
  ASSUME NoCalls, FlagInv, FamilyInv, RunInv, ~failed, [Next]_vars
  PROVE  ~failed'
<1>1. CASE RunEvent \/ RunNext
  BY <1>1, StartAsserts DEF Start
<1>2. CASE RunDone \/ DisableDone \/ RunDelThr \/ Inactive \/ AdvanceTime \/ Terminated \/ UNCHANGED vars
  BY <1>2 DEF RunDone, DisableDone, RunDelThr, Inactive, AdvanceTime, Terminated, vars
<1>3. CASE CallfReturns
  BY <1>3, NeverReturns
<1>4. ASSUME NEW t \in Tid, Opcode(t) PROVE ~failed'
  <2>1. CASE \/ of_ZOMBIE(t) \/ of_FORK(t)
             \/ (\E k \in {"join", "join_any", "join_none"}, s \in Named(t) \cap Scopes, n \in 1..2 :
                   Enter(t, k, s, n))
             \/ (\E s \in Named(t) \cap Scopes : of_DISABLE(t, s))
    BY <2>1 DEF of_ZOMBIE, of_FORK, Enter, of_DISABLE
  <2>2. CASE of_JOIN(t)
    BY <2>2, JoinAsserts
  <2>3. CASE of_JOIN_DETACH(t)
    BY <2>3, JoinDetachAsserts
  <2>4. CASE \/ of_DELAY(t) \/ of_DELAY0(t) \/ of_JMP(t) \/ of_WAIT_FORK(t) \/ of_VPI_CALL(t)
             \/ \E e \in Named(t) \cap Events : of_WAIT(t, e)
    BY <2>4, SuspendAsserts
  <2>5. CASE \E e \in Named(t) \cap Events : of_EVENT(t, e)
    BY <2>5, EventAsserts
  <2>6. CASE of_DISABLE_FORK(t) \/ \E s \in Named(t) \cap Scopes : of_DISABLE_FLOW(t, s)
    BY <2>6, DisableOpAsserts
  <2>7. CASE of_END(t)
    BY <2>7, EndAsserts
  <2>8. CASE \E s \in Named(t) \cap Scopes : of_CALLF(t, s)
    BY <2>8, NeverCalls
  <2>9. QED
    BY <1>4, <2>1, <2>2, <2>3, <2>4, <2>5, <2>6, <2>7, <2>8 DEF Opcode
<1>5. CASE DisableNext
  BY <1>5, DisableOpAsserts
<1>6. QED
  BY <1>1, <1>2, <1>3, <1>4, <1>5 DEF Next

\* What the invariant says of the calls of vthread_run.
LEMMA FramesHold ==
  ASSUME FlagInv, RunInv, ~failed
  PROVE  FramesExist
<1>1. SUFFICES ASSUME NEW i \in 1..Len(stack)
               PROVE  \/ i = 1 /\ stack[1].call # "callf" /\ (ret \/ disabling # Nil)
                      \/ thread[stack[i].thr].status = "alive"
  BY DEF FramesExist
<1>2. stack # << >>
  BY <1>1
<1>3. Len(stack) = 1 /\ stack[1].call = "event"
  BY <1>2 DEF RunInv
<1>4. i = 1
  BY <1>3
<1>5. ~ret /\ disabling = Nil => thread[stack[1].thr].status = "alive"
  BY <1>2 DEF RunInv
<1>6. QED
  BY <1>3, <1>4, <1>5

\* vvp/vthread.cc: in a design without function calls, and without a disable of
\* a scope whose threads are detached, none of the assertions of the thread code
\* ever fails, the family stays whole with no condition on failures, and
\* vthread_run never returns to, or goes on in, a thread that does not exist.
THEOREM AssertsTheorem ==
  ASSUME DisablesJoined, NoCalls
  PROVE  Spec => [](NoAssertFails /\ Family /\ Balanced /\ WaitsCanEnd /\ NoneForgotten /\ FramesExist)
<1>1. Init => FlagInv /\ FamilyInv /\ RunInv /\ ~failed
  BY FlagsInit, FamilyInit, RunInit DEF Init
<1>2. FlagInv /\ FamilyInv /\ RunInv /\ ~failed /\ [Next]_vars => FlagInv' /\ FamilyInv' /\ RunInv' /\ ~failed'
  BY FlagsStep, FamilyStep, RunStep, AssertsStep
<1>3. FlagInv /\ FamilyInv /\ RunInv /\ ~failed =>
        NoAssertFails /\ Family /\ Balanced /\ WaitsCanEnd /\ NoneForgotten /\ FramesExist
  BY FamilyHolds, FramesHold DEF NoAssertFails
<1>4. QED
  BY <1>1, <1>2, <1>3, PTL DEF Spec

================================================================================
