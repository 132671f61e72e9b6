--------------------------- MODULE ContextProofs ----------------------------
(***************************************************************************)
(* Threads use the contexts they must, and no context is lost or used      *)
(* twice, for any number of threads, scopes, contexts, calls and disables. *)
(*                                                                         *)
(* Neither property is inductive.  The proof has two layers.  ThreadInv is *)
(* about the threads alone: which calls can be where in the frames of a    *)
(* thread, how many children it has, and that the threads are a tree.      *)
(* ContextInv builds on it: the links of the contexts are the frames of    *)
(* the threads, a context is in one pool and in one call, and the context  *)
(* that a thread was made with belongs to a call that still waits.         *)
(***************************************************************************)
EXTENDS Context, FiniteSetTheorems, SequenceTheorems, TLAPS

-----------------------------------------------------------------------------
(***************************************************************************)
(* Frames.                                                                 *)
(***************************************************************************)

Stages == {"args", "called", "returned"}
FrameSet == [scope : Scopes, ctx : Contexts, stage : Stages]

LEMMA FrameType ==
  ASSUME NEW fs \in Seq(FrameSet), NEW i \in 1..Len(fs)
  PROVE  /\ fs[i] \in FrameSet /\ fs[i].scope \in Scopes /\ fs[i].ctx \in Contexts
         /\ fs[i].stage \in Stages
<1>1. fs[i] \in FrameSet
  OBVIOUS
<1>2. QED
  BY <1>1 DEF FrameSet

\* The innermost frame is there.
LEMMA LastFrame ==
  ASSUME NEW fs \in Seq(FrameSet), fs # << >>
  PROVE  Len(fs) \in 1..Len(fs) /\ Len(fs) \in Nat /\ Len(fs) - 1 \in Nat
<1> DEFINE n == Len(fs)
<1>1. n \in Nat /\ n # 0
  OBVIOUS
<1> HIDE DEF n
<1>2. n \in 1..n /\ n - 1 \in Nat
  BY <1>1
<1>3. QED
  BY <1>1, <1>2 DEF n

LEMMA Before ==
  ASSUME NEW n \in Nat, n - 1 \in Nat
  PROVE  /\ n - 1 = 0 \/ n - 1 \in 1..n - 1
         /\ n - 1 = 0 \/ n - 1 \in 1..n
         /\ \A i \in 1..n - 1 : i - 1 = 0 \/ i - 1 \in 1..n - 1
OBVIOUS

\* The stage of the innermost call changes.
Staged(fs, g) == [fs EXCEPT ![Len(fs)].stage = g]

LEMMA StagedFrames ==
  ASSUME NEW fs \in Seq(FrameSet), fs # << >>, NEW g \in Stages
  PROVE  LET r == Staged(fs, g) IN
         /\ r \in Seq(FrameSet) /\ Len(r) = Len(fs) /\ r # << >>
         /\ r[Len(r)].stage = g
         /\ \A i \in 1..Len(fs) : r[i].ctx = fs[i].ctx /\ r[i].scope = fs[i].scope
         /\ \A i \in 1..Len(fs) - 1 : r[i] = fs[i]
<1> DEFINE n == Len(fs)
           f == [fs[n] EXCEPT !.stage = g]
           r == Staged(fs, g)
<1>1. n \in 1..Len(fs) /\ n \in Nat /\ n - 1 \in Nat
  BY LastFrame
<1>2. fs[n] \in FrameSet
  BY <1>1, FrameType
<1>3. f \in FrameSet /\ f.stage = g /\ f.ctx = fs[n].ctx /\ f.scope = fs[n].scope
  BY <1>2 DEF FrameSet
<1>4. r = [fs EXCEPT ![n] = f]
  BY DEF Staged
<1> HIDE DEF r, f
<1>5. /\ r \in Seq(FrameSet) /\ Len(r) = n
      /\ \A j \in 1..n : r[j] = IF j = n THEN f ELSE fs[j]
  BY <1>1, <1>3, <1>4, ExceptSeq
<1>6. r # << >> /\ r[Len(r)].stage = g
  BY <1>1, <1>3, <1>5
<1>7. \A i \in 1..n : r[i].ctx = fs[i].ctx /\ r[i].scope = fs[i].scope
  BY <1>3, <1>5
<1>8. \A i \in 1..n - 1 : r[i] = fs[i]
  <2> HIDE DEF n
  <2>1. \A i \in 1..n - 1 : i \in 1..n /\ i # n
    BY <1>1
  <2>2. QED
    BY <1>5, <2>1
<1>9. QED
  BY <1>5, <1>6, <1>7, <1>8 DEF r

\* The innermost call is over.
Popped(fs) == SubSeq(fs, 1, Len(fs) - 1)

LEMMA PoppedFrames ==
  ASSUME NEW fs \in Seq(FrameSet), fs # << >>
  PROVE  LET r == Popped(fs) IN
         /\ r \in Seq(FrameSet) /\ Len(r) = Len(fs) - 1
         /\ \A i \in 1..Len(fs) - 1 : r[i] = fs[i]
<1> DEFINE n == Len(fs)
           r == Popped(fs)
<1>1. n \in Nat /\ n - 1 \in Nat
  BY LastFrame
<1> DEFINE m == n - 1
<1> HIDE DEF n
<1>2. 1 \in 1..n + 1 /\ m \in 1 - 1..n /\ m \in Nat
  BY <1>1
<1> HIDE DEF m
<1>3. /\ SubSeq(fs, 1, m) \in Seq(FrameSet) /\ Len(SubSeq(fs, 1, m)) = (IF 1 <= m THEN m - 1 + 1 ELSE 0)
      /\ \A i \in 1..m - 1 + 1 : SubSeq(fs, 1, m)[i] = fs[1 + i - 1]
  BY <1>2, SubSeqProperties DEF n
<1>4. Len(SubSeq(fs, 1, m)) = m
  BY <1>2, <1>3
<1>5. \A i \in 1..m : SubSeq(fs, 1, m)[i] = fs[i]
  <2>1. \A i \in 1..m : i \in 1..m - 1 + 1 /\ 1 + i - 1 = i
    BY <1>2
  <2>2. QED
    BY <1>3, <2>1
<1>6. QED
  BY <1>3, <1>4, <1>5 DEF Popped, m, n

-----------------------------------------------------------------------------
(***************************************************************************)
(* Sets of at most two threads.                                            *)
(***************************************************************************)

Few(S, n) ==
  /\ n = 0 => S = {}
  /\ n = 1 => \A c, d \in S : c = d
  /\ n = 2 => \A c, d, e \in S : c = d \/ c = e \/ d = e

LEMMA FewLess ==
  ASSUME NEW S, NEW n \in {1, 2}, Few(S, n), NEW c \in S
  PROVE  Few(S \ {c}, n - 1)
<1>1. CASE n = 1
  BY <1>1 DEF Few
<1>2. CASE n = 2
  BY <1>2 DEF Few
<1>3. QED
  BY <1>1, <1>2

LEMMA FewSubset ==
  ASSUME NEW S, NEW T, T \subseteq S, NEW n, Few(S, n)
  PROVE  Few(T, n)
BY DEF Few

LEMMA FewCardinality ==
  ASSUME NEW S, IsFiniteSet(S), NEW n \in {1, 2}, Cardinality(S) = n
  PROVE  Few(S, n)
<1>1. ASSUME NEW T, IsFiniteSet(T), Cardinality(T) = 1, NEW c \in T, NEW d \in T
      PROVE  c = d
  <2> SUFFICES ASSUME c # d PROVE FALSE
    OBVIOUS
  <2>1. IsFiniteSet(T \ {c}) /\ Cardinality(T \ {c}) = 0
    BY <1>1, FS_RemoveElement
  <2>2. T \ {c} = {}
    BY <2>1, FS_EmptySet
  <2>3. QED
    BY <2>2
<1>2. CASE n = 1
  BY <1>1, <1>2 DEF Few
<1>3. CASE n = 2
  <2> SUFFICES ASSUME NEW c \in S, NEW d \in S, NEW e \in S, c # d, c # e, d # e PROVE FALSE
    BY <1>3 DEF Few
  <2>1. IsFiniteSet(S \ {c}) /\ Cardinality(S \ {c}) = 1
    BY <1>3, FS_RemoveElement
  <2>2. QED
    BY <1>1, <2>1
<1>4. QED
  BY <1>2, <1>3

-----------------------------------------------------------------------------
(***************************************************************************)
(* The threads.                                                            *)
(***************************************************************************)

Calling(t) == frames[t] # << >> /\ Innermost(t).stage = "called"
Returned(t) == frames[t] # << >> /\ Innermost(t).stage = "returned"

ThreadTypes ==
  /\ alive \subseteq Threads /\ parent \in [Threads -> OrNil(Threads)]
  /\ ended \in [Threads -> BOOLEAN] /\ joining \in [Threads -> BOOLEAN]
  /\ joins \in [Threads -> {0, 1, 2}] /\ frames \in [Threads -> Seq(FrameSet)]

\* A thread that ended, or is not in use, has nothing in progress.
Idle == \A t \in Threads \ Live : frames[t] = << >> /\ joins[t] = 0 /\ ~joining[t]

\* Only the innermost call of a thread is beyond its arguments, and a thread
\* waits for its fork or for its call.
Shape(t) ==
  /\ \A i \in 1..Len(frames[t]) - 1 : frames[t][i].stage = "args"
  /\ joins[t] # 0 => frames[t] = << >>
  /\ joining[t] => joins[t] # 0 \/ Calling(t)
  /\ Calling(t) => joining[t]

\* The children of a thread are those of its call or of its fork.
Kin ==
  /\ root \in Live /\ parent[root] = Nil
  /\ \A c \in alive \ {root} : parent[c] \in Live
  /\ \A t \in Live : Few(children(t), IF Calling(t) THEN 1 ELSE joins[t])

Tree == \A S \in SUBSET Threads : root \in S /\ Closed(S) => alive \subseteq S

ThreadInv == ThreadTypes /\ Idle /\ (\A t \in Threads : Shape(t)) /\ Kin /\ Tree

LEMMA ThreadInit == Init => ThreadInv
<1> SUFFICES ASSUME Init PROVE ThreadInv
  OBVIOUS
<1>1. /\ alive = {root} /\ parent = [t \in Threads |-> Nil]
      /\ ended = [t \in Threads |-> FALSE] /\ joining = [t \in Threads |-> FALSE]
      /\ joins = [t \in Threads |-> 0] /\ frames = [t \in Threads |-> << >>]
  BY DEF Init
<1>2. ThreadTypes
  BY <1>1, ThreadsAssumption DEF ThreadTypes, OrNil
<1>3. Idle
  BY <1>1 DEF Idle
<1>4. \A t \in Threads : Shape(t)
  BY <1>1 DEF Shape, Calling
<1>5. Kin
  <2>1. Live = {root} /\ children(root) = {} /\ ~Calling(root)
    BY <1>1, ThreadsAssumption DEF Live, children, Calling
  <2>2. QED
    BY <1>1, <2>1, ThreadsAssumption DEF Kin, Few
<1>6. Tree
  BY <1>1 DEF Tree
<1>7. QED
  BY <1>2, <1>3, <1>4, <1>5, <1>6 DEF ThreadInv

\* The threads below t: t, and the children of threads below it; a set that
\* neither the root nor the parent of t is in.
LEMMA BelowTree ==
  ASSUME ThreadInv, NEW t \in alive \ {root}
  PROVE  /\ t \in Below(t) /\ Closed(Below(t)) /\ Below(t) \subseteq alive
         /\ root \notin Below(t) /\ parent[t] \notin Below(t) /\ parent[t] \in Live
         /\ \A d \in Below(t) : d = t \/ parent[d] \in Below(t)
<1> DEFINE B == Below(t)
<1>1. alive \subseteq Threads /\ parent \in [Threads -> OrNil(Threads)] /\ t \in Threads
      /\ parent[t] \in Live /\ parent[root] = Nil
  BY DEF ThreadInv, ThreadTypes, Kin
<1>2. B \subseteq Threads /\ t \in B
  BY <1>1 DEF Below
<1>3. Closed(B)
  <2> SUFFICES ASSUME NEW c \in alive, parent[c] \in B, NEW S \in SUBSET Threads, t \in S, Closed(S)
               PROVE  c \in S
    BY <1>1 DEF Closed, Below
  <2>1. parent[c] \in S
    BY DEF Below
  <2>2. QED
    BY <2>1 DEF Closed
<1>4. ASSUME NEW d \in B, d # t PROVE parent[d] \in B /\ d \in alive
  <2> SUFFICES ASSUME ~(parent[d] \in B /\ d \in alive) PROVE FALSE
    OBVIOUS
  <2> DEFINE S == B \ {d}
  <2>1. S \in SUBSET Threads /\ t \in S
    BY <1>2, <1>4
  <2>2. Closed(S)
    BY <1>3 DEF Closed
  <2>3. d \in S
    BY <2>1, <2>2 DEF Below
  <2>4. QED
    BY <2>3
<1>5. root \notin B
  <2> DEFINE S == Threads \ {root}
  <2>1. S \in SUBSET Threads /\ t \in S
    BY <1>1
  <2>2. Closed(S)
    BY <1>1, ThreadsAssumption DEF Closed
  <2>3. QED
    BY <2>1, <2>2 DEF Below
<1>6. parent[t] \notin B
  <2> SUFFICES ASSUME parent[t] \in B PROVE FALSE
    OBVIOUS
  <2> DEFINE S == Threads \ B
  <2>1. S \in SUBSET Threads /\ root \in S
    BY <1>5, ThreadsAssumption
  <2>2. \A d \in B : parent[d] \in B
    BY <1>4
  <2>3. Closed(S)
    BY <1>1, <2>2 DEF Closed
  <2>4. alive \subseteq S
    BY <2>1, <2>3 DEF ThreadInv, Tree
  <2>5. QED
    BY <1>2, <2>4
<1>7. QED
  BY <1>1, <1>2, <1>3, <1>4, <1>5, <1>6

\* The frames of a thread that calls nothing have no effect on its kin.
LEMMA KinKept ==
  ASSUME ThreadInv, UNCHANGED <<alive, parent, ended, joins>>,
         \A t \in Threads : Calling(t)' <=> Calling(t)
  PROVE  Kin' /\ Tree' /\ Live' = Live
<1>1. Live' = Live /\ \A t : children(t)' = children(t)
  BY DEF Live, children
<1>2. Live \subseteq Threads
  BY DEF ThreadInv, ThreadTypes, Live
<1>3. Kin'
  BY <1>1, <1>2 DEF ThreadInv, Kin
<1>4. Tree'
  BY DEF ThreadInv, Tree, Closed
<1>5. QED
  BY <1>1, <1>3, <1>4

\* The frames of one live thread change, that is not waiting before or after.
LEMMA FramesStep ==
  ASSUME ThreadInv, UNCHANGED threads, NEW t \in Live, NEW fs \in Seq(FrameSet),
         frames' = [frames EXCEPT ![t] = fs], ~joining[t], joins[t] = 0,
         \A i \in 1..Len(fs) - 1 : fs[i].stage = "args",
         fs = << >> \/ fs[Len(fs)].stage # "called"
  PROVE  ThreadInv' /\ Live' = Live
<1>1. UNCHANGED <<alive, parent, ended, joining, joins>>
  BY DEF threads
<1>2. t \in Threads /\ frames \in [Threads -> Seq(FrameSet)]
  BY DEF ThreadInv, ThreadTypes, Live
<1>3. frames'[t] = fs /\ \A u \in Threads : u # t => frames'[u] = frames[u]
  BY <1>2
<1>4. ~Calling(t) /\ ~Calling(t)'
  BY <1>2, <1>3 DEF ThreadInv, Shape, Calling, Innermost
<1>5. \A u \in Threads : Calling(u)' <=> Calling(u)
  BY <1>3, <1>4 DEF Calling, Innermost
<1>6. Kin' /\ Tree' /\ Live' = Live
  BY <1>1, <1>5, KinKept
<1>7. ThreadTypes'
  BY <1>1, <1>2 DEF ThreadInv, ThreadTypes
<1>8. Idle'
  BY <1>1, <1>3, <1>6 DEF ThreadInv, Idle
<1>9. ASSUME NEW u \in Threads PROVE Shape(u)'
  <2>1. CASE u = t
    BY <1>1, <1>3, <1>4, <2>1 DEF Shape
  <2>2. CASE u # t
    BY <1>1, <1>3, <1>5, <2>2 DEF ThreadInv, Shape
  <2>3. QED
    BY <2>1, <2>2
<1>10. QED
  BY <1>6, <1>7, <1>8, <1>9 DEF ThreadInv

\* A thread in the body of its task, or in the arguments of a call.
LEMMA Unoccupied ==
  ASSUME ThreadInv, NEW t \in Threads, InBody(t) \/ InArgs(t)
  PROVE  /\ t \in Live /\ ~joining[t] /\ joins[t] = 0 /\ ~Calling(t) /\ ~Returned(t)
         /\ children(t) = {} /\ frames[t] \in Seq(FrameSet)
         /\ \A i \in 1..Len(frames[t]) : frames[t][i].stage = "args"
<1>1. t \in Live /\ ~joining[t] /\ frames[t] \in Seq(FrameSet) /\ Shape(t)
  BY DEF ThreadInv, ThreadTypes, InBody, InArgs, Running, Live
<1>2. joins[t] = 0 /\ ~Calling(t) /\ ~Returned(t)
  BY <1>1 DEF Shape, InBody, InArgs, Calling, Returned
<1>3. children(t) = {}
  BY <1>1, <1>2 DEF ThreadInv, Kin, Few
<1>4. \A i \in 1..Len(frames[t]) : frames[t][i].stage = "args"
  <2>1. CASE frames[t] = << >>
    BY <2>1
  <2>2. CASE frames[t] # << >>
    <3> DEFINE n == Len(frames[t])
    <3>1. n \in Nat /\ frames[t][n].stage = "args" /\ \A i \in 1..n - 1 : frames[t][i].stage = "args"
      BY <1>1, <2>2 DEF Shape, InBody, InArgs, Innermost
    <3> HIDE DEF n
    <3>2. \A i \in 1..n : i = n \/ i \in 1..n - 1
      BY <3>1
    <3>3. \A i \in 1..n : frames[t][i].stage = "args"
      BY <3>1, <3>2
    <3>4. QED
      BY <3>3 DEF n
  <2>3. QED
    BY <2>1, <2>2
<1>5. QED
  BY <1>1, <1>2, <1>3, <1>4

LEMMA AllocThreads ==
  ASSUME ThreadInv, NEW t \in Threads, NEW s \in Scopes, alloc(t, s)
  PROVE  ThreadInv' /\ Live' = Live
<1>1. PICK c \in Contexts : frames' = [frames EXCEPT ![t] = Append(@, Frame(s, c))]
  BY DEF alloc
<1> DEFINE fs == Append(frames[t], Frame(s, c))
           n == Len(frames[t])
<1>2. /\ t \in Live /\ ~joining[t] /\ joins[t] = 0 /\ frames[t] \in Seq(FrameSet) /\ UNCHANGED threads
      /\ \A i \in 1..Len(frames[t]) : frames[t][i].stage = "args"
  BY Unoccupied DEF alloc
<1>3. Frame(s, c) \in FrameSet /\ Frame(s, c).stage = "args"
  BY DEF Frame, FrameSet, Stages
<1>4. /\ fs \in Seq(FrameSet) /\ Len(fs) = n + 1 /\ n \in Nat
      /\ fs[n + 1] = Frame(s, c) /\ \A i \in 1..n : fs[i] = frames[t][i]
  BY <1>2, <1>3, AppendProperties
<1>5. frames' = [frames EXCEPT ![t] = fs]
  BY <1>1
<1> HIDE DEF fs, n
<1>6. fs[Len(fs)].stage = "args"
  BY <1>3, <1>4
<1>7. \A i \in 1..Len(fs) - 1 : fs[i].stage = "args"
  <2>1. Len(fs) - 1 = n
    BY <1>4
  <2>2. QED
    BY <1>2, <1>4, <2>1 DEF n
<1>8. QED
  BY <1>2, <1>4, <1>5, <1>6, <1>7, FramesStep

LEMMA FreeThreads ==
  ASSUME ThreadInv, NEW t \in Threads, free(t)
  PROVE  ThreadInv' /\ Live' = Live
<1> DEFINE fs == Popped(frames[t])
           n == Len(frames[t])
<1>1. /\ t \in Live /\ ~joining[t] /\ frames[t] \in Seq(FrameSet) /\ frames[t] # << >> /\ Shape(t)
      /\ frames' = [frames EXCEPT ![t] = fs] /\ UNCHANGED threads
  BY DEF free, Running, Live, ThreadInv, ThreadTypes, Popped
<1>2. joins[t] = 0
  BY <1>1 DEF Shape
<1>3. /\ fs \in Seq(FrameSet) /\ Len(fs) = n - 1 /\ n \in Nat /\ n - 1 \in Nat
      /\ \A i \in 1..n - 1 : fs[i] = frames[t][i]
  BY <1>1, PoppedFrames, LastFrame
<1>4. \A i \in 1..n - 1 : fs[i].stage = "args"
  BY <1>1, <1>3 DEF Shape
<1> HIDE DEF fs, n
<1>5. \A i \in 1..Len(fs) - 1 : fs[i].stage = "args"
  BY <1>3, <1>4
<1>6. fs = << >> \/ fs[Len(fs)].stage # "called"
  <2> SUFFICES ASSUME fs # << >> PROVE fs[Len(fs)].stage = "args"
    OBVIOUS
  <2>1. Len(fs) \in 1..Len(fs)
    BY <1>3, LastFrame
  <2>2. QED
    BY <1>3, <1>4, <2>1
<1>7. QED
  BY <1>1, <1>2, <1>3, <1>5, <1>6, FramesStep

\* New threads are children of one that had none.
LEMMA ForkKin ==
  ASSUME ThreadInv, NEW t \in Live, NEW kids \in SUBSET (Threads \ alive), Fork(t, kids),
         children(t) = {}, \A u \in Threads : u # t => joins'[u] = joins[u] /\ (Calling(u)' <=> Calling(u)),
         Few(kids, IF Calling(t)' THEN 1 ELSE joins'[t]),
         \A u \in kids : ~Calling(u) /\ joins[u] = 0
  PROVE  /\ Kin' /\ Tree' /\ Live' = Live \cup kids /\ alive' \subseteq Threads
         /\ parent' \in [Threads -> OrNil(Threads)] /\ ended' \in [Threads -> BOOLEAN]
<1>1. /\ alive \subseteq Threads /\ parent \in [Threads -> OrNil(Threads)]
      /\ ended \in [Threads -> BOOLEAN] /\ t \in Threads /\ t \in alive /\ root \in Live
      /\ root \in alive /\ Live \subseteq alive
  BY DEF ThreadInv, ThreadTypes, Live, Kin
<1>2. /\ alive' = alive \cup kids
      /\ parent' = [c \in Threads |-> IF c \in kids THEN t ELSE parent[c]]
      /\ ended' = [c \in Threads |-> c \notin kids /\ ended[c]]
  BY DEF Fork
<1>3. Live' = Live \cup kids
  BY <1>1, <1>2 DEF Live
<1>4. alive' \subseteq Threads /\ parent' \in [Threads -> OrNil(Threads)] /\ ended' \in [Threads -> BOOLEAN]
  BY <1>1, <1>2 DEF OrNil
<1>5. Kin'
  <2>1. root \in Live' /\ parent'[root] = Nil
    BY <1>1, <1>2, <1>3 DEF ThreadInv, Kin
  <2>2. ASSUME NEW c \in alive' \ {root} PROVE parent'[c] \in Live'
    BY <1>1, <1>2, <1>3 DEF ThreadInv, Kin
  <2>3. ASSUME NEW u \in Live' PROVE Few(children(u)', IF Calling(u)' THEN 1 ELSE joins'[u])
    <3>1. CASE u = t
      <4>1. children(t)' = kids
        BY <1>1, <1>2 DEF children
      <4>2. QED
        BY <3>1, <4>1
    <3>2. CASE u # t /\ u \in Live
      <4>1. children(u)' = children(u)
        BY <1>1, <1>2, <3>2 DEF children
      <4>2. u \in Threads
        BY <1>1, <3>2
      <4>3. QED
        BY <3>2, <4>1, <4>2 DEF ThreadInv, Kin
    <3>3. CASE u \in kids
      <4>1. u # t /\ u \in Threads /\ u # root
        BY <1>1, <3>3
      <4>2. \A c \in alive : parent[c] # u
        BY <1>1, <3>3, ThreadsAssumption DEF ThreadInv, Kin, Live
      <4>3. children(u)' = {}
        BY <1>1, <1>2, <4>1, <4>2 DEF children
      <4>4. QED
        BY <3>3, <4>1, <4>3 DEF Few
    <3>4. QED
      BY <1>3, <3>1, <3>2, <3>3
  <2>4. QED
    BY <2>1, <2>2, <2>3 DEF Kin
<1>6. Tree'
  <2> SUFFICES ASSUME NEW S \in SUBSET Threads, root \in S, Closed(S)' PROVE alive' \subseteq S
    BY DEF Tree
  <2>1. Closed(S)
    BY <1>1, <1>2 DEF Closed
  <2>2. alive \subseteq S
    BY <2>1 DEF ThreadInv, Tree
  <2>3. kids \subseteq S
    BY <1>1, <1>2, <2>2 DEF Closed
  <2>4. QED
    BY <1>2, <2>2, <2>3
<1>7. QED
  BY <1>3, <1>4, <1>5, <1>6

LEMMA CallThreads ==
  ASSUME ThreadInv, NEW t \in Threads, call(t)
  PROVE  /\ ThreadInv' /\ frames' = [frames EXCEPT ![t] = Staged(frames[t], "called")]
         /\ \E c \in Threads \ alive : Fork(t, {c}) /\ Live' = Live \cup {c}
<1> DEFINE fs == Staged(frames[t], "called")
<1>1. PICK c \in Threads \ alive : Fork(t, {c})
  BY DEF call
<1>2. /\ t \in Live /\ ~joining[t] /\ joins[t] = 0 /\ children(t) = {}
      /\ \A i \in 1..Len(frames[t]) : frames[t][i].stage = "args"
  BY Unoccupied DEF call
<1>3. /\ frames \in [Threads -> Seq(FrameSet)] /\ frames[t] # << >> /\ joins' = joins
      /\ joining \in [Threads -> BOOLEAN] /\ joining' = [joining EXCEPT ![t] = TRUE]
      /\ joins \in [Threads -> {0, 1, 2}]
  BY DEF ThreadInv, ThreadTypes, call, InArgs
<1>4. frames' = [frames EXCEPT ![t] = fs]
  BY <1>3 DEF call, Staged
<1>5. /\ fs \in Seq(FrameSet) /\ Len(fs) = Len(frames[t]) /\ fs # << >> /\ fs[Len(fs)].stage = "called"
      /\ \A i \in 1..Len(frames[t]) - 1 : fs[i] = frames[t][i]
  BY <1>3, StagedFrames DEF Stages
<1> HIDE DEF fs
<1>6. frames'[t] = fs /\ \A u \in Threads : u # t => frames'[u] = frames[u]
  BY <1>3, <1>4
<1>7. Calling(t)' /\ \A u \in Threads : u # t => (Calling(u)' <=> Calling(u))
  BY <1>5, <1>6 DEF Calling, Innermost
<1>8. c \notin Live /\ frames[c] = << >> /\ joins[c] = 0 /\ ~joining[c] /\ ~Calling(c)
  BY DEF ThreadInv, Idle, Live, Calling
<1>9. Few({c}, 1)
  BY DEF Few
<1>10. /\ Kin' /\ Tree' /\ Live' = Live \cup {c} /\ alive' \subseteq Threads
       /\ parent' \in [Threads -> OrNil(Threads)] /\ ended' \in [Threads -> BOOLEAN]
  <2>1. {c} \in SUBSET (Threads \ alive)
    OBVIOUS
  <2>2. \A u \in Threads : u # t => joins'[u] = joins[u] /\ (Calling(u)' <=> Calling(u))
    BY <1>3, <1>7
  <2>3. Few({c}, IF Calling(t)' THEN 1 ELSE joins'[t])
    BY <1>7, <1>9
  <2>4. QED
    BY <1>1, <1>2, <1>8, <2>1, <2>2, <2>3, ForkKin
<1>11. ThreadTypes'
  BY <1>3, <1>4, <1>5, <1>10 DEF ThreadTypes
<1>12. Idle'
  BY <1>2, <1>3, <1>6, <1>10 DEF ThreadInv, Idle
<1>13. ASSUME NEW u \in Threads PROVE Shape(u)'
  <2>1. CASE u = t
    <3>1. \A i \in 1..Len(fs) - 1 : fs[i].stage = "args"
      BY <1>5 DEF ThreadInv, Shape
    <3>2. QED
      BY <1>2, <1>3, <1>6, <1>7, <2>1, <3>1 DEF Shape
  <2>2. CASE u # t
    BY <1>3, <1>6, <1>7, <2>2 DEF ThreadInv, Shape
  <2>3. QED
    BY <2>1, <2>2
<1>14. ThreadInv'
  BY <1>10, <1>11, <1>12, <1>13 DEF ThreadInv
<1>15. QED
  BY <1>1, <1>4, <1>10, <1>14 DEF fs

LEMMA ForkThreads ==
  ASSUME ThreadInv, NEW t \in Threads, NEW n \in {1, 2}, fork(t, n)
  PROVE  /\ ThreadInv'
         /\ \E kids \in SUBSET (Threads \ alive) : Fork(t, kids) /\ Live' = Live \cup kids
<1>1. PICK kids \in SUBSET (Threads \ alive) : Cardinality(kids) = n /\ Fork(t, kids)
  BY DEF fork
<1>2. t \in Live /\ ~joining[t] /\ joins[t] = 0 /\ children(t) = {} /\ ~Calling(t)
  BY Unoccupied DEF fork
<1>3. /\ frames \in [Threads -> Seq(FrameSet)] /\ frames[t] = << >> /\ frames' = frames
      /\ joining \in [Threads -> BOOLEAN] /\ joining' = [joining EXCEPT ![t] = TRUE]
      /\ joins \in [Threads -> {0, 1, 2}] /\ joins' = [joins EXCEPT ![t] = n]
  BY DEF ThreadInv, ThreadTypes, fork, InBody
<1>4. \A u : Calling(u)' <=> Calling(u)
  BY <1>3 DEF Calling, Innermost
<1>5. \A c \in kids : c \notin Live /\ frames[c] = << >> /\ joins[c] = 0 /\ ~joining[c] /\ ~Calling(c)
  BY DEF ThreadInv, Idle, Live, Calling
<1>6. Few(kids, n)
  <2>1. IsFiniteSet(kids)
    BY ThreadsAssumption, FS_Subset
  <2>2. QED
    BY <1>1, <2>1, FewCardinality
<1>7. /\ Kin' /\ Tree' /\ Live' = Live \cup kids /\ alive' \subseteq Threads
      /\ parent' \in [Threads -> OrNil(Threads)] /\ ended' \in [Threads -> BOOLEAN]
  <2>1. \A u \in Threads : u # t => joins'[u] = joins[u] /\ (Calling(u)' <=> Calling(u))
    BY <1>3, <1>4
  <2>2. Few(kids, IF Calling(t)' THEN 1 ELSE joins'[t])
    BY <1>2, <1>3, <1>4, <1>6
  <2>3. QED
    BY <1>1, <1>2, <1>5, <2>1, <2>2, ForkKin
<1>8. ThreadTypes'
  BY <1>3, <1>7 DEF ThreadTypes
<1>9. Idle'
  BY <1>2, <1>3, <1>7 DEF ThreadInv, Idle
<1>10. ASSUME NEW u \in Threads PROVE Shape(u)'
  <2>1. CASE u = t
    BY <1>2, <1>3, <1>4, <2>1 DEF ThreadInv, Shape
  <2>2. CASE u # t
    BY <1>3, <1>4, <2>2 DEF ThreadInv, Shape
  <2>3. QED
    BY <2>1, <2>2
<1>11. ThreadInv'
  BY <1>7, <1>8, <1>9, <1>10 DEF ThreadInv
<1>12. QED
  BY <1>1, <1>7, <1>11

-----------------------------------------------------------------------------
(***************************************************************************)
(* The end of a thread.  %end is the case of disable where nothing is      *)
(* below the thread and no call is given up.                               *)
(***************************************************************************)

Stop(t) ==
  /\ t \in Live \ {root}
  /\ leaked' = leaked \cup Calls(Below(t))
  /\ LET p == parent[t]
         rest == [c \in Threads |-> IF c \in Below(t) THEN << >> ELSE frames[c]]
     IN
     IF joining[p]
     THEN /\ joining' = [c \in Threads |-> c # p /\ c \notin Below(t) /\ joining[c]]
          /\ MoveContext(p, t) /\ Reap(Below(t))
          /\ ended' = [c \in Threads |-> c \notin Below(t) /\ ended[c]]
          /\ joins' = [c \in Threads |-> IF c \in Below(t) THEN 0
                                         ELSE IF c = p /\ joins[p] > 0 THEN joins[p] - 1 ELSE joins[c]]
          /\ frames' = IF joins[p] > 0 THEN rest
                       ELSE [rest EXCEPT ![p][Len(rest[p])].stage = "returned"]
     ELSE /\ Reap(Below(t) \ {t})
          /\ ended' = [c \in Threads |-> c = t \/ (c \notin Below(t) /\ ended[c])]
          /\ joining' = [c \in Threads |-> c \notin Below(t) /\ joining[c]]
          /\ joins' = [c \in Threads |-> IF c \in Below(t) THEN 0 ELSE joins[c]]
          /\ frames' = rest
          /\ UNCHANGED <<wt_context, rd_context, stacked>>
  /\ UNCHANGED <<pools, own>>

LEMMA DisableStops == ASSUME NEW t, disable(t) PROVE Stop(t)
BY DEF disable, Stop, Live

\* Nothing is below a thread in the body of its task.
LEMMA BelowAlone ==
  ASSUME ThreadInv, NEW t \in Threads, t # root, InBody(t)
  PROVE  Below(t) = {t}
<1>1. t \in alive \ {root} /\ children(t) = {}
  BY Unoccupied DEF Live
<1>2. Closed({t}) /\ {t} \in SUBSET Threads
  BY <1>1 DEF Closed, children
<1>3. Below(t) \subseteq {t}
  BY <1>2 DEF Below
<1>4. QED
  BY <1>1, <1>3, BelowTree

LEMMA EndStops ==
  ASSUME ThreadInv, NEW t \in Threads, end(t)
  PROVE  Stop(t)
<1> DEFINE p == parent[t]
           rest == [c \in Threads |-> IF c \in Below(t) THEN << >> ELSE frames[c]]
<1>1. /\ Below(t) = {t} /\ t \in Live \ {root} /\ frames[t] = << >> /\ joins[t] = 0
      /\ ~joining[t]
  BY BelowAlone, Unoccupied DEF end, InBody
<1>2. /\ frames \in [Threads -> Seq(FrameSet)] /\ joins \in [Threads -> {0, 1, 2}] /\ p \in Threads
      /\ ended \in [Threads -> BOOLEAN] /\ joining \in [Threads -> BOOLEAN]
  BY <1>1 DEF ThreadInv, ThreadTypes, Kin, Live
<1>3. rest = frames
  BY <1>1, <1>2
<1>4. leaked' = leaked \cup Calls(Below(t)) /\ UNCHANGED <<pools, own>>
  <2>1. Calls({t}) = {}
    BY <1>1 DEF Calls
  <2>2. QED
    BY <1>1, <2>1 DEF end
<1>5. WakeParent(t, {t})
  BY DEF end
<1>6. CASE joining[p]
  <2>1. /\ joining' = [c \in Threads |-> c # p /\ c \notin {t} /\ joining[c]]
        /\ MoveContext(p, t) /\ Joined(p) /\ Reap({t})
        /\ ended' = [c \in Threads |-> c \notin {t} /\ ended[c]]
    BY <1>5, <1>6 DEF WakeParent
  <2>2. joins' = [c \in Threads |-> IF c \in {t} THEN 0
                                   ELSE IF c = p /\ joins[p] > 0 THEN joins[p] - 1 ELSE joins[c]]
    <3>1. p # t
      BY <1>1, <1>6
    <3>2. CASE joins[p] > 0
      BY <1>1, <1>2, <2>1, <3>1, <3>2 DEF Joined
    <3>3. CASE ~(joins[p] > 0)
      BY <1>1, <1>2, <2>1, <3>3 DEF Joined
    <3>4. QED
      BY <3>2, <3>3
  <2>3. frames' = IF joins[p] > 0 THEN frames
                  ELSE [frames EXCEPT ![p][Len(frames[p])].stage = "returned"]
    BY <2>1 DEF Joined
  <2>4. QED
    BY <1>1, <1>3, <1>4, <1>6, <2>1, <2>2, <2>3 DEF Stop
<1>7. CASE ~joining[p]
  <2>1. /\ Reap({t} \ {t})
        /\ ended' = [c \in Threads |-> c = t \/ (c \notin {t} /\ ended[c])]
        /\ joining' = [c \in Threads |-> c \notin {t} /\ joining[c]]
        /\ UNCHANGED <<joins, frames, wt_context, rd_context, stacked>>
    BY <1>5, <1>7 DEF WakeParent
  <2>2. joins' = [c \in Threads |-> IF c \in {t} THEN 0 ELSE joins[c]]
    BY <1>1, <1>2, <2>1
  <2>3. QED
    BY <1>1, <1>3, <1>4, <1>7, <2>1, <2>2 DEF Stop
<1>8. QED
  BY <1>6, <1>7

\* Threads that have no children left go.
LEMMA ReapTree ==
  ASSUME ThreadInv, NEW gone \in SUBSET Threads, Closed(gone), root \notin gone, Reap(gone)
  PROVE  /\ Tree' /\ alive' = alive \ gone /\ \A c \in alive' : parent'[c] = parent[c]
         /\ parent' \in [Threads -> OrNil(Threads)]
<1>1. /\ alive' = alive \ gone /\ alive \subseteq Threads /\ parent \in [Threads -> OrNil(Threads)]
      /\ parent' = [c \in Threads |-> IF c \in gone THEN Nil ELSE parent[c]]
  BY DEF Reap, ThreadInv, ThreadTypes
<1>2. \A c \in alive' : parent'[c] = parent[c]
  BY <1>1
<1>3. Tree'
  <2> SUFFICES ASSUME NEW S \in SUBSET Threads, root \in S, Closed(S)' PROVE alive' \subseteq S
    BY DEF Tree
  <2>1. Closed(S \cup gone)
    BY <1>1, <1>2 DEF Closed
  <2>2. alive \subseteq S \cup gone
    BY <2>1 DEF ThreadInv, Tree
  <2>3. QED
    BY <1>1, <2>2
<1>4. parent' \in [Threads -> OrNil(Threads)]
  BY <1>1 DEF OrNil
<1>5. QED
  BY <1>1, <1>2, <1>3, <1>4

\* A parent is in a call or in a fork, and in a call it waits.
LEMMA Parent ==
  ASSUME ThreadInv, NEW t \in alive \ {root}
  PROVE  LET p == parent[t] IN
         /\ p \in Live /\ p \in Threads /\ t \in children(p)
         /\ Calling(p) => joining[p] /\ joins[p] = 0 /\ frames[p] # << >>
         /\ ~Calling(p) => joins[p] \in {1, 2} /\ frames[p] = << >>
<1>1. /\ parent[t] \in Live /\ parent[t] \in Threads /\ t \in children(parent[t])
      /\ joins[parent[t]] \in {0, 1, 2} /\ Shape(parent[t])
  BY DEF ThreadInv, ThreadTypes, Kin, Live, children
<1>2. Calling(parent[t]) \/ joins[parent[t]] # 0
  BY <1>1 DEF ThreadInv, Kin, Few
<1>3. QED
  BY <1>1, <1>2 DEF Shape, Calling

\* What the end of thread t does to the threads.
LEMMA StopEffect ==
  ASSUME ThreadInv, NEW t, Stop(t)
  PROVE  LET p == parent[t]
             B == Below(t)
         IN
         /\ Live' = Live \ B /\ Tree' /\ alive' \subseteq alive /\ alive \ B \subseteq alive'
         /\ alive' = alive \ (IF joining[p] THEN B ELSE B \ {t})
         /\ parent' \in [Threads -> OrNil(Threads)] /\ ended' \in [Threads -> BOOLEAN]
         /\ \A c \in alive' : parent'[c] = parent[c]
         /\ joining' \in [Threads -> BOOLEAN]
         /\ \A c \in Threads : joining'[c] <=> c # p /\ c \notin B /\ joining[c]
         /\ joins' \in [Threads -> {0, 1, 2}]
         /\ \A c \in Threads : joins'[c] = IF c \in B THEN 0
                                           ELSE IF c = p /\ joining[p] /\ ~Calling(p) THEN joins[p] - 1
                                           ELSE joins[c]
         /\ frames' = [c \in Threads |-> IF c \in B THEN << >>
                                         ELSE IF c = p /\ Calling(p) THEN Staged(frames[p], "returned")
                                         ELSE frames[c]]
<1> PICK p, B : p = parent[t] /\ B = Below(t)
  OBVIOUS
<1> DEFINE rest == [c \in Threads |-> IF c \in B THEN << >> ELSE frames[c]]
<1>1. t \in Live \ {root} /\ t \in alive \ {root} /\ ~ended[t]
  BY DEF Stop, Live
<1>2. /\ p \in Live /\ p \in Threads /\ (Calling(p) => joining[p] /\ joins[p] = 0)
      /\ (~Calling(p) => joins[p] \in {1, 2})
  BY <1>1, Parent
<1>3. /\ t \in B /\ Closed(B) /\ B \subseteq alive /\ root \notin B /\ p \notin B
      /\ \A d \in B : d = t \/ parent[d] \in B
  BY <1>1, BelowTree
<1>4. /\ alive \subseteq Threads /\ ended \in [Threads -> BOOLEAN] /\ joining \in [Threads -> BOOLEAN]
      /\ joins \in [Threads -> {0, 1, 2}] /\ frames \in [Threads -> Seq(FrameSet)]
  BY DEF ThreadInv, ThreadTypes
<1>5. CASE joining[p]
  <2>1. /\ joining' = [c \in Threads |-> c # p /\ c \notin B /\ joining[c]] /\ Reap(B)
        /\ ended' = [c \in Threads |-> c \notin B /\ ended[c]]
        /\ joins' = [c \in Threads |-> IF c \in B THEN 0
                                       ELSE IF c = p /\ joins[p] > 0 THEN joins[p] - 1 ELSE joins[c]]
        /\ frames' = IF joins[p] > 0 THEN rest
                     ELSE [rest EXCEPT ![p][Len(rest[p])].stage = "returned"]
    BY <1>5 DEF Stop
  <2>2. /\ Tree' /\ alive' = alive \ B /\ \A c \in alive' : parent'[c] = parent[c]
        /\ parent' \in [Threads -> OrNil(Threads)]
    BY <1>3, <1>4, <2>1, ReapTree
  <2>3. Live' = Live \ B
    BY <1>4, <2>1, <2>2 DEF Live
  <2>4. ended' \in [Threads -> BOOLEAN] /\ joining' \in [Threads -> BOOLEAN]
    BY <2>1
  <2>5. joins[p] > 0 <=> ~Calling(p)
    BY <1>2
  <2>6. /\ joins' \in [Threads -> {0, 1, 2}]
        /\ \A c \in Threads : joins'[c] = IF c \in B THEN 0
                                          ELSE IF c = p /\ joining[p] /\ ~Calling(p) THEN joins[p] - 1
                                          ELSE joins[c]
    BY <1>2, <1>4, <1>5, <2>1, <2>5
  <2>7. frames' = [c \in Threads |-> IF c \in B THEN << >>
                                    ELSE IF c = p /\ Calling(p) THEN Staged(frames[p], "returned")
                                    ELSE frames[c]]
    <3>1. CASE Calling(p)
      <4>1. rest[p] = frames[p]
        BY <1>2, <1>3
      <4>2. frames' = [rest EXCEPT ![p] = Staged(frames[p], "returned")]
        BY <2>1, <2>5, <3>1, <4>1 DEF Staged
      <4>3. QED
        BY <1>2, <1>3, <3>1, <4>2
    <3>2. CASE ~Calling(p)
      BY <2>1, <2>5, <3>2
    <3>3. QED
      BY <3>1, <3>2
  <2>8. \A c \in Threads : joining'[c] <=> c # p /\ c \notin B /\ joining[c]
    BY <2>1
  <2>9. QED
    BY <1>5, <2>2, <2>3, <2>4, <2>6, <2>7, <2>8
<1>6. CASE ~joining[p]
  <2>1. /\ joining' = [c \in Threads |-> c \notin B /\ joining[c]] /\ Reap(B \ {t})
        /\ ended' = [c \in Threads |-> c = t \/ (c \notin B /\ ended[c])]
        /\ joins' = [c \in Threads |-> IF c \in B THEN 0 ELSE joins[c]]
        /\ frames' = rest
    BY <1>6 DEF Stop
  <2>2. Closed(B \ {t}) /\ root \notin B \ {t} /\ B \ {t} \in SUBSET Threads
    BY <1>3, <1>4 DEF Closed
  <2>3. /\ Tree' /\ alive' = alive \ (B \ {t}) /\ \A c \in alive' : parent'[c] = parent[c]
        /\ parent' \in [Threads -> OrNil(Threads)]
    BY <2>1, <2>2, ReapTree
  <2>4. Live' = Live \ B
    BY <1>3, <1>4, <2>1, <2>3 DEF Live
  <2>5. ended' \in [Threads -> BOOLEAN] /\ joining' \in [Threads -> BOOLEAN]
    BY <2>1
  <2>6. ~Calling(p)
    BY <1>2, <1>6
  <2>7. /\ joins' \in [Threads -> {0, 1, 2}]
        /\ \A c \in Threads : joins'[c] = IF c \in B THEN 0
                                          ELSE IF c = p /\ joining[p] /\ ~Calling(p) THEN joins[p] - 1
                                          ELSE joins[c]
    BY <1>4, <1>6, <2>1
  <2>8. frames' = [c \in Threads |-> IF c \in B THEN << >>
                                    ELSE IF c = p /\ Calling(p) THEN Staged(frames[p], "returned")
                                    ELSE frames[c]]
    BY <2>1, <2>6
  <2>9. \A c \in Threads : joining'[c] <=> c # p /\ c \notin B /\ joining[c]
    BY <1>6, <2>1
  <2>10. QED
    BY <1>6, <2>3, <2>4, <2>5, <2>7, <2>8, <2>9
<1>7. QED
  BY <1>5, <1>6

LEMMA StopThreads == ASSUME ThreadInv, NEW t, Stop(t) PROVE ThreadInv'
<1> PICK p, B : p = parent[t] /\ B = Below(t)
  OBVIOUS
<1>1. t \in alive \ {root}
  BY DEF Stop, Live
<1>2. /\ p \in Live /\ p \in Threads /\ t \in children(p)
      /\ (Calling(p) => joining[p] /\ joins[p] = 0 /\ frames[p] # << >>)
      /\ (~Calling(p) => joins[p] \in {1, 2} /\ frames[p] = << >>)
  BY <1>1, Parent
<1>3. /\ t \in B /\ B \subseteq alive /\ root \notin B /\ p \notin B
      /\ \A d \in B : d = t \/ parent[d] \in B
  BY <1>1, BelowTree
<1>4. /\ Live' = Live \ B /\ Tree' /\ alive' \subseteq alive
      /\ alive' = alive \ (IF joining[p] THEN B ELSE B \ {t})
      /\ parent' \in [Threads -> OrNil(Threads)] /\ ended' \in [Threads -> BOOLEAN]
      /\ \A c \in alive' : parent'[c] = parent[c]
      /\ joining' \in [Threads -> BOOLEAN]
      /\ \A c \in Threads : joining'[c] <=> c # p /\ c \notin B /\ joining[c]
      /\ joins' \in [Threads -> {0, 1, 2}]
      /\ \A c \in Threads : joins'[c] = IF c \in B THEN 0
                                        ELSE IF c = p /\ joining[p] /\ ~Calling(p) THEN joins[p] - 1
                                        ELSE joins[c]
      /\ frames' = [c \in Threads |-> IF c \in B THEN << >>
                                      ELSE IF c = p /\ Calling(p) THEN Staged(frames[p], "returned")
                                      ELSE frames[c]]
  BY StopEffect
<1>5. alive \subseteq Threads /\ frames \in [Threads -> Seq(FrameSet)] /\ Live \subseteq alive
  BY DEF ThreadInv, ThreadTypes, Live
<1> DEFINE fs == Staged(frames[p], "returned")
<1>6. Calling(p) => /\ fs \in Seq(FrameSet) /\ Len(fs) = Len(frames[p]) /\ fs # << >>
                    /\ fs[Len(fs)].stage = "returned"
                    /\ \A i \in 1..Len(frames[p]) - 1 : fs[i] = frames[p][i]
  BY <1>2, <1>5, StagedFrames DEF Stages
<1> HIDE DEF fs
<1>7. /\ \A c \in B : frames'[c] = << >>
      /\ \A c \in Threads \ B : c # p => frames'[c] = frames[c]
      /\ frames'[p] = IF Calling(p) THEN fs ELSE frames[p]
  BY <1>2, <1>3, <1>4, <1>5 DEF fs
<1>8. ThreadTypes'
  <2>1. << >> \in Seq(FrameSet)
    OBVIOUS
  <2>2. \A c \in Threads : (IF c \in B THEN << >> ELSE IF c = p /\ Calling(p) THEN fs ELSE frames[c]) \in Seq(FrameSet)
    BY <1>5, <1>6, <2>1
  <2>3. frames' \in [Threads -> Seq(FrameSet)]
    BY <1>4, <2>2 DEF fs
  <2>4. QED
    BY <1>4, <1>5, <2>3 DEF ThreadTypes
<1>9. /\ ~Calling(p)' /\ \A c \in B : ~Calling(c)'
      /\ \A c \in Threads \ B : c # p => (Calling(c)' <=> Calling(c))
  BY <1>6, <1>7 DEF Calling, Innermost
<1>10. Idle'
  <2> SUFFICES ASSUME NEW c \in Threads, c \notin Live'
               PROVE  frames'[c] = << >> /\ joins'[c] = 0 /\ ~joining'[c]
    BY DEF Idle
  <2>1. CASE c \in B
    BY <1>4, <1>7, <2>1
  <2>2. CASE c \notin B
    <3>1. c \notin Live /\ c # p
      BY <1>2, <1>4, <2>2
    <3>2. QED
      BY <1>4, <1>7, <2>2, <3>1 DEF ThreadInv, Idle
  <2>3. QED
    BY <2>1, <2>2
<1>11. ASSUME NEW c \in Threads PROVE Shape(c)'
  <2>1. CASE c \in B
    BY <1>4, <1>7, <1>9, <2>1 DEF Shape
  <2>2. CASE c = p
    <3>1. \A i \in 1..Len(frames'[p]) - 1 : frames'[p][i].stage = "args"
      BY <1>2, <1>6, <1>7 DEF ThreadInv, Shape
    <3>2. joins'[p] # 0 => frames'[p] = << >>
      BY <1>2, <1>3, <1>4, <1>7
    <3>3. QED
      BY <1>4, <1>9, <2>2, <3>1, <3>2 DEF Shape
  <2>3. CASE c \notin B /\ c # p
    BY <1>4, <1>7, <1>9, <2>3 DEF ThreadInv, Shape
  <2>4. QED
    BY <2>1, <2>2, <2>3
<1>12. Kin'
  <2>1. root \in Live' /\ parent'[root] = Nil
    BY <1>3, <1>4 DEF ThreadInv, Kin, Live
  <2>2. ASSUME NEW c \in alive' \ {root} PROVE parent'[c] \in Live'
    <3>1. c \in alive /\ parent'[c] = parent[c] /\ parent[c] \in Live
      BY <1>4, <2>2 DEF ThreadInv, Kin
    <3>2. CASE c = t
      BY <1>2, <1>3, <1>4, <3>1, <3>2
    <3>3. CASE c # t
      <4>1. c \notin B
        BY <1>4, <3>3
      <4>2. parent[c] \notin B
        BY <3>1, <4>1, <1>1, BelowTree DEF Closed
      <4>3. QED
        BY <1>4, <3>1, <4>2
    <3>4. QED
      BY <3>2, <3>3
  <2>3. ASSUME NEW u \in Live' PROVE Few(children(u)', IF Calling(u)' THEN 1 ELSE joins'[u])
    <3>1. u \in Live /\ u \notin B /\ u \in Threads /\ Few(children(u), IF Calling(u) THEN 1 ELSE joins[u])
      BY <1>4, <1>5 DEF ThreadInv, Kin
    <3>2. CASE u # p
      <4>1. children(u)' = children(u)
        BY <1>3, <1>4, <3>1, <3>2 DEF children
      <4>2. joins'[u] = joins[u] /\ (Calling(u)' <=> Calling(u))
        BY <1>4, <1>9, <3>1, <3>2
      <4>3. QED
        BY <3>1, <4>1, <4>2
    <3>3. CASE u = p /\ joining[p]
      <4>1. children(p)' = children(p) \ {t}
        BY <1>3, <1>4, <3>3 DEF children
      <4>2. CASE Calling(p)
        <5>1. Few(children(p), 1)
          BY <3>1, <3>3, <4>2
        <5>2. Few(children(p) \ {t}, 1 - 1) /\ 1 - 1 = 0
          BY <1>2, <5>1, FewLess
        <5>3. joins'[p] = 0
          BY <1>2, <1>3, <1>4, <4>2
        <5>4. QED
          BY <1>9, <3>3, <4>1, <5>2, <5>3
      <4>3. CASE ~Calling(p)
        <5>1. Few(children(p), joins[p])
          BY <3>1, <3>3, <4>3
        <5>2. Few(children(p) \ {t}, joins[p] - 1)
          BY <1>2, <4>3, <5>1, FewLess
        <5>3. joins'[p] = joins[p] - 1
          BY <1>2, <1>3, <1>4, <3>3, <4>3
        <5>4. QED
          BY <1>9, <3>3, <4>1, <5>2, <5>3
      <4>4. QED
        BY <4>2, <4>3
    <3>4. CASE u = p /\ ~joining[p]
      <4>1. children(p)' = children(p)
        BY <1>3, <1>4, <3>4 DEF children
      <4>2. ~Calling(p) /\ joins'[p] = joins[p]
        BY <1>2, <1>3, <1>4, <3>4
      <4>3. QED
        BY <1>9, <3>1, <3>4, <4>1, <4>2
    <3>5. QED
      BY <3>2, <3>3, <3>4
  <2>4. QED
    BY <2>1, <2>2, <2>3 DEF Kin
<1>13. QED
  BY <1>4, <1>8, <1>10, <1>11, <1>12 DEF ThreadInv

-----------------------------------------------------------------------------
(***************************************************************************)
(* %join.                                                                  *)
(***************************************************************************)

\* A thread of the fork is joined that has ended before.
JoinZombie(t, c) ==
  /\ Running(t) /\ joins[t] > 0 /\ c \in children(t) /\ ended[c]
  /\ MoveContext(t, c) /\ Joined(t) /\ Reap({c})
  /\ UNCHANGED <<ended, joining, pools, own, leaked>>

\* None has ended, and the thread waits.
JoinWaits(t) ==
  /\ Running(t) /\ joins[t] > 0 /\ joining' = [joining EXCEPT ![t] = TRUE]
  /\ UNCHANGED <<alive, parent, ended, joins, frames, wt_context, rd_context, stacked, pools, own,
                 leaked>>

LEMMA JoinCases ==
  ASSUME NEW t, join(t)
  PROVE  JoinWaits(t) \/ \E c : JoinZombie(t, c)
BY DEF join, JoinWaits, JoinZombie, pools

LEMMA JoinZombieThreads ==
  ASSUME ThreadInv, NEW t \in Threads, NEW c, JoinZombie(t, c)
  PROVE  ThreadInv' /\ Live' = Live /\ frames' = frames /\ Live \subseteq alive'
<1>1. /\ t \in Live /\ c \in alive /\ parent[c] = t /\ ended[c] /\ joins[t] > 0 /\ ~joining[t]
      /\ c \in children(t)
  BY DEF JoinZombie, Running, Live, children
<1>2. /\ alive \subseteq Threads /\ joins \in [Threads -> {0, 1, 2}]
      /\ root \in Live /\ \A d \in alive \ {root} : parent[d] \in Live
      /\ parent[root] = Nil
  BY DEF ThreadInv, ThreadTypes, Kin
<1>3. c \notin Live /\ c # root /\ c \in Threads /\ c # t
  BY <1>1, <1>2 DEF Live
<1>4. Closed({c})
  BY <1>2, <1>3, ThreadsAssumption DEF Closed
<1>5. /\ joins[t] \in {1, 2} /\ joins' = [joins EXCEPT ![t] = joins[t] - 1] /\ frames' = frames
      /\ joining' = joining /\ ended' = ended /\ Reap({c})
  BY <1>1, <1>2 DEF JoinZombie, Joined
<1>6. /\ Tree' /\ alive' = alive \ {c} /\ \A d \in alive' : parent'[d] = parent[d]
      /\ parent' \in [Threads -> OrNil(Threads)]
  BY <1>3, <1>4, <1>5, ReapTree
<1>7. Live' = Live /\ Live \subseteq alive'
  BY <1>3, <1>5, <1>6 DEF Live
<1>8. \A u : Calling(u)' <=> Calling(u)
  BY <1>5 DEF Calling, Innermost
<1>9. ThreadTypes'
  <2>1. joins[t] - 1 \in {0, 1, 2}
    BY <1>5
  <2>2. joins' \in [Threads -> {0, 1, 2}]
    BY <1>2, <1>5, <2>1
  <2>3. QED
    BY <1>5, <1>6, <2>2 DEF ThreadInv, ThreadTypes
<1>10. Idle'
  BY <1>1, <1>2, <1>5, <1>7 DEF ThreadInv, Idle
<1>11. ASSUME NEW u \in Threads PROVE Shape(u)'
  <2>1. CASE u = t
    BY <1>1, <1>2, <1>5, <1>8, <2>1 DEF ThreadInv, Shape
  <2>2. CASE u # t
    BY <1>2, <1>5, <1>8, <2>2 DEF ThreadInv, Shape
  <2>3. QED
    BY <2>1, <2>2
<1>12. Kin'
  <2>1. root \in Live' /\ parent'[root] = Nil /\ \A d \in alive' \ {root} : parent'[d] \in Live'
    BY <1>2, <1>6, <1>7
  <2>2. ASSUME NEW u \in Live' PROVE Few(children(u)', IF Calling(u)' THEN 1 ELSE joins'[u])
    <3>1. u \in Threads /\ Few(children(u), IF Calling(u) THEN 1 ELSE joins[u])
      BY <1>2, <1>7 DEF ThreadInv, Kin, Live
    <3>2. CASE u # t
      <4>1. children(u)' = children(u)
        BY <1>1, <1>6, <3>2 DEF children
      <4>2. joins'[u] = joins[u]
        BY <1>2, <1>5, <3>1, <3>2
      <4>3. QED
        BY <1>8, <3>1, <4>1, <4>2
    <3>3. CASE u = t
      <4>1. children(t)' = children(t) \ {c}
        BY <1>6 DEF children
      <4>2. ~Calling(t)
        BY <1>1, <1>5 DEF ThreadInv, Shape, Calling
      <4>3. Few(children(t), joins[t])
        BY <3>1, <3>3, <4>2
      <4>4. Few(children(t) \ {c}, joins[t] - 1)
        BY <1>1, <1>5, <4>3, FewLess
      <4>5. joins'[t] = joins[t] - 1
        BY <1>2, <1>5
      <4>6. QED
        BY <1>8, <3>3, <4>1, <4>2, <4>4, <4>5
    <3>4. QED
      BY <3>2, <3>3
  <2>3. QED
    BY <2>1, <2>2 DEF Kin
<1>13. QED
  BY <1>5, <1>6, <1>7, <1>9, <1>10, <1>11, <1>12 DEF ThreadInv

LEMMA JoinWaitsThreads ==
  ASSUME ThreadInv, NEW t \in Threads, JoinWaits(t)
  PROVE  ThreadInv' /\ Live' = Live
<1>1. /\ UNCHANGED <<alive, parent, ended, joins, frames>> /\ joining' = [joining EXCEPT ![t] = TRUE]
      /\ joins[t] # 0 /\ t \in Live /\ joining \in [Threads -> BOOLEAN]
  BY DEF JoinWaits, Running, Live, ThreadInv, ThreadTypes
<1>2. \A u : Calling(u)' <=> Calling(u)
  BY <1>1 DEF Calling, Innermost
<1>3. Kin' /\ Tree' /\ Live' = Live
  BY <1>1, <1>2, KinKept
<1>4. ThreadTypes'
  BY <1>1 DEF ThreadInv, ThreadTypes
<1>5. Idle'
  BY <1>1, <1>3 DEF ThreadInv, Idle
<1>6. \A u \in Threads : Shape(u)'
  BY <1>1, <1>2 DEF ThreadInv, Shape
<1>7. QED
  BY <1>3, <1>4, <1>5, <1>6 DEF ThreadInv

LEMMA ThreadStutter == ASSUME ThreadInv, UNCHANGED vars PROVE ThreadInv'
<1>1. UNCHANGED <<alive, parent, ended, joining, joins, frames>>
  BY DEF vars, threads
<1>2. \A u : Calling(u)' <=> Calling(u)
  BY <1>1 DEF Calling, Innermost
<1>3. Kin' /\ Tree' /\ Live' = Live
  BY <1>1, <1>2, KinKept
<1>4. ThreadTypes' /\ Idle'
  BY <1>1, <1>3 DEF ThreadInv, ThreadTypes, Idle
<1>5. \A u \in Threads : Shape(u)'
  BY <1>1, <1>2 DEF ThreadInv, Shape
<1>6. QED
  BY <1>3, <1>4, <1>5 DEF ThreadInv

\* The steps of Next, with those that end or join a thread taken together.
LEMMA Steps ==
  ASSUME ThreadInv, Next
  PROVE  \/ \E t \in Threads, s \in Scopes : alloc(t, s)
         \/ \E t \in Threads : free(t)
         \/ \E t \in Threads : call(t)
         \/ \E t \in Threads, n \in {1, 2} : fork(t, n)
         \/ \E t \in Threads : JoinWaits(t)
         \/ \E t \in Threads : \E c : JoinZombie(t, c)
         \/ \E t \in Threads : Stop(t)
BY JoinCases, EndStops, DisableStops DEF Next

LEMMA ThreadStep == ThreadInv /\ [Next]_vars => ThreadInv'
<1> SUFFICES ASSUME ThreadInv, [Next]_vars PROVE ThreadInv'
  OBVIOUS
<1>1. CASE Next
  BY <1>1, Steps, AllocThreads, FreeThreads, CallThreads, ForkThreads, JoinWaitsThreads,
     JoinZombieThreads, StopThreads
<1>2. CASE UNCHANGED vars
  BY <1>2, ThreadStutter
<1>3. QED
  BY <1>1, <1>2

-----------------------------------------------------------------------------
(***************************************************************************)
(* Lists of contexts in which none is twice.                               *)
(***************************************************************************)

LEMMA RangeIn ==
  ASSUME NEW S, NEW l \in Seq(S)
  PROVE  /\ Range(l) \subseteq S /\ \A i \in 1..Len(l) : l[i] \in Range(l)
         /\ \A x \in Range(l) : \E i \in 1..Len(l) : x = l[i]
         /\ IsInjective(l) <=> \A a, b \in 1..Len(l) : l[a] = l[b] => a = b
<1>1. DOMAIN l = 1..Len(l) /\ \A i \in 1..Len(l) : l[i] \in S
  OBVIOUS
<1>2. QED
  BY <1>1 DEF Range, IsInjective

LEMMA ListPop ==
  ASSUME NEW S, NEW l \in Seq(S), l # << >>, IsInjective(l)
  PROVE  /\ l[1] \in Range(l) /\ Tail(l) \in Seq(S) /\ IsInjective(Tail(l))
         /\ Range(Tail(l)) = Range(l) \ {l[1]}
<1> DEFINE r == Tail(l)
<1>1. /\ r \in Seq(S) /\ Len(r) = Len(l) - 1 /\ Len(l) \in Nat /\ Len(l) # 0
      /\ \A i \in 1..Len(r) : r[i] = l[i + 1]
  BY HeadTailProperties
<1>2. /\ \A i \in 1..Len(l) : l[i] \in Range(l)
      /\ \A x \in Range(l) : \E i \in 1..Len(l) : x = l[i]
      /\ \A a, b \in 1..Len(l) : l[a] = l[b] => a = b
  BY RangeIn
<1> HIDE DEF r
<1>3. /\ \A i \in 1..Len(r) : r[i] \in Range(r)
      /\ \A x \in Range(r) : \E i \in 1..Len(r) : x = r[i]
      /\ IsInjective(r) <=> \A a, b \in 1..Len(r) : r[a] = r[b] => a = b
  BY <1>1, RangeIn
<1>4. 1 \in 1..Len(l) /\ \A i \in 1..Len(r) : i + 1 \in 1..Len(l) /\ i + 1 # 1
  BY <1>1
<1>5. ASSUME NEW a \in 1..Len(r), NEW b \in 1..Len(r), r[a] = r[b] PROVE a = b
  <2>1. a + 1 = b + 1
    BY <1>1, <1>2, <1>4, <1>5
  <2>2. QED
    BY <2>1
<1>6. ASSUME NEW x \in Range(r) PROVE x \in Range(l) /\ x # l[1]
  <2>1. PICK i \in 1..Len(r) : x = r[i]
    BY <1>3
  <2>2. QED
    BY <1>1, <1>2, <1>4, <2>1
<1>7. ASSUME NEW x \in Range(l), x # l[1] PROVE x \in Range(r)
  <2>1. PICK i \in 1..Len(l) : x = l[i]
    BY <1>2
  <2>2. i # 1
    BY <1>7, <2>1
  <2>3. i - 1 \in 1..Len(r) /\ (i - 1) + 1 = i
    BY <1>1, <2>2
  <2>4. r[i - 1] = x
    BY <1>1, <2>1, <2>3
  <2>5. QED
    BY <1>3, <2>3, <2>4
<1>8. QED
  BY <1>1, <1>2, <1>3, <1>4, <1>5, <1>6, <1>7 DEF r

LEMMA ListPush ==
  ASSUME NEW S, NEW l \in Seq(S), IsInjective(l), NEW x \in S, x \notin Range(l)
  PROVE  /\ <<x>> \o l \in Seq(S) /\ IsInjective(<<x>> \o l)
         /\ Range(<<x>> \o l) = Range(l) \cup {x}
<1> DEFINE r == <<x>> \o l
<1>1. /\ r \in Seq(S) /\ Len(r) = 1 + Len(l) /\ Len(l) \in Nat
      /\ r[1] = x /\ \A i \in 2..Len(r) : r[i] = l[i - 1]
  OBVIOUS
<1>2. /\ \A i \in 1..Len(l) : l[i] \in Range(l)
      /\ \A y \in Range(l) : \E i \in 1..Len(l) : y = l[i]
      /\ \A a, b \in 1..Len(l) : l[a] = l[b] => a = b
  BY RangeIn
<1> HIDE DEF r
<1>3. /\ \A i \in 1..Len(r) : r[i] \in Range(r)
      /\ \A y \in Range(r) : \E i \in 1..Len(r) : y = r[i]
      /\ IsInjective(r) <=> \A a, b \in 1..Len(r) : r[a] = r[b] => a = b
  BY <1>1, RangeIn
<1>4. ASSUME NEW i \in 1..Len(r), i # 1
      PROVE  i - 1 \in 1..Len(l) /\ r[i] = l[i - 1] /\ r[i] \in Range(l) /\ r[i] # x
  <2>1. i - 1 \in 1..Len(l) /\ i \in 2..Len(r)
    BY <1>1, <1>4
  <2>2. QED
    BY <1>1, <1>2, <2>1
<1>5. ASSUME NEW a \in 1..Len(r), NEW b \in 1..Len(r), r[a] = r[b] PROVE a = b
  <2>1. CASE a = 1 \/ b = 1
    BY <1>1, <1>4, <1>5, <2>1
  <2>2. CASE a # 1 /\ b # 1
    <3>1. a - 1 = b - 1
      BY <1>2, <1>4, <1>5, <2>2
    <3>2. QED
      BY <3>1
  <2>3. QED
    BY <2>1, <2>2
<1>6. ASSUME NEW y \in Range(r) PROVE y \in Range(l) \cup {x}
  BY <1>1, <1>3, <1>4
<1>7. ASSUME NEW y \in Range(l) PROVE y \in Range(r)
  <2>1. PICK i \in 1..Len(l) : y = l[i]
    BY <1>2
  <2>2. i + 1 \in 2..Len(r) /\ i + 1 \in 1..Len(r) /\ (i + 1) - 1 = i
    BY <1>1
  <2>3. r[i + 1] = y
    BY <1>1, <2>1, <2>2
  <2>4. QED
    BY <1>3, <2>2, <2>3
<1>8. x \in Range(r)
  <2>1. 1 \in 1..Len(r)
    BY <1>1
  <2>2. QED
    BY <1>1, <1>3, <2>1
<1>9. QED
  BY <1>1, <1>3, <1>5, <1>6, <1>7, <1>8 DEF r

\* Unlinking a context from the list of live contexts.
LEMMA ListRemove ==
  ASSUME NEW S, NEW l \in Seq(S), IsInjective(l), NEW x \in Range(l)
  PROVE  /\ RemoveFirst(l, x) \in Seq(S) /\ IsInjective(RemoveFirst(l, x))
         /\ Range(RemoveFirst(l, x)) = Range(l) \ {x}
<1>1. /\ \A i \in 1..Len(l) : l[i] \in Range(l) /\ l[i] \in S
      /\ \A y \in Range(l) : \E i \in 1..Len(l) : y = l[i]
      /\ \A a, b \in 1..Len(l) : l[a] = l[b] => a = b
  BY RangeIn
<1>2. PICK k \in 1..Len(l) : x = l[k]
  BY <1>1
<1> DEFINE n == Len(l)
           A == SubSeq(l, 1, k - 1)
           C == SubSeq(l, k + 1, n)
           r == A \o C
<1>3. n \in Nat /\ k \in Nat /\ 1 <= k /\ k <= n
  BY <1>2
<1>4. RemoveFirst(l, x) = r
  <2>1. {i \in 1..Len(l) : l[i] = x} = {k}
    BY <1>1, <1>2
  <2>2. Min({k}) = k
    BY <1>3 DEF Min
  <2>3. SelectInSeq(l, LAMBDA v : v = x) = k
    BY <2>1, <2>2 DEF SelectInSeq
  <2>4. QED
    BY <1>2, <2>3 DEF RemoveFirst, RemoveAt
<1>5. A \in Seq(S) /\ Len(A) = k - 1 /\ \A i \in 1..k - 1 : A[i] = l[i]
  <2>1. k - 1 \in Int /\ 1 \in Int /\ \A i \in 1..k - 1 : i \in 1..n
    BY <1>3
  <2>2. /\ A \in Seq(S) /\ Len(A) = (IF 1 <= k - 1 THEN (k - 1) - 1 + 1 ELSE 0)
        /\ \A i \in 1..(k - 1) - 1 + 1 : A[i] = l[1 + i - 1]
    BY <1>1, <2>1, SubSeqProperties
  <2> HIDE DEF A, n
  <2>3. Len(A) = k - 1
    BY <1>3, <2>2
  <2>4. \A i \in 1..k - 1 : i \in 1..(k - 1) - 1 + 1 /\ 1 + i - 1 = i
    BY <1>3
  <2>5. QED
    BY <2>2, <2>3, <2>4
<1>6. C \in Seq(S) /\ Len(C) = n - k /\ \A i \in 1..n - k : C[i] = l[k + i]
  <2>1. k + 1 \in Int /\ n \in Int /\ \A i \in k + 1..n : i \in 1..n
    BY <1>3
  <2>2. /\ C \in Seq(S) /\ Len(C) = (IF k + 1 <= n THEN n - (k + 1) + 1 ELSE 0)
        /\ \A i \in 1..n - (k + 1) + 1 : C[i] = l[(k + 1) + i - 1]
    BY <1>1, <2>1, SubSeqProperties
  <2> HIDE DEF C, n
  <2>3. Len(C) = n - k
    BY <1>3, <2>2
  <2>4. \A i \in 1..n - k : i \in 1..n - (k + 1) + 1 /\ (k + 1) + i - 1 = k + i
    BY <1>3
  <2>5. QED
    BY <2>2, <2>3, <2>4
<1> HIDE DEF A, C, n
<1>7. /\ r \in Seq(S) /\ Len(r) = n - 1
      /\ \A i \in 1..n - 1 : r[i] = IF i < k THEN l[i] ELSE l[i + 1]
  <2>1. /\ r \in Seq(S) /\ Len(r) = Len(A) + Len(C)
        /\ \A i \in 1..Len(A) + Len(C) : r[i] = IF i <= Len(A) THEN A[i] ELSE C[i - Len(A)]
    BY <1>5, <1>6, ConcatProperties
  <2> HIDE DEF r
  <2>2. Len(A) + Len(C) = n - 1
    BY <1>3, <1>5, <1>6
  <2>3. ASSUME NEW i \in 1..n - 1 PROVE r[i] = IF i < k THEN l[i] ELSE l[i + 1]
    <3>1. CASE i < k
      <4>1. i <= Len(A) /\ i \in 1..k - 1
        BY <1>3, <1>5, <3>1
      <4>2. QED
        BY <1>5, <2>1, <2>2, <3>1, <4>1
    <3>2. CASE ~(i < k)
      <4>1. ~(i <= Len(A)) /\ i - Len(A) \in 1..n - k /\ k + (i - Len(A)) = i + 1
        BY <1>3, <1>5, <3>2
      <4>2. QED
        BY <1>6, <2>1, <2>2, <3>2, <4>1
    <3>3. QED
      BY <3>1, <3>2
  <2>4. QED
    BY <2>1, <2>2, <2>3
<1> HIDE DEF r
<1>8. /\ \A i \in 1..Len(r) : r[i] \in Range(r)
      /\ \A y \in Range(r) : \E i \in 1..Len(r) : y = r[i]
      /\ IsInjective(r) <=> \A a, b \in 1..Len(r) : r[a] = r[b] => a = b
  BY <1>7, RangeIn
<1> DEFINE at(i) == IF i < k THEN i ELSE i + 1
<1>9. \A i \in 1..n - 1 : at(i) \in 1..n /\ at(i) # k /\ r[i] = l[at(i)]
  BY <1>3, <1>7
<1>10. \A a, b \in 1..n - 1 : at(a) = at(b) => a = b
  BY <1>3
<1>11. \A j \in 1..n : j # k => \E i \in 1..n - 1 : at(i) = j
  <2> SUFFICES ASSUME NEW j \in 1..n, j # k PROVE \E i \in 1..n - 1 : at(i) = j
    OBVIOUS
  <2>1. CASE j < k
    <3>1. j \in 1..n - 1 /\ at(j) = j
      BY <1>3, <2>1
    <3>2. QED
      BY <3>1
  <2>2. CASE ~(j < k)
    <3>1. j - 1 \in 1..n - 1 /\ at(j - 1) = j
      BY <1>3, <2>2
    <3>2. QED
      BY <3>1
  <2>3. QED
    BY <2>1, <2>2
<1> HIDE DEF at
<1>12. IsInjective(r)
  <2>1. ASSUME NEW a \in 1..n - 1, NEW b \in 1..n - 1, r[a] = r[b] PROVE a = b
    <3>1. r[a] = l[at(a)] /\ r[b] = l[at(b)] /\ at(a) \in 1..n /\ at(b) \in 1..n
      BY <1>9
    <3>2. at(a) \in 1..Len(l) /\ at(b) \in 1..Len(l) /\ l[at(a)] = l[at(b)]
      BY <2>1, <3>1 DEF n
    <3>3. at(a) = at(b)
      BY <1>1, <3>2
    <3>4. QED
      BY <1>10, <3>3
  <2>2. QED
    BY <1>7, <1>8, <2>1
<1>13. Range(r) = Range(l) \ {x}
  <2>1. ASSUME NEW y \in Range(r) PROVE y \in Range(l) /\ y # x
    <3>1. PICK i \in 1..n - 1 : y = r[i]
      BY <1>7, <1>8
    <3>2. y = l[at(i)] /\ at(i) \in 1..n /\ at(i) # k
      BY <1>9, <3>1
    <3>3. QED
      BY <1>1, <1>2, <3>2 DEF n
  <2>2. ASSUME NEW y \in Range(l), y # x PROVE y \in Range(r)
    <3>1. PICK j \in 1..n : y = l[j]
      BY <1>1 DEF n
    <3>2. j # k
      BY <1>2, <2>2, <3>1
    <3>3. PICK i \in 1..n - 1 : at(i) = j
      BY <1>11, <3>2
    <3>4. QED
      BY <1>7, <1>8, <1>9, <3>1, <3>3
  <2>3. QED
    BY <2>1, <2>2
<1>14. QED
  BY <1>4, <1>7, <1>12, <1>13

-----------------------------------------------------------------------------
(***************************************************************************)
(* The contexts.                                                           *)
(***************************************************************************)

Slots(t) == 1..Len(frames[t])
InCall(x) == \E t \in Threads : \E i \in Slots(t) : frames[t][i].ctx = x
InList(x) == \E s \in Scopes : x \in Range(live_contexts[s])

ContextTypes ==
  /\ wt_context \in [Threads -> OrNil(Contexts)] /\ rd_context \in [Threads -> OrNil(Contexts)]
  /\ own \in [Threads -> OrNil(Contexts)] /\ stacked \in [Contexts -> OrNil(Contexts)]
  /\ live_contexts \in [Scopes -> Seq(Contexts)] /\ free_contexts \in [Scopes -> Seq(Contexts)]
  /\ leaked \subseteq Contexts

\* The context that a thread hands to its children.
Given(t) == IF Calling(t) THEN Innermost(t).ctx ELSE own[t]

Made == own[root] = Nil /\ \A c \in Live \ {root} : own[c] = Given(parent[c])

\* The context below call i + 1 of a thread.
Base(t, i) == IF i = 0 THEN own[t] ELSE frames[t][i].ctx

\* The links of the contexts of the calls are the write stack of the thread,
\* but for a call that has returned, whose context is on the read stack.
Placed(t) ==
  /\ wt_context[t] = Base(t, IF Returned(t) THEN Len(frames[t]) - 1 ELSE Len(frames[t]))
  /\ rd_context[t] = IF Returned(t) THEN Base(t, Len(frames[t])) ELSE own[t]
  /\ \A i \in Slots(t) :
       stacked[frames[t][i].ctx] = IF i = Len(frames[t]) /\ Returned(t) THEN own[t] ELSE Base(t, i - 1)

\* The context a thread was made with is that of a call that waits for it.
Waited(t) ==
  own[t] = Nil \/ \E u \in Live : u # t /\ Calling(u) /\ own[t] = frames[u][Len(frames[u])].ctx

Distinct ==
  \A t, u \in Threads : \A i \in Slots(t), j \in Slots(u) :
    frames[t][i].ctx = frames[u][j].ctx => t = u /\ i = j

Pool(s) == Range(live_contexts[s]) \cup Range(free_contexts[s])

Lists ==
  /\ \A s \in Scopes :
       /\ IsInjective(live_contexts[s]) /\ IsInjective(free_contexts[s])
       /\ Range(live_contexts[s]) \cap Range(free_contexts[s]) = {}
       /\ Pool(s) \subseteq made
  /\ \A s, r \in Scopes : s # r => Pool(s) \cap Pool(r) = {}

\* A context is in a list of live contexts just when a call has it, or a
\* call that was disabled had it.
Books == \A x \in Contexts : /\ InList(x) <=> (InCall(x) \/ x \in leaked)
                             /\ ~(InCall(x) /\ x \in leaked)

Home == \A t \in Threads : \A i \in Slots(t) :
          frames[t][i].ctx \in Range(live_contexts[frames[t][i].scope])

ContextInv ==
  /\ ContextTypes /\ Made /\ (\A t \in Live : Placed(t) /\ Waited(t))
  /\ Distinct /\ Lists /\ Books /\ Home

LEMMA ContextInit == Init => ContextInv
<1> SUFFICES ASSUME Init PROVE ContextInv
  OBVIOUS
<1>1. /\ alive = {root} /\ parent = [t \in Threads |-> Nil]
      /\ ended = [t \in Threads |-> FALSE] /\ frames = [t \in Threads |-> << >>]
      /\ wt_context = [t \in Threads |-> Nil] /\ rd_context = [t \in Threads |-> Nil]
      /\ stacked = [c \in Contexts |-> Nil] /\ made = {}
      /\ live_contexts = [s \in Scopes |-> << >>] /\ free_contexts = [s \in Scopes |-> << >>]
      /\ own = [t \in Threads |-> Nil] /\ leaked = {}
  BY DEF Init
<1>2. Range(<< >>) = {} /\ IsInjective(<< >>)
  BY DEF Range, IsInjective
<1>3. Live = {root} /\ \A t \in Threads : Slots(t) = {} /\ ~Returned(t) /\ frames[t] = << >>
  BY <1>1, ThreadsAssumption DEF Live, Slots, Returned
<1>4. ContextTypes
  BY <1>1 DEF ContextTypes, OrNil
<1>5. Made
  BY <1>1, <1>3, ThreadsAssumption DEF Made
<1>6. \A t \in Live : Placed(t) /\ Waited(t)
  BY <1>1, <1>3, ThreadsAssumption DEF Placed, Waited, Base
<1>7. Distinct /\ Home
  BY <1>3 DEF Distinct, Home
<1>8. Lists
  BY <1>1, <1>2 DEF Lists, Pool
<1>9. Books
  BY <1>1, <1>2, <1>3 DEF Books, InList, InCall
<1>10. QED
  BY <1>4, <1>5, <1>6, <1>7, <1>8, <1>9 DEF ContextInv

\* A call in progress: the innermost has a frame, and every frame a context.
LEMMA SlotFacts ==
  ASSUME ThreadInv, NEW t \in Threads
  PROVE  /\ frames[t] \in Seq(FrameSet) /\ Len(frames[t]) \in Nat
         /\ frames[t] = << >> => Len(frames[t]) = 0 /\ Slots(t) = {}
         /\ frames[t] # << >> => Len(frames[t]) \in Slots(t) /\ Len(frames[t]) - 1 \in Nat
         /\ \A i \in Slots(t) : /\ frames[t][i].ctx \in Contexts /\ frames[t][i].ctx # Nil
                                /\ frames[t][i].scope \in Scopes /\ i \in Nat /\ i # 0
<1>1. frames[t] \in Seq(FrameSet)
  BY DEF ThreadInv, ThreadTypes
<1>2. \A i \in Slots(t) : frames[t][i].ctx \in Contexts /\ frames[t][i].scope \in Scopes
  BY <1>1, FrameType DEF Slots
<1>3. \A i \in Slots(t) : i \in Nat /\ i # 0
  BY <1>1 DEF Slots
<1>4. frames[t] # << >> => Len(frames[t]) \in Slots(t) /\ Len(frames[t]) - 1 \in Nat
  BY <1>1, LastFrame DEF Slots
<1>5. QED
  BY <1>1, <1>2, <1>3, <1>4, ThreadsAssumption DEF Slots

\* No call of a thread has the context of its body.
LEMMA OwnOther ==
  ASSUME ThreadInv, ContextInv, NEW t \in Live, NEW i \in Slots(t)
  PROVE  frames[t][i].ctx # own[t]
<1>1. Live \subseteq Threads
  BY DEF ThreadInv, ThreadTypes, Live
<1>2. frames[t][i].ctx # Nil
  BY <1>1, SlotFacts
<1>3. CASE own[t] = Nil
  BY <1>2, <1>3
<1>4. CASE own[t] # Nil
  <2>1. PICK u \in Live : u # t /\ Calling(u) /\ own[t] = frames[u][Len(frames[u])].ctx
    BY <1>4 DEF ContextInv, Waited
  <2>2. Len(frames[u]) \in Slots(u)
    BY <1>1, <2>1, SlotFacts DEF Calling
  <2>3. QED
    BY <1>1, <2>1, <2>2 DEF ContextInv, Distinct
<1>5. QED
  BY <1>3, <1>4

\* A thread that the step leaves where it is.
LEMMA PlacedSame ==
  ASSUME NEW u \in Threads, Placed(u), Len(frames[u]) \in Nat,
         wt_context'[u] = wt_context[u], rd_context'[u] = rd_context[u], own'[u] = own[u],
         Len(frames'[u]) = Len(frames[u]), Returned(u)' <=> Returned(u),
         Returned(u) => Len(frames[u]) - 1 \in Nat,
         \A i \in Slots(u) : /\ frames'[u][i].ctx = frames[u][i].ctx
                             /\ stacked'[frames[u][i].ctx] = stacked[frames[u][i].ctx]
  PROVE  Placed(u)'
<1> DEFINE n == Len(frames[u])
<1>1. Slots(u)' = Slots(u)
  BY DEF Slots
<1>2. \A i : i = 0 \/ i \in Slots(u) => Base(u, i)' = Base(u, i)
  BY DEF Base
<1>3. \A i \in Slots(u) : i - 1 = 0 \/ i - 1 \in Slots(u)
  BY DEF Slots
<1>4. n = 0 \/ n \in Slots(u)
  BY DEF Slots
<1>5. ASSUME Returned(u) PROVE n - 1 = 0 \/ n - 1 \in Slots(u)
  <2>1. n \in Nat /\ n - 1 \in Nat /\ Slots(u) = 1..n
    BY <1>5 DEF Slots
  <2> HIDE DEF n
  <2>2. QED
    BY <2>1
<1>6. wt_context'[u] = Base(u, IF Returned(u) THEN n - 1 ELSE n)'
  <2>1. wt_context'[u] = Base(u, IF Returned(u) THEN n - 1 ELSE n)
    BY DEF Placed
  <2>2. CASE Returned(u)
    <3>1. wt_context'[u] = Base(u, n - 1) /\ Base(u, n - 1)' = Base(u, n - 1)
      BY <1>2, <1>5, <2>1, <2>2
    <3>2. QED
      BY <2>2, <3>1
  <2>3. CASE ~Returned(u)
    <3>1. wt_context'[u] = Base(u, n) /\ Base(u, n)' = Base(u, n)
      BY <1>2, <1>4, <2>1, <2>3
    <3>2. QED
      BY <2>3, <3>1
  <2>4. QED
    BY <2>2, <2>3
<1>7. rd_context'[u] = IF Returned(u)' THEN Base(u, n)' ELSE own'[u]
  BY <1>2, <1>4 DEF Placed
<1>8. ASSUME NEW i \in Slots(u)
      PROVE  stacked'[frames'[u][i].ctx] = IF i = n /\ Returned(u)' THEN own'[u] ELSE Base(u, i - 1)'
  BY <1>2, <1>3 DEF Placed
<1>9. QED
  BY <1>1, <1>6, <1>7, <1>8 DEF Placed

\* The calls keep their contexts, however far they are.
SameCalls ==
  \A u \in Threads :
    /\ Len(frames'[u]) = Len(frames[u])
    /\ \A i \in Slots(u) : frames'[u][i].ctx = frames[u][i].ctx /\ frames'[u][i].scope = frames[u][i].scope

LEMMA PoolsSame ==
  ASSUME ContextInv, SameCalls, UNCHANGED <<pools, leaked>>
  PROVE  Distinct' /\ Lists' /\ Books' /\ Home'
<1>1. UNCHANGED <<live_contexts, free_contexts, made, leaked>>
  BY DEF pools
<1>2. \A u \in Threads : Slots(u)' = Slots(u)
  BY DEF SameCalls, Slots
<1>3. Distinct'
  BY <1>2 DEF ContextInv, Distinct, SameCalls
<1>4. Lists'
  BY <1>1 DEF ContextInv, Lists, Pool
<1>5. \A x : (InCall(x)' <=> InCall(x)) /\ (InList(x)' <=> InList(x))
  BY <1>1, <1>2 DEF InCall, InList, SameCalls
<1>6. Books'
  BY <1>1, <1>5 DEF ContextInv, Books
<1>7. Home'
  BY <1>1, <1>2 DEF ContextInv, Home, SameCalls
<1>8. QED
  BY <1>3, <1>4, <1>6, <1>7

LEMMA Quiet ==
  ASSUME ThreadInv, ContextInv, Live' = Live, \A c \in Live : parent'[c] = parent[c],
         UNCHANGED <<frames, wt_context, rd_context, stacked, pools, own, leaked>>
  PROVE  ContextInv'
<1>1. Live \subseteq Threads
  BY DEF ThreadInv, ThreadTypes, Live
<1>2. UNCHANGED <<live_contexts, free_contexts, made>>
  BY DEF pools
<1>3. \A u : /\ Calling(u)' <=> Calling(u)
             /\ Returned(u)' <=> Returned(u)
             /\ Slots(u)' = Slots(u) /\ Given(u)' = Given(u)
  BY DEF Calling, Returned, Slots, Given, Innermost
<1>4. Distinct' /\ Lists' /\ Books' /\ Home'
  BY PoolsSame DEF SameCalls
<1>5. ContextTypes'
  BY <1>2 DEF ContextInv, ContextTypes
<1>6. Made'
  BY <1>3 DEF ContextInv, Made
<1>7. ASSUME NEW u \in Live PROVE Placed(u)' /\ Waited(u)'
  <2>1. Placed(u)'
    BY <1>3 DEF ContextInv, Placed, Base
  <2>2. Waited(u)'
    BY <1>3 DEF ContextInv, Waited
  <2>3. QED
    BY <2>1, <2>2
<1>8. QED
  BY <1>4, <1>5, <1>6, <1>7 DEF ContextInv

\* A thread without calls in progress has one context: nothing tells its
\* children from the thread of a task, and do_join moves nothing.
LEMMA NoMove ==
  ASSUME ThreadInv, ContextInv, NEW t \in Live, frames[t] = << >>, NEW c, MoveContext(t, c)
  PROVE  UNCHANGED <<wt_context, rd_context, stacked>>
<1>1. ~Returned(t) /\ Len(frames[t]) = 0
  BY DEF Returned
<1>2. wt_context[t] = own[t] /\ rd_context[t] = own[t]
  BY <1>1 DEF ContextInv, Placed, Base
<1>3. QED
  BY <1>2 DEF MoveContext, IsTopLevel

LEMMA JoinWaitsContexts ==
  ASSUME ThreadInv, ContextInv, NEW t \in Threads, JoinWaits(t)
  PROVE  ContextInv'
<1>1. Live' = Live
  BY JoinWaitsThreads
<1>2. QED
  BY <1>1, Quiet DEF JoinWaits

LEMMA JoinZombieContexts ==
  ASSUME ThreadInv, ContextInv, NEW t \in Threads, NEW c, JoinZombie(t, c)
  PROVE  ContextInv'
<1>1. Live' = Live /\ frames' = frames
  BY JoinZombieThreads
<1>2. t \in Live /\ joins[t] # 0 /\ ended[c] /\ joins[t] \in {0, 1, 2}
  BY DEF JoinZombie, Running, Live, ThreadInv, ThreadTypes
<1>3. frames[t] = << >>
  BY <1>2 DEF ThreadInv, Shape
<1>4. UNCHANGED <<wt_context, rd_context, stacked, pools, own, leaked>>
  BY <1>2, <1>3, NoMove DEF JoinZombie
<1>5. \A d \in Live : parent'[d] = parent[d]
  BY <1>2 DEF JoinZombie, Reap, Live, ThreadInv, ThreadTypes
<1>6. QED
  BY <1>1, <1>4, <1>5, Quiet

LEMMA ContextStutter == ASSUME ThreadInv, ContextInv, UNCHANGED vars PROVE ContextInv'
<1>1. Live' = Live
  BY DEF vars, threads, Live
<1>2. QED
  BY <1>1, Quiet DEF vars, threads

-----------------------------------------------------------------------------
(***************************************************************************)
(* %fork.                                                                  *)
(***************************************************************************)

\* New threads with the write context of a thread that has no children.
LEMMA ForkContexts ==
  ASSUME ThreadInv, ThreadInv', ContextInv, NEW t \in Live, NEW kids \in SUBSET (Threads \ alive),
         Fork(t, kids), Live' = Live \cup kids, children(t) = {}, SameCalls,
         \A u \in Threads : u # t => frames'[u] = frames[u],
         ~Returned(t), ~Returned(t)', ~Calling(t), Given(t)' = wt_context[t],
         UNCHANGED <<stacked, pools, leaked>>
  PROVE  ContextInv'
<1>1. /\ Live \subseteq Threads /\ Live \subseteq alive /\ t \in Threads /\ root \in Live
      /\ \A c \in alive \ {root} : parent[c] \in Live
  BY DEF ThreadInv, ThreadTypes, Live, Kin
<1>2. /\ wt_context' = [c \in Threads |-> IF c \in kids THEN wt_context[t] ELSE wt_context[c]]
      /\ rd_context' = [c \in Threads |-> IF c \in kids THEN wt_context[t] ELSE rd_context[c]]
      /\ own' = [c \in Threads |-> IF c \in kids THEN wt_context[t] ELSE own[c]]
      /\ parent' = [c \in Threads |-> IF c \in kids THEN t ELSE parent[c]]
      /\ UNCHANGED <<live_contexts, free_contexts, made>>
  BY DEF Fork, pools
<1>3. \A u \in Live : wt_context'[u] = wt_context[u] /\ rd_context'[u] = rd_context[u]
                      /\ own'[u] = own[u] /\ parent'[u] = parent[u]
  BY <1>1, <1>2
<1>4. \A u \in Threads : u # t => (Calling(u)' <=> Calling(u)) /\ (Returned(u)' <=> Returned(u))
  BY DEF Calling, Returned, Innermost
<1>5. \A c \in kids : frames[c] = << >> /\ frames'[c] = << >> /\ c # t /\ c # root /\ c \in Threads
  BY <1>1 DEF ThreadInv, Idle, Live
<1>6. Distinct' /\ Lists' /\ Books' /\ Home'
  BY PoolsSame
<1>7. ContextTypes'
  <2>1. wt_context[t] \in OrNil(Contexts)
    BY <1>1 DEF ContextInv, ContextTypes
  <2>2. QED
    BY <1>2, <2>1 DEF ContextInv, ContextTypes
<1>8. Made'
  <2>1. own'[root] = Nil
    BY <1>1, <1>3 DEF ContextInv, Made
  <2>2. ASSUME NEW c \in Live \ {root} PROVE (own[c] = Given(parent[c]))'
    <3>1. own'[c] = Given(parent[c]) /\ parent'[c] = parent[c] /\ parent[c] \in Live /\ parent[c] # t
      BY <1>1, <1>3 DEF ContextInv, Made, children
    <3>2. frames'[parent[c]] = frames[parent[c]] /\ own'[parent[c]] = own[parent[c]]
      BY <1>1, <1>3, <3>1
    <3>3. PICK q : q = parent[c]
      OBVIOUS
    <3>4. Given(q)' = Given(q)
      BY <3>2, <3>3 DEF Given, Calling, Innermost
    <3>5. QED
      BY <3>1, <3>3, <3>4
  <2>3. ASSUME NEW c \in kids PROVE (own[c] = Given(parent[c]))'
    <3>1. parent'[c] = t /\ own'[c] = wt_context[t]
      BY <1>2, <1>5
    <3>2. QED
      BY <3>1
  <2>4. QED
    BY <2>1, <2>2, <2>3 DEF Made
<1>9. ASSUME NEW u \in Live PROVE Placed(u)' /\ Waited(u)'
  <2>1. Placed(u)'
    <3>1. Returned(u)' <=> Returned(u)
      BY <1>1, <1>4
    <3>2. Returned(u) => Len(frames[u]) - 1 \in Nat
      BY <1>1, SlotFacts DEF Returned
    <3>3. Placed(u) /\ Len(frames[u]) \in Nat
      BY <1>1, SlotFacts DEF ContextInv
    <3>4. QED
      BY <1>1, <1>3, <3>1, <3>2, <3>3, PlacedSame DEF SameCalls
  <2>2. Waited(u)'
    <3>1. CASE own[u] = Nil
      BY <1>3, <3>1 DEF Waited
    <3>2. CASE own[u] # Nil
      <4>1. PICK v \in Live : v # u /\ Calling(v) /\ own[u] = frames[v][Len(frames[v])].ctx
        BY <3>2 DEF ContextInv, Waited
      <4>2. v # t /\ frames'[v] = frames[v] /\ Calling(v)' /\ v \in Live'
        BY <1>1, <1>4, <4>1
      <4>3. QED
        BY <1>3, <4>1, <4>2 DEF Waited
    <3>3. QED
      BY <3>1, <3>2
  <2>3. QED
    BY <2>1, <2>2
<1>10. ASSUME NEW c \in kids PROVE Placed(c)' /\ Waited(c)'
  <2>1. frames'[c] = << >> /\ c \in Threads /\ c # t /\ c \notin Live
    BY <1>1, <1>5
  <2>2. own'[c] = wt_context[t] /\ wt_context'[c] = own'[c] /\ rd_context'[c] = own'[c]
    BY <1>2, <2>1
  <2>3. ~Returned(c)' /\ Len(frames'[c]) = 0 /\ Slots(c)' = {}
    BY <2>1 DEF Returned, Slots
  <2>4. Placed(c)'
    BY <2>2, <2>3 DEF Placed, Base
  <2>5. CASE Calling(t)'
    <3>1. own'[c] = frames'[t][Len(frames'[t])].ctx
      BY <2>2, <2>5 DEF Given, Innermost
    <3>2. QED
      BY <2>1, <2>4, <2>5, <3>1 DEF Waited
  <2>6. CASE ~Calling(t)'
    <3>1. own'[c] = own'[t]
      BY <2>2, <2>6 DEF Given
    <3>2. own'[t] = Nil \/ \E v \in Live' : v # t /\ Calling(v)' /\ own'[t] = frames'[v][Len(frames'[v])].ctx
      BY <1>9 DEF Waited
    <3>3. \A v : Calling(v)' => v # c
      BY <2>1 DEF Calling
    <3>4. QED
      BY <2>4, <3>1, <3>2, <3>3 DEF Waited
  <2>7. QED
    BY <2>5, <2>6
<1>11. QED
  BY <1>6, <1>7, <1>8, <1>9, <1>10 DEF ContextInv

LEMMA CallContexts ==
  ASSUME ThreadInv, ContextInv, NEW t \in Threads, call(t)
  PROVE  ContextInv'
<1>1. ThreadInv' /\ frames' = [frames EXCEPT ![t] = Staged(frames[t], "called")]
  BY CallThreads
<1>2. PICK c \in Threads \ alive : Fork(t, {c}) /\ Live' = Live \cup {c}
  BY CallThreads
<1>3. /\ t \in Live /\ children(t) = {} /\ ~Calling(t) /\ ~Returned(t) /\ frames[t] # << >>
      /\ frames[t] \in Seq(FrameSet) /\ UNCHANGED <<stacked, pools, leaked>>
  BY Unoccupied DEF call, InArgs
<1>4. frames'[t] = Staged(frames[t], "called") /\ \A u \in Threads : u # t => frames'[u] = frames[u]
  BY <1>1 DEF ThreadInv, ThreadTypes
<1>5. /\ Len(frames'[t]) = Len(frames[t]) /\ frames'[t] # << >>
      /\ frames'[t][Len(frames'[t])].stage = "called"
      /\ \A i \in Slots(t) : frames'[t][i].ctx = frames[t][i].ctx /\ frames'[t][i].scope = frames[t][i].scope
  <2>1. PICK fs : fs = frames[t]
    OBVIOUS
  <2>2. LET r == Staged(fs, "called") IN
        /\ Len(r) = Len(fs) /\ r # << >> /\ r[Len(r)].stage = "called"
        /\ \A i \in 1..Len(fs) : r[i].ctx = fs[i].ctx /\ r[i].scope = fs[i].scope
    <3>1. fs \in Seq(FrameSet) /\ fs # << >> /\ "called" \in Stages
      BY <1>3, <2>1 DEF Stages
    <3>2. QED
      BY <3>1, StagedFrames
  <2>3. QED
    BY <1>4, <2>1, <2>2 DEF Slots
<1>6. SameCalls
  BY <1>4, <1>5 DEF SameCalls, Slots
<1>7. Calling(t)' /\ ~Returned(t)'
  BY <1>5 DEF Calling, Returned, Innermost
<1>8. Given(t)' = wt_context[t]
  <2>1. wt_context[t] = frames[t][Len(frames[t])].ctx
    BY <1>3, SlotFacts DEF ContextInv, Placed, Base
  <2>2. Len(frames[t]) \in Slots(t)
    BY <1>3, SlotFacts
  <2>3. QED
    BY <1>5, <1>7, <2>1, <2>2 DEF Given, Innermost
<1>9. {c} \in SUBSET (Threads \ alive)
  OBVIOUS
<1>10. QED
  BY <1>1, <1>2, <1>3, <1>4, <1>6, <1>7, <1>8, <1>9, ForkContexts

LEMMA ForkBlockContexts ==
  ASSUME ThreadInv, ContextInv, NEW t \in Threads, NEW n \in {1, 2}, fork(t, n)
  PROVE  ContextInv'
<1>1. ThreadInv'
  BY ForkThreads
<1>2. PICK kids \in SUBSET (Threads \ alive) : Fork(t, kids) /\ Live' = Live \cup kids
  BY ForkThreads
<1>3. /\ t \in Live /\ children(t) = {} /\ ~Calling(t) /\ ~Returned(t) /\ frames[t] = << >>
      /\ UNCHANGED <<frames, stacked, pools, leaked>>
  BY Unoccupied DEF fork, InBody
<1>4. SameCalls /\ ~Returned(t)' /\ ~Calling(t)'
  BY <1>3 DEF SameCalls, Returned, Calling
<1>5. wt_context[t] = own[t]
  BY <1>3 DEF ContextInv, Placed, Base
<1>6. own'[t] = own[t]
  <2>1. t \notin kids
    BY <1>3 DEF Live
  <2>2. QED
    BY <1>2, <2>1 DEF Fork
<1>7. Given(t)' = wt_context[t]
  BY <1>4, <1>5, <1>6 DEF Given
<1>8. QED
  BY <1>1, <1>2, <1>3, <1>4, <1>7, ForkContexts

-----------------------------------------------------------------------------
(***************************************************************************)
(* %alloc and %free.                                                       *)
(***************************************************************************)

\* A context is taken that no list of live contexts has.
LEMMA TakeContext ==
  ASSUME ContextTypes, Lists, NEW s \in Scopes, NEW c \in Contexts, vthread_alloc_context(s, c)
  PROVE  /\ live_contexts' \in [Scopes -> Seq(Contexts)] /\ free_contexts' \in [Scopes -> Seq(Contexts)]
         /\ Lists' /\ ~InList(c) /\ c \in Range(live_contexts'[s])
         /\ \A x : InList(x)' <=> InList(x) \/ x = c
         /\ \A r \in Scopes : Range(live_contexts[r]) \subseteq Range(live_contexts'[r])
<1>1. /\ live_contexts \in [Scopes -> Seq(Contexts)] /\ free_contexts \in [Scopes -> Seq(Contexts)]
      /\ live_contexts[s] \in Seq(Contexts) /\ free_contexts[s] \in Seq(Contexts)
  BY DEF ContextTypes
<1>2. /\ IsInjective(live_contexts[s]) /\ IsInjective(free_contexts[s])
      /\ Range(live_contexts[s]) \cap Range(free_contexts[s]) = {}
      /\ Pool(s) \subseteq made
  BY DEF Lists
<1>3. /\ c \notin Range(live_contexts[s]) /\ \A r \in Scopes : r # s => c \notin Pool(r)
      /\ made' = made \cup {c} /\ free_contexts' \in [Scopes -> Seq(Contexts)]
      /\ IsInjective(free_contexts'[s]) /\ Range(free_contexts'[s]) = Range(free_contexts[s]) \ {c}
      /\ \A r \in Scopes : r # s => free_contexts'[r] = free_contexts[r]
  <2>1. CASE free_contexts[s] # << >>
    <3>1. /\ c = free_contexts[s][1] /\ made' = made
          /\ free_contexts' = [free_contexts EXCEPT ![s] = Tail(free_contexts[s])]
      BY <2>1 DEF vthread_alloc_context
    <3>2. /\ c \in Range(free_contexts[s]) /\ Tail(free_contexts[s]) \in Seq(Contexts)
          /\ IsInjective(Tail(free_contexts[s]))
          /\ Range(Tail(free_contexts[s])) = Range(free_contexts[s]) \ {c}
      BY <1>1, <1>2, <2>1, <3>1, ListPop
    <3>3. c \in Pool(s)
      BY <3>2 DEF Pool
    <3>4. c \notin Range(live_contexts[s]) /\ made' = made \cup {c}
      BY <1>2, <3>1, <3>2, <3>3
    <3>5. \A r \in Scopes : r # s => c \notin Pool(r)
      BY <3>3 DEF Lists
    <3>6. free_contexts'[s] = Tail(free_contexts[s])
      BY <1>1, <3>1
    <3>7. free_contexts' \in [Scopes -> Seq(Contexts)]
      BY <1>1, <3>1, <3>2
    <3>8. QED
      BY <1>1, <3>1, <3>2, <3>4, <3>5, <3>6, <3>7
  <2>2. CASE free_contexts[s] = << >>
    <3>1. c \notin made /\ made' = made \cup {c} /\ free_contexts' = free_contexts
      BY <2>2 DEF vthread_alloc_context
    <3>2. \A r \in Scopes : c \notin Pool(r)
      BY <3>1 DEF Lists
    <3>3. c \notin Range(live_contexts[s]) /\ c \notin Range(free_contexts[s])
      BY <3>2 DEF Pool
    <3>4. QED
      BY <1>1, <1>2, <3>1, <3>2, <3>3
  <2>3. QED
    BY <2>1, <2>2
<1>4. /\ <<c>> \o live_contexts[s] \in Seq(Contexts) /\ IsInjective(<<c>> \o live_contexts[s])
      /\ Range(<<c>> \o live_contexts[s]) = Range(live_contexts[s]) \cup {c}
  BY <1>1, <1>2, <1>3, ListPush
<1>5. live_contexts' = [live_contexts EXCEPT ![s] = <<c>> \o live_contexts[s]]
  BY DEF vthread_alloc_context
<1>6. /\ live_contexts' \in [Scopes -> Seq(Contexts)] /\ IsInjective(live_contexts'[s])
      /\ Range(live_contexts'[s]) = Range(live_contexts[s]) \cup {c}
      /\ \A r \in Scopes : r # s => live_contexts'[r] = live_contexts[r]
  BY <1>1, <1>4, <1>5
<1>7. /\ \A r \in Scopes : r # s => Pool(r)' = Pool(r)
      /\ Pool(s)' = Pool(s) \cup {c}
  BY <1>3, <1>6 DEF Pool
<1>8. Lists'
  <2>1. ASSUME NEW r \in Scopes
        PROVE  /\ IsInjective(live_contexts'[r]) /\ IsInjective(free_contexts'[r])
               /\ Range(live_contexts'[r]) \cap Range(free_contexts'[r]) = {}
               /\ Pool(r)' \subseteq made'
    <3>1. CASE r = s
      BY <1>2, <1>3, <1>6, <1>7, <3>1
    <3>2. CASE r # s
      <4>1. live_contexts'[r] = live_contexts[r] /\ free_contexts'[r] = free_contexts[r] /\ Pool(r)' = Pool(r)
        BY <1>3, <1>6, <1>7, <3>2
      <4>2. /\ IsInjective(live_contexts[r]) /\ IsInjective(free_contexts[r])
            /\ Range(live_contexts[r]) \cap Range(free_contexts[r]) = {}
            /\ Pool(r) \subseteq made
        BY DEF Lists
      <4>3. QED
        BY <1>3, <4>1, <4>2
    <3>3. QED
      BY <3>1, <3>2
  <2>2. ASSUME NEW q \in Scopes, NEW r \in Scopes, q # r PROVE Pool(q)' \cap Pool(r)' = {}
    <3>1. Pool(q) \cap Pool(r) = {}
      BY <2>2 DEF Lists
    <3>2. QED
      BY <1>3, <1>7, <2>2, <3>1
  <2>3. QED
    BY <2>1, <2>2 DEF Lists
<1>9. ~InList(c)
  BY <1>3 DEF InList, Pool
<1>10. \A x : InList(x)' <=> InList(x) \/ x = c
  BY <1>6 DEF InList
<1>11. \A r \in Scopes : Range(live_contexts[r]) \subseteq Range(live_contexts'[r])
  BY <1>6
<1>12. QED
  BY <1>3, <1>6, <1>8, <1>9, <1>10, <1>11

\* A context is given back.
LEMMA GiveContext ==
  ASSUME ContextTypes, Lists, NEW s \in Scopes, NEW c \in Range(live_contexts[s]),
         vthread_free_context(c, s)
  PROVE  /\ live_contexts' \in [Scopes -> Seq(Contexts)] /\ free_contexts' \in [Scopes -> Seq(Contexts)]
         /\ Lists'
         /\ \A x : InList(x)' <=> InList(x) /\ x # c
         /\ \A r \in Scopes : \A x \in Range(live_contexts[r]) : x # c => x \in Range(live_contexts'[r])
<1>1. /\ live_contexts \in [Scopes -> Seq(Contexts)] /\ free_contexts \in [Scopes -> Seq(Contexts)]
      /\ live_contexts[s] \in Seq(Contexts) /\ free_contexts[s] \in Seq(Contexts)
  BY DEF ContextTypes
<1>2. /\ IsInjective(live_contexts[s]) /\ IsInjective(free_contexts[s])
      /\ Range(live_contexts[s]) \cap Range(free_contexts[s]) = {}
      /\ Pool(s) \subseteq made /\ c \in Pool(s)
  BY DEF Lists, Pool
<1>3. c \in Contexts /\ c \notin Range(free_contexts[s]) /\ \A r \in Scopes : r # s => c \notin Pool(r)
  <2>1. c \in Contexts
    BY <1>1, RangeIn
  <2>2. QED
    BY <1>2, <2>1 DEF Lists
<1>4. /\ live_contexts' = [live_contexts EXCEPT ![s] = RemoveFirst(live_contexts[s], c)]
      /\ free_contexts' = [free_contexts EXCEPT ![s] = <<c>> \o free_contexts[s]]
      /\ made' = made
  BY DEF vthread_free_context
<1>5. /\ RemoveFirst(live_contexts[s], c) \in Seq(Contexts)
      /\ IsInjective(RemoveFirst(live_contexts[s], c))
      /\ Range(RemoveFirst(live_contexts[s], c)) = Range(live_contexts[s]) \ {c}
  BY <1>1, <1>2, ListRemove
<1>6. /\ <<c>> \o free_contexts[s] \in Seq(Contexts) /\ IsInjective(<<c>> \o free_contexts[s])
      /\ Range(<<c>> \o free_contexts[s]) = Range(free_contexts[s]) \cup {c}
  BY <1>1, <1>2, <1>3, ListPush
<1>7. /\ live_contexts' \in [Scopes -> Seq(Contexts)] /\ IsInjective(live_contexts'[s])
      /\ Range(live_contexts'[s]) = Range(live_contexts[s]) \ {c}
      /\ \A r \in Scopes : r # s => live_contexts'[r] = live_contexts[r]
  BY <1>1, <1>4, <1>5
<1>8. /\ free_contexts' \in [Scopes -> Seq(Contexts)] /\ IsInjective(free_contexts'[s])
      /\ Range(free_contexts'[s]) = Range(free_contexts[s]) \cup {c}
      /\ \A r \in Scopes : r # s => free_contexts'[r] = free_contexts[r]
  BY <1>1, <1>4, <1>6
<1>9. \A r \in Scopes : Pool(r)' = Pool(r)
  BY <1>2, <1>7, <1>8 DEF Pool
<1>10. Lists'
  <2>1. ASSUME NEW r \in Scopes
        PROVE  /\ IsInjective(live_contexts'[r]) /\ IsInjective(free_contexts'[r])
               /\ Range(live_contexts'[r]) \cap Range(free_contexts'[r]) = {}
               /\ Pool(r)' \subseteq made'
    <3>1. CASE r = s
      BY <1>2, <1>4, <1>7, <1>8, <1>9, <3>1
    <3>2. CASE r # s
      BY <1>4, <1>7, <1>8, <1>9, <3>2 DEF Lists
    <3>3. QED
      BY <3>1, <3>2
  <2>2. QED
    BY <1>9, <2>1 DEF Lists
<1>11. \A r \in Scopes : r # s => c \notin Range(live_contexts[r])
  BY <1>3 DEF Pool
<1>12. \A x : InList(x)' <=> InList(x) /\ x # c
  BY <1>7, <1>11 DEF InList
<1>13. \A r \in Scopes : \A x \in Range(live_contexts[r]) : x # c => x \in Range(live_contexts'[r])
  BY <1>7
<1>14. QED
  BY <1>7, <1>8, <1>10, <1>12, <1>13

LEMMA AllocContexts ==
  ASSUME ThreadInv, ContextInv, NEW t \in Threads, NEW s \in Scopes, alloc(t, s)
  PROVE  ContextInv'
<1>1. PICK c \in Contexts :
        /\ vthread_alloc_context(s, c)
        /\ stacked' = [stacked EXCEPT ![c] = wt_context[t]]
        /\ wt_context' = [wt_context EXCEPT ![t] = c]
        /\ frames' = [frames EXCEPT ![t] = Append(@, Frame(s, c))]
  BY DEF alloc
<1>2. /\ t \in Live /\ ~Calling(t) /\ ~Returned(t) /\ frames[t] \in Seq(FrameSet)
      /\ UNCHANGED <<alive, parent, ended, rd_context, own, leaked>>
  BY Unoccupied DEF alloc, threads
<1>3. /\ ContextTypes /\ Lists /\ Distinct /\ Books /\ Home /\ Placed(t)
      /\ frames \in [Threads -> Seq(FrameSet)]
  BY <1>2 DEF ContextInv, ThreadInv, ThreadTypes
<1>4. Live' = Live /\ Live \subseteq Threads
  BY <1>2 DEF Live, ThreadInv, ThreadTypes
<1> PICK n : n = Len(frames[t])
  OBVIOUS
<1>5. n \in Nat /\ Slots(t) = 1..n
  BY <1>2 DEF Slots
<1>6. /\ Len(frames'[t]) = n + 1 /\ frames'[t][n + 1] = Frame(s, c)
      /\ \A i \in 1..n : frames'[t][i] = frames[t][i]
      /\ \A u \in Threads : u # t => frames'[u] = frames[u]
  BY <1>1, <1>2, <1>3, AppendProperties
<1>7. Frame(s, c).ctx = c /\ Frame(s, c).scope = s /\ Frame(s, c).stage = "args"
  BY DEF Frame
<1>8. /\ live_contexts' \in [Scopes -> Seq(Contexts)] /\ free_contexts' \in [Scopes -> Seq(Contexts)]
      /\ Lists' /\ ~InList(c) /\ c \in Range(live_contexts'[s])
      /\ \A x : InList(x)' <=> InList(x) \/ x = c
      /\ \A r \in Scopes : Range(live_contexts[r]) \subseteq Range(live_contexts'[r])
  BY <1>1, <1>3, TakeContext
<1>9. ~InCall(c) /\ c \notin leaked
  BY <1>3, <1>8 DEF Books
<1>10. /\ Slots(t)' = 1..n + 1 /\ \A i \in 1..n + 1 : i = n + 1 \/ i \in 1..n
       /\ \A i \in 1..n : i \in 1..n + 1 /\ i # n + 1
       /\ n + 1 \in 1..n + 1 /\ (n + 1) - 1 = n
  BY <1>5, <1>6 DEF Slots
<1>11. \A u \in Threads : u # t => Slots(u)' = Slots(u)
  BY <1>6 DEF Slots
<1>12. \A u \in Threads : /\ Calling(u)' <=> Calling(u)
                          /\ Returned(u)' <=> Returned(u)
  <2>1. frames'[t][Len(frames'[t])].stage = "args"
    BY <1>6, <1>7
  <2>2. ~Calling(t)' /\ ~Returned(t)'
    BY <2>1 DEF Calling, Returned, Innermost
  <2>3. QED
    BY <1>2, <1>6, <2>2 DEF Calling, Returned, Innermost
<1>13. \A u \in Threads : \A i \in Slots(u) :
         /\ i \in Slots(u)' /\ frames'[u][i] = frames[u][i] /\ frames[u][i].ctx # c
         /\ stacked'[frames[u][i].ctx] = stacked[frames[u][i].ctx]
  <2>1. \A u \in Threads : \A i \in Slots(u) : frames[u][i].ctx # c
    BY <1>9 DEF InCall
  <2>2. \A u \in Threads : \A i \in Slots(u) : i \in Slots(u)' /\ frames'[u][i] = frames[u][i]
    BY <1>5, <1>6, <1>10, <1>11
  <2>3. \A x \in Contexts : x # c => stacked'[x] = stacked[x]
    BY <1>1, <1>3 DEF ContextTypes
  <2>4. \A u \in Threads : \A i \in Slots(u) : frames[u][i].ctx \in Contexts
    BY SlotFacts
  <2>5. QED
    BY <2>1, <2>2, <2>3, <2>4
<1>14. \A u \in Threads : \A i \in Slots(u)' :
         \/ u = t /\ i = n + 1 /\ frames'[u][i] = Frame(s, c)
         \/ i \in Slots(u) /\ frames'[u][i] = frames[u][i]
  BY <1>5, <1>6, <1>10, <1>11
<1>15. Distinct'
  <2> SUFFICES ASSUME NEW u \in Threads, NEW v \in Threads, NEW i \in Slots(u)', NEW j \in Slots(v)',
                      frames'[u][i].ctx = frames'[v][j].ctx
               PROVE  u = v /\ i = j
    BY DEF Distinct
  <2>1. CASE i \in Slots(u) /\ j \in Slots(v)
    BY <1>3, <1>13, <2>1 DEF Distinct
  <2>2. CASE i \notin Slots(u) /\ j \notin Slots(v)
    BY <1>14, <2>2
  <2>3. CASE i \in Slots(u) /\ j \notin Slots(v)
    BY <1>7, <1>13, <1>14, <2>3
  <2>4. CASE i \notin Slots(u) /\ j \in Slots(v)
    BY <1>7, <1>13, <1>14, <2>4
  <2>5. QED
    BY <2>1, <2>2, <2>3, <2>4
<1>16. Books'
  <2>1. ASSUME NEW x PROVE InCall(x)' <=> InCall(x) \/ x = c
    <3>1. ASSUME InCall(x)' PROVE InCall(x) \/ x = c
      BY <1>7, <1>14, <3>1 DEF InCall
    <3>2. ASSUME InCall(x) PROVE InCall(x)'
      BY <1>13, <3>2 DEF InCall
    <3>3. InCall(c)'
      BY <1>6, <1>7, <1>10 DEF InCall
    <3>4. QED
      BY <3>1, <3>2, <3>3
  <2>2. QED
    BY <1>2, <1>3, <1>8, <1>9, <2>1 DEF Books
<1>17. Home'
  <2> SUFFICES ASSUME NEW u \in Threads, NEW i \in Slots(u)'
               PROVE  frames'[u][i].ctx \in Range(live_contexts'[frames'[u][i].scope])
    BY DEF Home
  <2>1. CASE frames'[u][i] = Frame(s, c)
    BY <1>7, <1>8, <2>1
  <2>2. CASE i \in Slots(u) /\ frames'[u][i] = frames[u][i]
    <3>1. frames[u][i].scope \in Scopes /\ frames[u][i].ctx \in Range(live_contexts[frames[u][i].scope])
      BY <1>3, <2>2, SlotFacts DEF Home
    <3>2. QED
      BY <1>8, <2>2, <3>1
  <2>3. QED
    BY <1>14, <2>1, <2>2
<1>18. ContextTypes'
  <2>1. wt_context[t] \in OrNil(Contexts) /\ c \in OrNil(Contexts)
    BY <1>3 DEF ContextTypes, OrNil
  <2>2. wt_context' \in [Threads -> OrNil(Contexts)] /\ stacked' \in [Contexts -> OrNil(Contexts)]
    BY <1>1, <1>3, <2>1 DEF ContextTypes
  <2>3. QED
    BY <1>2, <1>3, <1>8, <2>2 DEF ContextTypes
<1>19. Made'
  <2>1. \A q \in Threads : Given(q)' = Given(q)
    BY <1>2, <1>6, <1>12 DEF Given, Innermost
  <2>2. \A d \in Live \ {root} : parent[d] \in Threads
    BY <1>4 DEF ThreadInv, Kin, Live
  <2>3. QED
    BY <1>2, <1>4, <2>1, <2>2 DEF ContextInv, Made
<1>20. ASSUME NEW u \in Live PROVE Waited(u)'
  <2>1. CASE own[u] = Nil
    BY <1>2, <2>1 DEF Waited
  <2>2. CASE own[u] # Nil
    <3>1. PICK v \in Live : v # u /\ Calling(v) /\ own[u] = frames[v][Len(frames[v])].ctx
      BY <2>2 DEF ContextInv, Waited
    <3>2. v # t /\ frames'[v] = frames[v] /\ Calling(v)' /\ v \in Live'
      BY <1>2, <1>4, <1>6, <1>12, <3>1
    <3>3. QED
      BY <1>2, <3>1, <3>2 DEF Waited
  <2>3. QED
    BY <2>1, <2>2
<1>21. ASSUME NEW u \in Live, u # t PROVE Placed(u)'
  <2>1. u \in Threads /\ Placed(u) /\ Len(frames[u]) \in Nat /\ (Returned(u) => Len(frames[u]) - 1 \in Nat)
    BY <1>4, SlotFacts DEF ContextInv, Returned
  <2>2. wt_context'[u] = wt_context[u] /\ rd_context'[u] = rd_context[u] /\ own'[u] = own[u]
    BY <1>1, <1>2, <1>3, <1>21, <2>1 DEF ContextTypes
  <2>3. Len(frames'[u]) = Len(frames[u])
    BY <1>6, <1>21, <2>1
  <2>4. QED
    BY <1>12, <1>13, <2>1, <2>2, <2>3, PlacedSame
<1>22. Placed(t)'
  <2>1. wt_context'[t] = c /\ stacked'[c] = wt_context[t]
    BY <1>1, <1>3 DEF ContextTypes
  <2>2. wt_context[t] = Base(t, n) /\ rd_context[t] = own[t]
    BY <1>2, <1>3 DEF Placed
  <2>3. \A i : i = 0 \/ i \in 1..n => Base(t, i)' = Base(t, i)
    BY <1>2, <1>6 DEF Base
  <2>4. n + 1 # 0 /\ (n = 0 \/ n \in 1..n) /\ \A i \in 1..n : i - 1 = 0 \/ i - 1 \in 1..n
    BY <1>5
  <2>5. Base(t, n + 1)' = c
    BY <1>6, <1>7, <2>4 DEF Base
  <2>6. ~Returned(t)'
    BY <1>2, <1>12
  <2>7. wt_context'[t] = Base(t, Len(frames[t]))' /\ rd_context'[t] = own'[t]
    BY <1>2, <1>6, <2>1, <2>2, <2>5
  <2>8. ASSUME NEW i \in 1..n PROVE stacked'[frames'[t][i].ctx] = Base(t, i - 1)'
    <3>1. stacked[frames[t][i].ctx] = Base(t, i - 1)
      BY <1>2, <1>3, <1>5 DEF Placed
    <3>2. stacked'[frames'[t][i].ctx] = stacked[frames[t][i].ctx]
      BY <1>5, <1>13
    <3>3. QED
      BY <2>3, <2>4, <3>1, <3>2
  <2>9. stacked'[frames'[t][n + 1].ctx] = Base(t, n)'
    BY <1>6, <1>7, <2>1, <2>2, <2>3, <2>4
  <2>10. \A i \in Slots(t)' : stacked'[frames'[t][i].ctx] = Base(t, i - 1)'
    BY <1>10, <2>8, <2>9
  <2>11. QED
    BY <2>6, <2>7, <2>10 DEF Placed
<1>23. QED
  BY <1>4, <1>8, <1>15, <1>16, <1>17, <1>18, <1>19, <1>20, <1>21, <1>22 DEF ContextInv

\* Calls end, and those that are left keep their place and their contexts.
LEMMA FewerCalls ==
  ASSUME Distinct,
         \A u \in Threads : \A i \in Slots(u)' :
           i \in Slots(u) /\ frames'[u][i].ctx = frames[u][i].ctx
  PROVE  Distinct'
BY DEF Distinct

LEMMA FreeContexts ==
  ASSUME ThreadInv, ContextInv, NEW t \in Threads, free(t)
  PROVE  ContextInv'
<1> PICK n, c, s : n = Len(frames[t]) /\ c = rd_context[t] /\ s = Innermost(t).scope
  OBVIOUS
<1>1. /\ t \in Live /\ Returned(t) /\ ~Calling(t) /\ frames[t] # << >>
      /\ vthread_free_context(c, s) /\ rd_context' = [rd_context EXCEPT ![t] = stacked[c]]
      /\ frames' = [frames EXCEPT ![t] = Popped(frames[t])]
      /\ UNCHANGED <<alive, parent, ended, wt_context, stacked, own, leaked>>
  BY DEF free, Running, Live, Returned, Calling, Popped, threads
<1>2. /\ ContextTypes /\ Lists /\ Distinct /\ Books /\ Home /\ Placed(t)
      /\ frames \in [Threads -> Seq(FrameSet)] /\ Shape(t)
  BY <1>1 DEF ContextInv, ThreadInv, ThreadTypes
<1>3. Live' = Live /\ Live \subseteq Threads
  BY <1>1 DEF Live, ThreadInv, ThreadTypes
<1>4. n \in Nat /\ n - 1 \in Nat /\ Slots(t) = 1..n /\ n \in Slots(t)
  BY <1>1, SlotFacts DEF Slots
<1>5. c = frames[t][n].ctx /\ s = frames[t][n].scope /\ c \in Contexts /\ s \in Scopes
      /\ c \in Range(live_contexts[s])
  <2>1. c = frames[t][n].ctx
    BY <1>1, <1>2, <1>4 DEF Placed, Base
  <2>2. frames[t][n].ctx \in Contexts /\ frames[t][n].scope \in Scopes
    BY <1>4, SlotFacts
  <2>3. QED
    BY <1>2, <1>4, <2>1, <2>2 DEF Home, Innermost
<1>6. /\ Len(frames'[t]) = n - 1 /\ \A i \in 1..n - 1 : frames'[t][i] = frames[t][i]
      /\ \A u \in Threads : u # t => frames'[u] = frames[u]
  <2>1. PICK fs : fs = frames[t]
    OBVIOUS
  <2>2. Len(Popped(fs)) = Len(fs) - 1 /\ \A i \in 1..Len(fs) - 1 : Popped(fs)[i] = fs[i]
    BY <1>1, <1>2, <2>1, PoppedFrames
  <2>3. frames'[t] = Popped(fs)
    BY <1>1, <1>2, <2>1
  <2>4. QED
    BY <1>1, <1>2, <2>1, <2>2, <2>3
<1>7. /\ live_contexts' \in [Scopes -> Seq(Contexts)] /\ free_contexts' \in [Scopes -> Seq(Contexts)]
      /\ Lists'
      /\ \A x : InList(x)' <=> InList(x) /\ x # c
      /\ \A r \in Scopes : \A x \in Range(live_contexts[r]) : x # c => x \in Range(live_contexts'[r])
  BY <1>1, <1>2, <1>5, GiveContext
<1>8. /\ Slots(t)' = 1..n - 1 /\ \A i \in 1..n : i = n \/ i \in 1..n - 1
      /\ \A i \in 1..n - 1 : i \in 1..n /\ i # n
  BY <1>4, <1>6 DEF Slots
<1>9. \A u \in Threads : u # t => Slots(u)' = Slots(u)
  BY <1>6 DEF Slots
<1>10. \A u \in Threads : \A i \in Slots(u)' :
         i \in Slots(u) /\ frames'[u][i] = frames[u][i] /\ frames[u][i].ctx # c
  <2>1. \A u \in Threads : \A i \in Slots(u)' :
          i \in Slots(u) /\ frames'[u][i] = frames[u][i] /\ ~(u = t /\ i = n)
    BY <1>4, <1>6, <1>8, <1>9
  <2>2. QED
    BY <1>2, <1>4, <1>5, <2>1 DEF Distinct
<1>11. Distinct'
  BY <1>2, <1>10, FewerCalls
<1>12. \A u \in Threads : \A i \in Slots(u) : i \in Slots(u)' \/ frames[u][i].ctx = c
  BY <1>4, <1>5, <1>8, <1>9
<1>13. Books'
  <2>1. ASSUME NEW x PROVE InCall(x)' <=> InCall(x) /\ x # c
    <3>1. ASSUME InCall(x)' PROVE InCall(x) /\ x # c
      BY <1>10, <3>1 DEF InCall
    <3>2. ASSUME InCall(x), x # c PROVE InCall(x)'
      BY <1>10, <1>12, <3>2 DEF InCall
    <3>3. QED
      BY <3>1, <3>2
  <2>2. InCall(c)
    BY <1>4, <1>5 DEF InCall
  <2>3. c \notin leaked
    BY <1>2, <1>5, <2>2 DEF Books
  <2>4. QED
    BY <1>1, <1>2, <1>7, <2>1, <2>3 DEF Books
<1>14. Home'
  <2> SUFFICES ASSUME NEW u \in Threads, NEW i \in Slots(u)'
               PROVE  frames'[u][i].ctx \in Range(live_contexts'[frames'[u][i].scope])
    BY DEF Home
  <2>1. i \in Slots(u) /\ frames'[u][i] = frames[u][i] /\ frames[u][i].ctx # c
    BY <1>10
  <2>2. frames[u][i].scope \in Scopes /\ frames[u][i].ctx \in Range(live_contexts[frames[u][i].scope])
    BY <1>2, <2>1, SlotFacts DEF Home
  <2>3. QED
    BY <1>7, <2>1, <2>2
<1>15. stacked[c] = own[t] /\ rd_context'[t] = own[t]
  <2>1. stacked[c] = own[t]
    BY <1>1, <1>2, <1>4, <1>5 DEF Placed
  <2>2. QED
    BY <1>1, <1>2, <2>1 DEF ContextTypes
<1>16. ContextTypes'
  <2>1. stacked[c] \in OrNil(Contexts)
    BY <1>2, <1>5 DEF ContextTypes
  <2>2. rd_context' \in [Threads -> OrNil(Contexts)]
    BY <1>1, <1>2, <2>1 DEF ContextTypes
  <2>3. QED
    BY <1>1, <1>2, <1>7, <2>2 DEF ContextTypes
<1>17. ~Calling(t)' /\ ~Returned(t)'
  <2> SUFFICES ASSUME frames'[t] # << >> PROVE frames'[t][Len(frames'[t])].stage = "args"
    BY DEF Calling, Returned, Innermost
  <2>1. frames'[t] \in Seq(FrameSet)
    BY <1>1, <1>2, PoppedFrames
  <2>2. Len(frames'[t]) # 0
    BY <2>1
  <2>3. n - 1 \in 1..n - 1
    BY <1>4, <1>6, <2>2
  <2>4. frames[t][n - 1].stage = "args"
    BY <1>2, <2>3 DEF Shape
  <2>5. QED
    BY <1>6, <2>3, <2>4
<1>18. \A u \in Threads : u # t => (Calling(u)' <=> Calling(u)) /\ (Returned(u)' <=> Returned(u))
  BY <1>6 DEF Calling, Returned, Innermost
<1>19. Made'
  <2>1. \A q \in Threads : Given(q)' = Given(q)
    BY <1>1, <1>6, <1>17, <1>18 DEF Given, Innermost
  <2>2. \A d \in Live \ {root} : parent[d] \in Threads
    BY <1>3 DEF ThreadInv, Kin, Live
  <2>3. QED
    BY <1>1, <1>3, <2>1, <2>2 DEF ContextInv, Made
<1>20. ASSUME NEW u \in Live PROVE Waited(u)'
  <2>1. CASE own[u] = Nil
    BY <1>1, <2>1 DEF Waited
  <2>2. CASE own[u] # Nil
    <3>1. PICK v \in Live : v # u /\ Calling(v) /\ own[u] = frames[v][Len(frames[v])].ctx
      BY <2>2 DEF ContextInv, Waited
    <3>2. v # t /\ frames'[v] = frames[v] /\ Calling(v)' /\ v \in Live'
      BY <1>1, <1>3, <1>6, <1>18, <3>1
    <3>3. QED
      BY <1>1, <3>1, <3>2 DEF Waited
  <2>3. QED
    BY <2>1, <2>2
<1>21. ASSUME NEW u \in Live, u # t PROVE Placed(u)'
  <2>1. u \in Threads /\ Placed(u) /\ Len(frames[u]) \in Nat /\ (Returned(u) => Len(frames[u]) - 1 \in Nat)
    BY <1>3, SlotFacts DEF ContextInv, Returned
  <2>2. wt_context'[u] = wt_context[u] /\ rd_context'[u] = rd_context[u] /\ own'[u] = own[u]
    BY <1>1, <1>2, <1>21, <2>1 DEF ContextTypes
  <2>3. frames'[u] = frames[u]
    BY <1>6, <1>21, <2>1
  <2>4. QED
    BY <1>1, <1>18, <1>21, <2>1, <2>2, <2>3, PlacedSame
<1>22. Placed(t)'
  <2>1. wt_context'[t] = Base(t, n - 1)
    BY <1>1, <1>2 DEF Placed
  <2>2. \A i : i = 0 \/ i \in 1..n - 1 => Base(t, i)' = Base(t, i)
    BY <1>1, <1>6 DEF Base
  <2>3. (n - 1 = 0 \/ n - 1 \in 1..n - 1) /\ \A i \in 1..n - 1 : i - 1 = 0 \/ i - 1 \in 1..n - 1
    <3>1. n \in Nat /\ n - 1 \in Nat
      BY <1>4
    <3>2. QED
      BY <3>1, Before
  <2>4. wt_context'[t] = Base(t, n - 1)'
    BY <2>1, <2>2, <2>3
  <2>5. rd_context'[t] = own'[t]
    BY <1>1, <1>15
  <2>6. ASSUME NEW i \in Slots(t)' PROVE stacked'[frames'[t][i].ctx] = Base(t, i - 1)'
    <3>1. i \in Slots(t) /\ i # n /\ i \in 1..n - 1
      BY <1>4, <1>8
    <3>2. stacked[frames[t][i].ctx] = Base(t, i - 1)
      BY <1>2, <3>1 DEF Placed
    <3>3. QED
      BY <1>1, <1>6, <2>2, <2>3, <3>1, <3>2
  <2>7. QED
    BY <1>6, <1>17, <2>4, <2>5, <2>6 DEF Placed
<1>23. QED
  BY <1>3, <1>7, <1>11, <1>13, <1>14, <1>16, <1>19, <1>20, <1>21, <1>22 DEF ContextInv

-----------------------------------------------------------------------------
(***************************************************************************)
(* The end of a thread.                                                    *)
(***************************************************************************)

\* Only threads below a call have its context as theirs.
LEMMA OwnBelow ==
  ASSUME ThreadInv, ContextInv, NEW u \in Live, Calling(u), NEW v \in Live,
         own[v] = frames[u][Len(frames[u])].ctx,
         NEW B \in SUBSET Threads, Closed(B), children(u) \subseteq B
  PROVE  v \in B
<1>1. /\ Live \subseteq Threads /\ Live \subseteq alive /\ root \in Live
      /\ \A c \in alive \ {root} : parent[c] \in Live
  BY DEF ThreadInv, ThreadTypes, Live, Kin
<1> PICK y : y = own[v]
  OBVIOUS
<1>2. Len(frames[u]) \in Slots(u) /\ y # Nil
  BY <1>1, SlotFacts DEF Calling
<1> DEFINE S == Threads \ {w \in Live : own[w] = y /\ w \notin B}
<1>3. root \in S
  BY <1>1, <1>2 DEF ContextInv, Made
<1>4. Closed(S)
  <2> SUFFICES ASSUME NEW c \in alive, parent[c] \in S, c \in Live, own[c] = y, c \notin B PROVE FALSE
    BY <1>1 DEF Closed, ThreadInv, ThreadTypes
  <2> PICK q : q = parent[c]
    OBVIOUS
  <2>1. c # root /\ q \in Live /\ own[c] = Given(q) /\ q \notin B
    BY <1>1, <1>3 DEF ContextInv, Made, Closed
  <2>2. CASE Calling(q)
    <3>1. frames[q][Len(frames[q])].ctx = frames[u][Len(frames[u])].ctx
      BY <2>1, <2>2 DEF Given, Innermost
    <3>2. Len(frames[q]) \in Slots(q)
      BY <1>1, <2>1, <2>2, SlotFacts DEF Calling
    <3>3. q = u
      BY <1>1, <1>2, <2>1, <3>1, <3>2 DEF ContextInv, Distinct
    <3>4. QED
      BY <3>3 DEF children
  <2>3. CASE ~Calling(q)
    BY <2>1, <2>3 DEF Given
  <2>4. QED
    BY <2>2, <2>3
<1>5. alive \subseteq S
  BY <1>3, <1>4 DEF ThreadInv, Tree
<1>6. QED
  BY <1>1, <1>5

\* do_join moves the context of the innermost call of a thread that waits
\* for it, and turns its link.
LEMMA Moves ==
  ASSUME ThreadInv, ContextInv, NEW t \in Live \ {root}, NEW p, p = parent[t], Calling(p),
         NEW n, n = Len(frames[p]), NEW c, c = frames[p][n].ctx, MoveContext(p, t)
  PROVE  /\ wt_context' = [wt_context EXCEPT ![p] = Base(p, n - 1)]
         /\ rd_context' = [rd_context EXCEPT ![p] = c]
         /\ stacked' = [stacked EXCEPT ![c] = own[p]]
<1>1. p \in Live /\ Live \subseteq Threads /\ p \in Threads /\ t \in Threads
  BY DEF ThreadInv, ThreadTypes, Live, Kin
<1>2. ~Returned(p) /\ n \in Slots(p) /\ n # 0 /\ c # Nil
  BY <1>1, SlotFacts DEF Calling, Returned
<1>3. wt_context[p] = c /\ rd_context[p] = own[p] /\ stacked[c] = Base(p, n - 1)
  BY <1>1, <1>2 DEF ContextInv, Placed, Base
<1>4. c # own[p]
  BY <1>1, <1>2, OwnOther
<1>5. wt_context[t] # Nil
  <2> PICK k : k = IF Returned(t) THEN Len(frames[t]) - 1 ELSE Len(frames[t])
    OBVIOUS
  <2>1. wt_context[t] = Base(t, k)
    BY DEF ContextInv, Placed
  <2>2. k = 0 \/ k \in Slots(t)
    <3> PICK m : m = Len(frames[t])
      OBVIOUS
    <3>1. m \in Nat /\ Slots(t) = 1..m
      BY <1>1, SlotFacts DEF Slots
    <3>2. CASE Returned(t)
      <4>1. k = m - 1 /\ m - 1 \in Nat
        BY <1>1, <3>2, SlotFacts DEF Returned
      <4>2. QED
        BY <3>1, <4>1, Before
    <3>3. CASE ~Returned(t)
      BY <3>1, <3>3
    <3>4. QED
      BY <3>2, <3>3
  <2>3. CASE k = 0
    <3>1. own[t] = Given(p)
      BY DEF ContextInv, Made
    <3>2. own[t] = c
      BY <3>1 DEF Given, Innermost
    <3>3. QED
      BY <1>2, <2>1, <2>3, <3>2 DEF Base
  <2>4. CASE k \in Slots(t)
    BY <1>1, <2>1, <2>4, SlotFacts DEF Base
  <2>5. QED
    BY <2>2, <2>3, <2>4
<1>6. IsTopLevel(p, t)
  BY <1>3, <1>4, <1>5 DEF IsTopLevel
<1>7. QED
  BY <1>3, <1>6 DEF MoveContext

LEMMA StopContexts ==
  ASSUME ThreadInv, ContextInv, NEW t, Stop(t)
  PROVE  ContextInv'
<1> PICK p, B, n, c : p = parent[t] /\ B = Below(t) /\ n = Len(frames[p]) /\ c = frames[p][n].ctx
  OBVIOUS
<1>1. /\ t \in Live \ {root} /\ t \in alive \ {root} /\ leaked' = leaked \cup Calls(B)
      /\ UNCHANGED <<live_contexts, free_contexts, made, own>>
  BY DEF Stop, Live, pools
<1>2. /\ p \in Live /\ p \in Threads /\ t \in children(p)
      /\ (Calling(p) => joining[p] /\ joins[p] = 0 /\ frames[p] # << >>)
      /\ (~Calling(p) => frames[p] = << >>)
  BY <1>1, Parent
<1>3. t \in B /\ Closed(B) /\ B \subseteq alive /\ p \notin B
  BY <1>1, BelowTree
<1>4. /\ Live' = Live \ B /\ \A d \in alive' : parent'[d] = parent[d]
      /\ frames' = [d \in Threads |-> IF d \in B THEN << >>
                                      ELSE IF d = p /\ Calling(p) THEN Staged(frames[p], "returned")
                                      ELSE frames[d]]
  BY StopEffect
<1>5. /\ Live \subseteq Threads /\ alive \subseteq Threads /\ root \in Live /\ Live' \subseteq alive'
      /\ \A d \in alive \ {root} : parent[d] \in Live
      /\ frames \in [Threads -> Seq(FrameSet)]
  BY DEF ThreadInv, ThreadTypes, Live, Kin
<1>6. ContextTypes /\ Lists /\ Distinct /\ Books /\ Home
  BY DEF ContextInv
<1>7. /\ \A u \in B : frames'[u] = << >>
      /\ \A u \in Threads : u \notin B /\ ~(u = p /\ Calling(p)) => frames'[u] = frames[u]
      /\ Calling(p) => frames'[p] = Staged(frames[p], "returned")
  BY <1>2, <1>3, <1>4, <1>5
<1>8. ASSUME Calling(p)
      PROVE  /\ Len(frames'[p]) = n /\ Returned(p)'
             /\ \A i \in Slots(p) : frames'[p][i].ctx = frames[p][i].ctx /\ frames'[p][i].scope = frames[p][i].scope
  <2> PICK fs : fs = frames[p]
    OBVIOUS
  <2>1. LET r == Staged(fs, "returned") IN
        /\ Len(r) = Len(fs) /\ r # << >> /\ r[Len(r)].stage = "returned"
        /\ \A i \in 1..Len(fs) : r[i].ctx = fs[i].ctx /\ r[i].scope = fs[i].scope
    BY <1>2, <1>5, <1>8, StagedFrames DEF Stages
  <2>2. QED
    BY <1>7, <1>8, <2>1 DEF Slots, Returned, Innermost
<1>9. \A u \in Threads \ B :
        /\ Len(frames'[u]) = Len(frames[u]) /\ Slots(u)' = Slots(u)
        /\ \A i \in Slots(u) : frames'[u][i].ctx = frames[u][i].ctx /\ frames'[u][i].scope = frames[u][i].scope
  BY <1>7, <1>8 DEF Slots
<1>10. \A u \in B : Slots(u)' = {}
  BY <1>7 DEF Slots
<1>11. \A u \in Threads : \A i \in Slots(u)' :
         /\ u \notin B /\ i \in Slots(u)
         /\ frames'[u][i].ctx = frames[u][i].ctx /\ frames'[u][i].scope = frames[u][i].scope
  BY <1>9, <1>10
<1>12. \A u \in Threads \ B : u # p => (Calling(u)' <=> Calling(u)) /\ (Returned(u)' <=> Returned(u))
  BY <1>7 DEF Calling, Returned, Innermost
<1>13. Distinct'
  BY <1>6, <1>11, FewerCalls
<1>14. Lists'
  BY <1>1, <1>6 DEF Lists, Pool
<1>15. Home'
  BY <1>1, <1>6, <1>11 DEF Home
<1>16. \A x : x \in Calls(B) <=> \E u \in B : \E i \in Slots(u) : frames[u][i].ctx = x
  BY DEF Calls, Slots
<1>17. leaked' \subseteq Contexts
  <2>1. \A u \in B : \A i \in Slots(u) : frames[u][i].ctx \in Contexts
    BY <1>3, <1>5, SlotFacts
  <2>2. Calls(B) \subseteq Contexts
    BY <1>16, <2>1
  <2>3. QED
    BY <1>1, <1>6, <2>2 DEF ContextTypes
<1>18. Books'
  <2>1. ASSUME NEW x PROVE InCall(x)' <=> InCall(x) /\ x \notin Calls(B)
    <3>1. ASSUME InCall(x)' PROVE InCall(x) /\ x \notin Calls(B)
      <4>1. PICK u \in Threads : \E i \in Slots(u)' : frames'[u][i].ctx = x
        BY <3>1 DEF InCall
      <4>2. PICK i \in Slots(u)' : frames'[u][i].ctx = x
        BY <4>1
      <4>3. u \notin B /\ i \in Slots(u) /\ frames[u][i].ctx = x
        BY <1>11, <4>2
      <4>4. \A w \in B : \A j \in Slots(w) : frames[w][j].ctx # x
        BY <1>3, <1>5, <1>6, <4>3 DEF Distinct
      <4>5. QED
        BY <1>16, <4>3, <4>4 DEF InCall
    <3>2. ASSUME InCall(x), x \notin Calls(B) PROVE InCall(x)'
      BY <1>9, <1>16, <3>2 DEF InCall
    <3>3. QED
      BY <3>1, <3>2
  <2>2. \A x \in Calls(B) : InCall(x)
    BY <1>3, <1>5, <1>16 DEF InCall
  <2>3. \A x : InList(x)' <=> InList(x)
    BY <1>1 DEF InList
  <2>4. QED
    BY <1>1, <1>6, <2>1, <2>2, <2>3 DEF Books
<1>19. CASE Calling(p)
  <2>1. /\ n \in Nat /\ n - 1 \in Nat /\ n \in Slots(p) /\ Slots(p) = 1..n
        /\ c \in Contexts /\ ~Returned(p)
    BY <1>2, <1>19, SlotFacts DEF Calling, Returned, Slots
  <2>2. /\ wt_context' = [wt_context EXCEPT ![p] = Base(p, n - 1)]
        /\ rd_context' = [rd_context EXCEPT ![p] = c]
        /\ stacked' = [stacked EXCEPT ![c] = own[p]]
    <3>1. MoveContext(p, t)
      BY <1>2, <1>19 DEF Stop
    <3>2. QED
      BY <1>1, <1>19, <3>1, Moves
  <2>3. n - 1 = 0 \/ n - 1 \in Slots(p)
    <3>1. n \in Nat /\ n - 1 \in Nat
      BY <2>1
    <3>2. n - 1 = 0 \/ n - 1 \in 1..n
      BY <3>1, Before
    <3>3. QED
      BY <2>1, <3>2
  <2>4. \A i \in Slots(p) : i - 1 = 0 \/ i - 1 \in Slots(p)
    BY <2>1
  <2>5. ContextTypes'
    <3>1. Base(p, n - 1) \in OrNil(Contexts) /\ own[p] \in OrNil(Contexts) /\ c \in OrNil(Contexts)
      BY <1>2, <1>6, <2>1, <2>3, SlotFacts DEF Base, ContextTypes, OrNil
    <3>2. QED
      BY <1>1, <1>6, <1>17, <2>1, <2>2, <3>1 DEF ContextTypes
  <2>6. children(p) \subseteq B
    BY <1>2, <1>3, <1>19 DEF ThreadInv, Kin, Few
  <2>7. Made'
    <3>1. ASSUME NEW d \in Live' \ {root} PROVE (own[d] = Given(parent[d]))'
      <4> PICK q : q = parent[d]
        OBVIOUS
      <4>1. d \in Live /\ d \notin B /\ d \in alive /\ parent'[d] = q
        BY <1>4, <1>5 DEF Live
      <4>2. q \in Live /\ q \notin B /\ q # p /\ own[d] = Given(q)
        BY <1>3, <1>5, <2>6, <4>1 DEF Closed, children, ContextInv, Made
      <4>3. Given(q)' = Given(q)
        BY <1>1, <1>5, <1>7, <4>2 DEF Given, Calling, Innermost
      <4>4. QED
        BY <1>1, <4>1, <4>2, <4>3
    <3>2. QED
      BY <1>1, <3>1 DEF ContextInv, Made
  <2>8. ASSUME NEW u \in Live' PROVE Waited(u)'
    <3>1. u \in Live /\ u \notin B
      BY <1>4
    <3>2. CASE own[u] = Nil
      BY <1>1, <3>2 DEF Waited
    <3>3. CASE own[u] # Nil
      <4>1. PICK v \in Live : v # u /\ Calling(v) /\ own[u] = frames[v][Len(frames[v])].ctx
        BY <3>1, <3>3 DEF ContextInv, Waited
      <4>2. v # p /\ v \notin B
        <5>1. B \in SUBSET Threads
          BY <1>3, <1>5
        <5>2. v \in B => children(v) \subseteq B
          BY <1>3 DEF Closed, children
        <5>3. QED
          BY <1>3, <2>6, <3>1, <4>1, <5>1, <5>2, OwnBelow
      <4>3. frames'[v] = frames[v] /\ Calling(v)' /\ v \in Live'
        BY <1>4, <1>5, <1>7, <1>12, <4>1, <4>2
      <4>4. QED
        BY <1>1, <4>1, <4>3 DEF Waited
    <3>4. QED
      BY <3>2, <3>3
  <2>9. \A u \in Threads : \A i \in Slots(u) :
          ~(u = p /\ i = n) => stacked'[frames[u][i].ctx] = stacked[frames[u][i].ctx]
    <3>1. \A x \in Contexts : x # c => stacked'[x] = stacked[x]
      BY <1>6, <2>2 DEF ContextTypes
    <3>2. \A u \in Threads : \A i \in Slots(u) :
            frames[u][i].ctx \in Contexts /\ (~(u = p /\ i = n) => frames[u][i].ctx # c)
      BY <1>2, <1>6, <2>1, SlotFacts DEF Distinct
    <3>3. QED
      BY <3>1, <3>2
  <2>10. ASSUME NEW u \in Live', u # p PROVE Placed(u)'
    <3>1. u \in Live /\ u \in Threads /\ u \notin B
      BY <1>4, <1>5
    <3>2. Placed(u) /\ Len(frames[u]) \in Nat /\ (Returned(u) => Len(frames[u]) - 1 \in Nat)
      BY <3>1, SlotFacts DEF ContextInv, Returned
    <3>3. wt_context'[u] = wt_context[u] /\ rd_context'[u] = rd_context[u] /\ own'[u] = own[u]
      BY <1>1, <1>6, <2>2, <2>10, <3>1 DEF ContextTypes
    <3>4. /\ Len(frames'[u]) = Len(frames[u]) /\ (Returned(u)' <=> Returned(u))
          /\ \A i \in Slots(u) : /\ frames'[u][i].ctx = frames[u][i].ctx
                                 /\ stacked'[frames[u][i].ctx] = stacked[frames[u][i].ctx]
      BY <1>9, <1>12, <2>9, <2>10, <3>1
    <3>5. QED
      BY <3>1, <3>2, <3>3, <3>4, PlacedSame
  <2>11. Placed(p)'
    <3>1. wt_context'[p] = Base(p, n - 1) /\ rd_context'[p] = c /\ stacked'[c] = own[p]
      BY <1>2, <1>6, <2>1, <2>2 DEF ContextTypes
    <3>2. \A i : i = 0 \/ i \in Slots(p) => Base(p, i)' = Base(p, i)
      BY <1>1, <1>8, <1>19 DEF Base
    <3>3. Base(p, n) = c /\ Base(p, n)' = c
      BY <2>1, <3>2 DEF Base
    <3>4. Base(p, n - 1)' = Base(p, n - 1)
      BY <2>3, <3>2
    <3>5. Len(frames'[p]) = n /\ Returned(p)' /\ Slots(p)' = Slots(p)
      BY <1>2, <1>3, <1>8, <1>9, <1>19
    <3>6. ASSUME NEW i \in Slots(p), i # n PROVE stacked'[frames'[p][i].ctx] = Base(p, i - 1)'
      <4>1. stacked[frames[p][i].ctx] = Base(p, i - 1)
        BY <1>2, <2>1, <3>6 DEF ContextInv, Placed
      <4>2. stacked'[frames[p][i].ctx] = stacked[frames[p][i].ctx] /\ frames'[p][i].ctx = frames[p][i].ctx
        BY <1>2, <1>8, <1>19, <2>9, <3>6
      <4>3. Base(p, i - 1)' = Base(p, i - 1)
        BY <2>4, <3>2
      <4>4. QED
        BY <4>1, <4>2, <4>3
    <3>7. stacked'[frames'[p][n].ctx] = own'[p]
      BY <1>1, <1>8, <1>19, <2>1, <3>1
    <3>8. \A i \in Slots(p)' :
            stacked'[frames'[p][i].ctx] = IF i = Len(frames'[p]) /\ Returned(p)' THEN own'[p] ELSE Base(p, i - 1)'
      BY <3>5, <3>6, <3>7
    <3>9. QED
      BY <3>1, <3>3, <3>4, <3>5, <3>8 DEF Placed
  <2>12. QED
    BY <1>13, <1>14, <1>15, <1>18, <2>5, <2>7, <2>8, <2>10, <2>11 DEF ContextInv
<1>20. CASE ~Calling(p)
  <2>1. UNCHANGED <<wt_context, rd_context, stacked>>
    <3>1. CASE joining[p]
      <4>1. MoveContext(p, t)
        BY <3>1 DEF Stop
      <4>2. QED
        BY <1>2, <1>20, <4>1, NoMove
    <3>2. CASE ~joining[p]
      BY <3>2 DEF Stop
    <3>3. QED
      BY <3>1, <3>2
  <2>2. \A u \in Threads \ B : /\ frames'[u] = frames[u]
                               /\ Calling(u)' <=> Calling(u)
                               /\ Returned(u)' <=> Returned(u)
    BY <1>7, <1>20 DEF Calling, Returned, Innermost
  <2>3. ContextTypes'
    BY <1>1, <1>6, <1>17, <2>1 DEF ContextTypes
  <2>4. Made'
    <3>1. ASSUME NEW d \in Live' \ {root} PROVE (own[d] = Given(parent[d]))'
      <4> PICK q : q = parent[d]
        OBVIOUS
      <4>1. d \in Live /\ d \notin B /\ d \in alive /\ parent'[d] = q
        BY <1>4, <1>5 DEF Live
      <4>2. q \in Live /\ q \notin B /\ own[d] = Given(q)
        BY <1>3, <1>5, <4>1 DEF Closed, ContextInv, Made
      <4>3. Given(q)' = Given(q)
        BY <1>1, <1>5, <2>2, <4>2 DEF Given, Innermost
      <4>4. QED
        BY <1>1, <4>1, <4>2, <4>3
    <3>2. QED
      BY <1>1, <3>1 DEF ContextInv, Made
  <2>5. ASSUME NEW u \in Live' PROVE Waited(u)'
    <3>1. u \in Live /\ u \notin B
      BY <1>4
    <3>2. CASE own[u] = Nil
      BY <1>1, <3>2 DEF Waited
    <3>3. CASE own[u] # Nil
      <4>1. PICK v \in Live : v # u /\ Calling(v) /\ own[u] = frames[v][Len(frames[v])].ctx
        BY <3>1, <3>3 DEF ContextInv, Waited
      <4>2. v \notin B
        <5>1. B \in SUBSET Threads
          BY <1>3, <1>5
        <5>2. v \in B => children(v) \subseteq B
          BY <1>3 DEF Closed, children
        <5>3. QED
          BY <1>3, <3>1, <4>1, <5>1, <5>2, OwnBelow
      <4>3. frames'[v] = frames[v] /\ Calling(v)' /\ v \in Live'
        BY <1>4, <1>5, <2>2, <4>1, <4>2
      <4>4. QED
        BY <1>1, <4>1, <4>3 DEF Waited
    <3>4. QED
      BY <3>2, <3>3
  <2>6. ASSUME NEW u \in Live' PROVE Placed(u)'
    <3>1. u \in Live /\ u \in Threads /\ u \notin B
      BY <1>4, <1>5
    <3>2. Placed(u) /\ Len(frames[u]) \in Nat /\ (Returned(u) => Len(frames[u]) - 1 \in Nat)
      BY <3>1, SlotFacts DEF ContextInv, Returned
    <3>3. QED
      BY <1>1, <2>1, <2>2, <3>1, <3>2, PlacedSame
  <2>7. QED
    BY <1>13, <1>14, <1>15, <1>18, <2>3, <2>4, <2>5, <2>6 DEF ContextInv
<1>21. QED
  BY <1>19, <1>20

-----------------------------------------------------------------------------
(***************************************************************************)
(* The invariants of the specification.                                    *)
(***************************************************************************)

LEMMA ContextStep == ThreadInv /\ ContextInv /\ [Next]_vars => ContextInv'
<1> SUFFICES ASSUME ThreadInv, ContextInv, [Next]_vars PROVE ContextInv'
  OBVIOUS
<1>1. CASE Next
  BY <1>1, Steps, AllocContexts, FreeContexts, CallContexts, ForkBlockContexts, JoinWaitsContexts,
     JoinZombieContexts, StopContexts
<1>2. CASE UNCHANGED vars
  BY <1>2, ContextStutter
<1>3. QED
  BY <1>1, <1>2

LEMMA Invariants == Spec => [](ThreadInv /\ ContextInv)
<1>1. Init => ThreadInv /\ ContextInv
  BY ThreadInit, ContextInit
<1>2. ThreadInv /\ ContextInv /\ [Next]_vars => (ThreadInv /\ ContextInv)'
  BY ThreadStep, ContextStep
<1>3. QED
  BY <1>1, <1>2, PTL DEF Spec

LEMMA MaxInterval ==
  ASSUME NEW m \in Nat
  PROVE  /\ m = 0 => 1..m = {}
         /\ m # 0 => m \in 1..m /\ Max(1..m) = m
<1> SUFFICES ASSUME m # 0 PROVE m \in 1..m /\ Max(1..m) = m
  OBVIOUS
<1>1. m \in 1..m /\ \A y \in 1..m : m >= y
  OBVIOUS
<1>2. \A x \in 1..m : (\A y \in 1..m : x >= y) => x = m
  BY <1>1
<1>3. QED
  BY <1>1, <1>2 DEF Max

\* The write context is where LastAt looks for it.
LEMMA WriteContext ==
  ASSUME ThreadInv, ContextInv, NEW t \in Live
  PROVE  wt_context[t] = LastAt(t, {"args", "called"})
<1> PICK n : n = Len(frames[t])
  OBVIOUS
<1> PICK m : m = IF Returned(t) THEN n - 1 ELSE n
  OBVIOUS
<1> DEFINE at == {i \in 1..n : frames[t][i].stage \in {"args", "called"}}
<1>1. /\ t \in Threads /\ n \in Nat /\ Shape(t) /\ frames[t] \in Seq(FrameSet)
      /\ (Returned(t) => n - 1 \in Nat) /\ (frames[t] = << >> => n = 0) /\ Slots(t) = 1..n
  BY SlotFacts DEF ThreadInv, ThreadTypes, Live, Returned, Slots
<1>2. wt_context[t] = Base(t, m)
  BY DEF ContextInv, Placed
<1>3. m \in Nat
  BY <1>1
<1>4. at = 1..m
  <2>1. \A i \in 1..n - 1 : frames[t][i].stage = "args"
    BY <1>1 DEF Shape
  <2>2. CASE Returned(t)
    <3>1. m = n - 1 /\ n - 1 \in Nat /\ frames[t][n].stage = "returned"
      BY <1>1, <2>2 DEF Returned, Innermost
    <3>2. (\A i \in 1..n - 1 : i \in 1..n) /\ \A i \in 1..n : i = n \/ i \in 1..n - 1
      BY <1>1
    <3>3. QED
      BY <2>1, <3>1, <3>2
  <2>3. CASE ~Returned(t)
    <3>1. m = n
      BY <2>3
    <3>2. \A i \in 1..n : i = n \/ i \in 1..n - 1
      BY <1>1
    <3>3. ASSUME n \in 1..n PROVE frames[t][n].stage \in {"args", "called"}
      <4>1. frames[t] # << >> /\ frames[t][n].stage \in Stages
        BY <1>1, <3>3, FrameType
      <4>2. QED
        BY <2>3, <4>1 DEF Returned, Innermost, Stages
    <3>4. \A i \in 1..n : frames[t][i].stage \in {"args", "called"}
      BY <2>1, <3>2, <3>3
    <3>5. QED
      BY <3>1, <3>4
  <2>4. QED
    BY <2>2, <2>3
<1>5. LastAt(t, {"args", "called"}) = IF 1..m = {} THEN own[t] ELSE frames[t][Max(1..m)].ctx
  BY <1>4 DEF LastAt
<1> HIDE DEF at
<1>6. CASE m = 0
  <2>1. 1..m = {}
    BY <1>3, <1>6, MaxInterval
  <2>2. QED
    BY <1>2, <1>5, <1>6, <2>1 DEF Base
<1>7. CASE m # 0
  <2>1. m \in 1..m /\ Max(1..m) = m
    BY <1>3, <1>7, MaxInterval
  <2>2. QED
    BY <1>2, <1>5, <1>7, <2>1 DEF Base
<1>8. QED
  BY <1>6, <1>7

LEMMA ContextsAreRight == ThreadInv /\ ContextInv => RightContexts
<1> SUFFICES ASSUME ThreadInv, ContextInv, NEW t \in Live
             PROVE  /\ wt_context[t] = LastAt(t, {"args", "called"})
                    /\ rd_context[t] = IF frames[t] # << >> /\ Innermost(t).stage = "returned"
                                       THEN Innermost(t).ctx ELSE own[t]
  BY DEF RightContexts
<1>1. t \in Threads
  BY DEF ThreadInv, ThreadTypes, Live
<1>2. CASE Returned(t)
  <2>1. Base(t, Len(frames[t])) = Innermost(t).ctx
    BY <1>1, <1>2, SlotFacts DEF Base, Innermost, Returned
  <2>2. QED
    BY <1>2, <2>1, WriteContext DEF ContextInv, Placed, Returned
<1>3. CASE ~Returned(t)
  BY <1>3, WriteContext DEF ContextInv, Placed, Returned
<1>4. QED
  BY <1>2, <1>3

LEMMA ListConcat ==
  ASSUME NEW S, NEW k \in Seq(S), NEW l \in Seq(S), IsInjective(k), IsInjective(l),
         Range(k) \cap Range(l) = {}
  PROVE  IsInjective(k \o l)
<1> DEFINE r == k \o l
<1>1. /\ r \in Seq(S) /\ Len(r) = Len(k) + Len(l)
      /\ \A i \in 1..Len(k) + Len(l) : r[i] = IF i <= Len(k) THEN k[i] ELSE l[i - Len(k)]
      /\ Len(k) \in Nat /\ Len(l) \in Nat
  BY ConcatProperties
<1>2. /\ \A i \in 1..Len(k) : k[i] \in Range(k)
      /\ \A a, b \in 1..Len(k) : k[a] = k[b] => a = b
  BY RangeIn
<1>3. /\ \A i \in 1..Len(l) : l[i] \in Range(l)
      /\ \A a, b \in 1..Len(l) : l[a] = l[b] => a = b
  BY RangeIn
<1> HIDE DEF r
<1>4. IsInjective(r) <=> \A a, b \in 1..Len(r) : r[a] = r[b] => a = b
  BY <1>1, RangeIn
<1> SUFFICES ASSUME NEW a \in 1..Len(r), NEW b \in 1..Len(r), r[a] = r[b] PROVE a = b
  BY <1>4 DEF r
<1>5. ASSUME NEW i \in 1..Len(r), i <= Len(k) PROVE i \in 1..Len(k) /\ r[i] = k[i] /\ r[i] \in Range(k)
  <2>1. i \in 1..Len(k) /\ i \in 1..Len(k) + Len(l)
    BY <1>1, <1>5
  <2>2. QED
    BY <1>1, <1>2, <1>5, <2>1
<1>6. ASSUME NEW i \in 1..Len(r), ~(i <= Len(k))
      PROVE  i - Len(k) \in 1..Len(l) /\ r[i] = l[i - Len(k)] /\ r[i] \in Range(l)
  <2>1. i - Len(k) \in 1..Len(l) /\ i \in 1..Len(k) + Len(l)
    BY <1>1, <1>6
  <2>2. QED
    BY <1>1, <1>3, <1>6, <2>1
<1>7. CASE a <= Len(k) /\ b <= Len(k)
  BY <1>2, <1>5, <1>7
<1>8. CASE ~(a <= Len(k)) /\ ~(b <= Len(k))
  <2>1. a - Len(k) = b - Len(k)
    BY <1>3, <1>6, <1>8
  <2>2. QED
    BY <1>1, <2>1
<1>9. QED
  BY <1>5, <1>6, <1>7, <1>8

LEMMA ContextsAccounted == ThreadInv /\ ContextInv => Accounted
<1> SUFFICES ASSUME ThreadInv, ContextInv PROVE Accounted
  OBVIOUS
<1>1. /\ ContextTypes /\ Lists /\ Distinct /\ Books /\ Home /\ Live \subseteq alive /\ alive \subseteq Threads
  BY DEF ContextInv, ThreadInv, ThreadTypes, Live
<1>2. \A s \in Scopes : live_contexts[s] \in Seq(Contexts) /\ free_contexts[s] \in Seq(Contexts)
  BY <1>1 DEF ContextTypes
<1>3. ASSUME NEW s \in Scopes, NEW x \in Range(free_contexts[s])
      PROVE  x \in Contexts /\ x # Nil /\ ~InCall(x)
  <2>1. x \in Contexts
    BY <1>2, RangeIn
  <2>2. x \in Pool(s)
    BY DEF Pool
  <2>3. ~InList(x)
    BY <1>1, <2>2 DEF InList, Lists, Pool
  <2>4. QED
    BY <1>1, <2>1, <2>3, ThreadsAssumption DEF Books
<1>4. ASSUME NEW t \in Live
      PROVE  /\ wt_context[t] = Nil \/ InCall(wt_context[t])
             /\ rd_context[t] = Nil \/ InCall(rd_context[t])
  <2> PICK n : n = Len(frames[t])
    OBVIOUS
  <2>1. t \in Threads /\ n \in Nat /\ Slots(t) = 1..n /\ (Returned(t) => n - 1 \in Nat /\ n \in Slots(t))
    BY <1>1, SlotFacts DEF Slots, Returned
  <2>2. own[t] = Nil \/ InCall(own[t])
    <3> SUFFICES ASSUME own[t] # Nil PROVE InCall(own[t])
      OBVIOUS
    <3>1. PICK u \in Live : Calling(u) /\ own[t] = frames[u][Len(frames[u])].ctx
      BY DEF ContextInv, Waited
    <3>2. u \in Threads /\ Len(frames[u]) \in Slots(u)
      BY <1>1, <3>1, SlotFacts DEF Calling
    <3>3. QED
      BY <3>1, <3>2 DEF InCall
  <2>3. \A i : i = 0 \/ i \in Slots(t) => Base(t, i) = Nil \/ InCall(Base(t, i))
    BY <2>1, <2>2 DEF Base, InCall
  <2>4. n = 0 \/ n \in Slots(t)
    BY <2>1
  <2>5. ASSUME Returned(t) PROVE n - 1 = 0 \/ n - 1 \in Slots(t)
    BY <2>1, <2>5, Before
  <2>6. wt_context[t] = Nil \/ InCall(wt_context[t])
    <3>1. CASE Returned(t)
      <4>1. wt_context[t] = Base(t, n - 1)
        BY <3>1 DEF ContextInv, Placed
      <4>2. QED
        BY <2>3, <2>5, <3>1, <4>1
    <3>2. CASE ~Returned(t)
      <4>1. wt_context[t] = Base(t, n)
        BY <3>2 DEF ContextInv, Placed
      <4>2. QED
        BY <2>3, <2>4, <4>1
    <3>3. QED
      BY <3>1, <3>2
  <2>7. rd_context[t] = Base(t, n) \/ rd_context[t] = own[t]
    BY DEF ContextInv, Placed
  <2>8. QED
    BY <2>2, <2>3, <2>4, <2>6, <2>7
<1>5. ASSUME NEW S, S \subseteq Threads, NEW x PROVE x \in Calls(S) => InCall(x)
  BY <1>5 DEF Calls, InCall, Slots
<1>6. \A s \in Scopes :
        Range(free_contexts[s]) \cap
          (Calls(Live) \cup {wt_context[t] : t \in Live} \cup {rd_context[t] : t \in Live}) = {}
  <2> SUFFICES ASSUME NEW s \in Scopes, NEW x \in Range(free_contexts[s]),
                      \/ x \in Calls(Live)
                      \/ \E t \in Live : x = wt_context[t] \/ x = rd_context[t]
               PROVE  FALSE
    OBVIOUS
  <2>1. x # Nil /\ ~InCall(x)
    BY <1>3
  <2>2. x \notin Calls(Live)
    BY <1>1, <1>5, <2>1
  <2>3. QED
    BY <1>4, <2>1, <2>2
<1>7. \A t, u \in Live : \A i \in 1..Len(frames[t]), j \in 1..Len(frames[u]) :
        frames[t][i].ctx = frames[u][j].ctx => t = u /\ i = j
  BY <1>1 DEF Distinct, Slots
<1>8. \A s \in Scopes : IsInjective(live_contexts[s] \o free_contexts[s])
  BY <1>1, <1>2, ListConcat DEF Lists
<1>9. UNION {Range(live_contexts[s]) : s \in Scopes} = Calls(alive) \cup leaked
  <2>1. \A x : x \in UNION {Range(live_contexts[s]) : s \in Scopes} <=> InList(x)
    BY DEF InList
  <2>2. \A x : InList(x) => x \in Contexts
    BY <1>2, RangeIn DEF InList
  <2>3. ASSUME NEW x PROVE InCall(x) <=> x \in Calls(alive)
    <3>1. ASSUME InCall(x) PROVE x \in Calls(alive)
      <4>1. PICK t \in Threads : \E i \in Slots(t) : frames[t][i].ctx = x
        BY <3>1 DEF InCall
      <4>2. frames[t] # << >>
        BY <4>1 DEF Slots
      <4>3. t \in alive
        BY <1>1, <4>2 DEF ThreadInv, Idle
      <4>4. QED
        BY <4>1, <4>3 DEF Calls, Slots
    <3>2. QED
      BY <1>1, <1>5, <3>1
  <2>4. \A x \in Calls(alive) : x \in Contexts
    <3>1. \A t \in alive : \A i \in 1..Len(frames[t]) : frames[t][i].ctx \in Contexts
      BY <1>1, SlotFacts DEF Slots
    <3>2. QED
      BY <3>1 DEF Calls
  <2>5. \A x \in leaked : x \in Contexts
    BY <1>1 DEF ContextTypes
  <2>6. \A x \in Contexts : InList(x) <=> (x \in Calls(alive) \/ x \in leaked)
    BY <1>1, <2>3 DEF Books
  <2>7. QED
    BY <2>1, <2>2, <2>4, <2>5, <2>6
<1>10. \A t \in Live : \A i \in 1..Len(frames[t]) :
         frames[t][i].ctx \in Range(live_contexts[frames[t][i].scope])
  BY <1>1 DEF Home, Slots
<1>11. QED
  BY <1>6, <1>7, <1>8, <1>9, <1>10 DEF Accounted

\* Every thread stores into the context of its innermost call that has not
\* returned and loads from that of the call that has, or from that of its
\* body, however %alloc, %fork, %callf, do_join, %free and do_disable
\* interleave: do_join's test tells the thread of a call from one of a block.
THEOREM ThreadsUseTheirContexts == Spec => []RightContexts
BY Invariants, ContextsAreRight, PTL

\* vthread_alloc_context and vthread_free_context never hand out a context
\* that is in use nor lose one: each is live or free in one scope, and the
\* live ones are those of the calls in progress and of the disabled calls.
THEOREM ContextsNeverLost == Spec => []Accounted
BY Invariants, ContextsAccounted, PTL

-----------------------------------------------------------------------------
(***************************************************************************)
(* Functors that call a function (module UFunc), for any number of         *)
(* functors, inputs, values, changes and stops, and whatever the function  *)
(* computes.                                                               *)
(*                                                                         *)
(* That a functor has one thread or none follows from the queue alone.     *)
(* That a stopped call keeps its arguments needs in addition that a thread *)
(* at %exec_ufunc has no call in progress, that one behind it has, and     *)
(* that two calls in progress never share a context.                       *)
(***************************************************************************)
CONSTANTS Cores, Ports, Values, X, Result(_, _), Feeds, is_automatic, Static,
          MaxChanges, MaxStops

VARIABLES port_values_, thread_, active, variables, working, idle, result, out,
          changes, stops, called

UF == INSTANCE UFunc WITH context <- working, free_contexts <- idle

\* The module that is instantiated has library operators of its own.
LEMMA SameFinite == ASSUME NEW S PROVE UF!IsFiniteSet(S) <=> IsFiniteSet(S)
BY DEF UF!IsFiniteSet, IsFiniteSet

LEMMA SameCardinality == ASSUME NEW S PROVE UF!Cardinality(S) = Cardinality(S)
BY DEF UF!Cardinality, Cardinality

LEMMA SameOrders == ASSUME NEW S PROVE UF!SetToSeqs(S) = SetToSeqs(S)
BY SameCardinality DEF UF!SetToSeqs, SetToSeqs

-----------------------------------------------------------------------------
(***************************************************************************)
(* The queue: its entries, and that no functor is in it twice.             *)
(***************************************************************************)

EntrySet == [core : Cores, pc : {"exec", "function", "reap"}]
Entries(q) == {q[i] : i \in 1..Len(q)}
Who(q) == {e.core : e \in Entries(q)}
Once(q) == \A i, j \in 1..Len(q) : q[i].core = q[j].core => i = j

LEMMA EntryType ==
  ASSUME NEW c \in Cores, NEW pc \in {"exec", "function", "reap"}
  PROVE  UF!Entry(c, pc) \in EntrySet /\ UF!Entry(c, pc).core = c /\ UF!Entry(c, pc).pc = pc
BY DEF UF!Entry, EntrySet

LEMMA EntriesType ==
  ASSUME NEW q \in Seq(EntrySet)
  PROVE  /\ \A e \in Entries(q) : e \in EntrySet /\ e.core \in Cores /\ e.core \in Who(q)
         /\ Who(q) \subseteq Cores
<1>1. \A i \in 1..Len(q) : q[i] \in EntrySet
  OBVIOUS
<1>2. \A e \in Entries(q) : e \in EntrySet
  BY <1>1 DEF Entries
<1>3. \A e \in EntrySet : e.core \in Cores
  BY DEF EntrySet
<1>4. QED
  BY <1>2, <1>3 DEF Who

\* A functor that is in a queue once has one entry in it.
LEMMA OneEntry ==
  ASSUME NEW q \in Seq(EntrySet), Once(q),
         NEW d \in Entries(q), NEW e \in Entries(q), d.core = e.core
  PROVE  d = e
BY DEF Entries, Once

\* Two queues without a common functor are joined.
LEMMA JoinedQueues ==
  ASSUME NEW p \in Seq(EntrySet), NEW q \in Seq(EntrySet), Once(p), Once(q),
         Who(p) \cap Who(q) = {}
  PROVE  /\ p \o q \in Seq(EntrySet) /\ Once(p \o q)
         /\ Entries(p \o q) = Entries(p) \cup Entries(q)
         /\ Who(p \o q) = Who(p) \cup Who(q)
<1> DEFINE r == p \o q
           m == Len(p)
           n == Len(q)
<1>1. m \in Nat /\ n \in Nat
  OBVIOUS
<1>2. /\ r \in Seq(EntrySet) /\ Len(r) = m + n
      /\ \A i \in 1..m + n : r[i] = IF i <= m THEN p[i] ELSE q[i - m]
  BY ConcatProperties
<1> HIDE DEF r
<1>3. /\ \A i \in 1..m : p[i] \in Entries(p) /\ p[i].core \in Who(p)
      /\ \A i \in 1..n : q[i] \in Entries(q) /\ q[i].core \in Who(q)
  BY DEF Entries, Who
<1>4. \A i, j \in 1..m : p[i].core = p[j].core => i = j
  BY DEF Once
<1>5. \A i, j \in 1..n : q[i].core = q[j].core => i = j
  BY DEF Once
<1>6. \A e : e \in Entries(p) <=> \E i \in 1..m : e = p[i]
  BY DEF Entries
<1>7. \A e : e \in Entries(q) <=> \E i \in 1..n : e = q[i]
  BY DEF Entries
<1> HIDE DEF m, n
<1>8. \A i \in 1..m + n : (i \in 1..m /\ i <= m) \/ (i - m \in 1..n /\ ~(i <= m))
  BY <1>1
<1>9. \A i \in 1..m : i \in 1..m + n /\ i <= m
  BY <1>1
<1>10. \A i \in 1..n : i + m \in 1..m + n /\ ~(i + m <= m) /\ (i + m) - m = i
  BY <1>1
<1>11. Once(r)
  <2> SUFFICES ASSUME NEW i \in 1..m + n, NEW j \in 1..m + n, r[i].core = r[j].core
               PROVE  i = j
    BY <1>2 DEF Once
  <2>1. CASE i <= m /\ j <= m
    BY <1>2, <1>4, <1>8, <2>1
  <2>2. CASE ~(i <= m) /\ ~(j <= m)
    <3>1. i - m \in 1..n /\ j - m \in 1..n /\ r[i] = q[i - m] /\ r[j] = q[j - m]
      BY <1>2, <1>8, <2>2
    <3>2. i - m = j - m
      BY <1>5, <3>1
    <3>3. QED
      BY <1>1, <3>2
  <2>3. CASE i <= m /\ ~(j <= m)
    <3>1. r[i].core \in Who(p) /\ r[j].core \in Who(q)
      BY <1>2, <1>3, <1>8, <2>3
    <3>2. QED
      BY <3>1
  <2>4. CASE ~(i <= m) /\ j <= m
    <3>1. r[j].core \in Who(p) /\ r[i].core \in Who(q)
      BY <1>2, <1>3, <1>8, <2>4
    <3>2. QED
      BY <3>1
  <2>5. QED
    BY <2>1, <2>2, <2>3, <2>4
<1>12. Entries(r) = Entries(p) \cup Entries(q)
  <2>1. ASSUME NEW e \in Entries(r) PROVE e \in Entries(p) \cup Entries(q)
    <3>1. PICK i \in 1..m + n : e = r[i]
      BY <1>2 DEF Entries
    <3>2. QED
      BY <1>2, <1>3, <1>8, <3>1
  <2>2. ASSUME NEW e \in Entries(p) PROVE e \in Entries(r)
    <3>1. PICK i \in 1..m : e = p[i]
      BY <1>6
    <3>2. i \in 1..m + n /\ e = r[i]
      BY <1>2, <1>9, <3>1
    <3>3. QED
      BY <1>2, <3>2 DEF Entries
  <2>3. ASSUME NEW e \in Entries(q) PROVE e \in Entries(r)
    <3>1. PICK i \in 1..n : e = q[i]
      BY <1>7
    <3>2. i + m \in 1..m + n /\ e = r[i + m]
      BY <1>2, <1>10, <3>1
    <3>3. QED
      BY <1>2, <3>2 DEF Entries
  <2>4. QED
    BY <2>1, <2>2, <2>3
<1>13. QED
  BY <1>2, <1>11, <1>12 DEF r, Who

\* The first entry leaves.
LEMMA Removed ==
  ASSUME NEW q \in Seq(EntrySet), q # << >>, Once(q)
  PROVE  /\ q[1] \in Entries(q) /\ Tail(q) \in Seq(EntrySet) /\ Once(Tail(q))
         /\ Entries(Tail(q)) = Entries(q) \ {q[1]}
         /\ Who(Tail(q)) = Who(q) \ {q[1].core}
<1> DEFINE r == Tail(q)
           n == Len(q)
<1>1. n \in Nat /\ n # 0
  OBVIOUS
<1>2. r \in Seq(EntrySet) /\ Len(r) = n - 1 /\ \A i \in 1..Len(r) : r[i] = q[i + 1]
  BY HeadTailProperties
<1> HIDE DEF r
<1>3. \A i, j \in 1..n : q[i].core = q[j].core => i = j
  BY DEF Once
<1>4. \A e : e \in Entries(q) <=> \E i \in 1..n : e = q[i]
  BY DEF Entries
<1> HIDE DEF n
<1>5. 1 \in 1..n /\ \A i \in 1..n - 1 : i + 1 \in 1..n /\ i + 1 # 1
  BY <1>1
<1>6. \A i \in 1..n : i # 1 => i - 1 \in 1..n - 1 /\ (i - 1) + 1 = i
  BY <1>1
<1>7. \A i, j \in 1..n - 1 : i + 1 = j + 1 => i = j
  BY <1>1
<1>8. Once(r)
  BY <1>2, <1>3, <1>5, <1>7 DEF Once
<1>9. \A i \in 1..n : i # 1 => q[i] # q[1] /\ q[i].core # q[1].core
  BY <1>3, <1>5
<1>10. Entries(r) = Entries(q) \ {q[1]}
  <2>1. ASSUME NEW e \in Entries(r) PROVE e \in Entries(q) \ {q[1]}
    <3>1. PICK i \in 1..n - 1 : e = r[i]
      BY <1>2 DEF Entries
    <3>2. e = q[i + 1] /\ i + 1 \in 1..n /\ i + 1 # 1
      BY <1>2, <1>5, <3>1
    <3>3. QED
      BY <1>4, <1>9, <3>2
  <2>2. ASSUME NEW e \in Entries(q), e # q[1] PROVE e \in Entries(r)
    <3>1. PICK i \in 1..n : e = q[i]
      BY <1>4
    <3>2. i - 1 \in 1..n - 1 /\ (i - 1) + 1 = i
      BY <1>6, <2>2, <3>1
    <3>3. e = r[i - 1]
      BY <1>2, <3>1, <3>2
    <3>4. QED
      BY <1>2, <3>2, <3>3 DEF Entries
  <2>3. QED
    BY <2>1, <2>2
<1>11. \A e \in Entries(q) : e # q[1] => e.core # q[1].core
  <2> SUFFICES ASSUME NEW e \in Entries(q), e # q[1] PROVE e.core # q[1].core
    OBVIOUS
  <2>1. PICK i \in 1..n : e = q[i]
    BY <1>4
  <2>2. QED
    BY <1>9, <2>1
<1>12. q[1] \in Entries(q)
  BY <1>4, <1>5
<1>13. Who(r) = Who(q) \ {q[1].core}
  BY <1>10, <1>11, <1>12 DEF Who
<1>14. QED
  BY <1>2, <1>8, <1>10, <1>12, <1>13 DEF r

\* A queue of one.
LEMMA Single ==
  ASSUME NEW e \in EntrySet
  PROVE  /\ <<e>> \in Seq(EntrySet) /\ Once(<<e>>) /\ Entries(<<e>>) = {e}
         /\ Who(<<e>>) = {e.core}
<1>1. <<e>> \in Seq(EntrySet) /\ Len(<<e>>) = 1 /\ <<e>>[1] = e /\ 1..1 = {1}
  OBVIOUS
<1>2. Entries(<<e>>) = {e}
  BY <1>1 DEF Entries
<1>3. Once(<<e>>)
  BY <1>1 DEF Once
<1>4. QED
  BY <1>1, <1>2, <1>3 DEF Who

\* An ordering of a finite set has each of its members once.
LEMMA Ordering ==
  ASSUME NEW S, IsFiniteSet(S), NEW order \in SetToSeqs(S)
  PROVE  \E n \in Nat :
           /\ order \in [1..n -> S]
           /\ \A i, j \in 1..n : order[i] = order[j] => i = j
           /\ \A s \in S : \E i \in 1..n : order[i] = s
<1> DEFINE n == Cardinality(S)
<1>1. n \in Nat
  BY FS_CardinalityType
<1>2. order \in [1..n -> S] /\ \A i, j \in 1..n : order[i] = order[j] => i = j
  BY DEF SetToSeqs
<1>3. order \in Injection(1..n, S)
  BY <1>2 DEF Injection, IsInjective
<1> HIDE DEF n
<1>4. Cardinality(1..n) = n
  BY <1>1, FS_Interval
<1>5. order \in Surjection(1..n, S)
  BY <1>3, <1>4, FS_Injection DEF n
<1>6. \A s \in S : \E i \in 1..n : order[i] = s
  BY <1>5 DEF Surjection
<1>7. QED
  BY <1>1, <1>2, <1>6

\* The threads that invoke_thread_ starts.
LEMMA Started ==
  ASSUME NEW S \in SUBSET Cores, IsFiniteSet(S), NEW order \in SetToSeqs(S)
  PROVE  LET r == [i \in DOMAIN order |-> UF!Entry(order[i], "exec")] IN
         /\ r \in Seq(EntrySet) /\ Once(r) /\ Entries(r) = {UF!Entry(c, "exec") : c \in S}
         /\ Who(r) = S
<1> DEFINE r == [i \in DOMAIN order |-> UF!Entry(order[i], "exec")]
<1>1. PICK n \in Nat :
        /\ order \in [1..n -> S]
        /\ \A i, j \in 1..n : order[i] = order[j] => i = j
        /\ \A s \in S : \E i \in 1..n : order[i] = s
  BY Ordering
<1>2. \A c \in S : UF!Entry(c, "exec") \in EntrySet /\ UF!Entry(c, "exec").core = c
  BY EntryType
<1>3. r = [i \in 1..n |-> UF!Entry(order[i], "exec")]
  BY <1>1
<1> HIDE DEF r
<1>4. \A i \in 1..n : order[i] \in S /\ r[i] = UF!Entry(order[i], "exec")
  BY <1>1, <1>3
<1>5. r \in [1..n -> EntrySet]
  BY <1>2, <1>3, <1>4
<1>6. r \in Seq(EntrySet) /\ Len(r) = n
  BY <1>5
<1>7. Once(r)
  BY <1>1, <1>2, <1>4, <1>6 DEF Once
<1>8. Entries(r) = {UF!Entry(c, "exec") : c \in S}
  BY <1>1, <1>4, <1>6 DEF Entries
<1>9. Who(r) = S
  BY <1>2, <1>8 DEF Who
<1>10. QED
  BY <1>6, <1>7, <1>8, <1>9 DEF r
-----------------------------------------------------------------------------
(***************************************************************************)
(* The invariant of the queue.                                             *)
(***************************************************************************)

\* The functors with a thread are those in the queue.
Owned == \A c \in Cores : thread_[c] <=> c \in Who(active)

\* A call is in progress for the threads that are past %exec_ufunc.
Parked ==
  /\ \A e \in Entries(active) : (e.pc = "exec") <=> (working[e.core] = Nil)
  /\ \A c \in Cores : c \notin Who(active) => working[c] = Nil

QueueInv == UF!TypeOK /\ Once(active) /\ Owned /\ Parked

\* The first entry of the queue is that of functor c.
LEMMA AtHeadOf ==
  ASSUME QueueInv, NEW c \in Cores, NEW pc \in {"exec", "function", "reap"}, UF!AtHead(c, pc)
  PROVE  /\ active \in Seq(EntrySet) /\ active # << >> /\ Once(active)
         /\ active[1] = UF!Entry(c, pc) /\ active[1].core = c /\ active[1].pc = pc
         /\ active[1] \in Entries(active) /\ c \in Who(active) /\ thread_[c]
         /\ (pc = "exec") <=> (working[c] = Nil)
         /\ Tail(active) \in Seq(EntrySet) /\ Once(Tail(active))
         /\ Entries(Tail(active)) = Entries(active) \ {active[1]}
         /\ Who(Tail(active)) = Who(active) \ {c}
         /\ \A e \in Entries(Tail(active)) : e.core # c
<1>1. active \in Seq(EntrySet) /\ active # << >> /\ Once(active) /\ active[1] = UF!Entry(c, pc)
  BY DEF QueueInv, UF!TypeOK, UF!AtHead, EntrySet
<1>2. active[1].core = c /\ active[1].pc = pc
  BY <1>1, EntryType
<1>3. /\ active[1] \in Entries(active) /\ Tail(active) \in Seq(EntrySet) /\ Once(Tail(active))
      /\ Entries(Tail(active)) = Entries(active) \ {active[1]}
      /\ Who(Tail(active)) = Who(active) \ {c}
  BY <1>1, <1>2, Removed
<1>4. c \in Who(active)
  BY <1>1, <1>2, <1>3, EntriesType
<1>5. thread_[c] /\ ((pc = "exec") <=> (working[c] = Nil))
  BY <1>2, <1>3, <1>4 DEF QueueInv, Owned, Parked
<1>6. \A e \in Entries(Tail(active)) : e.core # c
  BY <1>3, EntriesType
<1>7. QED
  BY <1>1, <1>2, <1>3, <1>4, <1>5, <1>6

\* invoke_thread_ puts the functors without a thread behind the queue, whose
\* first entry may have been taken by functors that end.
LEMMA Invoked ==
  ASSUME UF!UFuncAssumptions, QueueInv, NEW S \in SUBSET Cores, NEW q \in Seq(EntrySet), Once(q),
         NEW over \in SUBSET Who(active), Who(q) = Who(active) \ over,
         UF!invoke_thread_(S, q, over)
  PROVE  \E N \in SUBSET S :
           /\ N \cap Who(active) = {}
           /\ \A c \in S : c \in N \/ c \in Who(active)
           /\ active' \in Seq(EntrySet) /\ Once(active')
           /\ Entries(active') = Entries(q) \cup {UF!Entry(c, "exec") : c \in N}
           /\ Who(active') = Who(q) \cup N
           /\ thread_' \in [Cores -> BOOLEAN]
           /\ \A c \in Cores : thread_'[c] <=> c \notin over /\ (thread_[c] \/ c \in S)
           /\ Owned'
<1> DEFINE N == {c \in S : ~thread_[c]}
<1>1. thread_ \in [Cores -> BOOLEAN] /\ \A c \in Cores : thread_[c] <=> c \in Who(active)
  BY DEF QueueInv, UF!TypeOK, Owned
<1>2. N \in SUBSET Cores /\ N \in SUBSET S /\ N \cap Who(active) = {} /\ N \cap Who(q) = {}
  BY <1>1
<1>3. \A c \in S : c \in N \/ c \in Who(active)
  BY <1>1
<1>4. IsFiniteSet(N)
  <2>1. IsFiniteSet(Cores)
    BY SameFinite DEF UF!UFuncAssumptions
  <2>2. QED
    BY <1>2, <2>1, FS_Subset
<1>5. PICK order \in SetToSeqs(N) :
        active' = q \o [i \in DOMAIN order |-> UF!Entry(order[i], "exec")]
  BY SameOrders DEF UF!invoke_thread_
<1>6. thread_' = [c \in Cores |-> c \notin over /\ (thread_[c] \/ c \in S)]
  BY DEF UF!invoke_thread_
<1> HIDE DEF N
<1> DEFINE r == [i \in DOMAIN order |-> UF!Entry(order[i], "exec")]
<1>7. /\ r \in Seq(EntrySet) /\ Once(r) /\ Entries(r) = {UF!Entry(c, "exec") : c \in N}
      /\ Who(r) = N
  BY <1>2, <1>4, Started
<1>8. active' = q \o r
  BY <1>5
<1> HIDE DEF r
<1>9. /\ q \o r \in Seq(EntrySet) /\ Once(q \o r)
      /\ Entries(q \o r) = Entries(q) \cup Entries(r) /\ Who(q \o r) = Who(q) \cup Who(r)
  BY <1>2, <1>7, JoinedQueues
<1>10. /\ active' \in Seq(EntrySet) /\ Once(active') /\ Who(active') = Who(q) \cup N
       /\ Entries(active') = Entries(q) \cup {UF!Entry(c, "exec") : c \in N}
  BY <1>7, <1>8, <1>9
<1>11. /\ thread_' \in [Cores -> BOOLEAN]
       /\ \A c \in Cores : thread_'[c] <=> c \notin over /\ (thread_[c] \/ c \in S)
  BY <1>1, <1>6
<1>12. \A c \in Cores : thread_'[c] <=> c \in Who(active')
  BY <1>1, <1>2, <1>3, <1>10, <1>11
<1>13. Owned'
  BY <1>12 DEF Owned
<1>14. QED
  BY <1>2, <1>3, <1>10, <1>11, <1>13

\* finish_thread keeps the types; c leaves the queue, and functors that the
\* result drives and that have no thread enter it.
LEMMA Finished ==
  ASSUME UF!UFuncAssumptions, QueueInv, NEW c \in Cores, NEW pc \in {"exec", "function", "reap"},
         UF!AtHead(c, pc), NEW v \in Values, UF!finish_thread(c, v)
  PROVE  /\ active' \in Seq(EntrySet) /\ Once(active') /\ Owned'
         /\ thread_' \in [Cores -> BOOLEAN] /\ out' \in [Cores -> Values]
         /\ port_values_' \in [Cores -> [Ports -> Values \cup {Nil}]]
         /\ \E N \in SUBSET Cores :
              /\ N \cap Who(active) = {}
              /\ Entries(active') = Entries(Tail(active)) \cup {UF!Entry(d, "exec") : d \in N}
              /\ Who(active') = (Who(active) \ {c}) \cup N
         /\ \A d \in Cores : ~thread_'[d] /\ d # c
              => ~thread_[d] /\ port_values_'[d] = port_values_[d] /\ out'[d] = out[d]
<1>s. PICK S : S = {d[1] : d \in Feeds[c]}
  OBVIOUS
<1>1. /\ Tail(active) \in Seq(EntrySet) /\ Once(Tail(active)) /\ c \in Who(active)
      /\ Who(Tail(active)) = Who(active) \ {c}
  BY AtHeadOf
<1>2. Feeds[c] \in SUBSET (Cores \X Ports)
  BY DEF UF!UFuncAssumptions
<1>3. S \in SUBSET Cores
  BY <1>2, <1>s
<1>4. \A d \in Cores, p \in Ports : <<d, p>> \in Feeds[c] => d \in S
  BY <1>s
<1>b. PICK q : q = Tail(active)
  OBVIOUS
<1>e. PICK E : E = {c}
  OBVIOUS
<1>5. UF!invoke_thread_(S, q, E)
  BY <1>b, <1>e, <1>s DEF UF!finish_thread
<1>a. E \in SUBSET Who(active) /\ Who(q) = Who(active) \ E /\ q \in Seq(EntrySet) /\ Once(q)
  BY <1>1, <1>b, <1>e
<1>6. PICK N \in SUBSET S :
        /\ N \cap Who(active) = {}
        /\ \A d \in S : d \in N \/ d \in Who(active)
        /\ active' \in Seq(EntrySet) /\ Once(active')
        /\ Entries(active') = Entries(q) \cup {UF!Entry(d, "exec") : d \in N}
        /\ Who(active') = Who(q) \cup N
        /\ thread_' \in [Cores -> BOOLEAN]
        /\ \A d \in Cores : thread_'[d] <=> d \notin E /\ (thread_[d] \/ d \in S)
        /\ Owned'
  BY <1>3, <1>5, <1>a, Invoked
<1>7. /\ out \in [Cores -> Values] /\ port_values_ \in [Cores -> [Ports -> Values \cup {Nil}]]
      /\ out' = [out EXCEPT ![c] = v]
      /\ port_values_' = [d \in Cores |-> [p \in Ports |->
                            IF <<d, p>> \in Feeds[c] THEN v ELSE port_values_[d][p]]]
  BY DEF QueueInv, UF!TypeOK, UF!finish_thread
<1>8. out' \in [Cores -> Values] /\ \A d \in Cores : d # c => out'[d] = out[d]
  BY <1>7
<1>9. port_values_' \in [Cores -> [Ports -> Values \cup {Nil}]]
  BY <1>7
<1>10. ASSUME NEW d \in Cores, ~thread_'[d], d # c
       PROVE  ~thread_[d] /\ port_values_'[d] = port_values_[d] /\ out'[d] = out[d]
  <2>1. ~thread_[d] /\ d \notin S
    BY <1>e, <1>6, <1>10
  <2>2. port_values_'[d] = [p \in Ports |-> port_values_[d][p]]
    BY <1>4, <1>7, <2>1
  <2>3. port_values_[d] = [p \in Ports |-> port_values_[d][p]]
    BY <1>7
  <2>4. QED
    BY <1>8, <1>10, <2>1, <2>2, <2>3
<1>11. QED
  BY <1>1, <1>3, <1>b, <1>6, <1>8, <1>9, <1>10

\* The arguments of a call are values, also where an input has none yet.
LEMMA KnownType ==
  ASSUME UF!UFuncAssumptions, UF!TypeOK, NEW c \in Cores
  PROVE  UF!Known(port_values_[c]) \in UF!Inputs /\ Result(c, UF!Known(port_values_[c])) \in Values
<1>1. port_values_[c] \in [Ports -> Values \cup {Nil}]
  BY DEF UF!TypeOK
<1>2. UF!Known(port_values_[c]) \in UF!Inputs
  BY <1>1 DEF UF!Known, UF!Inputs, UF!UFuncAssumptions
<1>3. QED
  BY <1>2 DEF UF!Inputs, UF!UFuncAssumptions

LEMMA QueueInit ==
  ASSUME UF!UFuncAssumptions, UF!Init
  PROVE  QueueInv
<1>1. UF!TypeOK
  <2>1. active \in Seq([core : Cores, pc : {"exec", "function", "reap"}])
    BY DEF UF!Init
  <2>2. variables \in [UF!Instances -> UF!Inputs] /\ called \in [Cores -> UF!Inputs]
    BY DEF UF!Init, UF!Inputs, UF!UFuncAssumptions
  <2>3. changes \in 0..MaxChanges /\ stops \in 0..MaxStops
    BY DEF UF!Init, UF!UFuncAssumptions
  <2>4. QED
    BY <2>1, <2>2, <2>3 DEF UF!Init, UF!TypeOK, UF!UFuncAssumptions
<1>2. Len(active) = 0 /\ 1..0 = {}
  BY DEF UF!Init
<1>3. Entries(active) = {} /\ Once(active)
  BY <1>2 DEF Entries, Once
<1>4. Who(active) = {}
  BY <1>3 DEF Who
<1>5. QED
  BY <1>1, <1>3, <1>4 DEF QueueInv, Owned, Parked, UF!Init

\* A change of an input, or the trigger: a new thread has no call in progress.
LEMMA InvokeStep ==
  ASSUME UF!UFuncAssumptions, QueueInv, NEW c \in Cores, UF!invoke_thread_({c}, active, {}),
         working' = working
  PROVE  /\ active' \in Seq(EntrySet) /\ Once(active') /\ Owned' /\ Parked'
         /\ thread_' \in [Cores -> BOOLEAN] /\ thread_'[c]
         /\ \A d \in Cores : d # c => (thread_'[d] <=> thread_[d])
         /\ Entries(active') \subseteq Entries(active) \cup {UF!Entry(c, "exec")}
<1>1. PICK q, S, E : q = active /\ S = {c} /\ E = {}
  OBVIOUS
<1>2. active \in Seq(EntrySet) /\ Once(active)
  BY DEF QueueInv, UF!TypeOK, EntrySet
<1>3. /\ S \in SUBSET Cores /\ q \in Seq(EntrySet) /\ Once(q) /\ E \in SUBSET Who(active)
      /\ Who(q) = Who(active) \ E
  BY <1>1, <1>2
<1>4. UF!invoke_thread_(S, q, E)
  BY <1>1
<1>5. PICK N \in SUBSET S :
        /\ N \cap Who(active) = {}
        /\ \A d \in S : d \in N \/ d \in Who(active)
        /\ active' \in Seq(EntrySet) /\ Once(active')
        /\ Entries(active') = Entries(q) \cup {UF!Entry(d, "exec") : d \in N}
        /\ Who(active') = Who(q) \cup N
        /\ thread_' \in [Cores -> BOOLEAN]
        /\ \A d \in Cores : thread_'[d] <=> d \notin E /\ (thread_[d] \/ d \in S)
        /\ Owned'
  BY <1>3, <1>4, Invoked
<1>6. \A d \in N : d \in Cores /\ UF!Entry(d, "exec").core = d /\ UF!Entry(d, "exec").pc = "exec"
  BY <1>3, EntryType
<1>7. Parked'
  <2>1. ASSUME NEW e \in Entries(active') PROVE (e.pc = "exec") <=> (working[e.core] = Nil)
    <3>1. CASE e \in Entries(active)
      BY <3>1 DEF QueueInv, Parked
    <3>2. CASE e \in {UF!Entry(d, "exec") : d \in N}
      <4>1. PICK d \in N : e = UF!Entry(d, "exec")
        BY <3>2
      <4>2. working[d] = Nil
        BY <1>5, <1>6 DEF QueueInv, Parked
      <4>3. QED
        BY <1>6, <4>1, <4>2
    <3>3. QED
      BY <1>1, <1>5, <3>1, <3>2
  <2>2. ASSUME NEW d \in Cores, d \notin Who(active') PROVE working[d] = Nil
    BY <1>1, <1>5, <2>2 DEF QueueInv, Parked
  <2>3. QED
    BY <2>1, <2>2 DEF Parked
<1>8. thread_'[c] /\ \A d \in Cores : d # c => (thread_'[d] <=> thread_[d])
  BY <1>1, <1>5
<1>9. Entries(active') \subseteq Entries(active) \cup {UF!Entry(c, "exec")}
  BY <1>1, <1>5
<1>10. QED
  BY <1>5, <1>7, <1>8, <1>9

LEMMA DispatchStep ==
  ASSUME UF!UFuncAssumptions, QueueInv, NEW c \in Cores, NEW p \in Ports, NEW v \in Values,
         UF!dispatch_vec4_from_input_(c, p, v)
  PROVE  QueueInv'
<1>1. /\ UF!invoke_thread_({c}, active, {}) /\ changes < MaxChanges /\ changes' = changes + 1
      /\ port_values_' = [port_values_ EXCEPT ![c][p] = v]
      /\ UNCHANGED <<variables, working, idle, result, out, stops, called>>
  BY DEF UF!dispatch_vec4_from_input_
<1>2. /\ active' \in Seq(EntrySet) /\ Once(active') /\ Owned' /\ Parked'
      /\ thread_' \in [Cores -> BOOLEAN]
  BY <1>1, InvokeStep
<1>3. port_values_' \in [Cores -> [Ports -> Values \cup {Nil}]]
  BY <1>1 DEF QueueInv, UF!TypeOK
<1>4. changes' \in 0..MaxChanges
  BY <1>1 DEF QueueInv, UF!TypeOK, UF!UFuncAssumptions
<1>5. UF!TypeOK'
  BY <1>1, <1>2, <1>3, <1>4 DEF QueueInv, UF!TypeOK, EntrySet
<1>6. QED
  BY <1>2, <1>5 DEF QueueInv

LEMMA TriggerStep ==
  ASSUME UF!UFuncAssumptions, QueueInv, NEW c \in Cores, UF!recv_vec4(c)
  PROVE  QueueInv'
<1>1. /\ UF!invoke_thread_({c}, active, {}) /\ changes < MaxChanges /\ changes' = changes + 1
      /\ UNCHANGED <<port_values_, variables, working, idle, result, out, stops, called>>
  BY DEF UF!recv_vec4
<1>2. /\ active' \in Seq(EntrySet) /\ Once(active') /\ Owned' /\ Parked'
      /\ thread_' \in [Cores -> BOOLEAN]
  BY <1>1, InvokeStep
<1>3. changes' \in 0..MaxChanges
  BY <1>1 DEF QueueInv, UF!TypeOK, UF!UFuncAssumptions
<1>4. UF!TypeOK'
  BY <1>1, <1>2, <1>3 DEF QueueInv, UF!TypeOK, EntrySet
<1>5. QED
  BY <1>2, <1>4 DEF QueueInv

\* The thread of c ends: what is left and what is new in the queue is parked.
LEMMA FinishParks ==
  ASSUME UF!UFuncAssumptions, QueueInv, NEW c \in Cores, NEW pc \in {"exec", "function", "reap"},
         UF!AtHead(c, pc), NEW v \in Values, UF!finish_thread(c, v),
         working'[c] = Nil, \A d \in Cores : d # c => working'[d] = working[d]
  PROVE  Parked'
<1>1. PICK N \in SUBSET Cores :
        /\ N \cap Who(active) = {}
        /\ Entries(active') = Entries(Tail(active)) \cup {UF!Entry(d, "exec") : d \in N}
        /\ Who(active') = (Who(active) \ {c}) \cup N
  BY Finished
<1>2. /\ c \in Who(active) /\ active \in Seq(EntrySet)
      /\ \A e \in Entries(Tail(active)) : e \in Entries(active) /\ e.core # c
  BY AtHeadOf
<1>3. \A e \in Entries(active) : e.core \in Cores /\ e.core \in Who(active)
  BY <1>2, EntriesType
<1>4. /\ \A e \in Entries(active) : (e.pc = "exec") <=> (working[e.core] = Nil)
      /\ \A d \in Cores : d \notin Who(active) => working[d] = Nil
  BY DEF QueueInv, Parked
<1>5. ASSUME NEW e \in Entries(active') PROVE (e.pc = "exec") <=> (working'[e.core] = Nil)
  <2>1. CASE e \in Entries(Tail(active))
    BY <1>2, <1>3, <1>4, <2>1
  <2>2. CASE e \in {UF!Entry(d, "exec") : d \in N}
    <3>1. PICK d \in N : e = UF!Entry(d, "exec")
      BY <2>2
    <3>2. d \in Cores /\ d # c /\ e.core = d /\ e.pc = "exec"
      BY <1>1, <1>2, <3>1, EntryType
    <3>3. working'[d] = Nil
      BY <1>1, <1>4, <3>2
    <3>4. QED
      BY <3>2, <3>3
  <2>3. QED
    BY <1>1, <2>1, <2>2
<1>6. ASSUME NEW d \in Cores, d \notin Who(active') PROVE working'[d] = Nil
  BY <1>1, <1>4, <1>6
<1>7. QED
  BY <1>5, <1>6 DEF Parked

\* %exec_ufunc writes values to the variables of the instance it has chosen.
LEMMA ExecTypes ==
  ASSUME UF!UFuncAssumptions, QueueInv, NEW c \in Cores, NEW i \in UF!Instances, UF!Exec(c, i)
  PROVE  /\ variables' \in [UF!Instances -> UF!Inputs] /\ called' \in [Cores -> UF!Inputs]
         /\ variables'[i] = UF!Known(port_values_[c]) /\ called'[c] = UF!Known(port_values_[c])
         /\ changes' \in 0..MaxChanges /\ UF!AtHead(c, "exec")
         /\ \A j \in UF!Instances : j # i => variables'[j] = variables[j]
         /\ \A d \in Cores : d # c => called'[d] = called[d]
<1>1. UF!Known(port_values_[c]) \in UF!Inputs
  BY KnownType DEF QueueInv
<1>2. /\ variables \in [UF!Instances -> UF!Inputs] /\ called \in [Cores -> UF!Inputs]
      /\ changes \in 0..MaxChanges
  BY DEF QueueInv, UF!TypeOK
<1>3. /\ variables' = [variables EXCEPT ![i] = UF!Known(port_values_[c])]
      /\ called' = [called EXCEPT ![c] = UF!Known(port_values_[c])]
      /\ changes' = changes /\ UF!AtHead(c, "exec")
  BY DEF UF!Exec
<1>4. QED
  BY <1>1, <1>2, <1>3

LEMMA ExecReturnsStep ==
  ASSUME UF!UFuncAssumptions, QueueInv, NEW c \in Cores, NEW i \in UF!Instances, UF!ExecReturns(c, i)
  PROVE  /\ QueueInv'
         /\ UF!finish_thread(c, Result(c, UF!Known(port_values_[c])))
<1>1. /\ UF!Exec(c, i) /\ UF!finish_thread(c, Result(c, variables'[i]))
      /\ UNCHANGED <<working, idle, result, stops>>
  BY DEF UF!ExecReturns
<1>2. /\ variables' \in [UF!Instances -> UF!Inputs] /\ called' \in [Cores -> UF!Inputs]
      /\ variables'[i] = UF!Known(port_values_[c])
      /\ changes' \in 0..MaxChanges /\ UF!AtHead(c, "exec")
  BY <1>1, ExecTypes
<1>3. PICK v : v = Result(c, UF!Known(port_values_[c]))
  OBVIOUS
<1>4. v \in Values /\ UF!finish_thread(c, v)
  BY <1>1, <1>2, <1>3, KnownType DEF QueueInv, UF!finish_thread
<1>5. /\ active' \in Seq(EntrySet) /\ Once(active') /\ Owned'
      /\ thread_' \in [Cores -> BOOLEAN] /\ out' \in [Cores -> Values]
      /\ port_values_' \in [Cores -> [Ports -> Values \cup {Nil}]]
  BY <1>2, <1>4, Finished
<1>6. working[c] = Nil
  BY <1>2, AtHeadOf
<1>7. Parked'
  BY <1>1, <1>2, <1>4, <1>6, FinishParks
<1>8. UF!TypeOK'
  BY <1>1, <1>2, <1>5 DEF QueueInv, UF!TypeOK, EntrySet
<1>9. QED
  BY <1>3, <1>4, <1>5, <1>7, <1>8 DEF QueueInv, UF!finish_thread

LEMMA ExecStopsStep ==
  ASSUME UF!UFuncAssumptions, QueueInv, NEW c \in Cores, NEW i \in UF!Instances, UF!ExecStops(c, i)
  PROVE  QueueInv'
<1>1. /\ UF!Exec(c, i) /\ stops < MaxStops /\ stops' = stops + 1
      /\ working' = [working EXCEPT ![c] = i] /\ idle' = idle \ {i}
      /\ active' = Append(Tail(active), UF!Entry(c, "function"))
      /\ UNCHANGED <<port_values_, thread_, result, out>>
  BY DEF UF!ExecStops
<1>2. /\ variables' \in [UF!Instances -> UF!Inputs] /\ called' \in [Cores -> UF!Inputs]
      /\ changes' \in 0..MaxChanges /\ UF!AtHead(c, "exec")
  BY <1>1, ExecTypes
<1>3. /\ Tail(active) \in Seq(EntrySet) /\ Once(Tail(active)) /\ c \in Who(active)
      /\ Who(Tail(active)) = Who(active) \ {c}
      /\ active \in Seq(EntrySet)
      /\ \A e \in Entries(Tail(active)) : e \in Entries(active) /\ e.core # c
  BY <1>2, AtHeadOf
<1>4. PICK e : e = UF!Entry(c, "function")
  OBVIOUS
<1>5. e \in EntrySet /\ e.core = c /\ e.pc = "function"
  BY <1>4, EntryType
<1>6. /\ <<e>> \in Seq(EntrySet) /\ Once(<<e>>) /\ Entries(<<e>>) = {e} /\ Who(<<e>>) = {c}
  BY <1>5, Single
<1>7. active' = Tail(active) \o <<e>>
  BY <1>1, <1>3, <1>4, <1>5, AppendIsConcat
<1>8. /\ active' \in Seq(EntrySet) /\ Once(active')
      /\ Entries(active') = Entries(Tail(active)) \cup {e}
      /\ Who(active') = Who(active)
  <2>1. Who(Tail(active)) \cap Who(<<e>>) = {}
    BY <1>3, <1>6
  <2>2. /\ Tail(active) \o <<e>> \in Seq(EntrySet) /\ Once(Tail(active) \o <<e>>)
        /\ Entries(Tail(active) \o <<e>>) = Entries(Tail(active)) \cup Entries(<<e>>)
        /\ Who(Tail(active) \o <<e>>) = Who(Tail(active)) \cup Who(<<e>>)
    BY <1>3, <1>6, <2>1, JoinedQueues
  <2>3. QED
    BY <1>3, <1>6, <1>7, <2>2
<1>9. \A d \in Entries(active) : d.core \in Cores
  BY <1>3, EntriesType
<1>10. /\ working \in [Cores -> UF!Instances \cup {Nil}] /\ i # Nil
       /\ working'[c] = i /\ \A d \in Cores : d # c => working'[d] = working[d]
  BY <1>1 DEF QueueInv, UF!TypeOK, UF!Instances, UF!UFuncAssumptions
<1>11. Parked'
  <2>1. ASSUME NEW d \in Entries(active') PROVE (d.pc = "exec") <=> (working'[d.core] = Nil)
    <3>1. CASE d = e
      BY <1>5, <1>10, <3>1
    <3>2. CASE d \in Entries(Tail(active))
      BY <1>3, <1>9, <1>10, <3>2 DEF QueueInv, Parked
    <3>3. QED
      BY <1>8, <3>1, <3>2
  <2>2. ASSUME NEW d \in Cores, d \notin Who(active') PROVE working'[d] = Nil
    BY <1>3, <1>8, <1>10, <2>2 DEF QueueInv, Parked
  <2>3. QED
    BY <2>1, <2>2 DEF Parked
<1>12. Owned'
  BY <1>1, <1>8 DEF QueueInv, Owned
<1>13. stops' \in 0..MaxStops
  BY <1>1 DEF QueueInv, UF!TypeOK, UF!UFuncAssumptions
<1>14. working' \in [Cores -> UF!Instances \cup {Nil}] /\ idle' \subseteq Contexts
  BY <1>1 DEF QueueInv, UF!TypeOK
<1>15. UF!TypeOK'
  BY <1>1, <1>2, <1>8, <1>13, <1>14 DEF QueueInv, UF!TypeOK, EntrySet
<1>16. QED
  BY <1>8, <1>11, <1>12, <1>15 DEF QueueInv

LEMMA FunctionEndsStep ==
  ASSUME UF!UFuncAssumptions, QueueInv, NEW c \in Cores, UF!FunctionEnds(c)
  PROVE  QueueInv'
<1>1. /\ UF!AtHead(c, "function")
      /\ result' = [result EXCEPT ![c] = Result(c, variables[working[c]])]
      /\ active' = <<UF!Entry(c, "reap")>> \o Tail(active)
      /\ UNCHANGED <<port_values_, thread_, variables, working, idle, out, changes,
                     stops, called>>
  BY DEF UF!FunctionEnds
<1>2. /\ Tail(active) \in Seq(EntrySet) /\ Once(Tail(active)) /\ c \in Who(active)
      /\ Who(Tail(active)) = Who(active) \ {c} /\ working[c] # Nil
      /\ \A e \in Entries(Tail(active)) : e \in Entries(active)
  BY <1>1, AtHeadOf
<1>3. PICK e : e = UF!Entry(c, "reap")
  OBVIOUS
<1>4. e \in EntrySet /\ e.core = c /\ e.pc = "reap"
  BY <1>3, EntryType
<1>5. /\ <<e>> \in Seq(EntrySet) /\ Once(<<e>>) /\ Entries(<<e>>) = {e} /\ Who(<<e>>) = {c}
  BY <1>4, Single
<1>6. /\ active' \in Seq(EntrySet) /\ Once(active')
      /\ Entries(active') = Entries(Tail(active)) \cup {e}
      /\ Who(active') = Who(active)
  <2>1. active' = <<e>> \o Tail(active)
    BY <1>1, <1>3
  <2>2. Who(<<e>>) \cap Who(Tail(active)) = {}
    BY <1>2, <1>5
  <2>3. /\ <<e>> \o Tail(active) \in Seq(EntrySet) /\ Once(<<e>> \o Tail(active))
        /\ Entries(<<e>> \o Tail(active)) = Entries(<<e>>) \cup Entries(Tail(active))
        /\ Who(<<e>> \o Tail(active)) = Who(<<e>>) \cup Who(Tail(active))
    BY <1>2, <1>5, <2>2, JoinedQueues
  <2>4. QED
    BY <1>2, <1>5, <2>1, <2>3
<1>7. Parked'
  BY <1>1, <1>2, <1>4, <1>6 DEF QueueInv, Parked
<1>8. Owned'
  BY <1>1, <1>6 DEF QueueInv, Owned
<1>9. result' \in [Cores -> Values]
  <2>1. working[c] \in UF!Instances /\ variables \in [UF!Instances -> UF!Inputs] /\ result \in [Cores -> Values]
    BY <1>2 DEF QueueInv, UF!TypeOK
  <2>2. variables[working[c]] \in [Ports -> Values]
    BY <2>1 DEF UF!Inputs
  <2>3. Result(c, variables[working[c]]) \in Values
    BY <2>2 DEF UF!UFuncAssumptions
  <2>4. QED
    BY <1>1, <2>1, <2>3
<1>10. UF!TypeOK'
  BY <1>1, <1>6, <1>9 DEF QueueInv, UF!TypeOK, EntrySet
<1>11. QED
  BY <1>6, <1>7, <1>8, <1>10 DEF QueueInv

LEMMA ReapStep ==
  ASSUME UF!UFuncAssumptions, QueueInv, NEW c \in Cores, UF!of_REAP_UFUNC(c)
  PROVE  QueueInv'
<1>1. /\ UF!AtHead(c, "reap") /\ UF!finish_thread(c, result[c])
      /\ idle' = IF is_automatic THEN idle \cup {working[c]} ELSE idle
      /\ working' = [working EXCEPT ![c] = Nil]
      /\ UNCHANGED <<variables, result, changes, stops, called>>
  BY DEF UF!of_REAP_UFUNC
<1>2. PICK v : v = result[c]
  OBVIOUS
<1>3. v \in Values /\ UF!finish_thread(c, v)
  BY <1>1, <1>2 DEF QueueInv, UF!TypeOK, UF!finish_thread
<1>4. /\ active' \in Seq(EntrySet) /\ Once(active') /\ Owned'
      /\ thread_' \in [Cores -> BOOLEAN] /\ out' \in [Cores -> Values]
      /\ port_values_' \in [Cores -> [Ports -> Values \cup {Nil}]]
  BY <1>1, <1>3, Finished
<1>5. /\ working \in [Cores -> UF!Instances \cup {Nil}] /\ idle \subseteq Contexts
      /\ working[c] # Nil
  BY <1>1, AtHeadOf DEF QueueInv, UF!TypeOK
<1>6. /\ working' \in [Cores -> UF!Instances \cup {Nil}] /\ working'[c] = Nil
      /\ \A d \in Cores : d # c => working'[d] = working[d]
  BY <1>1, <1>5
<1>7. Parked'
  BY <1>1, <1>3, <1>6, FinishParks
<1>8. idle' \subseteq Contexts
  BY <1>1, <1>5 DEF UF!Instances
<1>9. UF!TypeOK'
  BY <1>1, <1>4, <1>6, <1>8 DEF QueueInv, UF!TypeOK, EntrySet
<1>10. QED
  BY <1>4, <1>7, <1>9 DEF QueueInv

LEMMA QueueStep ==
  ASSUME UF!UFuncAssumptions, QueueInv, [UF!Next]_UF!vars
  PROVE  QueueInv'
<1>1. CASE UF!Run
  BY <1>1, ExecReturnsStep, ExecStopsStep, FunctionEndsStep, ReapStep DEF UF!Run
<1>2. CASE \E c \in Cores : UF!recv_vec4(c)
  BY <1>2, TriggerStep
<1>3. CASE \E c \in Cores, p \in Ports, v \in Values : UF!dispatch_vec4_from_input_(c, p, v)
  BY <1>3, DispatchStep
<1>4. CASE UNCHANGED UF!vars
  BY <1>4 DEF UF!vars, QueueInv, UF!TypeOK, Owned, Parked
<1>5. QED
  BY <1>1, <1>2, <1>3, <1>4 DEF UF!Next
-----------------------------------------------------------------------------
(***************************************************************************)
(* Threads.                                                                *)
(***************************************************************************)

LEMMA OnceCounted ==
  ASSUME QueueInv
  PROVE  UF!OneThread
<1>1. active \in Seq(EntrySet) /\ Once(active) /\ DOMAIN active = 1..Len(active)
  BY DEF QueueInv, UF!TypeOK, EntrySet
<1> SUFFICES ASSUME NEW c \in Cores
             PROVE  Cardinality({i \in DOMAIN active : active[i].core = c})
                      = IF thread_[c] THEN 1 ELSE 0
  BY SameCardinality DEF UF!OneThread
<1> DEFINE At == {i \in DOMAIN active : active[i].core = c}
<1>2. c \in Who(active) <=> \E i \in 1..Len(active) : active[i].core = c
  BY DEF Who, Entries
<1>3. CASE thread_[c]
  <2>1. PICK i \in 1..Len(active) : active[i].core = c
    BY <1>2, <1>3 DEF QueueInv, Owned
  <2>2. At = {i}
    BY <1>1, <2>1 DEF Once
  <2>3. QED
    BY <1>3, <2>2, FS_Singleton
<1>4. CASE ~thread_[c]
  <2>1. At = {}
    BY <1>1, <1>2, <1>4 DEF QueueInv, Owned
  <2>2. QED
    BY <1>4, <2>1, FS_EmptySet
<1>5. QED
  BY <1>3, <1>4

\* ufunc_core::invoke_thread_ starts no thread for a functor that has one, and
\* finish_thread, %exec_ufunc and a stop of the function lose none, however
\* functors drive each other and whatever comes while a function is stopped.
THEOREM OneThreadPerFunctor == ASSUME UF!UFuncAssumptions PROVE UF!Spec => []UF!OneThread
<1>1. UF!Init => QueueInv
  BY QueueInit
<1>2. QueueInv /\ [UF!Next]_UF!vars => QueueInv'
  BY QueueStep
<1>3. QueueInv => UF!OneThread
  BY OnceCounted
<1>4. QED
  BY <1>1, <1>2, <1>3, PTL DEF UF!Spec

-----------------------------------------------------------------------------
(***************************************************************************)
(* Arguments of an automatic function.                                     *)
(***************************************************************************)

\* The contexts of the calls in progress are not free and not shared.
Apart ==
  /\ \A c \in Cores : working[c] # Nil => working[c] \notin idle
  /\ \A c, d \in Cores : working[c] # Nil /\ working[c] = working[d] => c = d

ArgsInv == QueueInv /\ Apart /\ UF!OwnArguments

LEMMA ArgsStep ==
  ASSUME UF!UFuncAssumptions, is_automatic, ArgsInv, [UF!Next]_UF!vars
  PROVE  ArgsInv'
<1>1. QueueInv /\ QueueInv'
  BY QueueStep DEF ArgsInv
<1>2. /\ working \in [Cores -> Contexts \cup {Nil}] /\ UF!Instances = Contexts
      /\ idle \subseteq Contexts
      /\ variables \in [Contexts -> UF!Inputs] /\ called \in [Cores -> UF!Inputs]
  BY <1>1 DEF QueueInv, UF!TypeOK, UF!Instances
<1>3. /\ \A c \in Cores : working[c] # Nil => working[c] \notin idle
      /\ \A c, d \in Cores : working[c] # Nil /\ working[c] = working[d] => c = d
      /\ \A c \in Cores : working[c] # Nil => variables[working[c]] = called[c]
  BY DEF ArgsInv, Apart, UF!OwnArguments
<1>4. ASSUME UNCHANGED <<working, idle, variables, called>>
      PROVE  Apart' /\ UF!OwnArguments'
  BY <1>3, <1>4 DEF Apart, UF!OwnArguments
<1>5. ASSUME NEW c \in Cores, NEW i \in UF!Instances, UF!ExecReturns(c, i)
      PROVE  Apart' /\ UF!OwnArguments'
  <2>1. UF!Exec(c, i) /\ UNCHANGED <<working, idle>> /\ i \in idle
    BY <1>5 DEF UF!ExecReturns, UF!Exec
  <2>2. /\ UF!AtHead(c, "exec")
        /\ \A j \in UF!Instances : j # i => variables'[j] = variables[j]
        /\ \A d \in Cores : d # c => called'[d] = called[d]
    BY <1>1, <2>1, ExecTypes
  <2>3. working[c] = Nil
    BY <1>1, <2>2, AtHeadOf
  <2>4. \A d \in Cores : working[d] # Nil => variables'[working[d]] = called'[d]
    BY <1>2, <1>3, <2>1, <2>2, <2>3
  <2>5. QED
    BY <1>3, <2>1, <2>4 DEF Apart, UF!OwnArguments
<1>6. ASSUME NEW c \in Cores, NEW i \in UF!Instances, UF!ExecStops(c, i)
      PROVE  Apart' /\ UF!OwnArguments'
  <2>1. /\ UF!Exec(c, i) /\ i \in idle /\ working' = [working EXCEPT ![c] = i]
        /\ idle' = idle \ {i}
    BY <1>6 DEF UF!ExecStops, UF!Exec
  <2>2. /\ \A j \in UF!Instances : j # i => variables'[j] = variables[j]
        /\ \A d \in Cores : d # c => called'[d] = called[d]
        /\ variables'[i] = called'[c]
    BY <1>1, <2>1, ExecTypes
  <2>3. working'[c] = i /\ \A d \in Cores : d # c => working'[d] = working[d]
    BY <1>2, <2>1
  <2>4. \A d \in Cores : d # c /\ working[d] # Nil => working[d] # i
    BY <1>3, <2>1
  <2>5. Apart'
    BY <1>3, <2>1, <2>3, <2>4 DEF Apart
  <2>6. \A d \in Cores : working'[d] # Nil => variables'[working'[d]] = called'[d]
    BY <1>2, <1>3, <2>2, <2>3, <2>4
  <2>7. QED
    BY <2>5, <2>6 DEF UF!OwnArguments
<1>7. ASSUME NEW c \in Cores, UF!of_REAP_UFUNC(c)
      PROVE  Apart' /\ UF!OwnArguments'
  <2>1. /\ UF!AtHead(c, "reap") /\ idle' = idle \cup {working[c]}
        /\ working' = [working EXCEPT ![c] = Nil] /\ UNCHANGED <<variables, called>>
    BY <1>7 DEF UF!of_REAP_UFUNC
  <2>2. working'[c] = Nil /\ \A d \in Cores : d # c => working'[d] = working[d]
    BY <1>2, <2>1
  <2>3. Apart'
    BY <1>3, <2>1, <2>2 DEF Apart
  <2>4. UF!OwnArguments'
    BY <1>3, <2>1, <2>2 DEF UF!OwnArguments
  <2>5. QED
    BY <2>3, <2>4
<1>8. CASE UF!Run
  <2>1. ASSUME NEW c \in Cores, UF!FunctionEnds(c)
        PROVE  Apart' /\ UF!OwnArguments'
    BY <1>4, <2>1 DEF UF!FunctionEnds
  <2>2. QED
    BY <1>1, <1>5, <1>6, <1>7, <1>8, <2>1 DEF UF!Run, ArgsInv
<1>9. CASE \E c \in Cores : UF!recv_vec4(c)
  BY <1>1, <1>4, <1>9 DEF UF!recv_vec4, ArgsInv
<1>10. CASE \E c \in Cores, p \in Ports, v \in Values : UF!dispatch_vec4_from_input_(c, p, v)
  BY <1>1, <1>4, <1>10 DEF UF!dispatch_vec4_from_input_, ArgsInv
<1>11. CASE UNCHANGED UF!vars
  BY <1>1, <1>4, <1>11 DEF UF!vars, ArgsInv
<1>12. QED
  BY <1>8, <1>9, <1>10, <1>11 DEF UF!Next

\* A call of an automatic function that is resumed after a $stop finds its
\* arguments as %exec_ufunc has copied them: assign_bits_to_ports of other
\* calls never writes to its context.  For a static function this is false.
THEOREM CallsKeepTheirArguments ==
  ASSUME UF!UFuncAssumptions, is_automatic
  PROVE  UF!Spec => []UF!OwnArguments
<1>1. UF!Init => ArgsInv
  BY QueueInit DEF UF!Init, ArgsInv, Apart, UF!OwnArguments
<1>2. ArgsInv /\ [UF!Next]_UF!vars => ArgsInv'
  BY ArgsStep
<1>3. ArgsInv => UF!OwnArguments
  BY DEF ArgsInv
<1>4. QED
  BY <1>1, <1>2, <1>3, PTL DEF UF!Spec

-----------------------------------------------------------------------------
(***************************************************************************)
(* The output.                                                             *)
(***************************************************************************)

\* Without stops, the queue has calls to be made only.
FollowInv ==
  QueueInv /\ (\A e \in Entries(active) : e.pc = "exec") /\ UF!FollowsInput

\* A functor that is told of a change gets a thread; the others stay as they
\* are.
LEMMA ToldFollow ==
  ASSUME UF!UFuncAssumptions, FollowInv, NEW c \in Cores, UF!invoke_thread_({c}, active, {}),
         working' = working, out' = out, \A d \in Cores : d # c => port_values_'[d] = port_values_[d]
  PROVE  (\A e \in Entries(active') : e.pc = "exec") /\ UF!FollowsInput'
<1>1. /\ thread_'[c] /\ \A d \in Cores : d # c => (thread_'[d] <=> thread_[d])
      /\ Entries(active') \subseteq Entries(active) \cup {UF!Entry(c, "exec")}
  BY InvokeStep DEF FollowInv
<1>2. UF!Entry(c, "exec").pc = "exec"
  BY EntryType
<1>3. \A e \in Entries(active') : e.pc = "exec"
  BY <1>1, <1>2 DEF FollowInv
<1>4. UF!FollowsInput'
  <2> SUFFICES ASSUME NEW d \in Cores, ~thread_'[d], NEW p \in Ports, port_values_'[d][p] # Nil
               PROVE  out'[d] = Result(d, UF!Known(port_values_'[d]))
    BY DEF UF!FollowsInput, UF!Known
  <2>1. d # c /\ ~thread_[d] /\ port_values_'[d] = port_values_[d]
    BY <1>1
  <2>2. out[d] = Result(d, UF!Known(port_values_[d]))
    BY <2>1 DEF FollowInv, UF!FollowsInput
  <2>3. QED
    BY <2>1, <2>2
<1>5. QED
  BY <1>3, <1>4

\* A call that returns: the result is what the function computes from the
\* inputs as they are once the result has been sent.
LEMMA ReturnedFollow ==
  ASSUME UF!UFuncAssumptions, UF!HoldsItsOutput, FollowInv, NEW c \in Cores, NEW i \in UF!Instances,
         UF!ExecReturns(c, i)
  PROVE  (\A e \in Entries(active') : e.pc = "exec") /\ UF!FollowsInput'
<1>1. PICK in, v : in = UF!Known(port_values_[c]) /\ v = Result(c, UF!Known(port_values_[c]))
  OBVIOUS
<1>2. QueueInv /\ UF!AtHead(c, "exec") /\ in \in [Ports -> Values] /\ v \in Values /\ v # Nil
  BY <1>1, KnownType DEF FollowInv, QueueInv, UF!Inputs, UF!ExecReturns, UF!Exec, UF!UFuncAssumptions
<1>3. UF!finish_thread(c, v)
  BY <1>1, <1>2, ExecReturnsStep, ZenonT(30) DEF UF!finish_thread
<1>4. PICK N \in SUBSET Cores :
        Entries(active') = Entries(Tail(active)) \cup {UF!Entry(d, "exec") : d \in N}
  BY <1>2, <1>3, Finished
<1>5. \A e \in Entries(active') : e.pc = "exec"
  <2>1. \A e \in Entries(Tail(active)) : e.pc = "exec"
    BY <1>2, AtHeadOf DEF FollowInv
  <2>2. \A d \in N : UF!Entry(d, "exec").pc = "exec"
    BY EntryType
  <2>3. QED
    BY <1>4, <2>1, <2>2
<1>6. \A d \in Cores : ~thread_'[d] /\ d # c
        => ~thread_[d] /\ port_values_'[d] = port_values_[d] /\ out'[d] = out[d]
  BY <1>2, <1>3, Finished
<1>7. out'[c] = Result(c, UF!Known(port_values_'[c]))
  <2>1. /\ out \in [Cores -> Values] /\ port_values_ \in [Cores -> [Ports -> Values \cup {Nil}]]
        /\ out' = [out EXCEPT ![c] = v]
        /\ port_values_' = [d \in Cores |-> [p \in Ports |->
                              IF <<d, p>> \in Feeds[c] THEN v ELSE port_values_[d][p]]]
    BY <1>2, <1>3 DEF QueueInv, UF!TypeOK, UF!finish_thread
  <2>2. \A p \in Ports : port_values_'[c][p] = IF <<c, p>> \in Feeds[c] THEN v ELSE port_values_[c][p]
    BY <2>1
  <2>3. \A p \in Ports : in[p] = IF port_values_[c][p] = Nil THEN X ELSE port_values_[c][p]
    BY <1>1 DEF UF!Known
  <2>4. UF!Known(port_values_'[c]) = [p \in Ports |-> IF <<c, p>> \in Feeds[c] THEN v ELSE in[p]]
    BY <1>2, <2>2, <2>3 DEF UF!Known
  <2>5. v = Result(c, in)
    BY <1>1
  <2>6. Result(c, UF!Known(port_values_'[c])) = v
    BY <1>2, <2>4, <2>5 DEF UF!HoldsItsOutput
  <2>7. QED
    BY <2>1, <2>6
<1>8. UF!FollowsInput'
  <2> SUFFICES ASSUME NEW d \in Cores, ~thread_'[d], NEW p \in Ports, port_values_'[d][p] # Nil
               PROVE  out'[d] = Result(d, UF!Known(port_values_'[d]))
    BY DEF UF!FollowsInput, UF!Known
  <2>1. CASE d = c
    BY <1>7, <2>1
  <2>2. CASE d # c
    <3>1. ~thread_[d] /\ port_values_'[d] = port_values_[d] /\ out'[d] = out[d]
      BY <1>6, <2>2
    <3>2. out[d] = Result(d, UF!Known(port_values_[d]))
      BY <3>1 DEF FollowInv, UF!FollowsInput
    <3>3. QED
      BY <3>1, <3>2
  <2>3. QED
    BY <2>1, <2>2
<1>9. QED
  BY <1>5, <1>8

LEMMA FollowStep ==
  ASSUME UF!UFuncAssumptions, UF!HoldsItsOutput, MaxStops = 0, FollowInv, [UF!Next]_UF!vars
  PROVE  FollowInv'
<1>1. QueueInv /\ QueueInv'
  BY QueueStep DEF FollowInv
<1>2. stops = 0
  BY <1>1 DEF QueueInv, UF!TypeOK
<1>3. CASE UF!Run
  <2>1. ASSUME NEW c \in Cores, NEW pc \in {"exec", "function", "reap"}, UF!AtHead(c, pc)
        PROVE  pc = "exec"
    BY <1>1, <2>1, AtHeadOf DEF FollowInv
  <2>2. \A c \in Cores : ~UF!FunctionEnds(c) /\ ~UF!of_REAP_UFUNC(c)
    <3>1. \A c \in Cores : ~UF!AtHead(c, "function") /\ ~UF!AtHead(c, "reap")
      BY <2>1
    <3>2. QED
      BY <3>1 DEF UF!FunctionEnds, UF!of_REAP_UFUNC
  <2>3. \A c \in Cores, i \in UF!Instances : ~UF!ExecStops(c, i)
    BY <1>2 DEF UF!ExecStops
  <2>4. PICK c \in Cores, i \in UF!Instances : UF!ExecReturns(c, i)
    BY <1>3, <2>2, <2>3 DEF UF!Run
  <2>5. QED
    BY <1>1, <2>4, ReturnedFollow DEF FollowInv
<1>4. ASSUME NEW c \in Cores, UF!recv_vec4(c)
      PROVE  FollowInv'
  BY <1>1, <1>4, ToldFollow DEF UF!recv_vec4, FollowInv
<1>5. ASSUME NEW c \in Cores, NEW p \in Ports, NEW v \in Values,
             UF!dispatch_vec4_from_input_(c, p, v)
      PROVE  FollowInv'
  <2>1. /\ UF!invoke_thread_({c}, active, {}) /\ working' = working /\ out' = out
        /\ port_values_' = [port_values_ EXCEPT ![c][p] = v]
    BY <1>5 DEF UF!dispatch_vec4_from_input_
  <2>2. \A d \in Cores : d # c => port_values_'[d] = port_values_[d]
    BY <1>1, <2>1 DEF QueueInv, UF!TypeOK
  <2>3. QED
    BY <1>1, <2>1, <2>2, ToldFollow DEF FollowInv
<1>6. CASE UNCHANGED UF!vars
  BY <1>1, <1>6 DEF UF!vars, FollowInv, UF!FollowsInput
<1>7. QED
  BY <1>3, <1>4, <1>5, <1>6 DEF UF!Next

\* A functor that has no call to make shows what its function computes from
\* its inputs, however their changes coincide and whatever the functors drive.
\* The function must not stop, and an output that the functor reads back must
\* be one it holds: in both other cases a change meets thread_ set and
\* recv_vec4_from_inputs makes no further call.
THEOREM FunctorsFollow ==
  ASSUME UF!UFuncAssumptions, UF!HoldsItsOutput, MaxStops = 0
  PROVE  UF!Spec => []UF!FollowsInput
<1>1. UF!Init => FollowInv
  <2> SUFFICES ASSUME UF!Init PROVE FollowInv
    OBVIOUS
  <2>1. QueueInv
    BY QueueInit
  <2>2. Len(active) = 0 /\ 1..0 = {}
    BY DEF UF!Init
  <2>3. Entries(active) = {}
    BY <2>2 DEF Entries
  <2>4. UF!FollowsInput
    BY DEF UF!Init, UF!FollowsInput
  <2>5. QED
    BY <2>1, <2>3, <2>4 DEF FollowInv
<1>2. FollowInv /\ [UF!Next]_UF!vars => FollowInv'
  BY FollowStep
<1>3. FollowInv => UF!FollowsInput
  BY DEF FollowInv
<1>4. QED
  BY <1>1, <1>2, <1>3, PTL DEF UF!Spec
=============================================================================
