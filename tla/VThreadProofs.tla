---------------------------- MODULE VThreadProofs ----------------------------
(***************************************************************************)
(* The threads of vvp, for every design, number of threads and set of      *)
(* events.                                                                 *)
(***************************************************************************)
EXTENDS VThread, FiniteSetTheorems, SequenceTheorems, TLAPS

-----------------------------------------------------------------------------
(***************************************************************************)
(* Lists of threads, and lists of such lists.                              *)
(***************************************************************************)

\* The threads of the list s, and those of the lists q[i].
Mem(s) == {s[i] : i \in DOMAIN s}
Mems(q) == UNION {Mem(q[i]) : i \in DOMAIN q}

\* No thread is at two places of the lists q[i].
Once(q) ==
  \A i \in DOMAIN q, k \in DOMAIN q : \A j \in DOMAIN q[i], l \in DOMAIN q[k] :
    q[i][j] = q[k][l] => i = k /\ j = l

LEMMA InMem == \A s, x : x \in Mem(s) <=> \E i \in DOMAIN s : x = s[i]
BY DEF Mem

LEMMA InMems == \A q, x : x \in Mems(q) <=> \E i \in DOMAIN q : \E j \in DOMAIN q[i] : x = q[i][j]
<1> SUFFICES ASSUME NEW q, NEW x
             PROVE  x \in Mems(q) <=> \E i \in DOMAIN q : x \in Mem(q[i])
  BY InMem
<1>1. QED
  BY DEF Mems

LEMMA EmptyList == Mem(<< >>) = {} /\ IsInjective(<< >>) /\ Mems(<< >>) = {} /\ Once(<< >>)
<1>1. \A i : i \notin DOMAIN << >>
  OBVIOUS
<1>2. Mem(<< >>) = {} /\ Mems(<< >>) = {}
  BY <1>1, InMem, InMems
<1>3. QED
  BY <1>1, <1>2 DEF IsInjective, Once

LEMMA OneThread ==
  ASSUME NEW T, NEW x \in T
  PROVE  <<x>> \in Seq(T) /\ Mem(<<x>>) = {x} /\ IsInjective(<<x>>) /\ <<x>> # << >>
<1>1. <<x>> \in Seq(T) /\ DOMAIN <<x>> = {1} /\ <<x>>[1] = x /\ <<x>> # << >>
  OBVIOUS
<1>2. Mem(<<x>>) = {x}
  BY <1>1, InMem
<1>3. QED
  BY <1>1, <1>2 DEF IsInjective

\* A list without its first thread.
LEMMA ShorterList ==
  ASSUME NEW T, NEW s \in Seq(T), s # << >>, IsInjective(s)
  PROVE  /\ Head(s) = s[1] /\ s[1] \in T /\ s[1] \in Mem(s)
         /\ Tail(s) \in Seq(T) /\ IsInjective(Tail(s)) /\ Mem(Tail(s)) = Mem(s) \ {s[1]}
<1> DEFINE r == Tail(s)
<1>1. /\ Len(s) \in Nat /\ Len(s) # 0 /\ DOMAIN s = 1..Len(s) /\ Head(s) = s[1]
      /\ r \in Seq(T) /\ Len(r) = Len(s) - 1 /\ DOMAIN r = 1..Len(r)
      /\ \A i \in 1..Len(r) : r[i] = s[i + 1]
  BY HeadTailProperties, LenProperties
<1> HIDE DEF r
<1>2. 1 \in DOMAIN s /\ \A i \in DOMAIN r : i + 1 \in DOMAIN s /\ i + 1 # 1 /\ r[i] = s[i + 1]
  BY <1>1
<1>3. \A i \in DOMAIN s : i # 1 => i - 1 \in DOMAIN r /\ r[i - 1] = s[i]
  BY <1>1
<1>4. s[1] \in T
  BY <1>1, ElementOfSeq
<1>5. IsInjective(r)
  <2> SUFFICES ASSUME NEW i \in DOMAIN r, NEW j \in DOMAIN r, r[i] = r[j] PROVE i = j
    BY DEF IsInjective
  <2>1. i + 1 = j + 1
    BY <1>2 DEF IsInjective
  <2>2. i \in Nat /\ j \in Nat
    BY <1>1
  <2>3. QED
    BY <2>1, <2>2
<1>6. ASSUME NEW x \in Mem(r) PROVE x \in Mem(s) /\ x # s[1]
  <2>1. PICK i \in DOMAIN r : x = r[i]
    BY <1>6, InMem
  <2>2. x = s[i + 1] /\ i + 1 \in DOMAIN s /\ i + 1 # 1
    BY <1>2, <2>1
  <2>3. QED
    BY <1>2, <2>2, InMem DEF IsInjective
<1>7. ASSUME NEW x \in Mem(s), x # s[1] PROVE x \in Mem(r)
  <2>1. PICK i \in DOMAIN s : x = s[i]
    BY <1>7, InMem
  <2>2. i - 1 \in DOMAIN r /\ r[i - 1] = x
    BY <1>3, <1>7, <2>1
  <2>3. QED
    BY <2>2, InMem
<1>8. Mem(r) = Mem(s) \ {s[1]}
  BY <1>6, <1>7
<1>9. s[1] \in Mem(s)
  BY <1>2, InMem
<1>10. QED
  BY <1>1, <1>4, <1>5, <1>8, <1>9 DEF r

\* A thread in front of a list, and at its end.
LEMMA LongerList ==
  ASSUME NEW T, NEW s \in Seq(T), NEW x \in T, IsInjective(s), x \notin Mem(s)
  PROVE  /\ <<x>> \o s \in Seq(T) /\ IsInjective(<<x>> \o s) /\ Mem(<<x>> \o s) = Mem(s) \cup {x}
         /\ Append(s, x) \in Seq(T) /\ IsInjective(Append(s, x)) /\ Mem(Append(s, x)) = Mem(s) \cup {x}
<1> DEFINE r == <<x>> \o s
           a == Append(s, x)
<1>1. Len(s) \in Nat /\ DOMAIN s = 1..Len(s)
  BY LenProperties
<1>2. /\ r \in Seq(T) /\ Len(r) = Len(s) + 1 /\ DOMAIN r = 1..Len(r)
      /\ \A i \in 1..Len(r) : r[i] = IF i = 1 THEN x ELSE s[i - 1]
  OBVIOUS
<1>3. /\ a \in Seq(T) /\ Len(a) = Len(s) + 1 /\ DOMAIN a = 1..Len(a)
      /\ \A i \in 1..Len(s) : a[i] = s[i]
      /\ a[Len(s) + 1] = x
  BY AppendProperties, LenProperties
<1> HIDE DEF r, a
<1>4. \A i \in DOMAIN s : s[i] # x
  BY InMem
<1>5. IsInjective(r)
  <2> SUFFICES ASSUME NEW i \in DOMAIN r, NEW j \in DOMAIN r, r[i] = r[j] PROVE i = j
    BY DEF IsInjective
  <2>1. (i = 1 \/ i - 1 \in DOMAIN s) /\ (j = 1 \/ j - 1 \in DOMAIN s) /\ i \in Nat /\ j \in Nat
    BY <1>1, <1>2
  <2>2. QED
    BY <1>2, <1>4, <2>1 DEF IsInjective
<1>6. IsInjective(a)
  <2> SUFFICES ASSUME NEW i \in DOMAIN a, NEW j \in DOMAIN a, a[i] = a[j] PROVE i = j
    BY DEF IsInjective
  <2>1. (i = Len(s) + 1 \/ i \in DOMAIN s) /\ (j = Len(s) + 1 \/ j \in DOMAIN s)
    BY <1>1, <1>3
  <2>2. QED
    BY <1>1, <1>3, <1>4, <2>1 DEF IsInjective
<1>7. \A y : y \in Mem(r) <=> (y = x \/ y \in Mem(s))
  <2>1. ASSUME NEW y \in Mem(r) PROVE y = x \/ y \in Mem(s)
    <3>1. PICK i \in DOMAIN r : y = r[i]
      BY <2>1, InMem
    <3>2. i = 1 \/ i - 1 \in DOMAIN s
      BY <1>1, <1>2
    <3>3. QED
      BY <1>2, <3>1, <3>2, InMem
  <2>2. ASSUME NEW y \in Mem(s) PROVE y \in Mem(r)
    <3>1. PICK i \in DOMAIN s : y = s[i]
      BY <2>2, InMem
    <3>2. i + 1 \in DOMAIN r /\ r[i + 1] = s[i]
      BY <1>1, <1>2
    <3>3. QED
      BY <3>1, <3>2, InMem
  <2>3. 1 \in DOMAIN r /\ r[1] = x
    BY <1>1, <1>2
  <2>4. QED
    BY <2>1, <2>2, <2>3, InMem
<1>8. \A y : y \in Mem(a) <=> (y = x \/ y \in Mem(s))
  <2>1. ASSUME NEW y \in Mem(a) PROVE y = x \/ y \in Mem(s)
    <3>1. PICK i \in DOMAIN a : y = a[i]
      BY <2>1, InMem
    <3>2. i = Len(s) + 1 \/ i \in DOMAIN s
      BY <1>1, <1>3
    <3>3. QED
      BY <1>1, <1>3, <3>1, <3>2, InMem
  <2>2. ASSUME NEW y \in Mem(s) PROVE y \in Mem(a)
    <3>1. PICK i \in DOMAIN s : y = s[i]
      BY <2>2, InMem
    <3>2. i \in DOMAIN a /\ a[i] = s[i]
      BY <1>1, <1>3
    <3>3. QED
      BY <3>1, <3>2, InMem
  <2>3. Len(s) + 1 \in DOMAIN a
    BY <1>1, <1>3
  <2>4. QED
    BY <1>3, <2>1, <2>2, <2>3, InMem
<1>9. QED
  BY <1>2, <1>3, <1>5, <1>6, <1>7, <1>8 DEF r, a

\* The first list leaves.
LEMMA FirstList ==
  ASSUME NEW T, NEW q \in Seq(Seq(T)), q # << >>, Once(q)
  PROVE  /\ q[1] \in Seq(T) /\ IsInjective(q[1]) /\ Once(Tail(q)) /\ Mem(q[1]) \cap Mems(Tail(q)) = {}
         /\ Mems(q) = Mem(q[1]) \cup Mems(Tail(q))
<1> DEFINE r == Tail(q)
<1>1. /\ Len(q) \in Nat /\ Len(q) # 0 /\ DOMAIN q = 1..Len(q)
      /\ r \in Seq(Seq(T)) /\ Len(r) = Len(q) - 1 /\ DOMAIN r = 1..Len(r)
      /\ \A i \in 1..Len(r) : r[i] = q[i + 1]
  BY HeadTailProperties, LenProperties
<1> HIDE DEF r
<1>2. 1 \in DOMAIN q /\ \A i \in DOMAIN r : i + 1 \in DOMAIN q /\ i + 1 # 1 /\ r[i] = q[i + 1] /\ i \in Nat
  BY <1>1, SMTT(20)
<1>3. \A i \in DOMAIN q : i # 1 => i - 1 \in DOMAIN r /\ r[i - 1] = q[i]
  BY <1>1, SMTT(20)
<1>4. q[1] \in Seq(T)
  BY <1>1, ElementOfSeq
<1>5. IsInjective(q[1])
  BY <1>2 DEF Once, IsInjective
<1>6. Once(r)
  <2> SUFFICES ASSUME NEW i \in DOMAIN r, NEW k \in DOMAIN r, NEW j \in DOMAIN r[i], NEW l \in DOMAIN r[k],
                      r[i][j] = r[k][l]
               PROVE  i = k /\ j = l
    BY DEF Once
  <2>1. i + 1 = k + 1 /\ j = l
    BY <1>2 DEF Once
  <2>2. QED
    BY <1>2, <2>1
<1>7. Mem(q[1]) \cap Mems(r) = {}
  <2> SUFFICES ASSUME NEW x, x \in Mem(q[1]), x \in Mems(r) PROVE FALSE
    OBVIOUS
  <2>1. PICK j \in DOMAIN q[1] : x = q[1][j]
    BY InMem
  <2>2. PICK i \in DOMAIN r : \E l \in DOMAIN r[i] : x = r[i][l]
    BY InMems
  <2>3. PICK l \in DOMAIN r[i] : x = r[i][l]
    BY <2>2
  <2>4. r[i] = q[i + 1] /\ i + 1 \in DOMAIN q /\ i + 1 # 1 /\ 1 \in DOMAIN q
    BY <1>2
  <2>5. q[1][j] = q[i + 1][l] /\ l \in DOMAIN q[i + 1]
    BY <2>1, <2>3, <2>4
  <2>6. QED
    BY <2>4, <2>5 DEF Once
<1>8. ASSUME NEW x \in Mems(q) PROVE x \in Mem(q[1]) \cup Mems(r)
  <2>1. PICK i \in DOMAIN q : \E j \in DOMAIN q[i] : x = q[i][j]
    BY <1>8, InMems
  <2>2. CASE i = 1
    BY <2>1, <2>2, InMem
  <2>3. CASE i # 1
    BY <1>3, <2>1, <2>3, InMems
  <2>4. QED
    BY <2>2, <2>3
<1>9. ASSUME NEW x \in Mem(q[1]) \cup Mems(r) PROVE x \in Mems(q)
  <2>1. CASE x \in Mem(q[1])
    BY <1>2, <2>1, InMem, InMems
  <2>2. CASE x \in Mems(r)
    <3>1. PICK i \in DOMAIN r : \E j \in DOMAIN r[i] : x = r[i][j]
      BY <2>2, InMems
    <3>2. QED
      BY <1>2, <3>1, InMems
  <2>3. QED
    BY <1>9, <2>1, <2>2
<1>10. Mems(q) = Mem(q[1]) \cup Mems(r)
  BY <1>8, <1>9
<1>11. QED
  BY <1>4, <1>5, <1>6, <1>7, <1>10 DEF r

\* A list in front of the others, and behind them.
LEMMA ListInFront ==
  ASSUME NEW T, NEW q \in Seq(Seq(T)), NEW l \in Seq(T), Once(q), IsInjective(l), Mem(l) \cap Mems(q) = {}
  PROVE  Once(<<l>> \o q) /\ Mems(<<l>> \o q) = Mems(q) \cup Mem(l)
<1> DEFINE r == <<l>> \o q
<1>1. /\ Len(q) \in Nat /\ DOMAIN q = 1..Len(q) /\ Len(r) = Len(q) + 1 /\ DOMAIN r = 1..Len(r)
      /\ \A i \in 1..Len(r) : r[i] = IF i = 1 THEN l ELSE q[i - 1]
  OBVIOUS
<1> HIDE DEF r
<1>2. \A i \in DOMAIN r : (i = 1 /\ r[i] = l) \/ (i # 1 /\ i - 1 \in DOMAIN q /\ r[i] = q[i - 1])
  BY <1>1
<1>3. 1 \in DOMAIN r /\ r[1] = l /\ \A i \in DOMAIN q : i + 1 \in DOMAIN r /\ r[i + 1] = q[i]
  BY <1>1
<1>4. \A i \in DOMAIN l : \A k \in DOMAIN q : \A j \in DOMAIN q[k] : l[i] # q[k][j]
  BY InMem, InMems
<1>5. Once(r)
  <2> SUFFICES ASSUME NEW i \in DOMAIN r, NEW k \in DOMAIN r, NEW j \in DOMAIN r[i], NEW m \in DOMAIN r[k],
                      r[i][j] = r[k][m]
               PROVE  i = k /\ j = m
    BY DEF Once
  <2>1. CASE i = 1 /\ k = 1
    BY <1>3, <2>1 DEF IsInjective
  <2>2. CASE i = 1 /\ k # 1
    BY <1>2, <1>3, <1>4, <2>2
  <2>3. CASE i # 1 /\ k = 1
    BY <1>2, <1>3, <1>4, <2>3
  <2>4. CASE i # 1 /\ k # 1
    <3>1. i - 1 = k - 1 /\ j = m
      BY <1>2, <2>4 DEF Once
    <3>2. i \in Nat /\ k \in Nat
      BY <1>1
    <3>3. QED
      BY <3>1, <3>2
  <2>5. QED
    BY <2>1, <2>2, <2>3, <2>4
<1>6. ASSUME NEW x \in Mems(r) PROVE x \in Mems(q) \cup Mem(l)
  <2>1. PICK i \in DOMAIN r : \E j \in DOMAIN r[i] : x = r[i][j]
    BY <1>6, InMems
  <2>2. QED
    BY <1>2, <2>1, InMem, InMems
<1>7. ASSUME NEW x \in Mems(q) \cup Mem(l) PROVE x \in Mems(r)
  <2>1. CASE x \in Mem(l)
    BY <1>3, <2>1, InMem, InMems
  <2>2. CASE x \in Mems(q)
    <3>1. PICK i \in DOMAIN q : \E j \in DOMAIN q[i] : x = q[i][j]
      BY <2>2, InMems
    <3>2. QED
      BY <1>3, <3>1, InMems
  <2>3. QED
    BY <1>7, <2>1, <2>2
<1>8. Mems(r) = Mems(q) \cup Mem(l)
  BY <1>6, <1>7
<1>9. QED
  BY <1>5, <1>8 DEF r

LEMMA ListBehind ==
  ASSUME NEW T, NEW q \in Seq(Seq(T)), NEW l \in Seq(T), Once(q), IsInjective(l), Mem(l) \cap Mems(q) = {}
  PROVE  Once(Append(q, l)) /\ Mems(Append(q, l)) = Mems(q) \cup Mem(l)
<1> DEFINE r == Append(q, l)
           n == Len(q) + 1
<1>1. /\ Len(q) \in Nat /\ DOMAIN q = 1..Len(q) /\ Len(r) = n /\ DOMAIN r = 1..Len(r)
      /\ \A i \in 1..Len(q) : r[i] = q[i]
      /\ r[n] = l
  BY AppendProperties, LenProperties
<1> HIDE DEF r
<1>2. \A i \in DOMAIN r : (i = n /\ r[i] = l) \/ (i # n /\ i \in DOMAIN q /\ r[i] = q[i])
  BY <1>1
<1>3. n \in DOMAIN r /\ \A i \in DOMAIN q : i \in DOMAIN r /\ r[i] = q[i]
  BY <1>1
<1>4. \A i \in DOMAIN l : \A k \in DOMAIN q : \A j \in DOMAIN q[k] : l[i] # q[k][j]
  BY InMem, InMems
<1> HIDE DEF n
<1>5. Once(r)
  <2> SUFFICES ASSUME NEW i \in DOMAIN r, NEW k \in DOMAIN r, NEW j \in DOMAIN r[i], NEW m \in DOMAIN r[k],
                      r[i][j] = r[k][m]
               PROVE  i = k /\ j = m
    BY DEF Once
  <2>1. CASE i = n /\ k = n
    BY <1>1, <2>1 DEF IsInjective
  <2>2. CASE i = n /\ k # n
    BY <1>2, <1>4, <2>2
  <2>3. CASE i # n /\ k = n
    BY <1>2, <1>4, <2>3
  <2>4. CASE i # n /\ k # n
    BY <1>2, <2>4 DEF Once
  <2>5. QED
    BY <2>1, <2>2, <2>3, <2>4
<1>6. ASSUME NEW x \in Mems(r) PROVE x \in Mems(q) \cup Mem(l)
  <2>1. PICK i \in DOMAIN r : \E j \in DOMAIN r[i] : x = r[i][j]
    BY <1>6, InMems
  <2>2. QED
    BY <1>2, <2>1, InMem, InMems
<1>7. ASSUME NEW x \in Mems(q) \cup Mem(l) PROVE x \in Mems(r)
  <2>1. CASE x \in Mem(l)
    BY <1>1, <1>3, <2>1, InMem, InMems
  <2>2. CASE x \in Mems(q)
    <3>1. PICK i \in DOMAIN q : \E j \in DOMAIN q[i] : x = q[i][j]
      BY <2>2, InMems
    <3>2. QED
      BY <1>3, <3>1, InMems
  <2>3. QED
    BY <1>7, <2>1, <2>2
<1>8. Mems(r) = Mems(q) \cup Mem(l)
  BY <1>6, <1>7
<1>9. QED
  BY <1>5, <1>8 DEF r

\* One of the lists is replaced; the new one only holds threads of the old one
\* and threads of X, which were in no list.
Replaced(q, r, e, X) ==
  /\ e \in DOMAIN q /\ DOMAIN r = DOMAIN q /\ \A i \in DOMAIN q : i # e => r[i] = q[i]
  /\ Once(q) /\ IsInjective(r[e]) /\ Mem(r[e]) \subseteq Mem(q[e]) \cup X /\ X \cap Mems(q) = {}

LEMMA ListReplaced ==
  ASSUME NEW q, NEW r, NEW e, NEW X, Replaced(q, r, e, X)
  PROVE  Once(r) /\ Mems(r) = (Mems(q) \ Mem(q[e])) \cup Mem(r[e])
<1> USE DEF Replaced
<1>1. \A x \in Mem(r[e]) : \A i \in DOMAIN q : i # e => \A j \in DOMAIN q[i] : x # q[i][j]
  <2> SUFFICES ASSUME NEW x \in Mem(r[e]), NEW i \in DOMAIN q, i # e, NEW j \in DOMAIN q[i], x = q[i][j]
               PROVE  FALSE
    OBVIOUS
  <2>1. x \in Mems(q)
    BY InMems
  <2>2. PICK k \in DOMAIN q[e] : x = q[e][k]
    BY <2>1, InMem
  <2>3. QED
    BY <2>2, ZenonT(30) DEF Once
<1>2. Once(r)
  <2> SUFFICES ASSUME NEW i \in DOMAIN r, NEW k \in DOMAIN r, NEW j \in DOMAIN r[i], NEW l \in DOMAIN r[k],
                      r[i][j] = r[k][l]
               PROVE  i = k /\ j = l
    BY DEF Once
  <2>1. CASE i = e /\ k = e
    BY <2>1 DEF IsInjective
  <2>2. CASE i = e /\ k # e
    BY <1>1, <2>2, InMem
  <2>3. CASE i # e /\ k = e
    BY <1>1, <2>3, InMem
  <2>4. CASE i # e /\ k # e
    BY <2>4 DEF Once
  <2>5. QED
    BY <2>1, <2>2, <2>3, <2>4
<1>3. ASSUME NEW x \in Mems(r) PROVE x \in (Mems(q) \ Mem(q[e])) \cup Mem(r[e])
  <2>1. PICK i \in DOMAIN r : \E j \in DOMAIN r[i] : x = r[i][j]
    BY <1>3, InMems
  <2>2. CASE i = e
    BY <2>1, <2>2, InMem
  <2>3. CASE i # e
    <3>1. x \in Mems(q)
      BY <2>1, <2>3, InMems
    <3>2. x \notin Mem(q[e])
      BY <2>1, <2>3, InMem DEF Once
    <3>3. QED
      BY <3>1, <3>2
  <2>4. QED
    BY <2>2, <2>3
<1>4. ASSUME NEW x \in (Mems(q) \ Mem(q[e])) \cup Mem(r[e]) PROVE x \in Mems(r)
  <2>1. CASE x \in Mem(r[e])
    BY <2>1, InMem, InMems
  <2>2. CASE x \in Mems(q) /\ x \notin Mem(q[e])
    <3>1. PICK i \in DOMAIN q : \E j \in DOMAIN q[i] : x = q[i][j]
      BY <2>2, InMems
    <3>2. i # e
      BY <2>2, <3>1, InMem
    <3>3. QED
      BY <3>1, <3>2, InMems
  <2>3. QED
    BY <1>4, <2>1, <2>2
<1>5. QED
  BY <1>2, <1>3, <1>4

\* The same of the lists of the model.
LEMMA LongerTids ==
  ASSUME NEW s \in Seq(Tid), NEW x \in Tid, IsInjective(s), x \notin Mem(s)
  PROVE  /\ <<x>> \o s \in Seq(Tid) /\ IsInjective(<<x>> \o s) /\ Mem(<<x>> \o s) = Mem(s) \cup {x}
         /\ Append(s, x) \in Seq(Tid) /\ IsInjective(Append(s, x))
         /\ Mem(Append(s, x)) = Mem(s) \cup {x}
BY LongerList

\* Every thread of a list in a list of its own.
LEMMA Singles ==
  ASSUME NEW T, NEW s \in Seq(T), IsInjective(s), NEW q, q = [i \in DOMAIN s |-> <<s[i]>>]
  PROVE  q \in Seq(Seq(T) \ {<< >>}) /\ Once(q) /\ Mems(q) = Mem(s)
<1>1. DOMAIN q = DOMAIN s /\ \A i \in DOMAIN s : q[i] = <<s[i]>> /\ DOMAIN q[i] = {1} /\ q[i][1] = s[i]
  OBVIOUS
<1>2. \A i \in DOMAIN s : s[i] \in T
  BY LenProperties, ElementOfSeq
<1>3. \A i \in DOMAIN s : q[i] \in Seq(T) \ {<< >>}
  BY <1>1, <1>2
<1>4. Len(s) \in Nat /\ DOMAIN s = 1..Len(s)
  BY LenProperties
<1>5. q \in Seq(Seq(T) \ {<< >>})
  <2>1. q \in [1..Len(s) -> Seq(T) \ {<< >>}]
    BY <1>3, <1>4
  <2>2. QED
    BY <1>4, <2>1
<1>6. Once(q)
  BY <1>1 DEF Once, IsInjective
<1>7. \A x : x \in Mems(q) <=> x \in Mem(s)
  BY <1>1, InMem, InMems
<1>8. QED
  BY <1>5, <1>6, <1>7

\* The number of the places of a thread.
LEMMA CountPlaces ==
  ASSUME NEW q, Once(q), NEW t
  PROVE  Cardinality(Places(q, t)) = IF t \in Mems(q) THEN 1 ELSE 0
<1>1. \A p : p \in Places(q, t) <=> \E i \in DOMAIN q : \E j \in DOMAIN q[i] : q[i][j] = t /\ p = <<i, j>>
  BY DEF Places
<1>2. CASE t \notin Mems(q)
  <2>1. Places(q, t) = {}
    BY <1>1, <1>2, InMems
  <2>2. QED
    BY <1>2, <2>1, FS_EmptySet
<1>3. CASE t \in Mems(q)
  <2>1. PICK i \in DOMAIN q : \E j \in DOMAIN q[i] : t = q[i][j]
    BY <1>3, InMems
  <2>2. PICK j \in DOMAIN q[i] : t = q[i][j]
    BY <2>1
  <2>3. \A p : p \in Places(q, t) <=> p = <<i, j>>
    BY <1>1, <2>2 DEF Once
  <2>4. Places(q, t) = {<<i, j>>}
    BY <2>3
  <2>5. QED
    BY <1>3, <2>4, FS_Singleton
<1>4. QED
  BY <1>2, <1>3

LEMMA CountList ==
  ASSUME NEW s, IsInjective(s), NEW t
  PROVE  Cardinality({i \in DOMAIN s : s[i] = t}) = IF t \in Mem(s) THEN 1 ELSE 0
<1>1. CASE t \notin Mem(s)
  <2>1. {i \in DOMAIN s : s[i] = t} = {}
    BY <1>1, InMem
  <2>2. QED
    BY <1>1, <2>1, FS_EmptySet
<1>2. CASE t \in Mem(s)
  <2>1. PICK i \in DOMAIN s : t = s[i]
    BY <1>2, InMem
  <2>2. {k \in DOMAIN s : s[k] = t} = {i}
    BY <2>1 DEF IsInjective
  <2>3. QED
    BY <1>2, <2>2, FS_Singleton
<1>3. QED
  BY <1>1, <1>2

LEMMA CountSet == \A S, t : Cardinality({t} \cap S) = IF t \in S THEN 1 ELSE 0
<1> SUFFICES ASSUME NEW S, NEW t PROVE Cardinality({t} \cap S) = IF t \in S THEN 1 ELSE 0
  OBVIOUS
<1>1. CASE t \in S
  <2>1. {t} \cap S = {t}
    BY <1>1
  <2>2. QED
    BY <1>1, <2>1, FS_Singleton
<1>2. CASE t \notin S
  <2>1. {t} \cap S = {}
    BY <1>2
  <2>2. QED
    BY <1>2, <2>1, FS_EmptySet
<1>3. QED
  BY <1>1, <1>2

-----------------------------------------------------------------------------
(***************************************************************************)
(* Types.                                                                  *)
(***************************************************************************)

\* The states of the threads.
Threads == [Tid -> Thread]

LEMMA NewType ==
  /\ \A s \in Scopes : vthread_new(s) \in Thread
  /\ Unborn \in Thread /\ Deleted \in Thread
<1>1. \A s \in Scopes : vthread_new(s) \in Thread
  BY ThreadsAssumption DEF vthread_new, Thread
<1>2. PICK m \in Scopes : m = CHOOSE x \in Modules : TRUE
  BY RootsAssumption
<1>3. vthread_new(m) \in Thread
  BY <1>1
<1>4. Unborn = [vthread_new(m) EXCEPT !.status = "unborn", !.in_scope = FALSE, !.pc = "null"]
  BY <1>2 DEF Unborn
<1>5. Unborn \in Thread
  BY <1>3, <1>4 DEF Thread
<1>6. Deleted \in Thread
  BY <1>5 DEF Thread, Deleted
<1>7. QED
  BY <1>1, <1>5, <1>6

\* The fields of new and of deleted threads.
LEMMA NewFields ==
  /\ Unborn.status = "unborn" /\ Unborn.pc = "null" /\ Unborn.in_scope = FALSE /\ Unborn.parent = Nil
  /\ Unborn.children = {} /\ Unborn.detached_children = {} /\ Unborn.is_scheduled = FALSE
  /\ Unborn.waiting_for_event = FALSE /\ Unborn.i_am_joining = FALSE /\ Unborn.i_am_waiting = FALSE /\ Unborn.i_have_ended = FALSE
  /\ Unborn.i_am_detached = FALSE /\ Unborn.i_am_in_function = FALSE
  /\ Deleted.status = "deleted" /\ Deleted.pc = "null" /\ Deleted.in_scope = FALSE /\ Deleted.parent = Nil
  /\ Deleted.children = {} /\ Deleted.detached_children = {} /\ Deleted.is_scheduled = FALSE
  /\ Deleted.waiting_for_event = FALSE /\ Deleted.i_am_joining = FALSE /\ Deleted.i_am_waiting = FALSE /\ Deleted.i_have_ended = FALSE
  /\ Deleted.i_am_detached = FALSE /\ Deleted.i_am_in_function = FALSE
BY DEF Unborn, Deleted, vthread_new

LEMMA ReleaseType ==
  ASSUME NEW r \in Thread
  PROVE  Release(r) \in Thread /\ ReleaseIfIdle(r) \in Thread
<1>1. Release(r) \in Thread
  BY NewType DEF Release, Thread
<1>2. QED
  BY <1>1 DEF ReleaseIfIdle

\* What Unlinked, Orphan and Off change, and what they leave.
LEMMA UnlinkedFields ==
  ASSUME NEW r \in Thread
  PROVE  /\ Unlinked(r) \in Thread
         /\ Unlinked(r).parent = Nil /\ ~Unlinked(r).in_scope /\ Unlinked(r).pc = "null"
         /\ Unlinked(r).status = r.status /\ Unlinked(r).parent_scope = r.parent_scope
         /\ Unlinked(r).children = r.children
         /\ Unlinked(r).detached_children = r.detached_children
         /\ Unlinked(r).i_am_joining = r.i_am_joining
         /\ Unlinked(r).i_am_detached = r.i_am_detached
         /\ Unlinked(r).i_am_waiting = r.i_am_waiting
         /\ Unlinked(r).i_am_in_function = r.i_am_in_function
         /\ Unlinked(r).is_scheduled = r.is_scheduled
         /\ Unlinked(r).i_have_ended = r.i_have_ended
         /\ Unlinked(r).waiting_for_event = r.waiting_for_event
         /\ Unlinked(r).delay_delete = r.delay_delete /\ Unlinked(r).scope = r.scope
         /\ Unlinked(r).forks = r.forks /\ Unlinked(r).joins = r.joins
         /\ Unlinked(r).detach = r.detach
BY DEF Thread, Unlinked

LEMMA OrphanFields ==
  ASSUME NEW r \in Thread
  PROVE  /\ Orphan(r) \in Thread
         /\ Orphan(r).parent = Nil /\ ~Orphan(r).i_am_detached
         /\ Orphan(r).status = r.status /\ Orphan(r).parent_scope = r.parent_scope
         /\ Orphan(r).in_scope = r.in_scope /\ Orphan(r).pc = r.pc
         /\ Orphan(r).children = r.children /\ Orphan(r).detached_children = r.detached_children
         /\ Orphan(r).i_am_joining = r.i_am_joining /\ Orphan(r).i_am_waiting = r.i_am_waiting
         /\ Orphan(r).i_am_in_function = r.i_am_in_function
         /\ Orphan(r).is_scheduled = r.is_scheduled /\ Orphan(r).i_have_ended = r.i_have_ended
         /\ Orphan(r).waiting_for_event = r.waiting_for_event
         /\ Orphan(r).delay_delete = r.delay_delete /\ Orphan(r).scope = r.scope
         /\ Orphan(r).forks = r.forks /\ Orphan(r).joins = r.joins
         /\ Orphan(r).detach = r.detach
BY DEF Thread, Orphan

LEMMA OffFields ==
  ASSUME NEW r \in Thread
  PROVE  /\ Off(r) \in Thread
         /\ Off(r).pc = "null" /\ ~Off(r).in_scope /\ Off(r).i_have_ended /\ Off(r).children = {}
         /\ Off(r).i_am_joining = (r.i_am_joining /\ r.children = {})
         /\ Off(r).status = r.status /\ Off(r).parent_scope = r.parent_scope
         /\ Off(r).parent = r.parent /\ Off(r).detached_children = r.detached_children
         /\ Off(r).i_am_detached = r.i_am_detached /\ Off(r).i_am_waiting = r.i_am_waiting
         /\ Off(r).i_am_in_function = r.i_am_in_function /\ Off(r).is_scheduled = r.is_scheduled
         /\ Off(r).waiting_for_event = r.waiting_for_event
         /\ Off(r).delay_delete = r.delay_delete /\ Off(r).scope = r.scope
         /\ Off(r).forks = r.forks /\ Off(r).joins = r.joins /\ Off(r).detach = r.detach
<1>1. PICK j \in BOOLEAN : j = (r.i_am_joining /\ r.children = {})
  OBVIOUS
<1>2. Off(r) = [r EXCEPT !.in_scope = FALSE, !.pc = "null", !.i_have_ended = TRUE,
                         !.i_am_joining = j, !.children = {}]
  BY <1>1 DEF Off
<1>3. QED
  BY <1>1, <1>2, ZenonT(30) DEF Thread

LEMMA ReleaseFields ==
  ASSUME NEW r \in Thread, r.pc = "null", r.parent = Nil, ~r.in_scope
  PROVE  /\ Release(r) \in Thread /\ Release(r).status \in {"del_thr", "deleted"}
         /\ Release(r).pc = "null" /\ Release(r).parent = Nil /\ ~Release(r).in_scope
         /\ Release(r).children \subseteq r.children /\ (Release(r).is_scheduled => r.is_scheduled)
         /\ (Release(r).waiting_for_event => r.waiting_for_event)
         /\ (Release(r).i_am_joining => r.i_am_joining) /\ (Release(r).i_am_waiting => r.i_am_waiting)
         /\ (Release(r).i_am_waiting => Release(r).i_have_ended = r.i_have_ended)
<1>1. CASE r.delay_delete
  <2>1. Release(r) = [r EXCEPT !.status = "del_thr"]
    BY <1>1 DEF Release
  <2>2. QED
    BY <2>1 DEF Thread
<1>2. CASE ~r.delay_delete
  <2>1. Release(r) = Deleted
    BY <1>2 DEF Release
  <2>2. QED
    BY <2>1, NewType, NewFields
<1>3. QED
  BY <1>1, <1>2

-----------------------------------------------------------------------------
(***************************************************************************)
(* Changes of a thread that have nothing to do with the queue, the wait    *)
(* lists and the calls in progress.                                        *)
(***************************************************************************)

\* A change of r to x that keeps its flags; it may end a %join or a %wait/fork,
\* and delete a thread that no list holds.
Quiet(r, x) ==
  /\ x.is_scheduled = r.is_scheduled /\ x.waiting_for_event = r.waiting_for_event
  /\ (x.i_am_joining => r.i_am_joining) /\ (x.i_am_waiting => r.i_am_waiting)
  /\ (x.status = "unborn" => r.status = "unborn") /\ (x.pc = "code" => r.pc = "code")
  /\ x.status = r.status \/ (x.pc = "null" /\ ~r.is_scheduled /\ ~r.waiting_for_event)

QuietAll(th, tg) == tg \in Threads /\ \A u \in Tid : Quiet(th[u], tg[u])

LEMMA QuietSelf == \A r : Quiet(r, r)
BY DEF Quiet

LEMMA QuietTrans ==
  ASSUME NEW r \in Thread, NEW x \in Thread, NEW y \in Thread, Quiet(r, x), Quiet(x, y)
  PROVE  Quiet(r, y)
<1>1. x.pc = "null" => y.pc = "null"
  BY DEF Quiet, Thread
<1>2. QED
  BY <1>1 DEF Quiet

LEMMA QuietAllTrans ==
  ASSUME NEW f \in Threads, NEW g \in Threads, NEW h \in Threads, QuietAll(f, g), QuietAll(g, h)
  PROVE  QuietAll(f, h)
<1>1. \A u \in Tid : f[u] \in Thread /\ g[u] \in Thread /\ h[u] \in Thread
  BY DEF Threads
<1>2. QED
  BY <1>1, QuietTrans DEF QuietAll

LEMMA QuietParts ==
  ASSUME NEW r \in Thread
  PROVE  Quiet(r, Unlinked(r)) /\ Quiet(r, Orphan(r)) /\ Quiet(r, Off(r))
BY UnlinkedFields, OrphanFields, OffFields DEF Quiet

LEMMA QuietRelease ==
  ASSUME NEW r \in Thread, r.pc = "null", r.parent = Nil, ~r.in_scope
  PROVE  /\ ReleaseIfIdle(r) \in Thread /\ Quiet(r, ReleaseIfIdle(r))
         /\ ~r.is_scheduled /\ ~r.waiting_for_event => Quiet(r, Release(r))
<1>1. ~r.is_scheduled /\ ~r.waiting_for_event => Quiet(r, Release(r))
  <2>1. r.is_scheduled \in BOOLEAN /\ r.waiting_for_event \in BOOLEAN
    BY DEF Thread
  <2>2. Release(r).is_scheduled \in BOOLEAN /\ Release(r).waiting_for_event \in BOOLEAN
    BY ReleaseFields DEF Thread
  <2>3. QED
    BY <2>1, <2>2, ReleaseFields DEF Quiet
<1>2. QED
  BY <1>1, ReleaseFields, QuietSelf DEF ReleaseIfIdle

\* What a thread becomes that is reaped, turned off or not.
LEMMA QuietReaped ==
  ASSUME NEW r \in Thread
  PROVE  /\ ReleaseIfIdle(Unlinked(r)) \in Thread /\ Quiet(r, ReleaseIfIdle(Unlinked(r)))
         /\ ReleaseIfIdle(Unlinked(Off(r))) \in Thread /\ Quiet(r, ReleaseIfIdle(Unlinked(Off(r))))
<1>1. Unlinked(r) \in Thread /\ Off(r) \in Thread /\ Unlinked(Off(r)) \in Thread
  BY UnlinkedFields, OffFields
<1>2. /\ Unlinked(r).pc = "null" /\ Unlinked(r).parent = Nil /\ ~Unlinked(r).in_scope
      /\ Unlinked(Off(r)).pc = "null" /\ Unlinked(Off(r)).parent = Nil /\ ~Unlinked(Off(r)).in_scope
  BY <1>1, UnlinkedFields
<1>3. /\ ReleaseIfIdle(Unlinked(r)) \in Thread /\ Quiet(Unlinked(r), ReleaseIfIdle(Unlinked(r)))
      /\ ReleaseIfIdle(Unlinked(Off(r))) \in Thread
      /\ Quiet(Unlinked(Off(r)), ReleaseIfIdle(Unlinked(Off(r))))
  BY <1>1, <1>2, QuietRelease
<1>4. Quiet(r, Unlinked(r)) /\ Quiet(r, Off(r)) /\ Quiet(Off(r), Unlinked(Off(r)))
  BY <1>1, QuietParts
<1>5. Quiet(r, Unlinked(Off(r)))
  BY <1>1, <1>4, QuietTrans
<1>6. QED
  BY <1>1, <1>3, <1>4, <1>5, QuietTrans

LEMMA QuietFamily ==
  ASSUME NEW r \in Thread, NEW p \in Tid \cup {Nil}, NEW S \in SUBSET Tid
  PROVE  /\ [r EXCEPT !.parent = p] \in Thread /\ Quiet(r, [r EXCEPT !.parent = p])
         /\ [r EXCEPT !.children = S] \in Thread /\ Quiet(r, [r EXCEPT !.children = S])
         /\ [r EXCEPT !.detached_children = S] \in Thread
         /\ Quiet(r, [r EXCEPT !.detached_children = S])
         /\ [r EXCEPT !.i_am_detached = TRUE] \in Thread
         /\ Quiet(r, [r EXCEPT !.i_am_detached = TRUE])
<1>1. [r EXCEPT !.parent = p] \in Thread /\ Quiet(r, [r EXCEPT !.parent = p])
  BY DEF Quiet, Thread
<1>2. [r EXCEPT !.children = S] \in Thread /\ Quiet(r, [r EXCEPT !.children = S])
  BY DEF Quiet, Thread
<1>3. [r EXCEPT !.detached_children = S] \in Thread /\ Quiet(r, [r EXCEPT !.detached_children = S])
  BY DEF Quiet, Thread
<1>4. [r EXCEPT !.i_am_detached = TRUE] \in Thread /\ Quiet(r, [r EXCEPT !.i_am_detached = TRUE])
  BY ZenonT(30) DEF Quiet, Thread
<1>5. QED
  BY <1>1, <1>2, <1>3, <1>4

LEMMA ReapQuiet ==
  ASSUME NEW th \in Threads, NEW t \in Tid
  PROVE  vthread_reap(th, t) \in Threads /\ QuietAll(th, vthread_reap(th, t))
<1> DEFINE p == th[t].parent
           x(u) == vthread_reap(th, t)[u]
<1>1. \A u \in Tid : th[u] \in Thread
  BY DEF Threads
<1>2. p \in Tid \cup {Nil} /\ \A u \in Tid : th[u].children \ {t} \in SUBSET Tid /\ th[u].detached_children \ {t} \in SUBSET Tid
  BY <1>1 DEF Thread
<1>3. ASSUME NEW u \in Tid
      PROVE  \/ u = t /\ x(u) = ReleaseIfIdle(Unlinked(th[t]))
             \/ x(u) = [th[u] EXCEPT !.parent = p]
             \/ x(u) = Orphan(th[u])
             \/ x(u) = [th[u] EXCEPT !.detached_children = th[u].detached_children \ {t}]
             \/ x(u) = [th[u] EXCEPT !.children = th[u].children \ {t}]
             \/ x(u) = th[u]
  BY DEF vthread_reap
<1>4. ASSUME NEW u \in Tid PROVE x(u) \in Thread /\ Quiet(th[u], x(u))
  <2> HIDE DEF x, p
  <2>1. PICK r \in Thread : r = th[u]
    BY <1>1
  <2>2. PICK S \in SUBSET Tid : S = th[u].children \ {t}
    BY <1>2
  <2>3. PICK D \in SUBSET Tid : D = th[u].detached_children \ {t}
    BY <1>2
  <2>4. \/ x(u) = ReleaseIfIdle(Unlinked(r))
        \/ x(u) = [r EXCEPT !.parent = p]
        \/ x(u) = Orphan(r)
        \/ x(u) = [r EXCEPT !.detached_children = D]
        \/ x(u) = [r EXCEPT !.children = S]
        \/ x(u) = r
    BY <1>3, <2>1, <2>2, <2>3
  <2>5. p \in Tid \cup {Nil}
    BY <1>2
  <2>6. x(u) \in Thread /\ Quiet(r, x(u))
    <3>1. CASE x(u) = ReleaseIfIdle(Unlinked(r))
      BY <3>1, QuietReaped
    <3>2. CASE x(u) = [r EXCEPT !.parent = p]
      BY <2>5, <3>2, QuietFamily
    <3>3. CASE x(u) = Orphan(r)
      BY <3>3, QuietParts, OrphanFields
    <3>4. CASE x(u) = [r EXCEPT !.detached_children = D]
      BY <3>4, QuietFamily
    <3>5. CASE x(u) = [r EXCEPT !.children = S]
      BY <3>5, QuietFamily
    <3>6. CASE x(u) = r
      BY <3>6, QuietSelf
    <3>7. QED
      BY <2>4, <3>1, <3>2, <3>3, <3>4, <3>5, <3>6
  <2>7. QED
    BY <2>1, <2>6
<1>5. DOMAIN vthread_reap(th, t) = Tid /\ vthread_reap(th, t) = [u \in Tid |-> vthread_reap(th, t)[u]]
  BY DEF vthread_reap
<1>6. QED
  BY <1>4, <1>5 DEF Threads, QuietAll

LEMMA TurnOffQuiet ==
  ASSUME NEW th \in Threads, NEW t \in Tid
  PROVE  TurnOff(th, t) \in Threads /\ QuietAll(th, TurnOff(th, t))
<1> DEFINE x(u) == TurnOff(th, t)[u]
<1>1. \A u \in Tid : th[u] \in Thread
  BY DEF Threads
<1>2. ASSUME NEW u \in Tid
      PROVE  \/ x(u) = Off(th[u]) \/ x(u) = ReleaseIfIdle(Unlinked(Off(th[u])))
             \/ x(u) = Orphan(th[u]) \/ x(u) = th[u]
  BY DEF TurnOff
<1>3. DOMAIN TurnOff(th, t) = Tid /\ TurnOff(th, t) = [u \in Tid |-> TurnOff(th, t)[u]]
  BY DEF TurnOff
<1>4. ASSUME NEW u \in Tid PROVE x(u) \in Thread /\ Quiet(th[u], x(u))
  <2> HIDE DEF x
  <2>1. PICK r \in Thread : r = th[u]
    BY <1>1
  <2>2. \/ x(u) = Off(r) \/ x(u) = ReleaseIfIdle(Unlinked(Off(r))) \/ x(u) = Orphan(r) \/ x(u) = r
    BY <1>2, <2>1
  <2>3. Quiet(r, Off(r)) /\ Quiet(r, Orphan(r)) /\ Off(r) \in Thread /\ Orphan(r) \in Thread
    BY QuietParts, OrphanFields, OffFields
  <2>4. QED
    BY <2>1, <2>2, <2>3, QuietReaped, QuietSelf
<1>5. QED
  BY <1>3, <1>4 DEF Threads, QuietAll

\* A thread f that sleeps in a %join or a %wait/fork is woken up and becomes g.
Awakes(f, g) ==
  /\ f \in Thread /\ g \in Thread
  /\ g.is_scheduled /\ g.waiting_for_event = f.waiting_for_event /\ g.status = f.status /\ g.pc = f.pc
  /\ \/ f.i_am_joining /\ ~g.i_am_joining /\ g.i_am_waiting = f.i_am_waiting
     \/ f.i_am_waiting /\ ~g.i_am_waiting /\ g.i_am_joining = f.i_am_joining

\* The thread p is woken up, and nothing else happens to the flags.
WakesOne(th, tg, p) ==
  /\ p \in Tid /\ tg \in Threads
  /\ \A u \in Tid : u # p => Quiet(th[u], tg[u])
  /\ \E f, g \in Thread : Quiet(th[p], f) /\ Awakes(f, g) /\ Quiet(g, tg[p])

LEMMA WakeJoin ==
  ASSUME NEW f \in Thread, f.i_am_joining, NEW a \in BOOLEAN
  PROVE  LET g == [f EXCEPT !.i_am_joining = FALSE, !.is_scheduled = a]
         IN  /\ g \in Thread
             /\ a => Awakes(f, g)
             /\ a = f.is_scheduled => Quiet(f, g)
             /\ g.parent = f.parent /\ g.children = f.children
             /\ g.detached_children = f.detached_children /\ g.i_am_detached = f.i_am_detached
             /\ g.status = f.status /\ g.pc = f.pc /\ g.i_have_ended = f.i_have_ended
<1>1. PICK g : g = [f EXCEPT !.i_am_joining = FALSE, !.is_scheduled = a]
  OBVIOUS
<1>2. /\ g \in Thread /\ g.is_scheduled = a /\ ~g.i_am_joining
      /\ g.waiting_for_event = f.waiting_for_event /\ g.i_am_waiting = f.i_am_waiting
  BY <1>1 DEF Thread
<1>3. /\ g.parent = f.parent /\ g.children = f.children
      /\ g.detached_children = f.detached_children /\ g.i_am_detached = f.i_am_detached
      /\ g.status = f.status /\ g.pc = f.pc /\ g.i_have_ended = f.i_have_ended
  BY <1>1 DEF Thread
<1>4. (a => Awakes(f, g)) /\ (a = f.is_scheduled => Quiet(f, g))
  BY <1>2, <1>3 DEF Awakes, Quiet
<1>5. QED
  BY <1>1, <1>2, <1>3, <1>4

LEMMA DisableEffect ==
  ASSUME NEW th \in Threads, NEW t \in Tid
  PROVE  /\ do_disable(th, t) \in Threads
         /\ ~DisableSchedules(th, t) => QuietAll(th, do_disable(th, t))
         /\ DisableSchedules(th, t) => WakesOne(th, do_disable(th, t), th[t].parent)
<1> DEFINE p == th[t].parent
<1>1. PICK off \in Threads : off = TurnOff(th, t) /\ QuietAll(th, off)
  BY TurnOffQuiet
<1>2. \A u \in Tid : th[u] \in Thread /\ off[u] \in Thread
  BY DEF Threads
<1>3. p \in Tid \cup {Nil} /\ off[t].parent = p
  <2>1. off[t] = Off(th[t])
    BY <1>1 DEF TurnOff
  <2>2. QED
    BY <1>2, <2>1, OffFields DEF Thread
<1>4. DisableSchedules(th, t) <=> WakesParent(off, t) /\ ~off[p].i_have_ended
  BY <1>1 DEF DisableSchedules
<1>5. CASE ~WakesParent(off, t)
  <2>1. do_disable(th, t) = off \/ do_disable(th, t) = vthread_reap(off, t)
    BY <1>1, <1>5 DEF do_disable
  <2>2. vthread_reap(off, t) \in Threads /\ QuietAll(off, vthread_reap(off, t))
    BY ReapQuiet
  <2>3. QuietAll(th, vthread_reap(off, t))
    BY <1>1, <2>2, QuietAllTrans
  <2>4. QED
    BY <1>1, <1>4, <1>5, <2>1, <2>2, <2>3
<1>6. CASE WakesParent(off, t)
  <2>1. p \in Tid /\ off[p].i_am_joining
    BY <1>3, <1>6 DEF WakesParent
  <2>2. PICK f \in Thread : f = off[p]
    BY <1>2, <2>1
  <2>3. PICK a \in BOOLEAN : a = (f.is_scheduled \/ ~f.i_have_ended)
    OBVIOUS
  <2>4. PICK g : g = [f EXCEPT !.i_am_joining = FALSE, !.is_scheduled = a]
    OBVIOUS
  <2>5. g \in Thread /\ (a => Awakes(f, g)) /\ (a = f.is_scheduled => Quiet(f, g))
    BY <2>1, <2>2, <2>4, WakeJoin
  <2>6. PICK up : up = [off EXCEPT ![p] = g]
    OBVIOUS
  <2>7. do_disable(th, t) = vthread_reap(up, t)
    <3>1. [off EXCEPT ![p].i_am_joining = FALSE, ![p].is_scheduled = @ \/ ~off[p].i_have_ended] = up
      BY <2>1, <2>2, <2>3, <2>4, <2>6 DEF Threads
    <3>2. QED
      BY <1>1, <1>6, <3>1 DEF do_disable
  <2>8. up \in Threads /\ up[p] = g /\ \A u \in Tid : u # p => up[u] = off[u]
    BY <2>1, <2>5, <2>6 DEF Threads
  <2>9. PICK h \in Threads : h = vthread_reap(up, t) /\ QuietAll(up, h)
    BY <2>8, ReapQuiet
  <2>10. \A u \in Tid : up[u] \in Thread /\ h[u] \in Thread /\ Quiet(th[u], off[u]) /\ Quiet(up[u], h[u])
    BY <1>1, <2>8, <2>9 DEF QuietAll, Threads
  <2>11. \A u \in Tid : u # p => Quiet(th[u], h[u])
    BY <1>2, <2>8, <2>10, QuietTrans
  <2>12. CASE DisableSchedules(th, t)
    <3>1. a
      BY <1>4, <2>2, <2>3, <2>12
    <3>2. Awakes(f, g) /\ Quiet(th[p], f) /\ Quiet(g, h[p])
      BY <2>1, <2>2, <2>5, <2>8, <2>10, <3>1
    <3>3. WakesOne(th, h, p)
      BY <2>1, <2>5, <2>9, <2>11, <3>2 DEF WakesOne
    <3>4. QED
      BY <2>7, <2>9, <2>12, <3>3
  <2>13. CASE ~DisableSchedules(th, t)
    <3>1. a = f.is_scheduled
      <4>1. f.is_scheduled \in BOOLEAN /\ f.i_have_ended
        BY <1>4, <1>6, <2>2, <2>13 DEF Thread
      <4>2. QED
        BY <2>3, <4>1
    <3>2. Quiet(th[p], f) /\ Quiet(f, g) /\ Quiet(g, h[p])
      BY <2>1, <2>2, <2>5, <2>8, <2>10, <3>1
    <3>3. Quiet(th[p], h[p])
      BY <1>2, <2>1, <2>5, <2>10, <3>2, QuietTrans
    <3>4. QuietAll(th, h)
      BY <2>11, <3>3 DEF QuietAll
    <3>5. QED
      BY <2>7, <2>9, <2>13, <3>4
  <2>14. QED
    BY <2>12, <2>13
<1>7. QED
  BY <1>5, <1>6

-----------------------------------------------------------------------------
(***************************************************************************)
(* The flags of a thread.                                                  *)
(***************************************************************************)

\* The flags of the thread r say that it is in the queue (q) or in a wait list
\* (w); it is in one of them, or running (on), or asleep in a %join or a
\* %wait/fork, and never in two of these at once.  A thread that is deleted, or
\* to be deleted, or not yet created, waits for nothing and is not delayed (l).
FlagsOf(r, q, w, on, l) ==
  /\ r.is_scheduled = q /\ r.waiting_for_event = w
  /\ q => ~w /\ ~r.i_am_joining /\ ~r.i_am_waiting /\ ~on
  /\ w => ~r.i_am_joining /\ ~r.i_am_waiting /\ ~on
  /\ r.i_am_joining => ~r.i_am_waiting /\ ~on
  /\ r.i_am_waiting => ~on
  /\ l => q
  /\ r.status # "alive" => r.pc = "null" /\ ~w /\ ~l
  /\ r.status = "unborn" => ~q /\ ~r.i_am_joining /\ ~r.i_am_waiting /\ ~on

LEMMA FlagsQuiet ==
  ASSUME NEW r \in Thread, NEW x \in Thread, NEW q \in BOOLEAN, NEW w \in BOOLEAN, NEW on \in BOOLEAN,
         NEW l \in BOOLEAN, NEW on2 \in BOOLEAN, FlagsOf(r, q, w, on, l), Quiet(r, x), on2 => on
  PROVE  FlagsOf(x, q, w, on2, l)
<1>1. r.pc = "null" => x.pc = "null"
  BY DEF Quiet, Thread
<1>2. QED
  BY <1>1, Zenon DEF FlagsOf, Quiet

LEMMA FlagsWake ==
  ASSUME NEW r \in Thread, NEW x \in Thread, NEW f \in Thread, NEW g \in Thread, NEW q \in BOOLEAN,
         NEW w \in BOOLEAN, NEW on \in BOOLEAN, NEW l \in BOOLEAN,
         FlagsOf(r, q, w, on, l), Quiet(r, f), Awakes(f, g), Quiet(g, x)
  PROVE  ~q /\ ~w /\ ~on /\ ~l /\ FlagsOf(x, TRUE, w, on, l)
<1>1. FlagsOf(f, q, w, on, l)
  BY FlagsQuiet
<1>2. ~q /\ ~w /\ ~on /\ ~l
  BY <1>1 DEF FlagsOf, Awakes
<1>3. FlagsOf(g, TRUE, w, on, l)
  BY <1>1, <1>2 DEF FlagsOf, Awakes
<1>4. QED
  BY <1>2, <1>3, FlagsQuiet

\* The changes of the flags of the thread that runs, or starts to run.
LEMMA FlagsChange ==
  ASSUME NEW r \in Thread, NEW q \in BOOLEAN, NEW w \in BOOLEAN, NEW on \in BOOLEAN, NEW l \in BOOLEAN,
         FlagsOf(r, q, w, on, l)
  PROVE  /\ [r EXCEPT !.is_scheduled = FALSE] \in Thread
         /\ q => FlagsOf([r EXCEPT !.is_scheduled = FALSE], FALSE, w, TRUE, FALSE)
         /\ [r EXCEPT !.is_scheduled = TRUE] \in Thread
         /\ on => \A m \in BOOLEAN : (m => r.pc = "code") =>
                    FlagsOf([r EXCEPT !.is_scheduled = TRUE], TRUE, w, FALSE, m)
         /\ [r EXCEPT !.waiting_for_event = TRUE] \in Thread
         /\ on /\ r.pc = "code" => FlagsOf([r EXCEPT !.waiting_for_event = TRUE], q, TRUE, FALSE, l)
         /\ [r EXCEPT !.i_am_joining = TRUE] \in Thread
         /\ on => FlagsOf([r EXCEPT !.i_am_joining = TRUE], q, w, FALSE, l)
         /\ [r EXCEPT !.i_am_waiting = TRUE] \in Thread
         /\ on => FlagsOf([r EXCEPT !.i_am_waiting = TRUE], q, w, FALSE, l)
         /\ [r EXCEPT !.waiting_for_event = FALSE, !.is_scheduled = TRUE] \in Thread
         /\ w => FlagsOf([r EXCEPT !.waiting_for_event = FALSE, !.is_scheduled = TRUE], TRUE, FALSE, on, l)
<1>1. PICK x : x = [r EXCEPT !.is_scheduled = FALSE]
  OBVIOUS
<1>2. x \in Thread /\ (q => FlagsOf(x, FALSE, w, TRUE, FALSE))
  BY <1>1 DEF Thread, FlagsOf
<1>3. PICK y : y = [r EXCEPT !.is_scheduled = TRUE]
  OBVIOUS
<1>4. y \in Thread /\ (on => \A m \in BOOLEAN : (m => r.pc = "code") => FlagsOf(y, TRUE, w, FALSE, m))
  BY <1>3 DEF Thread, FlagsOf
<1>5. PICK z : z = [r EXCEPT !.waiting_for_event = TRUE]
  OBVIOUS
<1>6. z \in Thread /\ (on /\ r.pc = "code" => FlagsOf(z, q, TRUE, FALSE, l))
  BY <1>5 DEF Thread, FlagsOf
<1>7. PICK j : j = [r EXCEPT !.i_am_joining = TRUE]
  OBVIOUS
<1>8. j \in Thread /\ (on => FlagsOf(j, q, w, FALSE, l))
  BY <1>7 DEF Thread, FlagsOf
<1>9. PICK k : k = [r EXCEPT !.i_am_waiting = TRUE]
  OBVIOUS
<1>10. k \in Thread /\ (on => FlagsOf(k, q, w, FALSE, l))
  BY <1>9 DEF Thread, FlagsOf
<1>11. PICK v : v = [r EXCEPT !.waiting_for_event = FALSE, !.is_scheduled = TRUE]
  OBVIOUS
<1>12. v \in Thread /\ (w => FlagsOf(v, TRUE, FALSE, on, l))
  BY <1>11 DEF Thread, FlagsOf
<1>13. QED
  BY <1>1, <1>2, <1>3, <1>4, <1>5, <1>6, <1>7, <1>8, <1>9, <1>10, <1>11, <1>12

-----------------------------------------------------------------------------
(***************************************************************************)
(* The invariant behind FlagsAreTrue.                                      *)
(***************************************************************************)

\* The threads in the queue and in the lists being run.
Queued == Mems(active) \cup Mem(inactive) \cup later \cup Mems(Rests)

\* The threads whose call of vthread_run, or of an opcode, is in progress; the
\* innermost one is done when its opcode has returned false.
Calls == {t \in Tid : \E i \in DOMAIN stack : stack[i].thr = t /\ (i = 1 => ~ret)}

ListsOnce ==
  /\ Once(active) /\ IsInjective(inactive) /\ Once(Rests) /\ Once(waiting)
  /\ Mems(active) \cap Mem(inactive) = {} /\ Mems(active) \cap later = {}
  /\ Mems(active) \cap Mems(Rests) = {} /\ Mem(inactive) \cap later = {}
  /\ Mem(inactive) \cap Mems(Rests) = {} /\ later \cap Mems(Rests) = {}

FlagsHold ==
  \A t \in Tid :
    FlagsOf(thread[t], t \in Queued, t \in Mems(waiting), t \in Calls, t \in later)

\* Only the outermost call is an event's, no thread has two calls, and %disable
\* is the opcode of a thread that runs.
Frames ==
  /\ \A i, k \in DOMAIN stack : stack[i].thr = stack[k].thr => i = k
  /\ \A i \in DOMAIN stack : stack[i].call # "event" => i + 1 \in DOMAIN stack
  /\ \A i \in DOMAIN stack : thread[stack[i].thr].status # "unborn"
  /\ disabling # Nil => ~ret /\ stack # << >>

FlagInv == TypeOK /\ ListsOnce /\ FlagsHold /\ Frames

LEMMA FlagTypes ==
  ASSUME FlagInv
  PROVE  /\ thread \in Threads /\ active \in Seq(Seq(Tid)) /\ inactive \in Seq(Tid) /\ later \in SUBSET Tid
         /\ stack \in Seq(Frame) /\ Rests \in Seq(Seq(Tid)) /\ Len(Rests) = Len(stack)
         /\ DOMAIN stack = 1..Len(stack) /\ DOMAIN Rests = 1..Len(stack) /\ Len(stack) \in Nat
         /\ \A i \in DOMAIN stack : stack[i] \in Frame /\ stack[i].thr \in Tid /\ Rests[i] = stack[i].rest
         /\ \A t \in Tid : thread[t] \in Thread
         /\ waiting \in [Events -> Seq(Tid)] /\ ret \in BOOLEAN /\ failed \in BOOLEAN
<1>1. /\ thread \in Threads /\ inactive \in Seq(Tid) /\ later \in SUBSET Tid /\ stack \in Seq(Frame)
      /\ waiting \in [Events -> Seq(Tid)] /\ ret \in BOOLEAN /\ failed \in BOOLEAN
      /\ active \in Seq(Seq(Tid) \ {<< >>})
  BY DEF FlagInv, TypeOK, Threads
<1>2. active \in Seq(Seq(Tid))
  BY <1>1
<1>3. DOMAIN stack = 1..Len(stack) /\ Len(stack) \in Nat /\ \A i \in 1..Len(stack) : stack[i] \in Frame
  BY <1>1
<1>4. \A i \in DOMAIN stack : stack[i].thr \in Tid /\ stack[i].rest \in Seq(Tid)
  BY <1>3 DEF Frame
<1>5. Rests = [i \in 1..Len(stack) |-> stack[i].rest]
  BY <1>3 DEF Rests
<1>6. Rests \in Seq(Seq(Tid)) /\ Len(Rests) = Len(stack)
  BY <1>3, <1>4, <1>5
<1>7. QED
  BY <1>1, <1>2, <1>3, <1>4, <1>5, <1>6 DEF Threads

\* FlagsAreTrue is what the invariant says of the flags, in numbers.
LEMMA FlagsCounted == FlagInv => FlagsAreTrue
<1> SUFFICES ASSUME FlagInv, NEW t \in Tid
             PROVE  /\ Scheduled(t) = IF thread[t].is_scheduled THEN 1 ELSE 0
                    /\ Waiting(t) = IF thread[t].waiting_for_event THEN 1 ELSE 0
                    /\ ~(thread[t].is_scheduled /\ thread[t].waiting_for_event)
  BY DEF FlagsAreTrue
<1>1. /\ thread[t].is_scheduled = (t \in Queued) /\ thread[t].waiting_for_event = (t \in Mems(waiting))
      /\ ~(thread[t].is_scheduled /\ thread[t].waiting_for_event)
  BY DEF FlagInv, FlagsHold, FlagsOf
<1>2. PICK a : a = Cardinality(Places(active, t))
  OBVIOUS
<1>3. PICK b : b = Cardinality({i \in DOMAIN inactive : inactive[i] = t})
  OBVIOUS
<1>4. PICK c : c = Cardinality({t} \cap later)
  OBVIOUS
<1>5. PICK d : d = Cardinality(Places(Rests, t))
  OBVIOUS
<1>6. a = (IF t \in Mems(active) THEN 1 ELSE 0) /\ d = (IF t \in Mems(Rests) THEN 1 ELSE 0)
  BY <1>2, <1>5, CountPlaces DEF FlagInv, ListsOnce
<1>7. b = (IF t \in Mem(inactive) THEN 1 ELSE 0) /\ c = (IF t \in later THEN 1 ELSE 0)
  BY <1>3, <1>4, CountList, CountSet DEF FlagInv, ListsOnce
<1>8. Scheduled(t) = a + b + c + d
  BY <1>2, <1>3, <1>4, <1>5 DEF Scheduled
<1>9. Scheduled(t) = IF t \in Queued THEN 1 ELSE 0
  BY <1>6, <1>7, <1>8 DEF Queued, FlagInv, ListsOnce
<1>10. Waiting(t) = IF t \in Mems(waiting) THEN 1 ELSE 0
  BY CountPlaces DEF Waiting, FlagInv, ListsOnce
<1>11. QED
  BY <1>1, <1>9, <1>10

\* The root threads are scheduled.
LEMMA FlagsInit == Init => FlagInv
<1> SUFFICES ASSUME Init PROVE FlagInv
  OBVIOUS
<1>1. PICK m \in Modules :
        /\ thread = [t \in Tid |-> IF \E i \in DOMAIN Roots[m] : Roots[m][i] = t
                                     THEN [vthread_new(m) EXCEPT !.is_scheduled = TRUE]
                                     ELSE Unborn]
        /\ active = [i \in DOMAIN Roots[m] |-> <<Roots[m][i]>>]
  BY DEF Init
<1>2. /\ inactive = << >> /\ later = {} /\ waiting = [e \in Events |-> << >>]
      /\ stack = << >> /\ ret = FALSE /\ disabling = Nil /\ failed = FALSE
  BY DEF Init
<1>3. PICK s \in Seq(Tid) : s = Roots[m] /\ IsInjective(s)
  BY RootsAssumption
<1>4. active \in Seq(Seq(Tid) \ {<< >>}) /\ Once(active) /\ Mems(active) = Mem(s)
  BY <1>1, <1>3, Singles
<1>5. Rests = << >>
  BY <1>2 DEF Rests
<1>6. Mem(inactive) = {} /\ IsInjective(inactive) /\ Mems(Rests) = {} /\ Once(Rests)
  BY <1>2, <1>5, EmptyList
<1>7. Mems(waiting) = {} /\ Once(waiting)
  <2>1. \A e \in DOMAIN waiting : waiting[e] = << >> /\ \A j : j \notin DOMAIN waiting[e]
    BY <1>2
  <2>2. QED
    BY <2>1, InMems DEF Once
<1>8. Calls = {}
  BY <1>2 DEF Calls
<1>9. PICK r : r = [vthread_new(m) EXCEPT !.is_scheduled = TRUE]
  OBVIOUS
<1>10. /\ r \in Thread /\ r.is_scheduled = TRUE /\ r.waiting_for_event = FALSE /\ r.i_am_joining = FALSE
       /\ r.i_am_waiting = FALSE /\ r.status = "alive"
  <2>1. PICK n \in Thread : n = vthread_new(m)
    BY NewType, RootsAssumption
  <2>2. /\ n.waiting_for_event = FALSE /\ n.i_am_joining = FALSE /\ n.i_am_waiting = FALSE
        /\ n.status = "alive"
    BY <2>1 DEF vthread_new
  <2>3. r = [n EXCEPT !.is_scheduled = TRUE]
    BY <1>9, <2>1
  <2>4. QED
    BY <2>2, <2>3 DEF Thread
<1>11. ASSUME NEW t \in Tid
       PROVE  thread[t] \in Thread /\ FlagsOf(thread[t], t \in Mem(s), FALSE, FALSE, FALSE)
  <2>1. CASE t \in Mem(s)
    <3>1. thread[t] = r
      BY <1>1, <1>3, <1>9, <2>1, InMem
    <3>2. QED
      BY <1>10, <2>1, <3>1 DEF FlagsOf
  <2>2. CASE t \notin Mem(s)
    <3>1. thread[t] = Unborn
      BY <1>1, <1>3, <2>2, InMem
    <3>2. PICK x \in Thread : x = Unborn
      BY NewType
    <3>3. /\ x.is_scheduled = FALSE /\ x.waiting_for_event = FALSE /\ x.i_am_joining = FALSE
          /\ x.i_am_waiting = FALSE /\ x.status = "unborn" /\ x.pc = "null" /\ (t \in Mem(s)) = FALSE
      BY <2>2, <3>2, NewFields
    <3>4. FlagsOf(x, t \in Mem(s), FALSE, FALSE, FALSE)
      BY <3>3 DEF FlagsOf
    <3>5. QED
      BY <3>1, <3>2, <3>4
  <2>3. QED
    BY <2>1, <2>2
<1>12. Queued = Mem(s)
  BY <1>2, <1>4, <1>6 DEF Queued
<1>13. FlagsHold
  <2> SUFFICES ASSUME NEW t \in Tid
               PROVE  FlagsOf(thread[t], t \in Queued, t \in Mems(waiting), t \in Calls, t \in later)
    BY DEF FlagsHold
  <2>1. (t \in Mems(waiting)) = FALSE /\ (t \in Calls) = FALSE /\ (t \in later) = FALSE
    BY <1>2, <1>7, <1>8
  <2>2. QED
    BY <1>11, <1>12, <2>1
<1>14. TypeOK
  <2>1. thread \in [Tid -> Thread]
    BY <1>1, <1>11
  <2>2. inactive \in Seq(Tid) /\ later \subseteq Tid /\ waiting \in [Events -> Seq(Tid)]
    BY <1>2
  <2>3. stack \in Seq(Frame)
    BY <1>2, EmptySeq
  <2>4. QED
    BY <1>2, <1>4, <2>1, <2>2, <2>3, Zenon DEF TypeOK
<1>15. ListsOnce
  BY <1>2, <1>4, <1>6, <1>7 DEF ListsOnce
<1>16. Frames
  BY <1>2 DEF Frames
<1>17. QED
  BY <1>13, <1>14, <1>15, <1>16 DEF FlagInv

-----------------------------------------------------------------------------
(***************************************************************************)
(* Steps that leave the lists alone, and steps that wake a thread up.      *)
(***************************************************************************)

\* The flags of all threads, Q being in the queue, W in the wait lists, C in
\* calls in progress and L delayed.
FlagsAll(th, Q, W, C, L) == \A t \in Tid : FlagsOf(th[t], t \in Q, t \in W, t \in C, t \in L)

\* Whether x is in A, as a value.
LEMMA Truth == \A A, x : \E b \in BOOLEAN : b = (x \in A)
<1> SUFFICES ASSUME NEW A, NEW x PROVE \E b \in BOOLEAN : b = (x \in A)
  OBVIOUS
<1>1. CASE x \in A
  <2>1. TRUE = (x \in A)
    BY <1>1
  <2>2. QED
    BY <2>1
<1>2. CASE x \notin A
  <2>1. FALSE = (x \in A)
    BY <1>2
  <2>2. QED
    BY <2>1
<1>3. QED
  BY <1>1, <1>2

LEMMA FlagsOneQuiet ==
  ASSUME NEW r \in Thread, NEW x \in Thread, Quiet(r, x), NEW t, NEW Q, NEW W, NEW C, NEW L, NEW D,
         FlagsOf(r, t \in Q, t \in W, t \in C, t \in L), t \in D => t \in C
  PROVE  FlagsOf(x, t \in Q, t \in W, t \in D, t \in L)
<1>1. PICK q \in BOOLEAN : q = (t \in Q)
  BY Truth
<1>2. PICK w \in BOOLEAN : w = (t \in W)
  BY Truth
<1>3. PICK c \in BOOLEAN : c = (t \in C)
  BY Truth
<1>4. PICK l \in BOOLEAN : l = (t \in L)
  BY Truth
<1>5. PICK d \in BOOLEAN : d = (t \in D)
  BY Truth
<1>6. FlagsOf(r, q, w, c, l) /\ (d => c)
  BY <1>1, <1>2, <1>3, <1>4, <1>5
<1>7. FlagsOf(x, q, w, d, l)
  BY <1>6, FlagsQuiet
<1>8. QED
  BY <1>1, <1>2, <1>4, <1>5, <1>7

LEMMA FlagsAllQuiet ==
  ASSUME NEW th \in Threads, NEW tg \in Threads, QuietAll(th, tg), NEW Q, NEW W, NEW C, NEW L, NEW D,
         FlagsAll(th, Q, W, C, L), D \subseteq C
  PROVE  FlagsAll(tg, Q, W, D, L)
<1> SUFFICES ASSUME NEW t \in Tid PROVE FlagsOf(tg[t], t \in Q, t \in W, t \in D, t \in L)
  BY DEF FlagsAll
<1>1. FlagsOf(th[t], t \in Q, t \in W, t \in C, t \in L) /\ (t \in D => t \in C)
  BY DEF FlagsAll
<1>2. th[t] \in Thread /\ tg[t] \in Thread /\ Quiet(th[t], tg[t])
  BY DEF QuietAll, Threads
<1>3. QED
  BY <1>1, <1>2, FlagsOneQuiet

LEMMA FlagsAllWake ==
  ASSUME NEW th \in Threads, NEW tg \in Threads, NEW p, WakesOne(th, tg, p), NEW Q, NEW W, NEW C, NEW L,
         NEW D, FlagsAll(th, Q, W, C, L), D \subseteq C
  PROVE  /\ p \in Tid /\ p \notin Q /\ p \notin W /\ p \notin C /\ p \notin L
         /\ FlagsAll(tg, Q \cup {p}, W, D, L)
<1>1. p \in Tid
  BY DEF WakesOne
<1>2. PICK f \in Thread, g \in Thread : Quiet(th[p], f) /\ Awakes(f, g) /\ Quiet(g, tg[p])
  BY DEF WakesOne
<1>3. th[p] \in Thread /\ tg[p] \in Thread
  BY <1>1 DEF Threads
<1>4. PICK q \in BOOLEAN : q = (p \in Q)
  BY Truth
<1>5. PICK w \in BOOLEAN : w = (p \in W)
  BY Truth
<1>6. PICK c \in BOOLEAN : c = (p \in C)
  BY Truth
<1>7. PICK l \in BOOLEAN : l = (p \in L)
  BY Truth
<1>8. FlagsOf(th[p], q, w, c, l)
  BY <1>1, <1>4, <1>5, <1>6, <1>7 DEF FlagsAll
<1>9. ~q /\ ~w /\ ~c /\ ~l /\ FlagsOf(tg[p], TRUE, w, c, l)
  BY <1>2, <1>3, <1>8, FlagsWake, ZenonT(30)
<1>10. p \notin Q /\ p \notin W /\ p \notin C /\ p \notin L /\ p \notin D
  BY <1>4, <1>5, <1>6, <1>7, <1>9
<1>11. ASSUME NEW t \in Tid
       PROVE  FlagsOf(tg[t], t \in Q \cup {p}, t \in W, t \in D, t \in L)
  <2>1. CASE t = p
    <3>1. /\ (t \in Q \cup {p}) = TRUE /\ (t \in W) = w /\ (t \in D) = c /\ (t \in L) = l
      BY <1>5, <1>6, <1>7, <1>10, <2>1
    <3>2. QED
      BY <1>9, <2>1, <3>1
  <2>2. CASE t # p
    <3>1. FlagsOf(th[t], t \in Q \cup {p}, t \in W, t \in C, t \in L) /\ (t \in D => t \in C)
      <4>1. (t \in Q \cup {p}) = (t \in Q)
        BY <2>2
      <4>2. QED
        BY <4>1 DEF FlagsAll
    <3>2. th[t] \in Thread /\ tg[t] \in Thread /\ Quiet(th[t], tg[t])
      BY <2>2 DEF WakesOne, Threads
    <3>3. QED
      BY <3>1, <3>2, FlagsOneQuiet
  <2>3. QED
    BY <2>1, <2>2
<1>12. QED
  BY <1>1, <1>10, <1>11 DEF FlagsAll

\* The value of disabling in a state.
DisablingOK(d, rt, st) ==
  /\ d \in [scope: Scopes, match: Tid, myself: BOOLEAN] \cup {Nil}
  /\ d # Nil => ~rt /\ st # << >>

\* The calls stay, or the opcode of the innermost thread returns false.
SameCalls ==
  /\ stack' = stack /\ ret' \in BOOLEAN /\ (ret => ret') /\ (ret' => stack # << >>)
  /\ failed' \in BOOLEAN /\ DisablingOK(disabling', ret', stack)

LEMMA SameCallsFacts ==
  ASSUME FlagInv, SameCalls
  PROVE  Calls' \subseteq Calls /\ Rests' = Rests /\ Mems(Rests)' = Mems(Rests)
<1>1. Rests' = Rests
  BY DEF SameCalls, Rests
<1>2. QED
  BY <1>1 DEF SameCalls, Calls

LEMMA QuietStep ==
  ASSUME FlagInv, QuietAll(thread, thread'), UNCHANGED <<active, inactive, later, waiting>>, SameCalls
  PROVE  FlagInv'
<1>1. Calls' \subseteq Calls /\ Rests' = Rests
  BY SameCallsFacts
<1>2. Queued' = Queued /\ Mems(waiting)' = Mems(waiting) /\ Mems(active)' = Mems(active)
      /\ Mem(inactive)' = Mem(inactive) /\ Mems(Rests)' = Mems(Rests)
  BY <1>1 DEF Queued
<1>3. thread \in Threads /\ thread' \in Threads
  BY FlagTypes DEF QuietAll
<1>4. FlagsAll(thread, Queued, Mems(waiting), Calls, later)
  BY DEF FlagInv, FlagsHold, FlagsAll
<1>5. FlagsAll(thread', Queued, Mems(waiting), Calls', later)
  BY <1>1, <1>3, <1>4, FlagsAllQuiet
<1>6. FlagsHold'
  BY <1>2, <1>5 DEF FlagsHold, FlagsAll
<1>7. ListsOnce'
  BY <1>1, <1>2 DEF FlagInv, ListsOnce
<1>8. TypeOK'
  BY <1>3 DEF FlagInv, TypeOK, SameCalls, DisablingOK, Threads
<1>9. Frames'
  <2>1. \A i \in DOMAIN stack : stack[i].thr \in Tid
    BY FlagTypes
  <2>2. \A i \in DOMAIN stack : thread'[stack[i].thr].status # "unborn"
    BY <2>1 DEF QuietAll, Quiet, FlagInv, Frames
  <2>3. QED
    BY <2>2 DEF FlagInv, Frames, SameCalls, DisablingOK
<1>10. QED
  BY <1>6, <1>7, <1>8, <1>9 DEF FlagInv

LEMMA WakeStep ==
  ASSUME FlagInv, NEW p, WakesOne(thread, thread', p), active' = <<<<p>>>> \o active,
         UNCHANGED <<inactive, later, waiting>>, SameCalls
  PROVE  FlagInv'
<1>1. Calls' \subseteq Calls /\ Rests' = Rests
  BY SameCallsFacts
<1>2. thread \in Threads /\ thread' \in Threads
  BY FlagTypes DEF WakesOne
<1>3. FlagsAll(thread, Queued, Mems(waiting), Calls, later)
  BY DEF FlagInv, FlagsHold, FlagsAll
<1>4. /\ p \in Tid /\ p \notin Queued
      /\ FlagsAll(thread', Queued \cup {p}, Mems(waiting), Calls', later)
  BY <1>1, <1>2, <1>3, FlagsAllWake
<1>5. <<p>> \in Seq(Tid) /\ Mem(<<p>>) = {p} /\ IsInjective(<<p>>) /\ <<p>> # << >>
  BY <1>4, OneThread
<1>6. p \notin Mems(active) /\ p \notin Mem(inactive) /\ p \notin later /\ p \notin Mems(Rests)
  BY <1>4 DEF Queued
<1>7. Once(active') /\ Mems(active') = Mems(active) \cup {p}
  <2>1. PICK q \in Seq(Seq(Tid)) : q = active
    BY FlagTypes
  <2>2. Once(q) /\ Mem(<<p>>) \cap Mems(q) = {}
    BY <1>5, <1>6, <2>1 DEF FlagInv, ListsOnce
  <2>3. Once(<<<<p>>>> \o q) /\ Mems(<<<<p>>>> \o q) = Mems(q) \cup Mem(<<p>>)
    BY <1>5, <2>2, ListInFront
  <2>4. QED
    BY <1>5, <2>1, <2>3
<1>8. active' \in Seq(Seq(Tid) \ {<< >>})
  BY <1>5 DEF FlagInv, TypeOK
<1>9. Queued' = Queued \cup {p} /\ Mems(Rests)' = Mems(Rests) /\ Mems(waiting)' = Mems(waiting)
      /\ Mem(inactive)' = Mem(inactive)
  BY <1>1, <1>7 DEF Queued
<1>10. FlagsHold'
  BY <1>4, <1>9 DEF FlagsHold, FlagsAll
<1>11. ListsOnce'
  BY <1>1, <1>6, <1>7, <1>9 DEF FlagInv, ListsOnce
<1>12. TypeOK'
  BY <1>2, <1>8 DEF FlagInv, TypeOK, SameCalls, DisablingOK, Threads
<1>13. Frames'
  <2>1. \A i \in DOMAIN stack : stack[i].thr \in Tid
    BY FlagTypes
  <2>2. \A t \in Tid : thread'[t].status = "unborn" => thread[t].status = "unborn"
    BY DEF WakesOne, Quiet, Awakes
  <2>3. \A i \in DOMAIN stack : thread'[stack[i].thr].status # "unborn"
    BY <2>1, <2>2 DEF FlagInv, Frames
  <2>4. QED
    BY <2>3 DEF FlagInv, Frames, SameCalls, DisablingOK
<1>14. QED
  BY <1>10, <1>11, <1>12, <1>13 DEF FlagInv

-----------------------------------------------------------------------------
(***************************************************************************)
(* The steps that leave the lists alone.                                   *)
(***************************************************************************)

\* The thread whose opcode is executed is in no list.
LEMMA Runs ==
  ASSUME FlagInv, NEW t, Running(t)
  PROVE  /\ t \in Tid /\ t \in Calls /\ thread[t] \in Thread /\ thread[t].status # "unborn"
         /\ t \notin Queued /\ t \notin Mems(waiting) /\ t \notin later
         /\ ~thread[t].is_scheduled /\ ~thread[t].waiting_for_event
         /\ ~thread[t].i_am_joining /\ ~thread[t].i_am_waiting
         /\ stack # << >> /\ stack[1].thr = t /\ 1 \in DOMAIN stack /\ ~ret /\ disabling = Nil
<1>1. stack # << >> /\ stack[1].thr = t /\ ~ret /\ disabling = Nil
  BY DEF Running
<1>2. 1 \in DOMAIN stack
  BY <1>1, FlagTypes
<1>3. t \in Tid /\ t \in Calls /\ thread[t].status # "unborn"
  BY <1>1, <1>2, FlagTypes DEF Calls, FlagInv, Frames
<1>4. thread[t] \in Thread
  BY <1>3, FlagTypes
<1>5. FlagsOf(thread[t], t \in Queued, t \in Mems(waiting), TRUE, t \in later)
  <2>1. (t \in Calls) = TRUE
    BY <1>3
  <2>2. FlagsOf(thread[t], t \in Queued, t \in Mems(waiting), t \in Calls, t \in later)
    BY <1>3 DEF FlagInv, FlagsHold
  <2>3. QED
    BY <2>1, <2>2
<1>6. t \notin Queued /\ t \notin Mems(waiting) /\ ~thread[t].i_am_joining /\ ~thread[t].i_am_waiting
      /\ ~thread[t].is_scheduled /\ ~thread[t].waiting_for_event /\ t \notin later
  BY <1>5, Zenon DEF FlagsOf
<1>7. QED
  BY <1>1, <1>2, <1>3, <1>4, <1>6

\* One thread changes quietly.
LEMMA QuietOne ==
  ASSUME NEW th \in Threads, NEW t \in Tid, NEW x \in Thread, Quiet(th[t], x)
  PROVE  QuietAll(th, [th EXCEPT ![t] = x]) /\ [th EXCEPT ![t] = x] \in Threads
<1>1. [th EXCEPT ![t] = x] \in Threads
  BY DEF Threads
<1>2. \A u \in Tid : [th EXCEPT ![t] = x][u] = IF u = t THEN x ELSE th[u]
  BY DEF Threads
<1>3. QED
  BY <1>1, <1>2, QuietSelf DEF QuietAll

LEMMA QuietDeleted ==
  ASSUME NEW r \in Thread, r.pc = "null", ~r.is_scheduled, ~r.waiting_for_event
  PROVE  Quiet(r, Release(r)) /\ Quiet(r, Deleted)
<1>1. r.is_scheduled = FALSE /\ r.waiting_for_event = FALSE
  BY DEF Thread
<1>2. Quiet(r, Deleted)
  BY <1>1, NewFields, Zenon DEF Quiet
<1>3. Quiet(r, [r EXCEPT !.status = "del_thr"])
  <2>1. PICK x : x = [r EXCEPT !.status = "del_thr"]
    OBVIOUS
  <2>2. /\ x.is_scheduled = r.is_scheduled /\ x.waiting_for_event = r.waiting_for_event
        /\ x.i_am_joining = r.i_am_joining /\ x.i_am_waiting = r.i_am_waiting
        /\ x.status = "del_thr" /\ x.pc = r.pc
    BY <2>1 DEF Thread
  <2>3. QED
    BY <2>1, <2>2 DEF Quiet
<1>4. QED
  BY <1>2, <1>3 DEF Release

LEMMA ZombieFlags ==
  ASSUME FlagInv, NEW t, of_ZOMBIE(t)
  PROVE  FlagInv'
<1>1. Running(t) /\ thread[t].pc = "null"
  BY DEF of_ZOMBIE
<1>2. PICK r \in Thread : r = thread[t] /\ r.pc = "null" /\ ~r.is_scheduled /\ ~r.waiting_for_event
  BY <1>1, Runs
<1>3. t \in Tid /\ thread \in Threads
  BY <1>1, Runs, FlagTypes
<1>4. Quiet(r, Release(r)) /\ Release(r) \in Thread
  BY <1>2, QuietDeleted, ReleaseType
<1>5. QuietAll(thread, thread')
  <2>1. thread' = thread \/ thread' = [thread EXCEPT ![t] = Release(r)]
    BY <1>2 DEF of_ZOMBIE
  <2>2. QuietAll(thread, thread)
    BY <1>3, QuietSelf DEF QuietAll
  <2>3. QuietAll(thread, [thread EXCEPT ![t] = Release(r)])
    BY <1>2, <1>3, <1>4, QuietOne
  <2>4. QED
    BY <2>1, <2>2, <2>3
<1>6. SameCalls
  BY <1>1, Runs, FlagTypes DEF of_ZOMBIE, SameCalls, DisablingOK
<1>7. QED
  BY <1>5, <1>6, QuietStep DEF of_ZOMBIE

\* The counts of the statement change quietly.
LEMMA QuietCounts ==
  ASSUME NEW r \in Thread, NEW s \in Scopes, NEW f \in Nat, NEW j \in Nat, NEW d \in Nat
  PROVE  LET x == [r EXCEPT !.scope = s, !.forks = f, !.joins = j, !.detach = d]
             y == [r EXCEPT !.joins = j]
             z == [r EXCEPT !.delay_delete = TRUE]
         IN  x \in Thread /\ Quiet(r, x) /\ y \in Thread /\ Quiet(r, y) /\ z \in Thread /\ Quiet(r, z)
<1>1. PICK x : x = [r EXCEPT !.scope = s, !.forks = f, !.joins = j, !.detach = d]
  OBVIOUS
<1>2. /\ x \in Thread /\ x.is_scheduled = r.is_scheduled /\ x.waiting_for_event = r.waiting_for_event
      /\ x.i_am_joining = r.i_am_joining /\ x.i_am_waiting = r.i_am_waiting
      /\ x.status = r.status /\ x.pc = r.pc
  BY <1>1 DEF Thread
<1>3. PICK y : y = [r EXCEPT !.joins = j]
  OBVIOUS
<1>4. /\ y \in Thread /\ y.is_scheduled = r.is_scheduled /\ y.waiting_for_event = r.waiting_for_event
      /\ y.i_am_joining = r.i_am_joining /\ y.i_am_waiting = r.i_am_waiting
      /\ y.status = r.status /\ y.pc = r.pc
  BY <1>3 DEF Thread
<1>5. PICK z : z = [r EXCEPT !.delay_delete = TRUE]
  OBVIOUS
<1>6. /\ z \in Thread /\ z.is_scheduled = r.is_scheduled /\ z.waiting_for_event = r.waiting_for_event
      /\ z.i_am_joining = r.i_am_joining /\ z.i_am_waiting = r.i_am_waiting
      /\ z.status = r.status /\ z.pc = r.pc
  BY <1>5 DEF Thread
<1>7. Quiet(r, x) /\ Quiet(r, y) /\ Quiet(r, z)
  BY <1>2, <1>4, <1>6 DEF Quiet
<1>8. QED
  BY <1>1, <1>2, <1>3, <1>4, <1>5, <1>6, <1>7

LEMMA EnterFlags ==
  ASSUME FlagInv, NEW t, NEW kind, NEW s \in Scopes, NEW n \in 1..2, Enter(t, kind, s, n)
  PROVE  FlagInv'
<1>1. Running(t)
  BY DEF Enter, Does, Idle, Executes
<1>2. PICK r \in Thread : r = thread[t] /\ t \in Tid
  BY <1>1, Runs
<1>3. PICK j \in Nat : j = IF kind = "join_any" /\ n >= 2 THEN 1 ELSE IF kind = "join_none" THEN 0 ELSE n
  OBVIOUS
<1>4. PICK d \in Nat : d = IF kind = "join_any" /\ n >= 2 THEN n - 1 ELSE IF kind = "join_none" THEN n ELSE 0
  OBVIOUS
<1>5. PICK x : x = [r EXCEPT !.scope = s, !.forks = n, !.joins = j, !.detach = d]
  OBVIOUS
<1>6. x \in Thread /\ Quiet(r, x)
  <2>1. n \in Nat
    OBVIOUS
  <2>2. QED
    BY <1>5, <2>1, QuietCounts
<1>7. thread' = [thread EXCEPT ![t] = x]
  <2>1. thread' = [thread EXCEPT ![t].scope = s, ![t].forks = n, ![t].joins = j, ![t].detach = d]
    BY <1>3, <1>4 DEF Enter
  <2>2. QED
    BY <1>2, <1>5, <2>1, FlagTypes DEF Threads
<1>8. QuietAll(thread, thread')
  BY <1>2, <1>6, <1>7, QuietOne, FlagTypes
<1>9. SameCalls
  BY <1>1, Runs, FlagTypes DEF Enter, SameCalls, DisablingOK
<1>10. QED
  BY <1>8, <1>9, QuietStep DEF Enter

\* A child that has ended is joined.
LEMMA JoinReaps ==
  ASSUME FlagInv, NEW t, of_JOIN(t), EndedChildren(t) # {}
  PROVE  FlagInv'
<1>1. Running(t) /\ thread[t].joins > 0
  BY DEF of_JOIN, Executes
<1>2. PICK r \in Thread : r = thread[t] /\ t \in Tid
  BY <1>1, Runs
<1>3. PICK j \in Nat : j = r.joins - 1
  BY <1>1, <1>2 DEF Thread
<1>4. PICK x \in Thread : x = [r EXCEPT !.joins = j] /\ Quiet(r, x)
  <2>1. r.scope \in Scopes
    BY DEF Thread
  <2>2. QED
    BY <2>1, QuietCounts
<1>5. PICK th \in Threads : th = [thread EXCEPT ![t].joins = @ - 1] /\ QuietAll(thread, th)
  <2>1. [thread EXCEPT ![t].joins = @ - 1] = [thread EXCEPT ![t] = x]
    BY <1>2, <1>3, <1>4, FlagTypes DEF Threads
  <2>2. QED
    BY <1>2, <1>4, <2>1, QuietOne, FlagTypes
<1>6. PICK c \in EndedChildren(t) : thread' = vthread_reap(th, c) /\ failed' \in BOOLEAN
  BY <1>5 DEF of_JOIN
<1>7. c \in Tid
  BY <1>2, <1>6 DEF EndedChildren, Thread
<1>8. QuietAll(thread, thread')
  BY <1>5, <1>6, <1>7, ReapQuiet, QuietAllTrans, FlagTypes
<1>9. SameCalls
  BY <1>1, <1>6, Runs, FlagTypes DEF of_JOIN, SameCalls, DisablingOK
<1>10. QED
  BY <1>8, <1>9, QuietStep DEF of_JOIN

\* %join/detach.
LEMMA JoinDetachFlags ==
  ASSUME FlagInv, NEW t, of_JOIN_DETACH(t)
  PROVE  FlagInv'
<1>1. Running(t)
  BY DEF of_JOIN_DETACH, Executes
<1>2. t \in Tid /\ thread \in Threads /\ \A u \in Tid : thread[u] \in Thread
  BY <1>1, Runs, FlagTypes
<1>3. PICK S \in SUBSET Tid : S = thread[t].detached_children \cup (thread[t].children \ EndedChildren(t))
  BY <1>2 DEF Thread
<1>4. ASSUME NEW u \in Tid
      PROVE  \/ u = t /\ thread'[u] = [thread[t] EXCEPT !.detach = 0, !.children = {}, !.detached_children = S]
             \/ thread'[u] = [thread[u] EXCEPT !.i_am_detached = TRUE]
             \/ thread'[u] = ReleaseIfIdle(Unlinked(thread[u]))
             \/ thread'[u] = Orphan(thread[u])
             \/ thread'[u] = thread[u]
  BY <1>3 DEF of_JOIN_DETACH
<1>5. ASSUME NEW u \in Tid PROVE thread'[u] \in Thread /\ Quiet(thread[u], thread'[u])
  <2>1. PICK r \in Thread : r = thread[u]
    BY <1>2
  <2>2. \/ thread'[u] = [r EXCEPT !.detach = 0, !.children = {}, !.detached_children = S]
        \/ thread'[u] = [r EXCEPT !.i_am_detached = TRUE]
        \/ thread'[u] = ReleaseIfIdle(Unlinked(r))
        \/ thread'[u] = Orphan(r)
        \/ thread'[u] = r
    BY <1>4, <2>1
  <2>3. ASSUME NEW x, x = [r EXCEPT !.detach = 0, !.children = {}, !.detached_children = S]
        PROVE  x \in Thread /\ Quiet(r, x)
    <3>1. /\ x \in Thread /\ x.is_scheduled = r.is_scheduled /\ x.waiting_for_event = r.waiting_for_event
          /\ x.i_am_joining = r.i_am_joining /\ x.i_am_waiting = r.i_am_waiting
          /\ x.status = r.status /\ x.pc = r.pc
      BY <2>3 DEF Thread
    <3>2. QED
      BY <3>1 DEF Quiet
  <2>4. [r EXCEPT !.i_am_detached = TRUE] \in Thread /\ Quiet(r, [r EXCEPT !.i_am_detached = TRUE])
    BY <1>3, QuietFamily
  <2>5. ReleaseIfIdle(Unlinked(r)) \in Thread /\ Quiet(r, ReleaseIfIdle(Unlinked(r)))
    BY QuietReaped
  <2>6. Orphan(r) \in Thread /\ Quiet(r, Orphan(r)) /\ Quiet(r, r)
    BY QuietParts, OrphanFields, QuietSelf
  <2>7. QED
    BY <2>1, <2>2, <2>3, <2>4, <2>5, <2>6
<1>6. QuietAll(thread, thread')
  <2>1. thread' = [u \in Tid |-> thread'[u]]
    BY DEF of_JOIN_DETACH
  <2>2. QED
    BY <1>5, <2>1 DEF Threads, QuietAll
<1>7. SameCalls
  BY <1>1, Runs, FlagTypes DEF of_JOIN_DETACH, SameCalls, DisablingOK
<1>8. QED
  BY <1>6, <1>7, QuietStep DEF of_JOIN_DETACH

LEMMA DisableForkFlags ==
  ASSUME FlagInv, NEW t, of_DISABLE_FORK(t)
  PROVE  FlagInv'
<1>1. Running(t)
  BY DEF of_DISABLE_FORK, Does, Idle, Executes
<1>2. t \in Tid /\ thread \in Threads /\ \A u \in Tid : thread[u] \in Thread
  BY <1>1, Runs, FlagTypes
<1>3. ASSUME NEW u \in Tid
      PROVE  \/ u = t /\ thread'[u] = [thread[t] EXCEPT !.detached_children = {}]
             \/ thread'[u] = ReleaseIfIdle(Unlinked(Off(thread[u])))
             \/ thread'[u] = Orphan(thread[u])
             \/ thread'[u] = thread[u]
  <2>1. PICK gone : gone = UNION {Descendants(thread, c) : c \in thread[t].detached_children}
    OBVIOUS
  <2>2. thread' = [v \in Tid |->
           CASE v = t -> [thread[t] EXCEPT !.detached_children = {}]
             [] v \in gone -> ReleaseIfIdle(Unlinked(Off(thread[v])))
             [] v \notin gone \cup {t} /\ (\E w \in gone : v \in thread[w].detached_children) ->
                  Orphan(thread[v])
             [] OTHER -> thread[v]]
    BY <2>1 DEF of_DISABLE_FORK
  <2>3. QED
    BY <2>2
<1>4. ASSUME NEW u \in Tid PROVE thread'[u] \in Thread /\ Quiet(thread[u], thread'[u])
  <2>1. PICK r \in Thread : r = thread[u]
    BY <1>2
  <2>2. \/ thread'[u] = [r EXCEPT !.detached_children = {}]
        \/ thread'[u] = ReleaseIfIdle(Unlinked(Off(r)))
        \/ thread'[u] = Orphan(r)
        \/ thread'[u] = r
    BY <1>3, <2>1
  <2>3. [r EXCEPT !.detached_children = {}] \in Thread /\ Quiet(r, [r EXCEPT !.detached_children = {}])
    <3>1. {} \in SUBSET Tid
      OBVIOUS
    <3>2. QED
      BY <3>1, QuietFamily
  <2>4. ReleaseIfIdle(Unlinked(Off(r))) \in Thread /\ Quiet(r, ReleaseIfIdle(Unlinked(Off(r))))
    BY QuietReaped
  <2>5. Orphan(r) \in Thread /\ Quiet(r, Orphan(r)) /\ Quiet(r, r)
    BY QuietParts, OrphanFields, QuietSelf
  <2>6. QED
    BY <2>1, <2>2, <2>3, <2>4, <2>5
<1>5. QuietAll(thread, thread')
  <2>1. thread' = [u \in Tid |-> thread'[u]]
    BY DEF of_DISABLE_FORK
  <2>2. QED
    BY <1>4, <2>1 DEF Threads, QuietAll
<1>6. SameCalls
  BY <1>1, Runs, FlagTypes DEF of_DISABLE_FORK, SameCalls, DisablingOK
<1>7. QED
  BY <1>5, <1>6, QuietStep DEF of_DISABLE_FORK

\* %disable, and its end.
LEMMA DisableFlags ==
  ASSUME FlagInv, DisableDone \/ \E t, s : s \in Scopes /\ of_DISABLE(t, s)
  PROVE  FlagInv'
<1>1. QuietAll(thread, thread)
  BY QuietSelf, FlagTypes DEF QuietAll
<1>2. CASE DisableDone
  <2>1. disabling.myself \in BOOLEAN /\ stack # << >>
    BY <1>2 DEF DisableDone, FlagInv, TypeOK, Frames
  <2>2. SameCalls
    BY <1>2, <2>1, FlagTypes DEF DisableDone, SameCalls, DisablingOK, FlagInv, Frames
  <2>3. QED
    BY <1>1, <1>2, <2>2, QuietStep DEF DisableDone
<1>3. CASE \E t, s : s \in Scopes /\ of_DISABLE(t, s)
  <2>1. PICK t, s : s \in Scopes /\ of_DISABLE(t, s)
    BY <1>3
  <2>2. Running(t)
    BY <2>1 DEF of_DISABLE, Does, Idle, Executes
  <2>3. SameCalls
    BY <2>1, <2>2, Runs, FlagTypes DEF of_DISABLE, SameCalls, DisablingOK
  <2>4. QED
    BY <1>1, <2>1, <2>3, QuietStep DEF of_DISABLE
<1>4. QED
  BY <1>2, <1>3

-----------------------------------------------------------------------------
(***************************************************************************)
(* The steps that may wake a thread up: the end of a thread and disable.   *)
(***************************************************************************)

\* do_disable of the thread c, by a step that changes nothing else of the queue.
LEMMA DisableStep ==
  ASSUME FlagInv, NEW c \in Tid, thread' = do_disable(thread, c), active' = DisableQueue(thread, c),
         UNCHANGED <<inactive, later, waiting>>, SameCalls
  PROVE  FlagInv'
<1>1. thread \in Threads
  BY FlagTypes
<1>2. CASE DisableSchedules(thread, c)
  <2>1. WakesOne(thread, thread', thread[c].parent)
    BY <1>1, <1>2, DisableEffect
  <2>2. active' = <<<<thread[c].parent>>>> \o active
    BY <1>2 DEF DisableQueue
  <2>3. QED
    BY <2>1, <2>2, WakeStep
<1>3. CASE ~DisableSchedules(thread, c)
  <2>1. QuietAll(thread, thread')
    BY <1>1, <1>3, DisableEffect
  <2>2. active' = active
    BY <1>3 DEF DisableQueue
  <2>3. QED
    BY <2>1, <2>2, QuietStep
<1>4. QED
  BY <1>2, <1>3

LEMMA DisableNextFlags ==
  ASSUME FlagInv, DisableNext
  PROVE  FlagInv'
<1>1. PICK cur \in threads(disabling.scope) :
        /\ thread' = do_disable(thread, cur)
        /\ active' = DisableQueue(thread, cur)
        /\ failed' = ~DisableAsserts(thread, cur)
        /\ disabling' = [disabling EXCEPT
                           !.myself = @ \/ disabling.match \in Descendants(thread, cur)]
  BY DEF DisableNext
<1>2. cur \in Tid
  BY DEF threads
<1>3. PICK d \in [scope: Scopes, match: Tid, myself: BOOLEAN] : d = disabling
  BY DEF DisableNext, FlagInv, TypeOK
<1>4. PICK b \in BOOLEAN : b = (d.myself \/ d.match \in Descendants(thread, cur))
  OBVIOUS
<1>5. disabling' = [d EXCEPT !.myself = b]
  BY <1>1, <1>3, <1>4
<1>6. disabling' \in [scope: Scopes, match: Tid, myself: BOOLEAN]
  BY <1>5
<1>7. ~ret /\ stack # << >>
  BY DEF DisableNext, FlagInv, Frames
<1>8. SameCalls
  BY <1>1, <1>6, <1>7, FlagTypes DEF DisableNext, SameCalls, DisablingOK
<1>9. QED
  BY <1>1, <1>2, <1>8, DisableStep DEF DisableNext

LEMMA DisableFlowFlags ==
  ASSUME FlagInv, NEW t, NEW s, of_DISABLE_FLOW(t, s)
  PROVE  FlagInv'
<1>1. PICK cur \in Ancestors(t) :
        /\ thread' = do_disable(thread, cur)
        /\ active' = DisableQueue(thread, cur)
        /\ failed' = ~DisableAsserts(thread, cur)
        /\ ret' = (t \in Descendants(thread, cur))
  BY DEF of_DISABLE_FLOW
<1>2. cur \in Tid
  BY DEF Ancestors
<1>3. Running(t)
  BY DEF of_DISABLE_FLOW, Does, Idle, Executes
<1>4. SameCalls
  BY <1>1, <1>3, Runs, FlagTypes DEF of_DISABLE_FLOW, SameCalls, DisablingOK
<1>5. QED
  BY <1>1, <1>2, <1>4, DisableStep DEF of_DISABLE_FLOW

LEMMA WakeWait ==
  ASSUME NEW f \in Thread, f.i_am_waiting
  PROVE  LET g == [f EXCEPT !.i_am_waiting = FALSE, !.is_scheduled = TRUE]
         IN  g \in Thread /\ Awakes(f, g)
<1>1. PICK g : g = [f EXCEPT !.i_am_waiting = FALSE, !.is_scheduled = TRUE]
  OBVIOUS
<1>2. /\ g \in Thread /\ g.is_scheduled /\ ~g.i_am_waiting /\ g.i_am_joining = f.i_am_joining
      /\ g.waiting_for_event = f.waiting_for_event /\ g.status = f.status /\ g.pc = f.pc
  BY <1>1 DEF Thread
<1>3. QED
  BY <1>1, <1>2 DEF Awakes

\* A thread is taken out of the detached children of its parent.
LEMMA QuietAlone ==
  ASSUME NEW th \in Threads, NEW t \in Tid, NEW p \in Tid \cup {Nil},
         NEW tg, tg = [th EXCEPT ![p].detached_children = @ \ {t},
                                 ![t].i_am_detached = FALSE, ![t].parent = Nil]
  PROVE  tg \in Threads /\ QuietAll(th, tg)
<1>1. PICK mid : mid = [th EXCEPT ![p].detached_children = @ \ {t}]
  OBVIOUS
<1>2. mid \in Threads /\ QuietAll(th, mid)
  <2>1. CASE p = Nil
    <3>1. mid = th
      BY <1>1, <2>1, ThreadsAssumption DEF Threads
    <3>2. QED
      BY <3>1, QuietSelf DEF QuietAll
  <2>2. CASE p \in Tid
    <3>1. PICK r \in Thread : r = th[p]
      BY <2>2 DEF Threads
    <3>2. PICK D \in SUBSET Tid : D = r.detached_children \ {t}
      BY DEF Thread
    <3>3. mid = [th EXCEPT ![p] = [r EXCEPT !.detached_children = D]]
      BY <1>1, <2>2, <3>1, <3>2 DEF Threads
    <3>4. [r EXCEPT !.detached_children = D] \in Thread /\ Quiet(r, [r EXCEPT !.detached_children = D])
      BY QuietFamily
    <3>5. QED
      BY <2>2, <3>1, <3>3, <3>4, QuietOne
  <2>3. QED
    BY <2>1, <2>2
<1>3. PICK r \in Thread : r = mid[t]
  BY <1>2 DEF Threads
<1>4. tg = [mid EXCEPT ![t] = Orphan(r)]
  <2>1. tg = [mid EXCEPT ![t].i_am_detached = FALSE, ![t].parent = Nil]
    BY <1>1
  <2>2. Orphan(r) = [r EXCEPT !.i_am_detached = FALSE, !.parent = Nil]
    BY DEF Orphan, Thread
  <2>3. QED
    BY <1>2, <1>3, <2>1, <2>2 DEF Threads
<1>5. tg \in Threads /\ QuietAll(mid, tg)
  <2>1. PICK x \in Thread : x = Orphan(r) /\ Quiet(r, x)
    BY QuietParts, OrphanFields
  <2>2. Quiet(mid[t], x) /\ mid \in Threads
    BY <1>2, <1>3, <2>1
  <2>3. QuietAll(mid, [mid EXCEPT ![t] = x]) /\ [mid EXCEPT ![t] = x] \in Threads
    BY <2>2, QuietOne
  <2>4. QED
    BY <1>4, <2>1, <2>3, Zenon
<1>6. QED
  BY <1>2, <1>5, QuietAllTrans

\* The thread that ends, its orphans and the others, before anyone is woken.
LEMMA EndedQuiet ==
  ASSUME NEW t \in Tid, NEW th \in Threads, th = thread, NEW tg, tg = Ended(t)
  PROVE  /\ tg \in Threads /\ QuietAll(th, tg)
         /\ \A u \in Tid : tg[u].i_am_joining = th[u].i_am_joining /\ tg[u].i_am_waiting = th[u].i_am_waiting
<1>1. ASSUME NEW u \in Tid
      PROVE  /\ tg[u] \in Thread /\ Quiet(th[u], tg[u])
             /\ tg[u].i_am_joining = th[u].i_am_joining /\ tg[u].i_am_waiting = th[u].i_am_waiting
  <2>1. PICK r \in Thread : r = th[u]
    BY DEF Threads
  <2>2. \/ u = t /\ tg[u] = [th[t] EXCEPT !.i_have_ended = TRUE, !.pc = "null", !.detached_children = {}]
        \/ tg[u] = Orphan(th[u])
        \/ tg[u] = th[u]
    BY DEF Ended
  <2>3. \/ tg[u] = [r EXCEPT !.i_have_ended = TRUE, !.pc = "null", !.detached_children = {}]
        \/ tg[u] = Orphan(r)
        \/ tg[u] = r
    BY <2>1, <2>2
  <2>4. CASE tg[u] = [r EXCEPT !.i_have_ended = TRUE, !.pc = "null", !.detached_children = {}]
    <3>1. PICK x : x = [r EXCEPT !.i_have_ended = TRUE, !.pc = "null", !.detached_children = {}]
      OBVIOUS
    <3>2. /\ x \in Thread /\ x.is_scheduled = r.is_scheduled /\ x.waiting_for_event = r.waiting_for_event
          /\ x.i_am_joining = r.i_am_joining /\ x.i_am_waiting = r.i_am_waiting
          /\ x.status = r.status /\ x.pc = "null"
      BY <3>1 DEF Thread
    <3>3. Quiet(r, x)
      BY <3>2 DEF Quiet
    <3>4. QED
      BY <2>1, <2>4, <3>1, <3>2, <3>3
  <2>5. CASE tg[u] = Orphan(r)
    BY <2>1, <2>5, QuietParts, OrphanFields
  <2>6. CASE tg[u] = r
    BY <2>1, <2>6, QuietSelf
  <2>7. QED
    BY <2>3, <2>4, <2>5, <2>6
<1>2. tg = [u \in Tid |-> tg[u]]
  BY DEF Ended
<1>3. QED
  BY <1>1, <1>2 DEF Threads, QuietAll

\* %end: the states of the threads it goes through, the second one when the
\* parent has been woken, the third when t has left its parent.
LEMMA EndStages ==
  ASSUME FlagInv, NEW t, of_END(t)
  PROVE  \E f, g, h \in Threads :
           /\ QuietAll(thread, f) /\ QuietAll(g, h) /\ QuietAll(h, thread')
           /\ \/ g = f /\ active' = active
              \/ /\ thread[t].parent \in Tid /\ active' = <<<<thread[t].parent>>>> \o active
                 /\ \A u \in Tid : u # thread[t].parent => g[u] = f[u]
                 /\ Awakes(f[thread[t].parent], g[thread[t].parent])
<1>1. t \in Tid /\ thread \in Threads /\ thread[t] \in Thread
  BY Runs, FlagTypes DEF of_END, Idle, Executes
<1>2. PICK p \in Tid \cup {Nil} : p = thread[t].parent
  BY <1>1 DEF Thread
<1>3. PICK f : f = Ended(t)
  OBVIOUS
<1>4. /\ f \in Threads /\ QuietAll(thread, f)
      /\ \A u \in Tid : f[u].i_am_joining = thread[u].i_am_joining /\ f[u].i_am_waiting = thread[u].i_am_waiting
  BY <1>1, <1>3, EndedQuiet
<1>5. PICK g : g = Woken(t)
  OBVIOUS
<1>6. PICK h : h = Alone(t)
  OBVIOUS
<1>7. /\ thread' = (IF Reaps(t) THEN vthread_reap(h, t) ELSE h)
      /\ active' = IF WakesJoin(t) \/ WakesWaitFork(t) THEN <<<<p>>>> \o active ELSE active
  BY <1>2, <1>6 DEF of_END
<1>8. /\ g \in Threads
      /\ \/ g = f /\ active' = active
         \/ /\ p \in Tid /\ active' = <<<<p>>>> \o active
            /\ \A u \in Tid : u # p => g[u] = f[u]
            /\ Awakes(f[p], g[p])
  <2>1. CASE ~WakesJoin(t) /\ ~WakesWaitFork(t)
    BY <1>3, <1>4, <1>5, <1>7, <2>1 DEF Woken
  <2>2. CASE WakesJoin(t)
    <3>1. p \in Tid /\ f[p].i_am_joining
      BY <1>2, <1>4, <2>2 DEF WakesJoin
    <3>2. PICK r \in Thread : r = f[p]
      BY <1>4, <3>1 DEF Threads
    <3>3. PICK x : x = [r EXCEPT !.i_am_joining = FALSE, !.is_scheduled = TRUE]
      OBVIOUS
    <3>4. x \in Thread /\ Awakes(r, x)
      <4>1. r.i_am_joining /\ TRUE \in BOOLEAN
        BY <3>1, <3>2
      <4>2. QED
        BY <3>3, <4>1, WakeJoin
    <3>5. g = [f EXCEPT ![p] = x]
      BY <1>2, <1>3, <1>4, <1>5, <2>2, <3>1, <3>2, <3>3 DEF Threads, Woken
    <3>6. g \in Threads /\ g[p] = x /\ \A u \in Tid : u # p => g[u] = f[u]
      BY <1>4, <3>1, <3>4, <3>5 DEF Threads
    <3>7. QED
      BY <1>7, <2>2, <3>1, <3>2, <3>4, <3>6
  <2>3. CASE ~WakesJoin(t) /\ WakesWaitFork(t)
    <3>1. p \in Tid /\ f[p].i_am_waiting
      BY <1>2, <1>4, <2>3 DEF WakesWaitFork
    <3>2. PICK r \in Thread : r = f[p]
      BY <1>4, <3>1 DEF Threads
    <3>3. PICK x : x = [r EXCEPT !.i_am_waiting = FALSE, !.is_scheduled = TRUE]
      OBVIOUS
    <3>4. x \in Thread /\ Awakes(r, x)
      BY <3>1, <3>2, <3>3, WakeWait
    <3>5. g = [f EXCEPT ![p] = x]
      BY <1>2, <1>3, <1>4, <1>5, <2>3, <3>1, <3>2, <3>3 DEF Threads, Woken
    <3>6. g \in Threads /\ g[p] = x /\ \A u \in Tid : u # p => g[u] = f[u]
      BY <1>4, <3>1, <3>4, <3>5 DEF Threads
    <3>7. QED
      BY <1>7, <2>3, <3>1, <3>2, <3>4, <3>6
  <2>4. QED
    BY <2>1, <2>2, <2>3
<1>9. h \in Threads /\ QuietAll(g, h)
  <2>1. CASE thread[t].i_am_detached
    BY <1>1, <1>2, <1>5, <1>6, <1>8, <2>1, QuietAlone DEF Alone
  <2>2. CASE ~thread[t].i_am_detached
    BY <1>5, <1>6, <1>8, <2>2, QuietSelf DEF QuietAll, Alone
  <2>3. QED
    BY <2>1, <2>2
<1>10. QuietAll(h, thread')
  <2>1. CASE Reaps(t)
    BY <1>1, <1>7, <1>9, <2>1, ReapQuiet
  <2>2. CASE ~Reaps(t)
    BY <1>7, <1>9, <2>2, QuietSelf DEF QuietAll
  <2>3. QED
    BY <2>1, <2>2
<1>11. QED
  BY <1>2, <1>4, <1>8, <1>9, <1>10

LEMMA EndFlags ==
  ASSUME FlagInv, NEW t, of_END(t)
  PROVE  FlagInv'
<1>1. PICK f, g, h \in Threads :
           /\ QuietAll(thread, f) /\ QuietAll(g, h) /\ QuietAll(h, thread')
           /\ \/ g = f /\ active' = active
              \/ /\ thread[t].parent \in Tid /\ active' = <<<<thread[t].parent>>>> \o active
                 /\ \A u \in Tid : u # thread[t].parent => g[u] = f[u]
                 /\ Awakes(f[thread[t].parent], g[thread[t].parent])
  BY EndStages
<1>2. thread \in Threads /\ thread' \in Threads /\ QuietAll(g, thread')
  BY <1>1, QuietAllTrans, FlagTypes DEF QuietAll
<1>3. Running(t)
  BY DEF of_END, Idle, Executes
<1>4. SameCalls
  BY <1>3, Runs, FlagTypes DEF of_END, SameCalls, DisablingOK
<1>5. CASE g = f /\ active' = active
  <2>1. QuietAll(thread, thread')
    BY <1>1, <1>2, <1>5, QuietAllTrans
  <2>2. QED
    BY <1>4, <1>5, <2>1, QuietStep DEF of_END
<1>6. CASE /\ thread[t].parent \in Tid /\ active' = <<<<thread[t].parent>>>> \o active
           /\ \A u \in Tid : u # thread[t].parent => g[u] = f[u]
           /\ Awakes(f[thread[t].parent], g[thread[t].parent])
  <2>1. PICK p \in Tid : p = thread[t].parent
    BY <1>6
  <2>2. \A u \in Tid : /\ thread[u] \in Thread /\ f[u] \in Thread /\ g[u] \in Thread /\ thread'[u] \in Thread
                       /\ Quiet(thread[u], f[u]) /\ Quiet(g[u], thread'[u])
    BY <1>1, <1>2 DEF Threads, QuietAll
  <2>3. \A u \in Tid : u # p => Quiet(thread[u], thread'[u])
    BY <1>6, <2>1, <2>2, QuietTrans
  <2>4. WakesOne(thread, thread', p)
    BY <1>2, <1>6, <2>1, <2>2, <2>3 DEF WakesOne
  <2>5. QED
    BY <1>4, <1>6, <2>1, <2>4, WakeStep DEF of_END
<1>7. QED
  BY <1>1, <1>5, <1>6

-----------------------------------------------------------------------------
(***************************************************************************)
(* The steps that move one thread from a list to another, start it or put  *)
(* it to sleep.                                                            *)
(***************************************************************************)

LEMMA FlagsAllBut ==
  ASSUME NEW th \in Threads, NEW tg \in Threads, NEW t \in Tid, NEW Q, NEW W, NEW C, NEW L,
         NEW Q2, NEW W2, NEW C2, NEW L2, FlagsAll(th, Q, W, C, L),
         \A u \in Tid : u # t => Quiet(th[u], tg[u]),
         FlagsOf(tg[t], t \in Q2, t \in W2, t \in C2, t \in L2),
         Q2 \ {t} = Q \ {t}, W2 \ {t} = W \ {t}, L2 \ {t} = L \ {t}, C2 \ {t} \subseteq C
  PROVE  FlagsAll(tg, Q2, W2, C2, L2)
<1> SUFFICES ASSUME NEW u \in Tid, u # t
             PROVE  FlagsOf(tg[u], u \in Q2, u \in W2, u \in C2, u \in L2)
  BY DEF FlagsAll
<1>1. (u \in Q2) = (u \in Q) /\ (u \in W2) = (u \in W) /\ (u \in L2) = (u \in L) /\ (u \in C2 => u \in C)
  OBVIOUS
<1>2. FlagsOf(th[u], u \in Q2, u \in W2, u \in C, u \in L2)
  <2>1. FlagsOf(th[u], u \in Q, u \in W, u \in C, u \in L)
    BY DEF FlagsAll
  <2>2. QED
    BY <1>1, <2>1
<1>3. th[u] \in Thread /\ tg[u] \in Thread /\ Quiet(th[u], tg[u])
  BY DEF Threads
<1>4. QED
  BY <1>1, <1>2, <1>3, FlagsOneQuiet

\* The types of the lists, and of the calls, in a state.
ListTypes ==
  /\ active \in Seq(Seq(Tid) \ {<< >>}) /\ inactive \in Seq(Tid) /\ later \in SUBSET Tid
  /\ waiting \in [Events -> Seq(Tid)]

CallTypes ==
  /\ stack \in Seq(Frame) /\ ret \in BOOLEAN /\ failed \in BOOLEAN /\ (ret => stack # << >>)
  /\ DisablingOK(disabling, ret, stack)
  /\ \A i, k \in DOMAIN stack : stack[i].thr = stack[k].thr => i = k
  /\ \A i \in DOMAIN stack : stack[i].call # "event" => i + 1 \in DOMAIN stack

LEMMA FlagInvParts ==
  FlagInv <=> /\ thread \in Threads /\ ListTypes /\ CallTypes /\ ListsOnce
              /\ FlagsAll(thread, Queued, Mems(waiting), Calls, later)
              /\ \A i \in DOMAIN stack : thread[stack[i].thr].status # "unborn"
<1>1. FlagsHold <=> FlagsAll(thread, Queued, Mems(waiting), Calls, later)
  BY DEF FlagsHold, FlagsAll
<1>2. TypeOK /\ Frames <=> /\ thread \in Threads /\ ListTypes /\ CallTypes
                           /\ \A i \in DOMAIN stack : thread[stack[i].thr].status # "unborn"
  BY DEF TypeOK, Frames, ListTypes, CallTypes, DisablingOK, Threads
<1>3. QED
  BY <1>1, <1>2 DEF FlagInv

\* The step changes the flags and the lists of t only.
LEMMA ChangeStep ==
  ASSUME FlagInv, NEW t \in Tid, thread' \in Threads,
         \A u \in Tid : u # t => Quiet(thread[u], thread'[u]),
         thread'[t].status # "unborn",
         FlagsOf(thread'[t], t \in Queued', t \in Mems(waiting)', t \in Calls', t \in later'),
         Queued' \ {t} = Queued \ {t}, Mems(waiting)' \ {t} = Mems(waiting) \ {t},
         later' \ {t} = later \ {t}, Calls' \ {t} \subseteq Calls,
         ListTypes', CallTypes', ListsOnce',
         \A i \in DOMAIN stack' : stack'[i].thr = t \/ \E k \in DOMAIN stack : stack'[i].thr = stack[k].thr
  PROVE  FlagInv'
<1>1. thread \in Threads /\ FlagsAll(thread, Queued, Mems(waiting), Calls, later)
  BY FlagInvParts
<1>2. PICK Q2, W2, C2, L2, tg : Q2 = Queued' /\ W2 = Mems(waiting)' /\ C2 = Calls' /\ L2 = later' /\ tg = thread'
  OBVIOUS
<1>3. FlagsAll(tg, Q2, W2, C2, L2)
  BY <1>1, <1>2, FlagsAllBut
<1>4. ASSUME NEW i \in DOMAIN stack' PROVE thread'[stack'[i].thr].status # "unborn"
  <2>1. CASE stack'[i].thr = t
    BY <2>1
  <2>2. CASE stack'[i].thr # t
    <3>1. PICK k \in DOMAIN stack : stack'[i].thr = stack[k].thr
      BY <2>2
    <3>2. stack[k].thr \in Tid /\ thread[stack[k].thr].status # "unborn"
      BY FlagTypes, FlagInvParts
    <3>3. QED
      BY <2>2, <3>1, <3>2 DEF Quiet
  <2>3. QED
    BY <2>1, <2>2
<1>5. FlagsHold'
  BY <1>2, <1>3 DEF FlagsAll, FlagsHold
<1>6. TypeOK' /\ Frames'
  BY <1>4 DEF TypeOK, Frames, ListTypes, CallTypes, DisablingOK, Threads
<1>7. QED
  BY <1>5, <1>6 DEF FlagInv

\* The running thread t stops running, in whatever list.
LEMMA SleepStep ==
  ASSUME FlagInv, NEW t, Running(t), NEW x \in Thread, thread' = [thread EXCEPT ![t] = x],
         x.status = thread[t].status,
         ret' = TRUE, UNCHANGED <<stack, disabling>>, failed' \in BOOLEAN,
         FlagsOf(x, t \in Queued', t \in Mems(waiting)', FALSE, t \in later'),
         Queued' \ {t} = Queued \ {t}, Mems(waiting)' \ {t} = Mems(waiting) \ {t},
         later' \ {t} = later \ {t}, ListTypes', ListsOnce'
  PROVE  FlagInv'
<1>1. t \in Tid /\ thread[t].status # "unborn" /\ stack # << >> /\ disabling = Nil /\ 1 \in DOMAIN stack
      /\ stack[1].thr = t
  BY Runs
<1>2. thread \in Threads /\ thread' \in Threads /\ thread'[t] = x
  BY <1>1, FlagTypes DEF Threads
<1>3. \A u \in Tid : u # t => Quiet(thread[u], thread'[u])
  BY <1>2, QuietSelf DEF Threads
<1>4. Calls' = Calls \ {t}
  BY <1>1, FlagInvParts DEF Calls, CallTypes
<1>5. (t \in Calls') = FALSE
  BY <1>4
<1>6. CallTypes'
  BY <1>1, FlagInvParts DEF CallTypes, DisablingOK
<1>7. FlagsOf(thread'[t], t \in Queued', t \in Mems(waiting)', t \in Calls', t \in later')
  BY <1>2, <1>5
<1>8. QED
  BY <1>1, <1>2, <1>3, <1>4, <1>6, <1>7, ChangeStep

LEMMA RunsFlags ==
  ASSUME FlagInv, NEW t, Running(t)
  PROVE  /\ FlagsOf(thread[t], FALSE, FALSE, TRUE, FALSE)
         /\ (t \in Queued) = FALSE /\ (t \in Mems(waiting)) = FALSE /\ (t \in later) = FALSE
         /\ t \notin Mems(active) /\ t \notin Mem(inactive) /\ t \notin Mems(Rests)
<1>1. t \in Tid /\ (t \in Calls) = TRUE
  BY Runs
<1>2. (t \in Queued) = FALSE /\ (t \in Mems(waiting)) = FALSE /\ (t \in later) = FALSE
  BY Runs
<1>3. FlagsOf(thread[t], t \in Queued, t \in Mems(waiting), t \in Calls, t \in later)
  BY <1>1 DEF FlagInv, FlagsHold
<1>4. QED
  BY <1>1, <1>2, <1>3 DEF Queued

\* The lists stay, and t waits in a %join or a %wait/fork.
LEMMA SleepQuietly ==
  ASSUME FlagInv, NEW t, Running(t), NEW x \in Thread, thread' = [thread EXCEPT ![t] = x],
         x.status = thread[t].status, FlagsOf(x, FALSE, FALSE, FALSE, FALSE),
         ret' = TRUE, UNCHANGED <<active, inactive, later, waiting, stack, disabling>>, failed' \in BOOLEAN
  PROVE  FlagInv'
<1>1. Queued' = Queued /\ Mems(waiting)' = Mems(waiting) /\ Mems(active)' = Mems(active)
      /\ Mem(inactive)' = Mem(inactive) /\ Mems(Rests)' = Mems(Rests) /\ Rests' = Rests
  BY DEF Queued, Rests
<1>2. (t \in Queued') = FALSE /\ (t \in Mems(waiting)') = FALSE /\ (t \in later') = FALSE
  BY <1>1, RunsFlags
<1>3. FlagsOf(x, t \in Queued', t \in Mems(waiting)', FALSE, t \in later')
  BY <1>2
<1>4. ListTypes' /\ ListsOnce'
  BY <1>1, FlagInvParts DEF ListTypes, ListsOnce
<1>5. QED
  BY <1>1, <1>3, <1>4, SleepStep

LEMMA JoinSleeps ==
  ASSUME FlagInv, NEW t, of_JOIN(t), EndedChildren(t) = {}
  PROVE  FlagInv'
<1>1. Running(t) /\ thread[t].joins > 0
  BY DEF of_JOIN, Executes
<1>2. PICK r \in Thread : r = thread[t] /\ t \in Tid
  BY <1>1, Runs
<1>3. PICK j \in Nat : j = r.joins - 1
  BY <1>1, <1>2 DEF Thread
<1>4. PICK y \in Thread : y = [r EXCEPT !.joins = j] /\ Quiet(r, y) /\ y.status = r.status
  <2>1. r.scope \in Scopes /\ [r EXCEPT !.joins = j].status = r.status
    BY DEF Thread
  <2>2. QED
    BY <2>1, QuietCounts
<1>5. FlagsOf(y, FALSE, FALSE, TRUE, FALSE)
  <2>1. FlagsOf(r, FALSE, FALSE, TRUE, FALSE) /\ (TRUE => TRUE)
    BY <1>1, <1>2, RunsFlags
  <2>2. QED
    BY <1>4, <2>1, FlagsQuiet
<1>6. PICK x : x = [y EXCEPT !.i_am_joining = TRUE]
  OBVIOUS
<1>7. x \in Thread /\ FlagsOf(x, FALSE, FALSE, FALSE, FALSE)
  BY <1>5, <1>6, FlagsChange
<1>8. x.status = r.status
  BY <1>4, <1>6 DEF Thread
<1>9. thread' = [thread EXCEPT ![t] = x]
  <2>1. [thread EXCEPT ![t].joins = @ - 1] = [thread EXCEPT ![t] = y]
    BY <1>2, <1>3, <1>4, FlagTypes DEF Threads
  <2>2. thread' = [[thread EXCEPT ![t].joins = @ - 1] EXCEPT ![t].i_am_joining = TRUE]
    BY DEF of_JOIN
  <2>3. thread' = [[thread EXCEPT ![t] = y] EXCEPT ![t].i_am_joining = TRUE]
    BY <2>1, <2>2
  <2>4. QED
    BY <1>2, <1>6, <2>3, FlagTypes DEF Threads
<1>10. /\ ret' = TRUE /\ failed' \in BOOLEAN
       /\ UNCHANGED <<active, inactive, later, waiting, stack, disabling>>
  BY DEF of_JOIN
<1>11. QED
  BY <1>1, <1>2, <1>7, <1>8, <1>9, <1>10, SleepQuietly

LEMMA WaitForkFlags ==
  ASSUME FlagInv, NEW t, of_WAIT_FORK(t)
  PROVE  FlagInv'
<1>1. Running(t)
  BY DEF of_WAIT_FORK, Does, Idle, Executes
<1>2. PICK r \in Thread : r = thread[t] /\ t \in Tid
  BY <1>1, Runs
<1>3. failed' \in BOOLEAN /\ UNCHANGED <<active, inactive, later, waiting, stack, disabling>>
  BY DEF of_WAIT_FORK
<1>4. CASE thread[t].detached_children = {}
  <2>1. thread' = thread /\ ret' = ret
    BY <1>4 DEF of_WAIT_FORK
  <2>2. QuietAll(thread, thread')
    BY <2>1, QuietSelf, FlagTypes DEF QuietAll
  <2>3. SameCalls
    BY <1>1, <1>3, <2>1, Runs, FlagTypes DEF SameCalls, DisablingOK
  <2>4. QED
    BY <1>3, <2>2, <2>3, QuietStep
<1>5. CASE thread[t].detached_children # {}
  <2>1. PICK x : x = [r EXCEPT !.i_am_waiting = TRUE]
    OBVIOUS
  <2>2. x \in Thread /\ FlagsOf(x, FALSE, FALSE, FALSE, FALSE)
    <3>1. FlagsOf(r, FALSE, FALSE, TRUE, FALSE)
      BY <1>1, <1>2, RunsFlags
    <3>2. QED
      BY <2>1, <3>1, FlagsChange
  <2>3. x.status = r.status
    BY <2>1 DEF Thread
  <2>4. thread' = [thread EXCEPT ![t] = x] /\ ret' = TRUE
    <3>1. thread' = [thread EXCEPT ![t].i_am_waiting = TRUE] /\ ret' = TRUE
      BY <1>5 DEF of_WAIT_FORK
    <3>2. QED
      BY <1>2, <2>1, <3>1, FlagTypes DEF Threads
  <2>5. QED
    BY <1>1, <1>2, <1>3, <2>2, <2>3, <2>4, SleepQuietly
<1>6. QED
  BY <1>4, <1>5

\* A thread that is scheduled again, in the list that gets it.
LEMMA Rescheduled ==
  ASSUME FlagInv, NEW t, Executes(t), Reschedule(t),
         \/ later' = later \cup {t} /\ UNCHANGED <<active, inactive>>
         \/ inactive' = Append(inactive, t) /\ UNCHANGED <<active, later>>
         \/ active' = Append(active, <<t>>) /\ UNCHANGED <<inactive, later>>
  PROVE  FlagInv'
<1>1. Running(t) /\ thread[t].pc = "code"
  BY DEF Executes
<1>2. PICK r \in Thread : r = thread[t] /\ t \in Tid
  BY <1>1, Runs
<1>3. PICK x : x = [r EXCEPT !.is_scheduled = TRUE]
  OBVIOUS
<1>4. x \in Thread /\ FlagsOf(x, TRUE, FALSE, FALSE, TRUE) /\ FlagsOf(x, TRUE, FALSE, FALSE, FALSE)
  <2>1. FlagsOf(r, FALSE, FALSE, TRUE, FALSE)
    BY <1>1, <1>2, RunsFlags
  <2>2. QED
    BY <1>1, <1>2, <1>3, <2>1, FlagsChange
<1>5. x.status = r.status
  BY <1>3 DEF Thread
<1>6. thread' = [thread EXCEPT ![t] = x] /\ ret' = TRUE
  <2>1. thread' = [thread EXCEPT ![t].is_scheduled = TRUE] /\ ret' = TRUE
    BY DEF Reschedule
  <2>2. QED
    BY <1>2, <1>3, <2>1, FlagTypes DEF Threads
<1>7. failed' \in BOOLEAN /\ UNCHANGED <<waiting, stack, disabling>>
  BY <1>2 DEF Reschedule, Thread
<1>8. Rests' = Rests /\ Mems(Rests)' = Mems(Rests) /\ Mems(waiting)' = Mems(waiting)
  BY <1>7 DEF Rests
<1>9. /\ (t \in Mems(waiting)') = FALSE /\ (t \in later) = FALSE
      /\ t \notin Mems(active) /\ t \notin Mem(inactive) /\ t \notin Mems(Rests)
  BY <1>1, <1>8, RunsFlags
<1>10. ListTypes /\ ListsOnce
  BY FlagInvParts
<1>11. /\ ListTypes' /\ ListsOnce' /\ Queued' = Queued \cup {t} /\ later' \ {t} = later \ {t}
       /\ FlagsOf(x, TRUE, FALSE, FALSE, t \in later')
  <2>1. CASE later' = later \cup {t} /\ UNCHANGED <<active, inactive>>
    <3>1. Mems(active)' = Mems(active) /\ Mem(inactive)' = Mem(inactive) /\ (t \in later') = TRUE
      BY <2>1
    <3>2. ListTypes' /\ ListsOnce' /\ Queued' = Queued \cup {t}
      BY <1>2, <1>7, <1>8, <1>9, <1>10, <2>1, <3>1 DEF ListTypes, ListsOnce, Queued
    <3>3. QED
      BY <1>4, <2>1, <3>1, <3>2
  <2>2. CASE inactive' = Append(inactive, t) /\ UNCHANGED <<active, later>>
    <3>1. PICK l \in Seq(Tid) : l = inactive /\ IsInjective(l) /\ t \notin Mem(l)
      BY <1>9, <1>10 DEF ListTypes, ListsOnce
    <3>2. inactive' \in Seq(Tid) /\ IsInjective(inactive') /\ Mem(inactive') = Mem(inactive) \cup {t}
      <4>1. Append(l, t) \in Seq(Tid) /\ IsInjective(Append(l, t)) /\ Mem(Append(l, t)) = Mem(l) \cup {t}
        BY <1>2, <3>1, LongerTids
      <4>2. QED
        BY <2>2, <3>1, <4>1
    <3>3. Mems(active)' = Mems(active) /\ (t \in later') = FALSE
      BY <1>9, <2>2
    <3>4. ListTypes' /\ ListsOnce' /\ Queued' = Queued \cup {t}
      BY <1>2, <1>7, <1>8, <1>9, <1>10, <2>2, <3>2, <3>3 DEF ListTypes, ListsOnce, Queued
    <3>5. QED
      BY <1>4, <2>2, <3>3, <3>4
  <2>3. CASE active' = Append(active, <<t>>) /\ UNCHANGED <<inactive, later>>
    <3>1. PICK q \in Seq(Seq(Tid)) : q = active /\ Once(q) /\ t \notin Mems(q)
      BY <1>9, <1>10, FlagTypes DEF ListsOnce
    <3>2. <<t>> \in Seq(Tid) /\ IsInjective(<<t>>) /\ Mem(<<t>>) = {t} /\ <<t>> # << >>
      BY <1>2, OneThread
    <3>3. Once(active') /\ Mems(active') = Mems(active) \cup {t}
      <4>1. Mem(<<t>>) \cap Mems(q) = {}
        BY <3>1, <3>2
      <4>2. QED
        BY <2>3, <3>1, <3>2, <4>1, ListBehind, ZenonT(30)
    <3>4. active' \in Seq(Seq(Tid) \ {<< >>})
      BY <1>10, <2>3, <3>2 DEF ListTypes
    <3>5. Mem(inactive)' = Mem(inactive) /\ (t \in later') = FALSE
      BY <1>9, <2>3
    <3>6. ListTypes' /\ ListsOnce' /\ Queued' = Queued \cup {t}
      BY <1>2, <1>7, <1>8, <1>9, <1>10, <2>3, <3>3, <3>4, <3>5 DEF ListTypes, ListsOnce, Queued
    <3>7. QED
      BY <1>4, <2>3, <3>5, <3>6
  <2>4. QED
    BY <2>1, <2>2, <2>3
<1>12. FlagsOf(x, t \in Queued', t \in Mems(waiting)', FALSE, t \in later')
  <2>1. (t \in Queued') = TRUE
    BY <1>11
  <2>2. QED
    BY <1>9, <1>11, <2>1
<1>13. Queued' \ {t} = Queued \ {t} /\ Mems(waiting)' \ {t} = Mems(waiting) \ {t}
  BY <1>8, <1>11
<1>14. QED
  BY <1>1, <1>2, <1>4, <1>5, <1>6, <1>7, <1>11, <1>12, <1>13, SleepStep

\* %wait.
LEMMA WaitFlags ==
  ASSUME FlagInv, NEW t, NEW e \in Events, of_WAIT(t, e)
  PROVE  FlagInv'
<1>1. Running(t) /\ thread[t].pc = "code"
  BY DEF of_WAIT, Does, Idle, Executes
<1>2. PICK r \in Thread : r = thread[t] /\ t \in Tid
  BY <1>1, Runs
<1>3. PICK x : x = [r EXCEPT !.waiting_for_event = TRUE]
  OBVIOUS
<1>4. x \in Thread /\ FlagsOf(x, FALSE, TRUE, FALSE, FALSE)
  <2>1. FlagsOf(r, FALSE, FALSE, TRUE, FALSE)
    BY <1>1, <1>2, RunsFlags
  <2>2. QED
    BY <1>1, <1>2, <1>3, <2>1, FlagsChange
<1>5. x.status = r.status
  BY <1>3 DEF Thread
<1>6. thread' = [thread EXCEPT ![t] = x] /\ ret' = TRUE
  <2>1. thread' = [thread EXCEPT ![t].waiting_for_event = TRUE] /\ ret' = TRUE
    BY DEF of_WAIT
  <2>2. QED
    BY <1>2, <1>3, <2>1, FlagTypes DEF Threads
<1>7. failed' \in BOOLEAN /\ UNCHANGED <<active, inactive, later, stack, disabling>>
  BY DEF of_WAIT
<1>8. Rests' = Rests /\ Mems(Rests)' = Mems(Rests) /\ Mems(active)' = Mems(active) /\ Mem(inactive)' = Mem(inactive)
      /\ Queued' = Queued
  BY <1>7 DEF Rests, Queued
<1>9. (t \in Mems(waiting)) = FALSE /\ (t \in later') = FALSE /\ (t \in Queued') = FALSE
  BY <1>1, <1>7, <1>8, RunsFlags
<1>10. ListTypes /\ ListsOnce
  BY FlagInvParts
<1>11. PICK w \in [Events -> Seq(Tid)] : w = waiting /\ Once(w) /\ t \notin Mems(w)
  BY <1>9, <1>10 DEF ListTypes, ListsOnce
<1>12. PICK l \in Seq(Tid) : l = w[e] /\ IsInjective(l) /\ t \notin Mem(l)
  <2>1. w[e] \in Seq(Tid) /\ e \in DOMAIN w
    BY <1>11
  <2>2. IsInjective(w[e]) /\ t \notin Mem(w[e])
    BY <1>11, <2>1, InMem, InMems DEF Once, IsInjective
  <2>3. QED
    BY <2>1, <2>2
<1>13. PICK n \in Seq(Tid) : n = <<t>> \o l /\ IsInjective(n) /\ Mem(n) = Mem(l) \cup {t}
  BY <1>2, <1>12, LongerTids
<1>14. PICK v \in [Events -> Seq(Tid)] : v = waiting' /\ v[e] = n /\ \A i \in Events : i # e => v[i] = w[i]
  <2>1. waiting' = [w EXCEPT ![e] = n]
    BY <1>11, <1>12, <1>13 DEF of_WAIT
  <2>2. QED
    BY <2>1
<1>15. Once(v) /\ Mems(v) = Mems(w) \cup {t}
  <2>1. Replaced(w, v, e, {t})
    <3>1. e \in DOMAIN w /\ DOMAIN v = DOMAIN w /\ \A i \in DOMAIN w : i # e => v[i] = w[i]
      BY <1>14
    <3>2. IsInjective(v[e]) /\ Mem(v[e]) \subseteq Mem(w[e]) \cup {t} /\ {t} \cap Mems(w) = {}
      BY <1>11, <1>12, <1>13, <1>14
    <3>3. QED
      BY <1>11, <3>1, <3>2 DEF Replaced
  <2>2. Once(v) /\ Mems(v) = (Mems(w) \ Mem(w[e])) \cup Mem(v[e])
    BY <2>1, ListReplaced
  <2>3. Mem(w[e]) \subseteq Mems(w)
    BY InMem, InMems
  <2>4. QED
    BY <1>12, <1>13, <1>14, <2>2, <2>3
<1>16. Once(waiting') /\ Mems(waiting)' = Mems(waiting) \cup {t} /\ waiting' \in [Events -> Seq(Tid)]
  BY <1>11, <1>14, <1>15
<1>17. ListTypes' /\ ListsOnce'
  BY <1>7, <1>8, <1>10, <1>16 DEF ListTypes, ListsOnce
<1>18. FlagsOf(x, t \in Queued', t \in Mems(waiting)', FALSE, t \in later')
  <2>1. (t \in Mems(waiting)') = TRUE
    BY <1>16
  <2>2. QED
    BY <1>4, <1>9, <2>1
<1>19. Queued' \ {t} = Queued \ {t} /\ Mems(waiting)' \ {t} = Mems(waiting) \ {t} /\ later' \ {t} = later \ {t}
  BY <1>7, <1>8, <1>16
<1>20. QED
  BY <1>1, <1>2, <1>4, <1>5, <1>6, <1>7, <1>17, <1>18, <1>19, SleepStep

\* %event: the threads of the wait list go to the queue.
LEMMA EventFlags ==
  ASSUME FlagInv, NEW t, NEW e \in Events, of_EVENT(t, e)
  PROVE  FlagInv'
<1>1. Running(t)
  BY DEF of_EVENT, Does, Idle, Executes
<1>2. ListTypes /\ ListsOnce /\ CallTypes /\ thread \in Threads
  BY FlagInvParts
<1>3. PICK w \in [Events -> Seq(Tid)] : w = waiting /\ Once(w)
  BY <1>2 DEF ListTypes, ListsOnce
<1>4. PICK l \in Seq(Tid) : l = w[e] /\ IsInjective(l) /\ Mem(l) \subseteq Mems(w) /\ l # << >>
  <2>1. w[e] \in Seq(Tid) /\ e \in DOMAIN w /\ w[e] # << >>
    BY <1>3 DEF of_EVENT
  <2>2. IsInjective(w[e])
    BY <1>3, <2>1 DEF Once, IsInjective
  <2>3. Mem(w[e]) \subseteq Mems(w)
    BY <2>1, InMem, InMems
  <2>4. QED
    BY <2>1, <2>2, <2>3
<1>5. {l[i] : i \in 1..Len(l)} = Mem(l)
  BY LenProperties DEF Mem
<1>6. /\ thread' = [u \in Tid |->
           IF u \in Mem(l) THEN [thread[u] EXCEPT !.waiting_for_event = FALSE, !.is_scheduled = TRUE]
                           ELSE thread[u]]
  BY <1>3, <1>4, <1>5 DEF of_EVENT
<1>a. /\ failed' \in BOOLEAN /\ waiting' = [w EXCEPT ![e] = << >>] /\ active' = Append(active, l)
      /\ UNCHANGED <<inactive, later, stack, ret, disabling>>
  BY <1>3, <1>4, <1>5 DEF of_EVENT
<1>7. Rests' = Rests /\ Mems(Rests)' = Mems(Rests) /\ Mem(inactive)' = Mem(inactive) /\ Calls' = Calls
  BY <1>a DEF Rests, Calls
<1>8. FlagsAll(thread, Queued, Mems(waiting), Calls, later)
  BY FlagInvParts
<1>9. Mem(l) \cap Queued = {}
  <2> SUFFICES ASSUME NEW u, u \in Mem(l), u \in Queued PROVE FALSE
    OBVIOUS
  <2>1. u \in Tid /\ (u \in Mems(waiting)) = TRUE /\ (u \in Queued) = TRUE
    BY <1>3, <1>4, InMem, LenProperties, ElementOfSeq
  <2>2. FlagsOf(thread[u], TRUE, TRUE, u \in Calls, u \in later)
    <3>1. FlagsOf(thread[u], u \in Queued, u \in Mems(waiting), u \in Calls, u \in later)
      BY <1>8, <2>1 DEF FlagsAll
    <3>2. QED
      BY <2>1, <3>1
  <2>3. QED
    BY <2>2 DEF FlagsOf
<1>10. PICK q \in Seq(Seq(Tid)) : q = active /\ Once(q) /\ Mem(l) \cap Mems(q) = {}
  BY <1>2, <1>9, FlagTypes DEF ListsOnce, Queued
<1>11. Once(active') /\ Mems(active') = Mems(active) \cup Mem(l)
  BY <1>4, <1>a, <1>10, ListBehind
<1>12. active' \in Seq(Seq(Tid) \ {<< >>})
  BY <1>2, <1>4, <1>a DEF ListTypes
<1>13. PICK v \in [Events -> Seq(Tid)] : v = waiting' /\ v[e] = << >> /\ \A i \in Events : i # e => v[i] = w[i]
  <2>1. waiting' = [w EXCEPT ![e] = << >>] /\ << >> \in Seq(Tid)
    BY <1>a, EmptySeq
  <2>2. QED
    BY <2>1
<1>14. Once(v) /\ Mems(v) = Mems(w) \ Mem(l)
  <2>1. IsInjective(v[e]) /\ Mem(v[e]) = {}
    BY <1>13, EmptyList
  <2>2. Replaced(w, v, e, {})
    <3>1. e \in DOMAIN w /\ DOMAIN v = DOMAIN w /\ \A i \in DOMAIN w : i # e => v[i] = w[i]
      BY <1>13
    <3>2. QED
      BY <1>3, <2>1, <3>1 DEF Replaced
  <2>3. Once(v) /\ Mems(v) = (Mems(w) \ Mem(w[e])) \cup Mem(v[e])
    BY <2>2, ListReplaced
  <2>4. QED
    BY <1>4, <2>1, <2>3
<1>15. Once(waiting') /\ Mems(waiting)' = Mems(waiting) \ Mem(l) /\ waiting' \in [Events -> Seq(Tid)]
  BY <1>3, <1>13, <1>14
<1>16. Queued' = Queued \cup Mem(l)
  BY <1>a, <1>7, <1>11 DEF Queued
<1>17. ListTypes' /\ ListsOnce'
  <2>1. ListTypes'
    BY <1>2, <1>a, <1>12, <1>15 DEF ListTypes
  <2>2. ListsOnce'
    BY <1>2, <1>a, <1>7, <1>9, <1>11, <1>15 DEF ListsOnce, Queued
  <2>3. QED
    BY <2>1, <2>2
<1>18. ASSUME NEW u \in Tid
       PROVE  /\ thread'[u] \in Thread /\ thread'[u].status = thread[u].status
              /\ FlagsOf(thread'[u], u \in Queued', u \in Mems(waiting)', u \in Calls', u \in later')
  <2>1. PICK r \in Thread : r = thread[u]
    BY FlagTypes
  <2>2. FlagsOf(r, u \in Queued, u \in Mems(waiting), u \in Calls, u \in later)
    BY <1>8, <2>1 DEF FlagsAll
  <2>3. CASE u \notin Mem(l)
    <3>1. thread'[u] = r
      BY <1>6, <2>1, <2>3
    <3>2. (u \in Queued') = (u \in Queued) /\ (u \in Mems(waiting)') = (u \in Mems(waiting))
          /\ (u \in Calls') = (u \in Calls) /\ (u \in later') = (u \in later)
      <4>1. (u \in Queued') = (u \in Queued)
        BY <1>16, <2>3
      <4>2. (u \in Mems(waiting)') = (u \in Mems(waiting))
        BY <1>15, <2>3
      <4>3. (u \in Calls') = (u \in Calls) /\ (u \in later') = (u \in later)
        BY <1>a, <1>7, Zenon
      <4>4. QED
        BY <4>1, <4>2, <4>3
    <3>3. QED
      BY <2>1, <2>2, <3>1, <3>2
  <2>4. CASE u \in Mem(l)
    <3>1. PICK x : x = [r EXCEPT !.waiting_for_event = FALSE, !.is_scheduled = TRUE]
      OBVIOUS
    <3>2. thread'[u] = x
      BY <1>6, <2>1, <2>4, <3>1
    <3>3. PICK a \in BOOLEAN : a = (u \in Queued)
      BY Truth
    <3>4. PICK c \in BOOLEAN : c = (u \in Calls)
      BY Truth
    <3>5. PICK d \in BOOLEAN : d = (u \in later)
      BY Truth
    <3>6. (u \in Mems(waiting)) = TRUE
      BY <1>3, <1>4, <2>4
    <3>7. FlagsOf(r, a, TRUE, c, d)
      BY <2>2, <3>3, <3>4, <3>5, <3>6
    <3>8. x \in Thread /\ FlagsOf(x, TRUE, FALSE, c, d)
      BY <3>1, <3>7, FlagsChange
    <3>9. x.status = r.status
      BY <3>1 DEF Thread
    <3>10. (u \in Queued') = TRUE /\ (u \in Mems(waiting)') = FALSE /\ (u \in Calls') = c /\ (u \in later') = d
      <4>1. (u \in Queued') = TRUE
        BY <1>16, <2>4
      <4>2. (u \in Mems(waiting)') = FALSE
        BY <1>15, <2>4
      <4>3. (u \in Calls') = c /\ (u \in later') = d
        BY <1>a, <1>7, <3>4, <3>5, Zenon
      <4>4. QED
        BY <4>1, <4>2, <4>3
    <3>11. QED
      BY <2>1, <3>2, <3>8, <3>9, <3>10
  <2>5. QED
    BY <2>3, <2>4
<1>19. thread' \in Threads
  BY <1>6, <1>18 DEF Threads
<1>20. FlagsHold'
  BY <1>18 DEF FlagsHold
<1>21. TypeOK' /\ Frames'
  <2>1. \A i \in DOMAIN stack : stack[i].thr \in Tid /\ thread[stack[i].thr].status # "unborn"
    BY FlagTypes, FlagInvParts
  <2>2. \A i \in DOMAIN stack : thread'[stack[i].thr].status # "unborn"
    BY <1>18, <2>1
  <2>3. CallTypes'
    BY <1>2, <1>a DEF CallTypes, DisablingOK
  <2>4. \A i \in DOMAIN stack' : thread'[stack'[i].thr].status # "unborn"
    BY <1>a, <2>2
  <2>5. QED
    BY <1>17, <1>19, <2>3, <2>4 DEF TypeOK, Frames, ListTypes, CallTypes, DisablingOK, Threads
<1>22. QED
  BY <1>17, <1>20, <1>21 DEF FlagInv

\* vthread_run takes a thread from its list.
LEMMA QueuedFlags ==
  ASSUME FlagInv, NEW t, t \in Queued
  PROVE  /\ t \in Tid /\ thread[t] \in Thread /\ thread[t].is_scheduled /\ thread[t].status # "unborn"
         /\ t \notin Mems(waiting) /\ t \notin Calls
         /\ \E l \in BOOLEAN : FlagsOf(thread[t], TRUE, FALSE, FALSE, l)
<1>1. t \in Tid
  <2>1. \A s \in Seq(Tid) : Mem(s) \subseteq Tid
    BY InMem, LenProperties, ElementOfSeq
  <2>2. \A q \in Seq(Seq(Tid)) : Mems(q) \subseteq Tid
    <3> SUFFICES ASSUME NEW q \in Seq(Seq(Tid)), NEW x \in Mems(q) PROVE x \in Tid
      OBVIOUS
    <3>1. PICK i \in DOMAIN q : x \in Mem(q[i])
      BY InMem, InMems
    <3>2. q[i] \in Seq(Tid)
      BY LenProperties, ElementOfSeq
    <3>3. QED
      BY <2>1, <3>1, <3>2
  <2>3. QED
    BY <2>1, <2>2, FlagTypes DEF Queued
<1>2. PICK r \in Thread : r = thread[t]
  BY <1>1, FlagTypes
<1>3. PICK w \in BOOLEAN : w = (t \in Mems(waiting))
  BY Truth
<1>4. PICK c \in BOOLEAN : c = (t \in Calls)
  BY Truth
<1>5. PICK l \in BOOLEAN : l = (t \in later)
  BY Truth
<1>6. (t \in Queued) = TRUE
  OBVIOUS
<1>7. FlagsOf(r, TRUE, w, c, l)
  <2>1. FlagsOf(r, t \in Queued, t \in Mems(waiting), t \in Calls, t \in later)
    BY <1>1, <1>2 DEF FlagInv, FlagsHold
  <2>2. QED
    BY <1>3, <1>4, <1>5, <1>6, <2>1
<1>8. w = FALSE /\ c = FALSE /\ r.is_scheduled /\ r.status # "unborn"
  BY <1>7 DEF FlagsOf
<1>9. FlagsOf(r, TRUE, FALSE, FALSE, l)
  BY <1>7, <1>8
<1>10. QED
  BY <1>1, <1>2, <1>3, <1>4, <1>8, <1>9

LEMMA StartStep ==
  ASSUME FlagInv, NEW t, t \in Queued, Start(t), Queued' = Queued \ {t}, t \notin later,
         UNCHANGED <<later, waiting>>, t \in Calls', Calls' \subseteq Calls \cup {t},
         ListTypes', CallTypes', ListsOnce',
         \A i \in DOMAIN stack' : stack'[i].thr = t \/ \E k \in DOMAIN stack : stack'[i].thr = stack[k].thr
  PROVE  FlagInv'
<1>1. PICK r \in Thread : r = thread[t] /\ t \in Tid /\ r.status # "unborn"
  BY QueuedFlags
<1>2. PICK l \in BOOLEAN : FlagsOf(r, TRUE, FALSE, FALSE, l)
  BY <1>1, QueuedFlags
<1>3. PICK x : x = [r EXCEPT !.is_scheduled = FALSE]
  OBVIOUS
<1>4. x \in Thread /\ FlagsOf(x, FALSE, FALSE, TRUE, FALSE)
  BY <1>2, <1>3, FlagsChange
<1>5. x.status = r.status
  BY <1>3 DEF Thread
<1>6. thread' = [thread EXCEPT ![t] = x]
  BY <1>1, <1>3, FlagTypes DEF Start, Threads
<1>7. thread' \in Threads /\ thread'[t] = x /\ \A u \in Tid : u # t => thread'[u] = thread[u]
  BY <1>1, <1>4, <1>6, FlagTypes DEF Threads
<1>8. (t \in Queued') = FALSE /\ (t \in Calls') = TRUE /\ (t \in later') = FALSE
  OBVIOUS
<1>9. Mems(waiting)' = Mems(waiting) /\ (t \in Mems(waiting)') = FALSE
  <2>1. Mems(waiting)' = Mems(waiting)
    OBVIOUS
  <2>2. t \notin Mems(waiting)
    BY QueuedFlags
  <2>3. QED
    BY <2>1, <2>2
<1>10. FlagsOf(thread'[t], t \in Queued', t \in Mems(waiting)', t \in Calls', t \in later')
  BY <1>4, <1>7, <1>8, <1>9
<1>11. /\ \A u \in Tid : u # t => Quiet(thread[u], thread'[u])
       /\ Queued' \ {t} = Queued \ {t} /\ Mems(waiting)' \ {t} = Mems(waiting) \ {t}
       /\ later' \ {t} = later \ {t} /\ Calls' \ {t} \subseteq Calls
  BY <1>7, <1>9, QuietSelf
<1>12. thread'[t].status # "unborn"
  BY <1>1, <1>5, <1>7
<1>13. QED
  BY <1>1, <1>7, <1>10, <1>11, <1>12, ChangeStep

LEMMA RunEventFlags ==
  ASSUME FlagInv, RunEvent
  PROVE  FlagInv'
<1>1. ListTypes /\ ListsOnce /\ CallTypes
  BY FlagInvParts
<1>2. stack = << >> /\ active # << >> /\ ~ret /\ disabling = Nil
  BY <1>1 DEF RunEvent, CallTypes, DisablingOK
<1>3. PICK q \in Seq(Seq(Tid)) : q = active /\ Once(q) /\ q # << >>
  BY <1>1, <1>2, FlagTypes DEF ListsOnce
<1>4. PICK l \in Seq(Tid) :
        /\ l = q[1] /\ IsInjective(l) /\ Once(Tail(q)) /\ Mem(l) \cap Mems(Tail(q)) = {}
        /\ Mems(q) = Mem(l) \cup Mems(Tail(q))
  BY <1>3, FirstList
<1>5. l # << >> /\ active' \in Seq(Seq(Tid) \ {<< >>})
  <2>1. active \in Seq(Seq(Tid) \ {<< >>}) /\ active' = Tail(active)
    BY <1>1 DEF ListTypes, RunEvent
  <2>2. active[1] \in Seq(Tid) \ {<< >>} /\ Tail(active) \in Seq(Seq(Tid) \ {<< >>})
    BY <1>2, <2>1
  <2>3. QED
    BY <1>3, <1>4, <2>1, <2>2
<1>6. PICK t \in Tid, m \in Seq(Tid) :
        t = l[1] /\ t \in Mem(l) /\ m = Tail(l) /\ IsInjective(m) /\ Mem(m) = Mem(l) \ {t}
  BY <1>4, <1>5, ShorterList
<1>7. PICK fr : fr = [thr |-> t, rest |-> m, call |-> "event"]
  OBVIOUS
<1>8. stack' = <<fr>> /\ fr \in Frame /\ fr.thr = t /\ fr.rest = m /\ fr.call = "event"
  BY <1>3, <1>4, <1>6, <1>7 DEF RunEvent, Frame
<1>9. UNCHANGED <<inactive, later, waiting, ret, disabling>> /\ active' = Tail(q) /\ Start(t)
  BY <1>3, <1>4, <1>6 DEF RunEvent
<1>10. stack' \in Seq(Frame) /\ DOMAIN stack' = {1} /\ stack'[1] = fr /\ stack' # << >>
  BY <1>8
<1>11. Rests' = [i \in {1} |-> m]
  BY <1>8, <1>10 DEF Rests
<1>12. Mems(Rests)' = Mem(m) /\ Once(Rests') /\ Mems(Rests) = {}
  <2>1. DOMAIN Rests' = {1} /\ Rests'[1] = m
    BY <1>11
  <2>2. Mems(Rests') = Mem(m)
    <3>1. \A x : x \in Mems(Rests') <=> x \in Mem(m)
      BY <2>1, InMem, InMems
    <3>2. QED
      BY <3>1
  <2>3. Once(Rests')
    BY <1>6, <2>1 DEF Once, IsInjective
  <2>4. Rests = << >>
    BY <1>2 DEF Rests
  <2>5. QED
    BY <2>2, <2>3, <2>4, EmptyList
<1>13. Mems(active)' = Mems(Tail(q)) /\ Mem(inactive)' = Mem(inactive)
  BY <1>9
<1>14. t \in Queued /\ t \notin later /\ Queued' = Queued \ {t}
  BY <1>1, <1>3, <1>4, <1>6, <1>9, <1>12, <1>13 DEF Queued, ListsOnce
<1>15. ListsOnce'
  BY <1>1, <1>3, <1>4, <1>6, <1>9, <1>12, <1>13 DEF ListsOnce
<1>16. ListTypes'
  BY <1>1, <1>5, <1>9 DEF ListTypes
<1>17. Calls' = {t}
  BY <1>2, <1>8, <1>9, <1>10 DEF Calls
<1>18. CallTypes'
  <2>1. failed' \in BOOLEAN
    BY <1>6, FlagTypes DEF RunEvent, Start
  <2>2. QED
    BY <1>1, <1>2, <1>8, <1>9, <1>10, <2>1 DEF CallTypes, DisablingOK
<1>19. \A i \in DOMAIN stack' : stack'[i].thr = t
  BY <1>8, <1>10
<1>20. QED
  BY <1>9, <1>14, <1>15, <1>16, <1>17, <1>18, <1>19, StartStep

LEMMA RunNextFlags ==
  ASSUME FlagInv, RunNext
  PROVE  FlagInv'
<1>1. ListTypes /\ ListsOnce /\ CallTypes
  BY FlagInvParts
<1>2. stack # << >> /\ ret /\ disabling = Nil /\ stack[1].rest # << >>
  BY <1>1 DEF RunNext, Returning, CallTypes, DisablingOK
<1>3. PICK st \in Seq(Frame) : st = stack /\ 1 \in DOMAIN st /\ DOMAIN st = 1..Len(st) /\ Len(st) \in Nat
  BY <1>2, FlagTypes
<1>4. PICK fr \in Frame : fr = st[1]
  BY <1>3, ElementOfSeq
<1>5. PICK l \in Seq(Tid) : l = fr.rest /\ l # << >> /\ IsInjective(l) /\ l = Rests[1] /\ Mem(l) \subseteq Mems(Rests)
  <2>1. fr.rest \in Seq(Tid) /\ fr.rest # << >> /\ Rests[1] = fr.rest /\ 1 \in DOMAIN Rests
    BY <1>2, <1>3, <1>4, FlagTypes DEF Frame
  <2>2. IsInjective(Rests[1])
    BY <1>1, <2>1 DEF ListsOnce, Once, IsInjective
  <2>3. Mem(Rests[1]) \subseteq Mems(Rests)
    BY <2>1, InMem, InMems
  <2>4. QED
    BY <2>1, <2>2, <2>3
<1>6. PICK t \in Tid, m \in Seq(Tid) :
        /\ t = Head(l) /\ t \in Mem(l) /\ m = Tail(l) /\ IsInjective(m) /\ Mem(m) = Mem(l) \ {t}
  BY <1>5, ShorterList
<1>7. PICK gr : gr = [fr EXCEPT !.thr = t, !.rest = m]
  OBVIOUS
<1>8. gr \in Frame /\ gr.thr = t /\ gr.rest = m /\ gr.call = fr.call
  BY <1>7 DEF Frame
<1>9. stack' = [st EXCEPT ![1] = gr]
  <2>1. stack' = [st EXCEPT ![1].thr = t, ![1].rest = Tail(@)]
    BY <1>3, <1>4, <1>5, <1>6 DEF RunNext
  <2>2. QED
    BY <1>3, <1>4, <1>5, <1>6, <1>7, <2>1
<1>10. /\ stack' \in Seq(Frame) /\ DOMAIN stack' = DOMAIN stack /\ stack'[1] = gr /\ stack' # << >>
       /\ \A i \in DOMAIN stack : i # 1 => stack'[i] = stack[i]
  BY <1>2, <1>3, <1>8, <1>9
<1>11. UNCHANGED <<active, inactive, later, waiting, disabling>> /\ ret' = FALSE /\ Start(t)
  BY <1>3, <1>4, <1>5, <1>6 DEF RunNext
<1>12. PICK R, R2 : R = Rests /\ R2 = Rests' /\ DOMAIN R = DOMAIN stack /\ DOMAIN R2 = DOMAIN stack
                    /\ R2[1] = m /\ \A i \in DOMAIN R : i # 1 => R2[i] = R[i]
  <2>1. PICK R, R2 : R = Rests /\ R2 = Rests'
    OBVIOUS
  <2>2. R = [i \in DOMAIN stack |-> stack[i].rest]
    BY <2>1 DEF Rests
  <2>3. R2 = [i \in DOMAIN stack |-> stack'[i].rest]
    BY <1>10, <2>1 DEF Rests
  <2>4. DOMAIN R = DOMAIN stack /\ DOMAIN R2 = DOMAIN stack /\ R2[1] = m
    BY <1>3, <1>8, <1>10, <2>2, <2>3
  <2>5. \A i \in DOMAIN R : i # 1 => R2[i] = R[i]
    BY <1>10, <2>2, <2>3
  <2>6. QED
    BY <2>1, <2>4, <2>5
<1>13. Once(R2) /\ Mems(R2) = Mems(R) \ {t}
  <2>1. Replaced(R, R2, 1, {})
    BY <1>1, <1>3, <1>5, <1>6, <1>12 DEF Replaced, ListsOnce
  <2>2. Once(R2) /\ Mems(R2) = (Mems(R) \ Mem(R[1])) \cup Mem(R2[1])
    BY <2>1, ListReplaced
  <2>3. QED
    BY <1>5, <1>6, <1>12, <2>2
<1>14. Mems(Rests)' = Mems(Rests) \ {t} /\ Once(Rests') /\ t \in Mems(Rests)
  BY <1>5, <1>6, <1>12, <1>13
<1>15. Mems(active)' = Mems(active) /\ Mem(inactive)' = Mem(inactive)
  BY <1>11
<1>16. t \in Queued /\ t \notin later /\ Queued' = Queued \ {t}
  BY <1>1, <1>11, <1>14, <1>15 DEF Queued, ListsOnce
<1>17. ListsOnce' /\ ListTypes'
  BY <1>1, <1>11, <1>14, <1>15 DEF ListsOnce, ListTypes
<1>18. t \notin Calls
  BY <1>16, QueuedFlags
<1>19. \A i \in DOMAIN stack : i # 1 => stack[i].thr \in Calls /\ stack[i].thr # t
  BY <1>3, <1>18, FlagTypes DEF Calls
<1>20. t \in Calls' /\ Calls' \subseteq Calls \cup {t}
  BY <1>3, <1>6, <1>8, <1>10, <1>11, <1>19, ZenonT(30) DEF Calls
<1>21. CallTypes'
  <2>1. failed' \in BOOLEAN
    BY <1>6, <1>11, FlagTypes DEF Start
  <2>2. \A i, k \in DOMAIN stack' : stack'[i].thr = stack'[k].thr => i = k
    BY <1>1, <1>8, <1>10, <1>19 DEF CallTypes
  <2>3. \A i \in DOMAIN stack' : stack'[i].call = stack[i].call
    BY <1>3, <1>4, <1>8, <1>10
  <2>4. \A i \in DOMAIN stack' : stack'[i].call # "event" => i + 1 \in DOMAIN stack'
    BY <1>1, <1>10, <2>3 DEF CallTypes
  <2>5. QED
    BY <1>2, <1>10, <1>11, <2>1, <2>2, <2>4 DEF CallTypes, DisablingOK
<1>22. \A i \in DOMAIN stack' : stack'[i].thr = t \/ \E k \in DOMAIN stack : stack'[i].thr = stack[k].thr
  BY <1>8, <1>10
<1>23. QED
  BY <1>11, <1>16, <1>17, <1>20, <1>21, <1>22, StartStep

\* A call of vthread_run is over.
LEMMA TailFacts ==
  ASSUME FlagInv, stack # << >>, stack[1].rest = << >>, stack' = Tail(stack)
  PROVE  /\ stack' \in Seq(Frame) /\ \A i \in DOMAIN stack' : i \in Nat /\ i + 1 \in DOMAIN stack /\ stack'[i] = stack[i + 1]
         /\ \A i \in DOMAIN stack : i # 1 => i - 1 \in DOMAIN stack'
         /\ Once(Rests') /\ Mems(Rests)' = Mems(Rests)
         /\ \A i, k \in DOMAIN stack' : stack'[i].thr = stack'[k].thr => i = k
         /\ \A i \in DOMAIN stack' : stack'[i].call # "event" => i + 1 \in DOMAIN stack'
<1>1. PICK st \in Seq(Frame) : st = stack /\ 1 \in DOMAIN st /\ DOMAIN st = 1..Len(st) /\ Len(st) \in Nat
  BY FlagTypes
<1>2. PICK tl \in Seq(Frame) : tl = stack' /\ DOMAIN tl = 1..Len(tl) /\ Len(tl) = Len(st) - 1
                               /\ \A i \in 1..Len(tl) : tl[i] = st[i + 1]
  <2>1. /\ Tail(st) \in Seq(Frame) /\ Len(Tail(st)) = Len(st) - 1
        /\ \A i \in 1..Len(Tail(st)) : Tail(st)[i] = st[i + 1]
    BY <1>1, HeadTailProperties
  <2>2. QED
    BY <1>1, <2>1, LenProperties
<1>3. /\ \A i \in DOMAIN tl : i \in Nat /\ i + 1 \in DOMAIN st /\ tl[i] = st[i + 1]
      /\ \A i \in DOMAIN st : i # 1 => i - 1 \in DOMAIN tl /\ i \in Nat
  BY <1>1, <1>2
<1>4. \A i \in DOMAIN stack, k \in DOMAIN stack : stack[i].thr = stack[k].thr => i = k
  BY DEF FlagInv, Frames
<1>5. ASSUME NEW i \in DOMAIN stack', NEW k \in DOMAIN stack', stack'[i].thr = stack'[k].thr PROVE i = k
  <2>1. i + 1 = k + 1
    BY <1>1, <1>2, <1>3, <1>4, <1>5
  <2>2. QED
    BY <1>2, <1>3, <2>1
<1>6. ASSUME NEW i \in DOMAIN stack', stack'[i].call # "event" PROVE i + 1 \in DOMAIN stack'
  <2>1. i + 1 \in DOMAIN st /\ st[i + 1].call # "event" /\ i \in Nat
    BY <1>1, <1>2, <1>3, <1>6
  <2>2. (i + 1) + 1 \in DOMAIN st
    BY <1>1, <2>1 DEF FlagInv, Frames
  <2>3. QED
    BY <1>1, <1>2, <2>1, <2>2
<1>7. PICK R, R2 : /\ R = Rests /\ R2 = Rests' /\ DOMAIN R = DOMAIN st /\ DOMAIN R2 = DOMAIN tl
                   /\ \A i \in DOMAIN st : R[i] = st[i].rest
                   /\ \A i \in DOMAIN tl : R2[i] = tl[i].rest
  <2>1. PICK R, R2 : R = Rests /\ R2 = Rests'
    OBVIOUS
  <2>2. R = [i \in DOMAIN st |-> st[i].rest]
    BY <1>1, <2>1 DEF Rests
  <2>3. R2 = [i \in DOMAIN tl |-> tl[i].rest]
    BY <1>2, <2>1 DEF Rests
  <2>4. DOMAIN R = DOMAIN st /\ \A i \in DOMAIN st : R[i] = st[i].rest
    BY <2>2
  <2>5. DOMAIN R2 = DOMAIN tl /\ \A i \in DOMAIN tl : R2[i] = tl[i].rest
    BY <2>3
  <2>6. QED
    BY <2>1, <2>4, <2>5
<1>8. ASSUME NEW i \in DOMAIN R2 PROVE i \in Nat /\ i + 1 \in DOMAIN R /\ R2[i] = R[i + 1]
  <2>1. i \in DOMAIN tl /\ i \in Nat /\ i + 1 \in DOMAIN st /\ tl[i] = st[i + 1]
    BY <1>3, <1>7
  <2>2. R2[i] = tl[i].rest /\ R[i + 1] = st[i + 1].rest
    BY <1>7, <2>1
  <2>3. QED
    BY <1>7, <2>1, <2>2
<1>9. \A i \in DOMAIN R : i # 1 => i - 1 \in DOMAIN R2 /\ R2[i - 1] = R[i]
  <2>1. \A i \in DOMAIN R : i # 1 => i - 1 \in DOMAIN R2 /\ i \in Nat /\ (i - 1) + 1 = i
    BY <1>3, <1>7
  <2>2. QED
    BY <1>8, <2>1
<1>10. R[1] = << >> /\ \A j : j \notin DOMAIN R[1]
  BY <1>1, <1>7
<1>11. Once(R2)
  <2> SUFFICES ASSUME NEW i \in DOMAIN R2, NEW k \in DOMAIN R2, NEW j \in DOMAIN R2[i], NEW l \in DOMAIN R2[k],
                      R2[i][j] = R2[k][l]
               PROVE  i = k /\ j = l
    BY DEF Once
  <2>1. Once(R)
    BY <1>7 DEF FlagInv, ListsOnce
  <2>2. i + 1 = k + 1 /\ j = l
    BY <1>8, <2>1 DEF Once
  <2>3. QED
    BY <1>8, <2>2
<1>12. \A x : x \in Mems(R2) <=> x \in Mems(R)
  <2>1. ASSUME NEW x, x \in Mems(R2) PROVE x \in Mems(R)
    BY <1>8, <2>1, InMems
  <2>2. ASSUME NEW x, x \in Mems(R) PROVE x \in Mems(R2)
    <3>1. PICK i \in DOMAIN R : \E j \in DOMAIN R[i] : x = R[i][j]
      BY <2>2, InMems
    <3>2. i # 1
      BY <1>10, <3>1
    <3>3. QED
      BY <1>9, <3>1, <3>2, InMems
  <2>3. QED
    BY <2>1, <2>2
<1>13. Mems(R2) = Mems(R)
  BY <1>12
<1>14. QED
  BY <1>1, <1>2, <1>3, <1>5, <1>6, <1>7, <1>11, <1>13

LEMMA CallFlags ==
  ASSUME FlagInv, NEW t \in Calls
  PROVE  /\ t \in Tid /\ thread[t] \in Thread /\ FlagsOf(thread[t], FALSE, FALSE, TRUE, FALSE)
         /\ t \notin Queued /\ t \notin Mems(waiting) /\ t \notin later /\ thread[t].status # "unborn"
<1>1. t \in Tid /\ (t \in Calls) = TRUE /\ thread[t] \in Thread
  BY FlagTypes DEF Calls
<1>2. FlagsOf(thread[t], t \in Queued, t \in Mems(waiting), TRUE, t \in later)
  <2>1. FlagsOf(thread[t], t \in Queued, t \in Mems(waiting), t \in Calls, t \in later)
    BY <1>1 DEF FlagInv, FlagsHold
  <2>2. QED
    BY <1>1, <2>1
<1>3. t \notin Queued /\ t \notin Mems(waiting) /\ t \notin later /\ thread[t].status # "unborn"
  BY <1>2, Zenon DEF FlagsOf
<1>4. (t \in Queued) = FALSE /\ (t \in Mems(waiting)) = FALSE /\ (t \in later) = FALSE
  BY <1>3
<1>5. QED
  BY <1>1, <1>2, <1>3, <1>4

\* The calls that are left when the innermost one is over.
LEMMA PopStep ==
  ASSUME FlagInv, QuietAll(thread, thread'), UNCHANGED <<active, inactive, later, waiting, disabling>>,
         ret, stack[1].rest = << >>, stack' = Tail(stack), ret' = FALSE, failed' \in BOOLEAN
  PROVE  FlagInv'
<1>1. ListTypes /\ ListsOnce /\ CallTypes /\ thread \in Threads
  BY FlagInvParts
<1>2. stack # << >> /\ disabling = Nil
  BY <1>1 DEF CallTypes, DisablingOK
<1>3. /\ stack' \in Seq(Frame) /\ \A i \in DOMAIN stack' : i \in Nat /\ i + 1 \in DOMAIN stack /\ stack'[i] = stack[i + 1]
      /\ Once(Rests') /\ Mems(Rests)' = Mems(Rests)
      /\ \A i, k \in DOMAIN stack' : stack'[i].thr = stack'[k].thr => i = k
      /\ \A i \in DOMAIN stack' : stack'[i].call # "event" => i + 1 \in DOMAIN stack'
  BY <1>2, TailFacts
<1>4. Calls' \subseteq Calls
  <2> SUFFICES ASSUME NEW t \in Calls' PROVE t \in Calls
    OBVIOUS
  <2>1. t \in Tid /\ \E i \in DOMAIN stack' : stack'[i].thr = t
    BY DEF Calls
  <2>2. PICK i \in DOMAIN stack' : stack'[i].thr = t
    BY <2>1
  <2>3. i + 1 \in DOMAIN stack /\ stack[i + 1].thr = t /\ i + 1 # 1
    BY <1>3, <2>2, FlagTypes
  <2>4. QED
    BY <2>1, <2>3 DEF Calls
<1>5. Mems(active)' = Mems(active) /\ Mem(inactive)' = Mem(inactive) /\ Queued' = Queued
      /\ Mems(waiting)' = Mems(waiting)
  BY <1>3 DEF Queued
<1>6. FlagsAll(thread', Queued, Mems(waiting), Calls', later)
  <2>1. FlagsAll(thread, Queued, Mems(waiting), Calls, later) /\ thread' \in Threads
    BY FlagInvParts DEF QuietAll
  <2>2. QED
    BY <1>1, <1>4, <2>1, FlagsAllQuiet
<1>7. FlagsHold'
  BY <1>5, <1>6 DEF FlagsHold, FlagsAll
<1>8. ListTypes' /\ ListsOnce'
  BY <1>1, <1>3, <1>5 DEF ListTypes, ListsOnce
<1>9. CallTypes'
  BY <1>2, <1>3 DEF CallTypes, DisablingOK
<1>10. \A i \in DOMAIN stack' : thread'[stack'[i].thr].status # "unborn"
  <2> SUFFICES ASSUME NEW i \in DOMAIN stack' PROVE thread'[stack'[i].thr].status # "unborn"
    OBVIOUS
  <2>1. i + 1 \in DOMAIN stack /\ stack'[i] = stack[i + 1]
    BY <1>3
  <2>2. stack[i + 1].thr \in Tid /\ thread[stack[i + 1].thr].status # "unborn"
    BY <2>1, FlagTypes, FlagInvParts
  <2>3. QED
    BY <2>1, <2>2 DEF QuietAll, Quiet
<1>11. TypeOK' /\ Frames'
  BY <1>8, <1>9, <1>10 DEF TypeOK, Frames, ListTypes, CallTypes, DisablingOK, Threads, QuietAll
<1>12. QED
  BY <1>7, <1>8, <1>11 DEF FlagInv

LEMMA RunDoneFlags ==
  ASSUME FlagInv, RunDone
  PROVE  FlagInv'
<1>1. QuietAll(thread, thread')
  BY QuietSelf, FlagTypes DEF QuietAll, RunDone
<1>2. QED
  BY <1>1, PopStep, FlagTypes DEF RunDone, Returning

\* The function has not ended when vthread_run returns: its caller joins it.
LEMMA CallfSleeps ==
  ASSUME FlagInv, CallfReturns, ~thread[stack[1].thr].i_have_ended
  PROVE  FlagInv'
<1>1. ListTypes /\ ListsOnce /\ CallTypes /\ thread \in Threads
  BY FlagInvParts
<1>2. /\ ret /\ stack[1].rest = << >> /\ stack[1].call = "callf" /\ stack' = Tail(stack)
      /\ thread' = [thread EXCEPT ![stack[2].thr].i_am_joining = TRUE] /\ ret' = TRUE /\ failed' = FALSE
      /\ UNCHANGED <<active, inactive, later, waiting, disabling>>
  BY DEF CallfReturns, Returning
<1>3. stack # << >> /\ disabling = Nil
  BY <1>1, <1>2 DEF CallTypes, DisablingOK
<1>4. 1 \in DOMAIN stack /\ 2 \in DOMAIN stack
  <2>1. 1 \in DOMAIN stack
    BY <1>3, FlagTypes
  <2>2. 1 + 1 \in DOMAIN stack
    BY <1>1, <1>2, <2>1 DEF CallTypes
  <2>3. QED
    BY <2>1, <2>2
<1>5. PICK t : t = stack[2].thr
  OBVIOUS
<1>6. t \in Calls
  <2>1. stack[2].thr \in Tid
    BY <1>4, FlagTypes
  <2>2. QED
    BY <1>4, <1>5, <2>1 DEF Calls
<1>7. PICK r \in Thread : r = thread[t] /\ t \in Tid /\ FlagsOf(r, FALSE, FALSE, TRUE, FALSE) /\ r.status # "unborn"
  BY <1>6, CallFlags
<1>8. PICK x : x = [r EXCEPT !.i_am_joining = TRUE]
  OBVIOUS
<1>9. x \in Thread /\ FlagsOf(x, FALSE, FALSE, FALSE, FALSE)
  BY <1>7, <1>8, FlagsChange
<1>10. x.status = r.status
  BY <1>8 DEF Thread
<1>11. thread' = [thread EXCEPT ![t] = x]
  BY <1>1, <1>2, <1>5, <1>7, <1>8 DEF Threads
<1>12. thread' \in Threads /\ thread'[t] = x /\ \A u \in Tid : u # t => thread'[u] = thread[u]
  BY <1>1, <1>7, <1>9, <1>11 DEF Threads
<1>13. /\ stack' \in Seq(Frame) /\ \A i \in DOMAIN stack' : i \in Nat /\ i + 1 \in DOMAIN stack /\ stack'[i] = stack[i + 1]
       /\ \A i \in DOMAIN stack : i # 1 => i - 1 \in DOMAIN stack'
       /\ Once(Rests') /\ Mems(Rests)' = Mems(Rests)
       /\ \A i, k \in DOMAIN stack' : stack'[i].thr = stack'[k].thr => i = k
       /\ \A i \in DOMAIN stack' : stack'[i].call # "event" => i + 1 \in DOMAIN stack'
  BY <1>2, <1>3, TailFacts
<1>14. 1 \in DOMAIN stack' /\ stack'[1].thr = t /\ stack' # << >>
  <2>1. 2 - 1 \in DOMAIN stack'
    BY <1>4, <1>13
  <2>2. 1 \in DOMAIN stack'
    BY <2>1
  <2>3. stack'[1] = stack[1 + 1]
    BY <1>13, <2>2
  <2>4. QED
    BY <1>5, <2>2, <2>3
<1>15. t \notin Calls' /\ Calls' \subseteq Calls
  <2>1. ASSUME NEW u \in Calls' PROVE u \in Calls /\ u # t
    <3>1. PICK i \in DOMAIN stack' : u \in Tid /\ stack'[i].thr = u /\ i # 1
      BY <1>2, <2>1 DEF Calls
    <3>2. i + 1 \in DOMAIN stack /\ stack[i + 1].thr = u /\ i + 1 # 1
      BY <1>13, <3>1
    <3>3. u \in Calls
      BY <3>1, <3>2 DEF Calls
    <3>4. u # t
      BY <1>13, <1>14, <3>1
    <3>5. QED
      BY <3>3, <3>4
  <2>2. QED
    BY <2>1
<1>16. Mems(active)' = Mems(active) /\ Mem(inactive)' = Mem(inactive) /\ Queued' = Queued
      /\ Mems(waiting)' = Mems(waiting)
  BY <1>2, <1>13 DEF Queued
<1>17. (t \in Queued') = FALSE /\ (t \in Mems(waiting)') = FALSE /\ (t \in later') = FALSE /\ (t \in Calls') = FALSE
  <2>1. t \notin Queued /\ t \notin Mems(waiting) /\ t \notin later
    BY <1>6, CallFlags
  <2>2. QED
    BY <1>2, <1>15, <1>16, <2>1
<1>18. FlagsOf(thread'[t], t \in Queued', t \in Mems(waiting)', t \in Calls', t \in later')
  BY <1>9, <1>12, <1>17
<1>19. ListTypes' /\ ListsOnce'
  BY <1>1, <1>2, <1>13, <1>16 DEF ListTypes, ListsOnce
<1>20. CallTypes'
  BY <1>2, <1>3, <1>13, <1>14 DEF CallTypes, DisablingOK
<1>21. \A i \in DOMAIN stack' : \E k \in DOMAIN stack : stack'[i].thr = stack[k].thr
  BY <1>13
<1>22. /\ \A u \in Tid : u # t => Quiet(thread[u], thread'[u])
       /\ Queued' \ {t} = Queued \ {t} /\ Mems(waiting)' \ {t} = Mems(waiting) \ {t}
       /\ later' \ {t} = later \ {t} /\ Calls' \ {t} \subseteq Calls /\ thread'[t].status # "unborn"
  BY <1>2, <1>7, <1>10, <1>12, <1>15, <1>16, QuietSelf
<1>23. QED
  BY <1>7, <1>12, <1>18, <1>19, <1>20, <1>21, <1>22, ChangeStep

LEMMA CallfReturnsFlags ==
  ASSUME FlagInv, CallfReturns
  PROVE  FlagInv'
<1>1. CASE ~thread[stack[1].thr].i_have_ended
  BY <1>1, CallfSleeps
<1>2. CASE thread[stack[1].thr].i_have_ended
  <2>1. PICK c : c = stack[1].thr
    OBVIOUS
  <2>2. /\ ret /\ stack[1].rest = << >> /\ stack' = Tail(stack)
        /\ thread' = vthread_reap(thread, c) /\ ret' = FALSE /\ failed' \in BOOLEAN
        /\ UNCHANGED <<active, inactive, later, waiting, disabling>>
    BY <1>2, <2>1 DEF CallfReturns, Returning
  <2>3. c \in Tid /\ thread \in Threads
    <3>1. stack # << >>
      BY <2>2 DEF FlagInv, TypeOK
    <3>2. 1 \in DOMAIN stack
      BY <3>1, FlagTypes
    <3>3. QED
      BY <2>1, <3>2, FlagTypes
  <2>4. QuietAll(thread, thread')
    BY <2>2, <2>3, ReapQuiet
  <2>5. QED
    BY <2>2, <2>4, PopStep
<1>3. QED
  BY <1>1, <1>2

-----------------------------------------------------------------------------
(***************************************************************************)
(* The steps that create a thread.                                         *)
(***************************************************************************)

LEMMA FreshFacts ==
  ASSUME FlagInv, Free # {}
  PROVE  /\ Fresh \in Tid /\ thread[Fresh].status = "unborn"
         /\ Fresh \notin Queued /\ Fresh \notin Mems(waiting) /\ Fresh \notin Calls /\ Fresh \notin later
         /\ \A i \in DOMAIN stack : stack[i].thr # Fresh
<1>1. PICK c : c = Fresh
  OBVIOUS
<1>2. c \in Tid /\ thread[c].status = "unborn"
  BY <1>1 DEF Free, Fresh
<1>3. FlagsOf(thread[c], c \in Queued, c \in Mems(waiting), c \in Calls, c \in later)
  BY <1>2 DEF FlagInv, FlagsHold
<1>4. c \notin Queued /\ c \notin Mems(waiting) /\ c \notin Calls /\ c \notin later
  BY <1>2, <1>3, Zenon DEF FlagsOf
<1>5. \A i \in DOMAIN stack : stack[i].thr # c
  BY <1>2, FlagInvParts
<1>6. QED
  BY <1>1, <1>2, <1>4, <1>5

\* A new thread, scheduled or run at once, and the flags it has.
Child(s, p, fn, sc) ==
  [vthread_new(s) EXCEPT !.parent = p, !.i_am_in_function = fn, !.is_scheduled = sc]

LEMMA ChildFields ==
  ASSUME NEW s \in Scopes, NEW p \in Tid, NEW fn \in BOOLEAN, NEW sc \in BOOLEAN
  PROVE  /\ Child(s, p, fn, sc) \in Thread /\ Child(s, p, fn, sc).status = "alive"
         /\ sc => FlagsOf(Child(s, p, fn, sc), TRUE, FALSE, FALSE, FALSE)
         /\ ~sc => FlagsOf(Child(s, p, fn, sc), FALSE, FALSE, TRUE, FALSE)
<1>1. PICK x : x = Child(s, p, fn, sc)
  OBVIOUS
<1>2. /\ x \in Thread /\ x.status = "alive" /\ x.is_scheduled = sc /\ x.waiting_for_event = FALSE
      /\ x.i_am_joining = FALSE /\ x.i_am_waiting = FALSE
  <2>1. PICK n \in Thread : n = vthread_new(s)
    BY NewType
  <2>2. /\ n.waiting_for_event = FALSE /\ n.i_am_joining = FALSE /\ n.i_am_waiting = FALSE
        /\ n.status = "alive"
    BY <2>1 DEF vthread_new
  <2>3. x = [n EXCEPT !.parent = p, !.i_am_in_function = fn, !.is_scheduled = sc]
    BY <1>1, <2>1 DEF Child
  <2>4. QED
    BY <2>2, <2>3 DEF Thread
<1>3. (sc => FlagsOf(x, TRUE, FALSE, FALSE, FALSE)) /\ (~sc => FlagsOf(x, FALSE, FALSE, TRUE, FALSE))
  BY <1>2 DEF FlagsOf
<1>4. QED
  BY <1>1, <1>2, <1>3

\* The parent t of the new thread c.
LEMMA QuietParent ==
  ASSUME NEW r \in Thread, NEW c \in Tid, NEW f \in Nat
  PROVE  LET x == [r EXCEPT !.children = r.children \cup {c}, !.forks = f]
             y == [r EXCEPT !.children = r.children \cup {c}]
         IN  x \in Thread /\ Quiet(r, x) /\ y \in Thread /\ Quiet(r, y)
<1>1. PICK S \in SUBSET Tid : S = r.children \cup {c}
  BY DEF Thread
<1>2. PICK x : x = [r EXCEPT !.children = S, !.forks = f]
  OBVIOUS
<1>3. /\ x \in Thread /\ x.is_scheduled = r.is_scheduled /\ x.waiting_for_event = r.waiting_for_event
      /\ x.i_am_joining = r.i_am_joining /\ x.i_am_waiting = r.i_am_waiting
      /\ x.status = r.status /\ x.pc = r.pc
  BY <1>2 DEF Thread
<1>4. [r EXCEPT !.children = S] \in Thread /\ Quiet(r, [r EXCEPT !.children = S])
  <2>1. r.parent \in Tid \cup {Nil}
    BY DEF Thread
  <2>2. QED
    BY <2>1, QuietFamily
<1>5. Quiet(r, x)
  BY <1>3 DEF Quiet
<1>6. QED
  BY <1>1, <1>2, <1>3, <1>4, <1>5

\* The new thread c = Fresh becomes x and the thread t changes quietly to y; c
\* is scheduled.
LEMMA ForkSchedules ==
  ASSUME FlagInv, Free # {}, NEW t \in Tid, t # Fresh, NEW x \in Thread, NEW y \in Thread, Quiet(thread[t], y),
         thread' = [[thread EXCEPT ![Fresh] = x] EXCEPT ![t] = y], x.status = "alive",
         FlagsOf(x, TRUE, FALSE, FALSE, FALSE),
         active' = <<<<Fresh>>>> \o active,
         UNCHANGED <<inactive, later, waiting, stack, ret, disabling>>, failed' \in BOOLEAN
  PROVE  FlagInv'
<1>1. PICK c \in Tid : /\ c = Fresh /\ c # t /\ c \notin Queued /\ c \notin Mems(waiting)
                       /\ c \notin Calls /\ c \notin later
  BY FreshFacts
<1>2. ListTypes /\ ListsOnce /\ CallTypes /\ thread \in Threads
  BY FlagInvParts
<1>3. thread' \in Threads /\ thread'[c] = x /\ thread'[t] = y /\ \A u \in Tid : u # t /\ u # c => thread'[u] = thread[u]
  BY <1>1, <1>2 DEF Threads
<1>4. \A u \in Tid : u # c => Quiet(thread[u], thread'[u])
  BY <1>3, QuietSelf
<1>5. <<c>> \in Seq(Tid) /\ Mem(<<c>>) = {c} /\ IsInjective(<<c>>) /\ <<c>> # << >>
  BY OneThread
<1>6. c \notin Mems(active) /\ c \notin Mem(inactive) /\ c \notin Mems(Rests)
  BY <1>1 DEF Queued
<1>7. Once(active') /\ Mems(active') = Mems(active) \cup {c} /\ active' \in Seq(Seq(Tid) \ {<< >>})
  <2>1. PICK q \in Seq(Seq(Tid)) : q = active /\ Once(q) /\ Mem(<<c>>) \cap Mems(q) = {}
    <3>1. active \in Seq(Seq(Tid)) /\ Once(active)
      BY <1>2, FlagTypes DEF ListsOnce
    <3>2. QED
      BY <1>5, <1>6, <3>1
  <2>2. Once(<<<<c>>>> \o q) /\ Mems(<<<<c>>>> \o q) = Mems(q) \cup Mem(<<c>>)
    BY <1>5, <2>1, ListInFront
  <2>3. active' \in Seq(Seq(Tid) \ {<< >>})
    BY <1>1, <1>2, <1>5 DEF ListTypes
  <2>4. QED
    BY <1>1, <1>5, <2>1, <2>2, <2>3
<1>8. Rests' = Rests /\ Mems(Rests)' = Mems(Rests) /\ Mems(waiting)' = Mems(waiting)
      /\ Mem(inactive)' = Mem(inactive) /\ Calls' = Calls
  BY DEF Rests, Calls
<1>9. Queued' = Queued \cup {c}
  BY <1>7, <1>8 DEF Queued
<1>10. ListTypes' /\ ListsOnce'
  BY <1>1, <1>2, <1>6, <1>7, <1>8 DEF ListTypes, ListsOnce
<1>11. CallTypes'
  BY <1>2 DEF CallTypes, DisablingOK
<1>12. (c \in Queued') = TRUE /\ (c \in Mems(waiting)') = FALSE /\ (c \in Calls') = FALSE /\ (c \in later') = FALSE
  BY <1>1, <1>8, <1>9
<1>13. FlagsOf(thread'[c], c \in Queued', c \in Mems(waiting)', c \in Calls', c \in later')
  BY <1>3, <1>12
<1>14. /\ Queued' \ {c} = Queued \ {c} /\ Mems(waiting)' \ {c} = Mems(waiting) \ {c}
       /\ later' \ {c} = later \ {c} /\ Calls' \ {c} \subseteq Calls /\ thread'[c].status # "unborn"
  BY <1>3, <1>8, <1>9
<1>15. QED
  BY <1>3, <1>4, <1>10, <1>11, <1>13, <1>14, ChangeStep

\* The same, and c is run at once.
LEMMA ForkCalls ==
  ASSUME FlagInv, Free # {}, NEW t, Running(t), t # Fresh, NEW x \in Thread, NEW y \in Thread, Quiet(thread[t], y),
         thread' = [[thread EXCEPT ![Fresh] = x] EXCEPT ![t] = y], x.status = "alive",
         FlagsOf(x, FALSE, FALSE, TRUE, FALSE),
         NEW call \in {"callf", "fork"}, stack' = Push(Fresh, call),
         UNCHANGED <<active, inactive, later, waiting, ret, disabling>>, failed' \in BOOLEAN
  PROVE  FlagInv'
<1>1. PICK c \in Tid : /\ c = Fresh /\ c # t /\ c \notin Queued /\ c \notin Mems(waiting)
                       /\ c \notin Calls /\ c \notin later /\ \A i \in DOMAIN stack : stack[i].thr # c
  BY FreshFacts
<1>2. ListTypes /\ ListsOnce /\ CallTypes /\ thread \in Threads
  BY FlagInvParts
<1>3. t \in Tid /\ ~ret /\ disabling = Nil /\ stack # << >>
  BY Runs
<1>4. thread' \in Threads /\ thread'[c] = x /\ thread'[t] = y /\ \A u \in Tid : u # t /\ u # c => thread'[u] = thread[u]
  BY <1>1, <1>2, <1>3 DEF Threads
<1>5. \A u \in Tid : u # c => Quiet(thread[u], thread'[u])
  BY <1>4, QuietSelf
<1>6. PICK st \in Seq(Frame) : st = stack /\ DOMAIN st = 1..Len(st) /\ Len(st) \in Nat /\ Len(st) > 0
  BY <1>3, FlagTypes
<1>7. PICK fr : fr = [thr |-> c, rest |-> << >>, call |-> call]
  OBVIOUS
<1>8. fr \in Frame /\ fr.thr = c /\ fr.rest = << >> /\ fr.call # "event"
  <2>1. << >> \in Seq(Tid)
    BY EmptySeq
  <2>2. QED
    BY <1>7, <2>1 DEF Frame
<1>9. PICK pu \in Seq(Frame) : pu = stack' /\ DOMAIN pu = 1..Len(st) + 1 /\ pu[1] = fr
                               /\ \A i \in 1..Len(st) : pu[i + 1] = st[i]
  <2>1. stack' = <<fr>> \o st
    BY <1>1, <1>6, <1>7 DEF Push
  <2>2. fr \in Frame /\ st \in Seq(Frame)
    BY <1>8
  <2>3. /\ <<fr>> \o st \in Seq(Frame) /\ Len(<<fr>> \o st) = Len(st) + 1
        /\ \A i \in 1..Len(st) + 1 : (<<fr>> \o st)[i] = IF i = 1 THEN fr ELSE st[i - 1]
    BY <2>2
  <2>4. PICK pu \in Seq(Frame) : /\ pu = <<fr>> \o st /\ Len(pu) = Len(st) + 1
                                 /\ \A i \in 1..Len(st) + 1 : pu[i] = IF i = 1 THEN fr ELSE st[i - 1]
    BY <2>3
  <2>5. DOMAIN pu = 1..Len(st) + 1 /\ pu[1] = fr /\ \A i \in 1..Len(st) : pu[i + 1] = st[i]
    <3>1. \A i \in 1..Len(st) : i + 1 \in 1..Len(st) + 1 /\ i + 1 # 1 /\ (i + 1) - 1 = i
      BY <1>6
    <3>2. 1 \in 1..Len(st) + 1 /\ DOMAIN pu = 1..Len(pu)
      BY <1>6
    <3>3. QED
      BY <2>4, <3>1, <3>2
  <2>6. QED
    BY <2>1, <2>4, <2>5
<1>10. \A i \in DOMAIN pu : \/ i = 1 /\ pu[i] = fr
                            \/ i # 1 /\ i - 1 \in DOMAIN st /\ pu[i] = st[i - 1]
  <2> SUFFICES ASSUME NEW i \in DOMAIN pu, i # 1 PROVE i - 1 \in DOMAIN st /\ pu[i] = st[i - 1]
    BY <1>9
  <2>1. i - 1 \in 1..Len(st) /\ (i - 1) + 1 = i
    BY <1>6, <1>9
  <2>2. QED
    BY <1>6, <1>9, <2>1
<1>11. \A i \in DOMAIN st : i + 1 \in DOMAIN pu /\ pu[i + 1] = st[i] /\ i \in Nat /\ i + 1 # 1
  BY <1>6, <1>9
<1>12. Once(Rests') /\ Mems(Rests)' = Mems(Rests)
  <2>1. PICK R, R2 : R = Rests /\ R2 = Rests'
    OBVIOUS
  <2>2. DOMAIN R = DOMAIN st /\ \A i \in DOMAIN st : R[i] = st[i].rest
    BY <1>6, <2>1 DEF Rests
  <2>3. DOMAIN R2 = DOMAIN pu /\ \A i \in DOMAIN pu : R2[i] = pu[i].rest
    BY <1>9, <2>1 DEF Rests
  <2>4. \A i \in DOMAIN R2 : \A j \in DOMAIN R2[i] : i # 1 /\ i - 1 \in DOMAIN R /\ R2[i] = R[i - 1]
    <3> SUFFICES ASSUME NEW i \in DOMAIN R2, NEW j \in DOMAIN R2[i]
                 PROVE  i # 1 /\ i - 1 \in DOMAIN R /\ R2[i] = R[i - 1]
      OBVIOUS
    <3>1. R2[i] = pu[i].rest /\ i \in DOMAIN pu
      BY <2>3
    <3>2. i # 1
      <4>1. R2[1] = << >>
        BY <1>8, <1>9, <2>3
      <4>2. QED
        BY <4>1
    <3>3. i - 1 \in DOMAIN st /\ pu[i] = st[i - 1]
      BY <1>10, <3>1, <3>2
    <3>4. QED
      BY <2>2, <3>1, <3>2, <3>3
  <2>5. \A i \in DOMAIN R : i + 1 \in DOMAIN R2 /\ R2[i + 1] = R[i]
    BY <1>11, <2>2, <2>3
  <2>6. Once(R2)
    <3> SUFFICES ASSUME NEW i \in DOMAIN R2, NEW k \in DOMAIN R2, NEW j \in DOMAIN R2[i], NEW l \in DOMAIN R2[k],
                        R2[i][j] = R2[k][l]
                 PROVE  i = k /\ j = l
      BY DEF Once
    <3>1. Once(R)
      BY <1>2, <2>1 DEF ListsOnce
    <3>2. i - 1 = k - 1 /\ j = l
      BY <2>4, <3>1 DEF Once
    <3>3. i \in Nat /\ k \in Nat
      BY <1>6, <1>9, <2>3
    <3>4. QED
      BY <3>2, <3>3
  <2>7. \A z : z \in Mems(R2) <=> z \in Mems(R)
    <3>1. ASSUME NEW z, z \in Mems(R2) PROVE z \in Mems(R)
      BY <2>4, <3>1, InMems
    <3>2. ASSUME NEW z, z \in Mems(R) PROVE z \in Mems(R2)
      BY <2>5, <3>2, InMems
    <3>3. QED
      BY <3>1, <3>2
  <2>8. Mems(R2) = Mems(R)
    BY <2>7
  <2>9. QED
    BY <2>1, <2>6, <2>8
<1>13. Mems(waiting)' = Mems(waiting) /\ Mem(inactive)' = Mem(inactive) /\ Mems(active)' = Mems(active)
       /\ Queued' = Queued
  BY <1>12 DEF Queued
<1>14. c \in Calls' /\ Calls' \ {c} \subseteq Calls
  <2>1. c \in Calls'
    BY <1>3, <1>6, <1>8, <1>9 DEF Calls
  <2>2. ASSUME NEW u \in Calls', u # c PROVE u \in Calls
    <3>1. PICK i \in DOMAIN pu : u \in Tid /\ pu[i].thr = u
      BY <1>9, <2>2 DEF Calls
    <3>2. i - 1 \in DOMAIN stack /\ stack[i - 1].thr = u
      BY <1>6, <1>8, <1>10, <2>2, <3>1
    <3>3. QED
      BY <1>3, <3>1, <3>2 DEF Calls
  <2>3. QED
    BY <2>1, <2>2
<1>15. ListTypes' /\ ListsOnce'
  BY <1>2, <1>12, <1>13 DEF ListTypes, ListsOnce
<1>16. CallTypes'
  <2>1. ASSUME NEW i \in DOMAIN pu, NEW k \in DOMAIN pu, pu[i].thr = pu[k].thr PROVE i = k
    <3>1. i \in Nat /\ k \in Nat
      BY <1>6, <1>9
    <3>2. CASE i = 1 \/ k = 1
      BY <1>1, <1>6, <1>8, <1>10, <2>1, <3>2
    <3>3. CASE i # 1 /\ k # 1
      <4>1. i - 1 = k - 1
        BY <1>2, <1>6, <1>10, <2>1, <3>3 DEF CallTypes
      <4>2. QED
        BY <3>1, <4>1
    <3>4. QED
      BY <3>2, <3>3
  <2>2. ASSUME NEW i \in DOMAIN pu, pu[i].call # "event" PROVE i + 1 \in DOMAIN pu
    <3>1. CASE i = 1
      BY <1>6, <1>9, <3>1
    <3>2. CASE i # 1
      <4>1. (i - 1) + 1 \in DOMAIN st
        BY <1>2, <1>6, <1>10, <2>2, <3>2 DEF CallTypes
      <4>2. QED
        BY <1>6, <1>9, <4>1
    <3>3. QED
      BY <3>1, <3>2
  <2>3. stack' # << >>
    BY <1>6, <1>9
  <2>4. QED
    BY <1>2, <1>3, <1>9, <2>1, <2>2, <2>3 DEF CallTypes, DisablingOK
<1>17. (c \in Queued') = FALSE /\ (c \in Mems(waiting)') = FALSE /\ (c \in Calls') = TRUE /\ (c \in later') = FALSE
  BY <1>1, <1>13, <1>14
<1>18. FlagsOf(thread'[c], c \in Queued', c \in Mems(waiting)', c \in Calls', c \in later')
  BY <1>4, <1>17
<1>19. /\ Queued' \ {c} = Queued \ {c} /\ Mems(waiting)' \ {c} = Mems(waiting) \ {c}
       /\ later' \ {c} = later \ {c} /\ thread'[c].status # "unborn"
  BY <1>4, <1>13
<1>20. \A i \in DOMAIN stack' : stack'[i].thr = c \/ \E k \in DOMAIN stack : stack'[i].thr = stack[k].thr
  BY <1>6, <1>8, <1>9, <1>10
<1>21. QED
  BY <1>4, <1>5, <1>14, <1>15, <1>16, <1>18, <1>19, <1>20, ChangeStep

LEMMA ForkFlags ==
  ASSUME FlagInv, NEW t, of_FORK(t)
  PROVE  FlagInv'
<1>1. Running(t) /\ thread[t].forks > 0 /\ Free # {}
  BY DEF of_FORK, Executes
<1>2. PICK r \in Thread : r = thread[t] /\ t \in Tid /\ r.status # "unborn"
  BY <1>1, Runs
<1>3. PICK c \in Tid : c = Fresh /\ c # t
  BY <1>1, <1>2, FreshFacts
<1>4. PICK fn \in BOOLEAN, sc \in BOOLEAN, s \in Scopes : fn = r.i_am_in_function /\ sc = ~fn /\ s = r.scope
  <2>1. r.i_am_in_function \in BOOLEAN /\ r.scope \in Scopes
    BY DEF Thread
  <2>2. QED
    BY <2>1
<1>5. PICK f \in Nat : f = r.forks - 1
  BY <1>1, <1>2 DEF Thread
<1>6. PICK x : x = Child(s, t, fn, sc)
  OBVIOUS
<1>7. /\ x \in Thread /\ x.status = "alive" /\ (sc => FlagsOf(x, TRUE, FALSE, FALSE, FALSE))
      /\ (~sc => FlagsOf(x, FALSE, FALSE, TRUE, FALSE))
  BY <1>2, <1>6, ChildFields
<1>8. PICK y : y = [r EXCEPT !.children = r.children \cup {c}, !.forks = f]
  OBVIOUS
<1>9. y \in Thread /\ Quiet(thread[t], y)
  BY <1>2, <1>8, QuietParent
<1>10. thread' = [[thread EXCEPT ![c] = x] EXCEPT ![t] = y]
  <2>1. thread' = [thread EXCEPT ![c] = x, ![t].children = @ \cup {c}, ![t].forks = @ - 1]
    BY <1>2, <1>3, <1>4, <1>6 DEF of_FORK, Child
  <2>2. QED
    BY <1>2, <1>3, <1>5, <1>8, <2>1, FlagTypes DEF Threads
<1>11. UNCHANGED <<inactive, later, waiting, ret, disabling>> /\ failed' \in BOOLEAN
  BY FlagTypes DEF of_FORK
<1>12. CASE fn
  <2>1. stack' = Push(c, "fork") /\ UNCHANGED active
    BY <1>2, <1>3, <1>4, <1>12 DEF of_FORK
  <2>2. "fork" \in {"callf", "fork"} /\ FlagsOf(x, FALSE, FALSE, TRUE, FALSE)
    BY <1>4, <1>7, <1>12
  <2>3. QED
    BY <1>1, <1>3, <1>7, <1>9, <1>10, <1>11, <2>1, <2>2, ForkCalls
<1>13. CASE ~fn
  <2>1. active' = <<<<c>>>> \o active /\ UNCHANGED stack
    BY <1>2, <1>3, <1>4, <1>13 DEF of_FORK
  <2>2. FlagsOf(x, TRUE, FALSE, FALSE, FALSE)
    BY <1>4, <1>7, <1>13
  <2>3. QED
    BY <1>1, <1>2, <1>3, <1>7, <1>9, <1>10, <1>11, <2>1, <2>2, ForkSchedules
<1>14. QED
  BY <1>12, <1>13

LEMMA CallfFlags ==
  ASSUME FlagInv, NEW t, NEW s \in Scopes, of_CALLF(t, s)
  PROVE  FlagInv'
<1>1. Running(t) /\ Free # {}
  BY DEF of_CALLF, Does, Idle, Executes
<1>2. PICK r \in Thread : r = thread[t] /\ t \in Tid /\ r.status # "unborn"
  BY <1>1, Runs
<1>3. PICK c \in Tid : c = Fresh /\ c # t
  BY <1>1, <1>2, FreshFacts
<1>4. PICK x : x = [vthread_new(s) EXCEPT !.parent = t, !.i_am_in_function = TRUE]
  OBVIOUS
<1>5. x \in Thread /\ x.status = "alive" /\ FlagsOf(x, FALSE, FALSE, TRUE, FALSE)
  <2>1. PICK n \in Thread : n = vthread_new(s) /\ n.is_scheduled = FALSE
    BY NewType DEF vthread_new
  <2>2. [n EXCEPT !.parent = t, !.i_am_in_function = TRUE]
          = [n EXCEPT !.parent = t, !.i_am_in_function = TRUE, !.is_scheduled = FALSE]
    BY <2>1 DEF Thread
  <2>3. x = Child(s, t, TRUE, FALSE)
    BY <1>4, <2>1, <2>2 DEF Child
  <2>4. TRUE \in BOOLEAN /\ FALSE \in BOOLEAN
    OBVIOUS
  <2>5. QED
    BY <1>2, <2>3, <2>4, ChildFields
<1>6. PICK y : y = [r EXCEPT !.children = r.children \cup {c}]
  OBVIOUS
<1>7. y \in Thread /\ Quiet(thread[t], y)
  BY <1>2, <1>6, QuietParent
<1>8. thread' = [[thread EXCEPT ![c] = x] EXCEPT ![t] = y]
  <2>1. thread' = [thread EXCEPT ![c] = x, ![t].children = @ \cup {c}]
    BY <1>3, <1>4 DEF of_CALLF
  <2>2. QED
    BY <1>2, <1>3, <1>6, <2>1, FlagTypes DEF Threads
<1>9. /\ UNCHANGED <<active, inactive, later, waiting, ret, disabling>> /\ failed' \in BOOLEAN
      /\ stack' = Push(c, "callf") /\ "callf" \in {"callf", "fork"}
  BY <1>3 DEF of_CALLF
<1>10. QED
  BY <1>1, <1>3, <1>5, <1>7, <1>8, <1>9, ForkCalls

-----------------------------------------------------------------------------
(***************************************************************************)
(* The scheduler between two events.                                       *)
(***************************************************************************)

\* Threads change lists in the queue; none is delayed anew.
LEMMA MoveStep ==
  ASSUME FlagInv, UNCHANGED <<thread, waiting, stack, ret, disabling, failed>>,
         Queued' = Queued, later' \subseteq later, ListTypes', ListsOnce'
  PROVE  FlagInv'
<1>1. CallTypes /\ thread \in Threads
  BY FlagInvParts
<1>2. Calls' = Calls /\ Mems(waiting)' = Mems(waiting)
  BY DEF Calls
<1>3. ASSUME NEW t \in Tid PROVE FlagsOf(thread[t], t \in Queued, t \in Mems(waiting), t \in Calls, t \in later')
  <2>1. FlagsOf(thread[t], t \in Queued, t \in Mems(waiting), t \in Calls, t \in later)
    BY DEF FlagInv, FlagsHold
  <2>2. t \in later' => t \in later
    OBVIOUS
  <2>3. QED
    BY <2>1, <2>2, Zenon DEF FlagsOf
<1>4. FlagsHold'
  BY <1>2, <1>3 DEF FlagsHold
<1>5. CallTypes'
  BY <1>1 DEF CallTypes, DisablingOK
<1>6. \A i \in DOMAIN stack' : thread'[stack'[i].thr].status # "unborn"
  BY FlagInvParts
<1>7. TypeOK' /\ Frames'
  BY <1>1, <1>5, <1>6 DEF TypeOK, Frames, ListTypes, CallTypes, DisablingOK, Threads
<1>8. QED
  BY <1>4, <1>7 DEF FlagInv

LEMMA InactiveFlags ==
  ASSUME FlagInv, Inactive
  PROVE  FlagInv'
<1>1. ListTypes /\ ListsOnce
  BY FlagInvParts
<1>2. PICK s \in Seq(Tid) : s = inactive /\ IsInjective(s) /\ DOMAIN s = 1..Len(s)
  BY <1>1, LenProperties DEF ListTypes, ListsOnce
<1>3. active' = [i \in DOMAIN s |-> <<s[i]>>]
  BY <1>2 DEF Inactive
<1>4. active' \in Seq(Seq(Tid) \ {<< >>}) /\ Once(active') /\ Mems(active') = Mem(inactive)
  BY <1>2, <1>3, Singles
<1>5. active = << >> /\ inactive' = << >> /\ UNCHANGED <<thread, later, waiting, stack, ret, disabling, failed>>
  BY DEF Inactive
<1>6. Mems(active) = {} /\ Mem(inactive') = {} /\ IsInjective(inactive') /\ inactive' \in Seq(Tid)
  BY <1>5, EmptyList, EmptySeq
<1>7. Rests' = Rests /\ Mems(Rests)' = Mems(Rests)
  BY <1>5 DEF Rests
<1>8. Queued' = Queued
  BY <1>4, <1>5, <1>6, <1>7 DEF Queued
<1>9. ListTypes' /\ ListsOnce'
  BY <1>1, <1>4, <1>5, <1>6, <1>7 DEF ListTypes, ListsOnce
<1>10. QED
  BY <1>5, <1>8, <1>9, MoveStep

\* The orders in which the events of one time can be.
LEMMA Orders ==
  ASSUME NEW S \in SUBSET Tid, NEW q \in SetToSeqs(S)
  PROVE  q \in Seq(Tid) /\ IsInjective(q) /\ Mem(q) = S /\ DOMAIN q = 1..Len(q)
<1> DEFINE n == Cardinality(S)
<1>1. IsFiniteSet(S)
  BY ThreadsAssumption, FS_Subset
<1>2. n \in Nat
  BY <1>1, FS_CardinalityType
<1>3. q \in [1..n -> S] /\ \A i, j \in 1..n : q[i] = q[j] => i = j
  BY DEF SetToSeqs
<1>4. q \in Injection(1..n, S)
  BY <1>3 DEF Injection, IsInjective
<1> HIDE DEF n
<1>5. Cardinality(1..n) = n
  BY <1>2, FS_Interval
<1>6. q \in Surjection(1..n, S)
  BY <1>1, <1>4, <1>5, FS_Injection DEF n
<1>7. \A s \in S : \E i \in 1..n : q[i] = s
  BY <1>6 DEF Surjection
<1>8. q \in Seq(Tid) /\ Len(q) = n /\ DOMAIN q = 1..n
  BY <1>2, <1>3
<1>9. \A x : x \in Mem(q) <=> x \in S
  BY <1>3, <1>7, <1>8, InMem
<1>10. QED
  BY <1>3, <1>8, <1>9 DEF IsInjective

LEMMA AdvanceFlags ==
  ASSUME FlagInv, AdvanceTime
  PROVE  FlagInv'
<1>1. ListTypes /\ ListsOnce
  BY FlagInvParts
<1>2. PICK due \in (SUBSET later) \ {{}} : \E q \in SetToSeqs(due) :
        active' = [i \in 1..Len(q) |-> <<q[i]>>] /\ later' = later \ due
  BY DEF AdvanceTime
<1>3. PICK q \in SetToSeqs(due) : active' = [i \in 1..Len(q) |-> <<q[i]>>] /\ later' = later \ due
  BY <1>2
<1>4. due \in SUBSET Tid
  BY <1>1 DEF ListTypes
<1>5. PICK s \in Seq(Tid) : s = q /\ IsInjective(s) /\ Mem(s) = due /\ DOMAIN s = 1..Len(s)
  BY <1>4, Orders
<1>6. active' = [i \in DOMAIN s |-> <<s[i]>>]
  BY <1>3, <1>5
<1>7. active' \in Seq(Seq(Tid) \ {<< >>}) /\ Once(active') /\ Mems(active') = due
  BY <1>5, <1>6, Singles
<1>8. active = << >> /\ UNCHANGED <<thread, inactive, waiting, stack, ret, disabling, failed>>
  BY DEF AdvanceTime, EndOfStep
<1>9. Mems(active) = {} /\ Mem(inactive)' = Mem(inactive)
  BY <1>8, EmptyList
<1>10. Rests' = Rests /\ Mems(Rests)' = Mems(Rests)
  BY <1>8 DEF Rests
<1>11. Queued' = Queued /\ later' \subseteq later
  BY <1>2, <1>3, <1>7, <1>9, <1>10 DEF Queued
<1>12. ListTypes' /\ ListsOnce'
  <2>1. ListTypes'
    BY <1>1, <1>3, <1>7, <1>8 DEF ListTypes
  <2>2. ListsOnce'
    BY <1>1, <1>2, <1>3, <1>7, <1>8, <1>9, <1>10 DEF ListsOnce
  <2>3. QED
    BY <2>1, <2>2
<1>13. QED
  BY <1>8, <1>11, <1>12, MoveStep

\* The threads of the del_thr queue are in no other list.
LEMMA DelThrFlags ==
  ASSUME FlagInv, RunDelThr
  PROVE  FlagInv'
<1>1. /\ stack = << >> /\ active = << >> /\ inactive = << >> /\ ~failed
      /\ UNCHANGED <<active, inactive, later, waiting, stack, ret, disabling, failed>>
      /\ thread' = [t \in Tid |-> IF thread[t].status = "del_thr" THEN Deleted ELSE thread[t]]
  BY DEF RunDelThr, EndOfStep
<1>2. Queued = later
  <2>1. Rests = << >>
    BY <1>1 DEF Rests
  <2>2. QED
    BY <1>1, <2>1, EmptyList DEF Queued
<1>3. ASSUME NEW t \in Tid PROVE thread'[t] \in Thread /\ Quiet(thread[t], thread'[t])
  <2>1. PICK r \in Thread : r = thread[t]
    BY FlagTypes
  <2>2. CASE r.status # "del_thr"
    BY <1>1, <2>1, <2>2, QuietSelf
  <2>3. CASE r.status = "del_thr"
    <3>1. FlagsOf(r, t \in later, t \in Mems(waiting), t \in Calls, t \in later)
      BY <1>2, <2>1 DEF FlagInv, FlagsHold
    <3>2. r.pc = "null" /\ ~r.is_scheduled /\ ~r.waiting_for_event
      BY <2>3, <3>1 DEF FlagsOf
    <3>3. thread'[t] = Deleted
      BY <1>1, <2>1, <2>3
    <3>4. QED
      BY <2>1, <3>2, <3>3, QuietDeleted, NewType
  <2>4. QED
    BY <2>2, <2>3
<1>4. QuietAll(thread, thread')
  <2>1. thread' = [t \in Tid |-> thread'[t]]
    BY <1>1
  <2>2. QED
    BY <1>3, <2>1 DEF QuietAll, Threads
<1>5. SameCalls
  <2>1. CallTypes
    BY FlagInvParts
  <2>2. QED
    BY <1>1, <2>1 DEF SameCalls, CallTypes, DisablingOK
<1>6. QED
  BY <1>1, <1>4, <1>5, QuietStep

LEMMA VpiFlags ==
  ASSUME FlagInv, NEW t, of_VPI_CALL(t)
  PROVE  FlagInv'
<1>1. Executes(t) /\ Running(t)
  BY DEF of_VPI_CALL, Does, Idle, Executes
<1>2. CASE Reschedule(t) /\ active' = Append(active, <<t>>)
  BY <1>1, <1>2, Rescheduled DEF of_VPI_CALL
<1>3. CASE /\ thread' = [thread EXCEPT ![t].delay_delete = TRUE]
           /\ UNCHANGED <<active, waiting, stack, ret, disabling, failed>>
  <2>1. PICK r \in Thread : r = thread[t] /\ t \in Tid
    BY <1>1, Runs
  <2>2. PICK x \in Thread : x = [r EXCEPT !.delay_delete = TRUE] /\ Quiet(r, x)
    <3>1. r.scope \in Scopes /\ 0 \in Nat
      BY DEF Thread
    <3>2. QED
      BY <3>1, QuietCounts
  <2>3. thread' = [thread EXCEPT ![t] = x]
    BY <1>3, <2>1, <2>2, FlagTypes DEF Threads
  <2>4. QuietAll(thread, thread')
    BY <2>1, <2>2, <2>3, QuietOne, FlagTypes
  <2>5. SameCalls
    BY <1>1, <1>3, Runs, FlagTypes DEF SameCalls, DisablingOK
  <2>6. QED
    BY <1>3, <2>4, <2>5, QuietStep DEF of_VPI_CALL
<1>4. QED
  BY <1>2, <1>3 DEF of_VPI_CALL

-----------------------------------------------------------------------------
(***************************************************************************)
(* The theorem.                                                            *)
(***************************************************************************)

LEMMA OpcodeFlags ==
  ASSUME FlagInv, NEW t \in Tid, Opcode(t)
  PROVE  FlagInv'
<1>1. CASE of_ZOMBIE(t)
  BY <1>1, ZombieFlags
<1>2. CASE \E k \in {"join", "join_any", "join_none"}, s \in Named(t) \cap Scopes, n \in 1..2 : Enter(t, k, s, n)
  BY <1>2, EnterFlags
<1>3. CASE of_FORK(t)
  BY <1>3, ForkFlags
<1>4. CASE of_JOIN(t)
  BY <1>4, JoinReaps, JoinSleeps
<1>5. CASE of_JOIN_DETACH(t)
  BY <1>5, JoinDetachFlags
<1>6. CASE \E s \in Named(t) \cap Scopes : of_CALLF(t, s) \/ of_DISABLE(t, s) \/ of_DISABLE_FLOW(t, s)
  BY <1>6, CallfFlags, DisableFlags, DisableFlowFlags
<1>7. CASE of_DELAY(t)
  BY <1>7, Rescheduled DEF of_DELAY, Does, Idle
<1>8. CASE of_DELAY0(t)
  BY <1>8, Rescheduled DEF of_DELAY0, Does, Idle
<1>9. CASE of_JMP(t)
  BY <1>9, Rescheduled DEF of_JMP
<1>10. CASE \E e \in Named(t) \cap Events : of_WAIT(t, e) \/ of_EVENT(t, e)
  BY <1>10, WaitFlags, EventFlags
<1>11. CASE of_VPI_CALL(t)
  BY <1>11, VpiFlags
<1>12. CASE of_WAIT_FORK(t)
  BY <1>12, WaitForkFlags
<1>13. CASE of_DISABLE_FORK(t)
  BY <1>13, DisableForkFlags
<1>14. CASE of_END(t)
  BY <1>14, EndFlags
<1>15. QED
  BY <1>1, <1>2, <1>3, <1>4, <1>5, <1>6, <1>7, <1>8, <1>9, <1>10, <1>11, <1>12, <1>13, <1>14 DEF Opcode

LEMMA FlagsStep == FlagInv /\ [Next]_vars => FlagInv'
<1> SUFFICES ASSUME FlagInv, [Next]_vars PROVE FlagInv'
  OBVIOUS
<1>1. CASE RunEvent
  BY <1>1, RunEventFlags
<1>2. CASE RunNext
  BY <1>2, RunNextFlags
<1>3. CASE RunDone
  BY <1>3, RunDoneFlags
<1>4. CASE CallfReturns
  BY <1>4, CallfReturnsFlags
<1>5. CASE \E t \in Tid : Opcode(t)
  BY <1>5, OpcodeFlags
<1>6. CASE DisableNext
  BY <1>6, DisableNextFlags
<1>7. CASE DisableDone
  BY <1>7, DisableFlags
<1>8. CASE Inactive
  BY <1>8, InactiveFlags
<1>9. CASE RunDelThr
  BY <1>9, DelThrFlags
<1>10. CASE AdvanceTime
  BY <1>10, AdvanceFlags
<1>11. CASE Terminated \/ UNCHANGED vars
  <2>1. UNCHANGED <<thread, active, inactive, later, waiting, stack, ret, disabling, failed>>
    BY <1>11 DEF Terminated, vars
  <2>2. Rests' = Rests
    BY <2>1 DEF Rests
  <2>3. Queued' = Queued /\ ListTypes' /\ ListsOnce'
    BY <2>1, <2>2, FlagInvParts DEF Queued, ListTypes, ListsOnce
  <2>4. QED
    BY <2>1, <2>3, MoveStep
<1>12. QED
  BY <1>1, <1>2, <1>3, <1>4, <1>5, <1>6, <1>7, <1>8, <1>9, <1>10, <1>11 DEF Next

\* vvp/vthread.cc: whatever the threads fork, join, disable, wait for and call,
\* every thread that is_scheduled marks is once in the queue or in the list being
\* run, every thread that waiting_for_event marks is once in a wait list, and no
\* queue and no list holds a thread that is not marked, such as a deleted one.
THEOREM FlagsTheorem == Spec => [](TypeOK /\ FlagsAreTrue)
<1>1. Init => FlagInv
  BY FlagsInit
<1>2. FlagInv /\ [Next]_vars => FlagInv'
  BY FlagsStep
<1>3. FlagInv => TypeOK /\ FlagsAreTrue
  BY FlagsCounted DEF FlagInv
<1>4. QED
  BY <1>1, <1>2, <1>3, PTL DEF Spec
=============================================================================
