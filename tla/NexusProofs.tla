---------------------------- MODULE NexusProofs ----------------------------
(***************************************************************************)
(* The circles of links and the cached values of a nexus, for any number   *)
(* of links, any kinds and any sequence of connects, unlinks, destructors  *)
(* and queries.                                                            *)
(*                                                                         *)
(* The invariant (NexusInv) says of each set of connected links that it is *)
(* one ring, or a link without a nexus, that one nexus knows it, and that  *)
(* the value this nexus caches is right (Net).  That a ring is whole is    *)
(* stated without induction: no part of it is closed under next_.          *)
(***************************************************************************)
EXTENDS Nexus, TLAPS

-----------------------------------------------------------------------------
(***************************************************************************)
(* Rings.                                                                  *)
(***************************************************************************)

Ring(nx, S) ==
  /\ \A k \in S : nx[k] \in S
  /\ \A k, m \in S : nx[k] = nx[m] => k = m
  /\ \A T \in SUBSET S : T # {} /\ (\A k \in T : nx[k] \in T) => T = S

LEMMA RingSame ==
  ASSUME NEW nx, NEW x, NEW S, Ring(nx, S), \A k \in S : x[k] = nx[k]
  PROVE  Ring(x, S)
<1>1. ASSUME NEW T \in SUBSET S, T # {}, \A k \in T : x[k] \in T PROVE T = S
  BY <1>1 DEF Ring
<1>2. QED
  BY <1>1 DEF Ring

LEMMA RingOfOne ==
  ASSUME NEW nx, NEW l, nx[l] = l
  PROVE  Ring(nx, {l})
BY DEF Ring

LEMMA RingOfTwo ==
  ASSUME NEW nx, NEW l, NEW r, nx[l] = r, nx[r] = l
  PROVE  Ring(nx, {l, r})
<1>1. ASSUME NEW T \in SUBSET {l, r}, T # {}, \A k \in T : nx[k] \in T PROVE T = {l, r}
  <2>1. l \in T \/ r \in T
    BY <1>1
  <2>2. l \in T /\ r \in T
    BY <1>1, <2>1
  <2>3. QED
    BY <2>2
<1>2. QED
  BY <1>1 DEF Ring

\* A link is put behind a.
LEMMA RingExtended ==
  ASSUME NEW nx, NEW x, NEW S, Ring(nx, S), NEW a \in S, NEW r, r \notin S,
         x[a] = r, x[r] = nx[a], \A k \in S \ {a} : x[k] = nx[k]
  PROVE  Ring(x, S \cup {r})
<1>1. /\ \A k \in S : nx[k] \in S
      /\ \A k, m \in S : nx[k] = nx[m] => k = m
  BY DEF Ring
<1>2. \A k \in S \cup {r} : x[k] \in S \cup {r}
  BY <1>1
<1>3. \A k, m \in S \cup {r} : x[k] = x[m] => k = m
  BY <1>1
<1>4. ASSUME NEW T \in SUBSET (S \cup {r}), T # {}, \A k \in T : x[k] \in T
      PROVE  T = S \cup {r}
  <2>1. \A k \in T \ {r} : nx[k] \in T \ {r}
    <3> SUFFICES ASSUME NEW k \in T \ {r} PROVE nx[k] \in T \ {r}
      OBVIOUS
    <3>1. nx[k] \in S /\ nx[k] # r
      BY <1>1
    <3>2. CASE k = a
      BY <1>4, <3>1, <3>2
    <3>3. CASE k # a
      BY <1>4, <3>1, <3>3
    <3>4. QED
      BY <3>2, <3>3
  <2>2. T \ {r} # {}
    BY <1>1, <1>4
  <2>3. T \ {r} = S
    BY <2>1, <2>2 DEF Ring
  <2>4. r \in T
    BY <1>4, <2>3
  <2>5. QED
    BY <2>3, <2>4
<1>5. QED
  BY <1>2, <1>3, <1>4 DEF Ring

\* Two rings are opened behind a and b, and joined.
LEMMA RingsSpliced ==
  ASSUME NEW nx, NEW x, NEW S, NEW R, Ring(nx, S), Ring(nx, R), S \cap R = {},
         NEW a \in S, NEW b \in R, x[a] = nx[b], x[b] = nx[a],
         \A k \in (S \cup R) \ {a, b} : x[k] = nx[k]
  PROVE  Ring(x, S \cup R)
<1>1. /\ \A k \in S : nx[k] \in S
      /\ \A k, m \in S : nx[k] = nx[m] => k = m
      /\ \A k \in R : nx[k] \in R
      /\ \A k, m \in R : nx[k] = nx[m] => k = m
  BY DEF Ring
<1>2. \A k \in S \cup R : x[k] \in S \cup R
  BY <1>1
<1>3. \A k, m \in S \cup R : x[k] = x[m] => k = m
  <2> SUFFICES ASSUME NEW k \in S \cup R, NEW m \in S \cup R, x[k] = x[m] PROVE k = m
    OBVIOUS
  <2>1. \E i \in S \cup R : x[k] = nx[i] /\ (i = k \/ (k = a /\ i = b) \/ (k = b /\ i = a))
    OBVIOUS
  <2>2. \E j \in S \cup R : x[m] = nx[j] /\ (j = m \/ (m = a /\ j = b) \/ (m = b /\ j = a))
    OBVIOUS
  <2>3. \A i, j \in S \cup R : nx[i] = nx[j] => i = j
    BY <1>1
  <2>4. QED
    BY <2>1, <2>2, <2>3
<1>4. ASSUME NEW T \in SUBSET (S \cup R), T # {}, \A k \in T : x[k] \in T
      PROVE  T = S \cup R
  <2>1. T \cap S # {} => a \in T
    <3> SUFFICES ASSUME T \cap S # {}, a \notin T PROVE FALSE
      OBVIOUS
    <3>1. \A k \in T \cap S : nx[k] \in T \cap S
      BY <1>1, <1>4
    <3>2. T \cap S = S
      BY <3>1 DEF Ring
    <3>3. QED
      BY <3>2
  <2>2. T \cap R # {} => b \in T
    <3> SUFFICES ASSUME T \cap R # {}, b \notin T PROVE FALSE
      OBVIOUS
    <3>1. \A k \in T \cap R : nx[k] \in T \cap R
      BY <1>1, <1>4
    <3>2. T \cap R = R
      BY <3>1 DEF Ring
    <3>3. QED
      BY <3>2
  <2>3. a \in T /\ b \in T
    BY <1>1, <1>4, <2>1, <2>2
  <2>4. nx[a] \in T /\ nx[b] \in T
    BY <1>4, <2>3
  <2>5. \A k \in T \cap S : nx[k] \in T \cap S
    BY <1>1, <1>4, <2>4
  <2>6. \A k \in T \cap R : nx[k] \in T \cap R
    BY <1>1, <1>4, <2>4
  <2>7. T \cap S = S /\ T \cap R = R
    BY <2>3, <2>5, <2>6 DEF Ring
  <2>8. QED
    BY <2>7
<1>5. QED
  BY <1>2, <1>3, <1>4 DEF Ring

\* In a ring of more than l there is a link in front of l.
LEMMA RingPrevious ==
  ASSUME NEW nx, NEW S, Ring(nx, S), NEW l \in S
  PROVE  \E p \in S : nx[p] = l
<1> SUFFICES ASSUME \A p \in S : nx[p] # l PROVE FALSE
  OBVIOUS
<1>1. nx[l] \in S \ {l} /\ \A k \in S \ {l} : nx[k] \in S \ {l}
  BY DEF Ring
<1>2. S \ {l} = S
  BY <1>1 DEF Ring
<1>3. QED
  BY <1>2

\* The link behind p is taken out.
LEMMA RingShortened ==
  ASSUME NEW nx, NEW x, NEW S, Ring(nx, S), NEW l \in S, nx[l] # l,
         NEW p \in S, nx[p] = l, x[p] = nx[l], \A k \in S \ {p, l} : x[k] = nx[k]
  PROVE  Ring(x, S \ {l}) /\ p # l
<1>1. /\ \A k \in S : nx[k] \in S
      /\ \A k, m \in S : nx[k] = nx[m] => k = m
      /\ p # l /\ nx[l] \in S \ {l}
  BY DEF Ring
<1>2. \A k \in S \ {l} : x[k] \in S \ {l}
  BY <1>1
<1>3. \A k, m \in S \ {l} : x[k] = x[m] => k = m
  BY <1>1
<1>4. ASSUME NEW T \in SUBSET (S \ {l}), T # {}, \A k \in T : x[k] \in T
      PROVE  T = S \ {l}
  <2> DEFINE U == IF p \in T THEN T \cup {l} ELSE T
  <2>1. \A k \in U : nx[k] \in U
    BY <1>1, <1>4
  <2>2. U \in SUBSET S /\ U # {} /\ T = U \ {l}
    BY <1>4
  <2> HIDE DEF U
  <2>3. U = S
    BY <2>1, <2>2 DEF Ring
  <2>4. QED
    BY <2>2, <2>3
<1>5. QED
  BY <1>1, <1>2, <1>3, <1>4 DEF Ring

\* The circle of a link is the ring it is in.
LEMMA CircleIsRing ==
  ASSUME NEW S \in SUBSET Links, Ring(next_, S), NEW l \in S
  PROVE  Circle(l) = S
<1>1. \A k \in S : next_[k] \in S /\ next_[k] # Nil
  BY NexusAssumption DEF Ring
<1>2. ASSUME NEW m \in Links \ S PROVE ~LeadsTo(l, m)
  <2>1. S \in SUBSET (Links \ {m})
    BY <1>2
  <2>2. QED
    BY <1>1, <2>1 DEF LeadsTo
<1>3. ASSUME NEW m \in S PROVE LeadsTo(l, m)
  <2> SUFFICES ASSUME NEW T \in SUBSET (Links \ {m}), l \in T, \A k \in T : next_[k] \in T \cup {Nil}
               PROVE  FALSE
    BY DEF LeadsTo
  <2>1. S \cap T # {} /\ \A k \in S \cap T : next_[k] \in S \cap T
    BY <1>1
  <2>2. S \cap T = S
    BY <2>1 DEF Ring
  <2>3. QED
    BY <1>3, <2>2
<1>4. QED
  BY <1>2, <1>3 DEF Circle

-----------------------------------------------------------------------------
(***************************************************************************)
(* The sets of connected links.                                            *)
(***************************************************************************)

Partition(J) ==
  /\ J \subseteq SUBSET Links /\ {} \notin J
  /\ \A l \in Links : \E S \in J : l \in S
  /\ \A S, R \in J : S \cap R # {} => S = R

LEMMA Chosen ==
  ASSUME NEW J, Partition(J), NEW S \in J, NEW l \in S
  PROVE  (CHOOSE T \in J : l \in T) = S
BY DEF Partition

\* In K the sets S and R of J are one.
Merged(J, K, S, R) == K = (J \ {S, R}) \cup {S \cup R}

LEMMA PartitionJoined ==
  ASSUME NEW J, Partition(J), NEW S \in J, NEW R \in J, NEW K, Merged(J, K, S, R)
  PROVE  Partition(K) /\ \A T \in K : (T \in J /\ T \cap (S \cup R) = {}) \/ T = S \cup R
<1>1. \A T \in K : (T \in J /\ T \cap (S \cup R) = {}) \/ T = S \cup R
  BY DEF Partition, Merged
<1>2. K \subseteq SUBSET Links /\ {} \notin K
  BY DEF Partition, Merged
<1>3. ASSUME NEW l \in Links PROVE \E T \in K : l \in T
  <2>1. PICK T \in J : l \in T
    BY DEF Partition, Merged
  <2>2. CASE T \in {S, R}
    BY <2>1, <2>2 DEF Merged
  <2>3. CASE T \notin {S, R}
    BY <2>1, <2>3 DEF Merged
  <2>4. QED
    BY <2>2, <2>3
<1>4. ASSUME NEW T \in K, NEW T2 \in K, T \cap T2 # {} PROVE T = T2
  BY <1>1, <1>4 DEF Partition, Merged
<1>5. QED
  BY <1>1, <1>2, <1>3, <1>4 DEF Partition, Merged

\* In K the link l of S is alone.
Parted(J, K, S, l) == K = (J \ {S}) \cup ({S \ {l}, {l}} \ {{}})

LEMMA PartitionParted ==
  ASSUME NEW J, Partition(J), NEW S \in J, NEW l \in S, NEW K, Parted(J, K, S, l)
  PROVE  /\ Partition(K)
         /\ \A T \in K : (T \in J /\ T \cap S = {}) \/ (T = S \ {l} /\ T # {}) \/ T = {l}
<1>1. \A T \in K : (T \in J /\ T \cap S = {}) \/ (T = S \ {l} /\ T # {}) \/ T = {l}
  BY DEF Partition, Parted
<1>2. K \subseteq SUBSET Links /\ {} \notin K
  BY DEF Partition, Parted
<1>3. ASSUME NEW m \in Links PROVE \E T \in K : m \in T
  <2>1. PICK T \in J : m \in T
    BY DEF Partition, Parted
  <2>2. CASE T # S
    BY <2>1, <2>2 DEF Parted
  <2>3. CASE T = S /\ m = l
    <3>1. {l} \in K
      BY DEF Parted
    <3>2. QED
      BY <3>1, <2>3
  <2>4. CASE T = S /\ m # l
    <3>1. S \ {l} \in K /\ m \in S \ {l}
      BY <2>1, <2>4 DEF Parted
    <3>2. QED
      BY <3>1
  <2>5. QED
    BY <2>2, <2>3, <2>4
<1>4. ASSUME NEW T \in K, NEW T2 \in K, T \cap T2 # {} PROVE T = T2
  <2>1. \A A, B \in J : A \cap B # {} => A = B
    BY DEF Partition, Parted
  <2>2. PICK m \in T : m \in T2
    BY <1>4
  <2>3. CASE m \in S
    <3>1. T \in {S \ {l}, {l}} /\ T2 \in {S \ {l}, {l}}
      BY <1>1, <2>2, <2>3
    <3>2. QED
      BY <2>2, <3>1
  <2>4. CASE m \notin S
    <3>1. T \in J /\ T2 \in J
      BY <1>1, <2>2, <2>4
    <3>2. QED
      BY <1>4, <2>1, <3>1
  <2>5. QED
    BY <2>3, <2>4
<1>5. QED
  BY <1>1, <1>2, <1>3, <1>4 DEF Partition, Parted

-----------------------------------------------------------------------------
(***************************************************************************)
(* The invariant.                                                          *)
(***************************************************************************)

Drives(kd, S) == {l \in S : kd[l] \in (Constant \cup Pull) \ {"z"}}
Shown(k) == IF k \in Pull THEN PullValue[k] ELSE k

\* What a cached value says of the links S, that have the kinds kd.
Right(kd, g, S) ==
  \/ g = "NO_GUESS"
  \/ /\ g = "VAR"
     /\ \/ \E l \in S : kd[l] \in {"var", "subst"}
        \/ \E l, m \in S : l # m /\ kd[l] \in Constant \cup Pull /\ kd[m] \in Constant \cup Pull
  \/ /\ g \in Constant
     /\ \A l \in S : kd[l] # "var"
     /\ \A l, m \in Drives(kd, S) : l = m
     /\ \A l \in Drives(kd, S) : g = Shown(kd[l])
     /\ Drives(kd, S) = {} => g = "z"

\* The nexus n, with the last link ls[n], knows the links S.
Known(bk, ls, dr, kd, n, S) ==
  /\ ls[n] \in S
  /\ \A k \in S : bk[k] = IF k = ls[n] THEN n ELSE Nil
  /\ Right(kd, dr[n], S)

Net(nx, bk, ls, dr, kd, S) ==
  \/ \E l \in S : S = {l} /\ nx[l] = Nil /\ bk[l] = Nil
  \/ /\ Ring(nx, S)
     /\ \E n \in Nexuses : Known(bk, ls, dr, kd, n, S)

Nets == \A S \in joined : Net(next_, nexus_, list_, driven_, kind, S)
PointBack == \A n \in Nexuses : list_[n] # Nil => nexus_[list_[n]] = n
NoGuess == \A n \in Nexuses : list_[n] = Nil => driven_[n] = "NO_GUESS"

NexusInv == TypeOK /\ Partition(joined) /\ Nets /\ PointBack /\ NoGuess

LEMMA NexusInvInit == Init => NexusInv
<1> SUFFICES ASSUME Init PROVE NexusInv
  OBVIOUS
<1> USE DEF Init
<1>1. Partition(joined)
  <2>1. \A S \in joined : \E l \in Links : S = {l}
    OBVIOUS
  <2>2. \A l \in Links : {l} \in joined
    OBVIOUS
  <2>3. ASSUME NEW S \in joined, NEW R \in joined, S \cap R # {} PROVE S = R
    <3>1. PICK l \in Links, m \in Links : S = {l} /\ R = {m}
      BY <2>1
    <3>2. QED
      BY <2>3, <3>1
  <2>4. joined \subseteq SUBSET Links /\ {} \notin joined
    BY <2>1
  <2>5. \A l \in Links : \E S \in joined : l \in S
    BY <2>2
  <2>6. QED
    BY <2>3, <2>4, <2>5 DEF Partition
<1>2. Nets
  BY DEF Nets, Net
<1>3. TypeOK
  <2>1. PICK k \in [Links -> Kinds] :
          kind = [l \in Links |-> CASE l \in DOMAIN pins -> "subst"
                                   [] l \in Pins \ DOMAIN pins -> "input"
                                   [] OTHER -> k[l]]
    OBVIOUS
  <2>2. kind \in [Links -> Kinds \cup {"subst", "input"}]
    BY <2>1
  <2>3. QED
    BY <2>2, NexusAssumption DEF TypeOK
<1>4. PointBack /\ NoGuess
  BY DEF PointBack, NoGuess
<1>5. QED
  BY <1>1, <1>2, <1>3, <1>4 DEF NexusInv

LEMMA RightSame ==
  ASSUME NEW kd, NEW kd2, NEW g, NEW S, Right(kd, g, S), \A k \in S : kd2[k] = kd[k]
  PROVE  Right(kd2, g, S)
<1>1. Drives(kd2, S) = Drives(kd, S) /\ \A l \in Drives(kd, S) : kd2[l] = kd[l]
  BY DEF Drives
<1>2. QED
  BY <1>1 DEF Right

LEMMA NetSame ==
  ASSUME NEW nx, NEW bk, NEW ls, NEW dr, NEW kd, NEW nx2, NEW bk2, NEW ls2, NEW dr2, NEW kd2,
         NEW S, Net(nx, bk, ls, dr, kd, S),
         \A k \in S : nx2[k] = nx[k] /\ bk2[k] = bk[k] /\ kd2[k] = kd[k],
         \A n \in Nexuses : ls[n] \in S => ls2[n] = ls[n] /\ dr2[n] = dr[n]
  PROVE  Net(nx2, bk2, ls2, dr2, kd2, S)
<1>1. CASE \E l \in S : S = {l} /\ nx[l] = Nil /\ bk[l] = Nil
  BY <1>1 DEF Net
<1>2. CASE Ring(nx, S) /\ \E n \in Nexuses : Known(bk, ls, dr, kd, n, S)
  <2>1. Ring(nx2, S)
    BY <1>2, RingSame
  <2>2. PICK n \in Nexuses : Known(bk, ls, dr, kd, n, S)
    BY <1>2
  <2>3. ls2[n] = ls[n] /\ dr2[n] = dr[n]
    BY <2>2 DEF Known
  <2>4. Right(kd, dr[n], S)
    BY <2>2 DEF Known
  <2>5. Right(kd2, dr2[n], S)
    BY <2>3, <2>4, RightSame
  <2>6. Known(bk2, ls2, dr2, kd2, n, S)
    BY <2>2, <2>3, <2>5 DEF Known
  <2>7. QED
    BY <2>1, <2>6 DEF Net
<1>3. QED
  BY <1>1, <1>2 DEF Net

\* A step that changes the links U and the nexuses that know them, only.
LEMMA NetsChanged ==
  ASSUME NexusInv, TypeOK', Partition(joined'), NEW U \in SUBSET Links,
         \A k \in Links \ U : next_'[k] = next_[k] /\ nexus_'[k] = nexus_[k] /\ kind'[k] = kind[k],
         \A n \in Nexuses : list_[n] \in Links \ U => list_'[n] = list_[n] /\ driven_'[n] = driven_[n],
         \A n \in Nexuses : list_'[n] \in Links \ U => list_'[n] = list_[n],
         \A n \in Nexuses : list_'[n] \in U => nexus_'[list_'[n]] = n,
         \A n \in Nexuses : list_'[n] = Nil => driven_'[n] = "NO_GUESS",
         \A S \in joined' : \/ S \in joined /\ S \cap U = {}
                           \/ Net(next_', nexus_', list_', driven_', kind', S)
  PROVE  NexusInv'
<1>1. ASSUME NEW S \in joined, S \cap U = {}
      PROVE  Net(next_', nexus_', list_', driven_', kind', S)
  <2>1. S \subseteq Links \ U
    BY <1>1 DEF NexusInv, Partition
  <2>2. Net(next_, nexus_, list_, driven_, kind, S)
    BY DEF NexusInv, Nets
  <2>3. QED
    BY <2>1, <2>2, NetSame
<1>2. Nets'
  BY <1>1 DEF Nets
<1>3. ASSUME NEW n \in Nexuses, list_'[n] # Nil PROVE nexus_'[list_'[n]] = n
  <2>1. list_'[n] \in Links
    BY <1>3 DEF TypeOK
  <2>2. QED
    BY <1>3, <2>1 DEF NexusInv, PointBack
<1>4. PointBack' /\ NoGuess'
  BY <1>3 DEF PointBack, NoGuess
<1>5. QED
  BY <1>2, <1>4 DEF NexusInv

-----------------------------------------------------------------------------
(***************************************************************************)
(* What a link of a nexus finds.                                           *)
(***************************************************************************)

\* find_nexus_ of each link of a net gives its nexus.
LEMMA FindIs ==
  ASSUME TypeOK, NEW S \in SUBSET Links, Ring(next_, S),
         NEW n \in Nexuses, Known(nexus_, list_, driven_, kind, n, S), NEW l \in S
  PROVE  find_nexus_(l) = n
<1>1. n # Nil /\ list_[n] \in S /\ nexus_[list_[n]] = n
  BY NexusAssumption DEF Known
<1>2. \A k \in S : nexus_[k] # Nil => k = list_[n]
  BY DEF Known
<1>3. CASE nexus_[l] # Nil
  BY <1>1, <1>2, <1>3 DEF find_nexus_
<1>4. CASE nexus_[l] = Nil
  <2>1. \A k \in S : next_[k] \in S /\ next_[k] # Nil
    BY NexusAssumption DEF Ring
  <2>2. Meets(l, list_[n])
    <3> SUFFICES ASSUME NEW T \in SUBSET (Links \ {list_[n]}), l \in T,
                        \A k \in T : nexus_[k] # Nil \/ next_[k] \in T \cup {Nil}
                 PROVE  FALSE
      BY DEF Meets
    <3>1. S \cap T # {} /\ \A k \in S \cap T : next_[k] \in S \cap T
      BY <1>2, <2>1
    <3>2. S \cap T = S
      BY <3>1 DEF Ring
    <3>3. QED
      BY <1>1, <3>2
  <2>3. ASSUME NEW m \in Links \ S PROVE ~Meets(l, m)
    <3>1. S \in SUBSET (Links \ {m})
      BY <2>3
    <3>2. QED
      BY <2>1, <3>1 DEF Meets
  <2>4. \A m \in Links : nexus_[m] # Nil /\ Meets(l, m) <=> m = list_[n]
    BY <1>1, <1>2, <2>2, <2>3
  <2>5. (CHOOSE m \in Links : nexus_[m] # Nil /\ Meets(l, m)) = list_[n]
    BY <1>1, <2>4
  <2>6. QED
    BY <1>1, <1>4, <2>5 DEF find_nexus_
<1>5. QED
  BY <1>3, <1>4

\* A link that has a nexus is in one ring, with one nexus.
LEMMA NetOfLink ==
  ASSUME NexusInv, NEW l \in Links, next_[l] # Nil
  PROVE  \E S \in joined, n \in Nexuses :
           /\ l \in S /\ Ring(next_, S) /\ Known(nexus_, list_, driven_, kind, n, S)
           /\ find_nexus_(l) = n /\ Circle(l) = S
<1>1. PICK S \in joined : l \in S
  BY DEF NexusInv, Partition
<1>2. S \in SUBSET Links
  BY DEF NexusInv, Partition
<1>3. Ring(next_, S) /\ \E n \in Nexuses : Known(nexus_, list_, driven_, kind, n, S)
  BY <1>1 DEF NexusInv, Nets, Net
<1>4. PICK n \in Nexuses : Known(nexus_, list_, driven_, kind, n, S)
  BY <1>3
<1>5. find_nexus_(l) = n /\ Circle(l) = S
  BY <1>1, <1>2, <1>3, <1>4, FindIs, CircleIsRing DEF NexusInv
<1>6. QED
  BY <1>1, <1>3, <1>4, <1>5

\* A nexus that exists knows the ring of its last link.
LEMMA NetOfNexus ==
  ASSUME NexusInv, NEW n \in Nexuses, list_[n] # Nil
  PROVE  \E S \in joined :
           /\ Ring(next_, S) /\ Known(nexus_, list_, driven_, kind, n, S)
           /\ LinksOf(n) = S
<1>1. list_[n] \in Links /\ next_[list_[n]] # Nil /\ nexus_[list_[n]] = n /\ n # Nil
  BY NexusAssumption DEF NexusInv, TypeOK, PointBack
<1>2. PICK S \in joined, m \in Nexuses :
        /\ list_[n] \in S /\ Ring(next_, S) /\ Known(nexus_, list_, driven_, kind, m, S)
        /\ Circle(list_[n]) = S
  BY <1>1, NetOfLink
<1>3. m = n
  BY <1>1, <1>2 DEF Known
<1>4. QED
  BY <1>2, <1>3 DEF LinksOf

\* A link without a nexus is alone.
LEMMA LooseLink ==
  ASSUME NexusInv, NEW l \in Links, next_[l] = Nil
  PROVE  {l} \in joined /\ nexus_[l] = Nil /\ \A n \in Nexuses : list_[n] # l
<1>1. PICK S \in joined : l \in S
  BY DEF NexusInv, Partition
<1>2. ~Ring(next_, S)
  BY <1>1, NexusAssumption DEF NexusInv, Partition, Ring
<1>3. S = {l} /\ nexus_[l] = Nil
  BY <1>1, <1>2 DEF NexusInv, Nets, Net
<1>4. \A n \in Nexuses : list_[n] # l
  BY <1>3, NexusAssumption DEF NexusInv, TypeOK
<1>5. QED
  BY <1>1, <1>3, <1>4

-----------------------------------------------------------------------------
(***************************************************************************)
(* What a cached value says of more, or of fewer, links.                   *)
(***************************************************************************)

\* An input drives nothing: it can come and go.
LEMMA RightInputs ==
  ASSUME NEW kd, NEW g, NEW S, NEW T, Right(kd, g, S),
         \A l \in (S \ T) \cup (T \ S) : kd[l] = "input"
  PROVE  Right(kd, g, T)
<1>1. \A l \in S : kd[l] # "input" => l \in T
  OBVIOUS
<1>2. Drives(kd, S) = Drives(kd, T)
  BY DEF Drives, Constant, Pull
<1>3. CASE g = "NO_GUESS"
  BY <1>3 DEF Right
<1>4. CASE g = "VAR"
  <2>1. \/ \E l \in S : kd[l] \in {"var", "subst"}
        \/ \E l, m \in S : l # m /\ kd[l] \in Constant \cup Pull /\ kd[m] \in Constant \cup Pull
    BY <1>4 DEF Right, Constant
  <2>2. \A k \in Constant \cup Pull : k # "input"
    BY DEF Constant, Pull
  <2>3. QED
    BY <1>1, <1>4, <2>1, <2>2 DEF Right
<1>5. CASE g \in Constant
  <2>1. /\ \A l \in S : kd[l] # "var"
        /\ \A l, m \in Drives(kd, S) : l = m
        /\ \A l \in Drives(kd, S) : g = Shown(kd[l])
        /\ Drives(kd, S) = {} => g = "z"
    BY <1>5 DEF Right, Constant
  <2>2. \A l \in T : kd[l] # "var"
    BY <2>1
  <2>3. QED
    BY <1>2, <1>5, <2>1, <2>2 DEF Right
<1>6. QED
  BY <1>3, <1>4, <1>5 DEF Right

\* A net that nothing drives adds nothing.
LEMMA RightMerged ==
  ASSUME NEW kd, NEW g, NEW S, NEW R, Right(kd, g, S), Right(kd, "z", R)
  PROVE  Right(kd, g, S \cup R)
<1>1. (\A l \in R : kd[l] # "var") /\ \A l \in Drives(kd, R) : Shown(kd[l]) = "z"
  BY DEF Right
<1>2. \A l \in Drives(kd, R) : Shown(kd[l]) # "z"
  BY DEF Drives, Shown, PullValue, Pull, Constant
<1>3. Drives(kd, S \cup R) = Drives(kd, S)
  BY <1>1, <1>2 DEF Drives
<1>4. CASE g = "NO_GUESS"
  BY <1>4 DEF Right
<1>5. CASE g = "VAR"
  <2>1. \/ \E l \in S : kd[l] \in {"var", "subst"}
        \/ \E l, m \in S : l # m /\ kd[l] \in Constant \cup Pull /\ kd[m] \in Constant \cup Pull
    BY <1>5 DEF Right, Constant
  <2>2. QED
    BY <1>5, <2>1 DEF Right
<1>6. CASE g \in Constant
  <2>1. /\ \A l \in S : kd[l] # "var"
        /\ \A l, m \in Drives(kd, S) : l = m
        /\ \A l \in Drives(kd, S) : g = Shown(kd[l])
        /\ Drives(kd, S) = {} => g = "z"
    BY <1>6 DEF Right, Constant
  <2>2. QED
    BY <1>1, <1>3, <1>6, <2>1 DEF Right
<1>7. QED
  BY <1>4, <1>5, <1>6 DEF Right

\* What the pass over the links of drivers_constant leaves is right.
LEMMA GuessRight ==
  ASSUME NexusInv, NEW n \in Nexuses, NEW S, LinksOf(n) = S,
         Right(kind, driven_[n], S)
  PROVE  Right(kind, Guess(n), S) /\ Guess(n) \in Constant \cup {"NO_GUESS", "VAR"}
<1> DEFINE pulls == {l \in S : kind[l] \in Pull}
<1>1. driven_[n] \in Constant \cup {"NO_GUESS", "VAR"}
  BY DEF NexusInv, TypeOK
<1>2. CASE driven_[n] # "NO_GUESS"
  BY <1>1, <1>2 DEF Guess
<1>3. CASE driven_[n] = "NO_GUESS" /\ Varies(S, Steady)
  <2>1. Guess(n) = "VAR"
    BY <1>3 DEF Guess
  <2>2. \/ \E l \in S : kind[l] \in {"var", "subst"}
        \/ \E l, m \in S : l # m /\ kind[l] \in Constant \cup Pull /\ kind[m] \in Constant \cup Pull
    BY <1>3 DEF Varies, VariesAt, ConstantDrivers
  <2>3. QED
    BY <2>1, <2>2 DEF Right
<1>4. CASE driven_[n] = "NO_GUESS" /\ ~Varies(S, Steady) /\ pulls = {}
  <2>1. Guess(n) = "NO_GUESS"
    BY <1>4 DEF Guess
  <2>2. QED
    BY <2>1 DEF Right
<1>5. CASE driven_[n] = "NO_GUESS" /\ ~Varies(S, Steady) /\ pulls # {}
  <2>1. PICK l \in pulls : l = CHOOSE m \in pulls : TRUE
    BY <1>5
  <2>2. Guess(n) = PullValue[kind[l]]
    BY <1>5, <2>1 DEF Guess
  <2>3. /\ \A m \in S : kind[m] # "var"
        /\ \A m \in ConstantDrivers(S) : m = l
    BY <1>5 DEF Varies, VariesAt, ConstantDrivers
  <2>4. \A m \in Drives(kind, S) : m = l
    BY <2>3 DEF Drives, ConstantDrivers
  <2>5. l \in Drives(kind, S)
    BY DEF Drives, Pull
  <2>6. Guess(n) \in Constant /\ Guess(n) = Shown(kind[l])
    BY <2>2 DEF PullValue, Pull, Constant, Shown
  <2>7. QED
    BY <2>3, <2>4, <2>5, <2>6 DEF Right
<1>6. QED
  BY <1>2, <1>3, <1>4, <1>5

\* driven_value of a nexus that is constant.
LEMMA ValueRight ==
  ASSUME NexusInv, NEW n \in Nexuses, NEW S, LinksOf(n) = S,
         Right(kind, driven_[n], S), Guess(n) = "NO_GUESS",
         NEW g, g = IF {l \in S : kind[l] \in Constant} # {}
                      THEN kind[CHOOSE l \in {m \in S : kind[m] \in Constant} : TRUE]
                      ELSE "z"
  PROVE  Right(kind, g, S) /\ g \in Constant
<1> DEFINE pulls == {l \in S : kind[l] \in Pull}
           constants == {l \in S : kind[l] \in Constant}
<1>1. ~Varies(S, Steady)
  BY DEF Guess
<1>2. pulls = {}
  <2> SUFFICES ASSUME NEW l \in S, kind[l] \in Pull PROVE FALSE
    OBVIOUS
  <2>1. driven_[n] = "NO_GUESS" /\ pulls # {}
    BY DEF Guess
  <2>2. PICK m \in pulls : m = CHOOSE i \in pulls : TRUE
    BY <2>1
  <2>3. Guess(n) = PullValue[kind[m]]
    BY <1>1, <2>1, <2>2 DEF Guess
  <2>4. QED
    BY <2>3 DEF PullValue, Pull
<1>3. /\ \A m \in S : kind[m] # "var"
      /\ \A l, m \in constants : l = m
  BY <1>1 DEF Varies, VariesAt, ConstantDrivers
<1>4. Drives(kind, S) = {l \in constants : kind[l] # "z"}
  BY <1>2 DEF Drives
<1>5. CASE constants = {}
  <2>1. g = "z" /\ Drives(kind, S) = {}
    BY <1>4, <1>5
  <2>2. QED
    BY <1>3, <2>1 DEF Right, Constant
<1>6. CASE constants # {}
  <2>1. PICK l \in constants : l = CHOOSE m \in constants : TRUE
    BY <1>6
  <2>2. g = kind[l] /\ g \in Constant
    BY <1>6, <2>1
  <2>3. \A m \in Drives(kind, S) : m = l
    BY <1>3, <1>4
  <2>4. Drives(kind, S) = {} => g = "z"
    BY <1>4, <2>2
  <2>5. g = Shown(kind[l])
    BY <2>2 DEF Shown, Constant, Pull
  <2>6. QED
    BY <1>3, <2>2, <2>3, <2>4, <2>5 DEF Right
<1>7. QED
  BY <1>5, <1>6

-----------------------------------------------------------------------------
(***************************************************************************)
(* The steps.                                                              *)
(***************************************************************************)

LEMMA ExtendStep ==
  ASSUME NexusInv, NEW n \in Nexuses, NEW r \in Links, NEW S \in joined,
         Ring(next_, S), Known(nexus_, list_, driven_, kind, n, S),
         next_[r] = Nil, Extend(n, r), UNCHANGED <<kind, pins>>,
         Merged(joined, joined', S, {r})
  PROVE  NexusInv'
<1> DEFINE a == list_[n]
           U == S \cup {r}
<1>1. /\ {r} \in joined /\ nexus_[r] = Nil /\ (\A m \in Nexuses : list_[m] # r)
  BY LooseLink
<1>2. /\ TypeOK /\ Partition(joined) /\ n # Nil /\ Nil \notin Links
      /\ S \in SUBSET Links /\ a \in S
  BY NexusAssumption DEF NexusInv, Partition, Known
<1>3. next_[a] \in S /\ r \notin S
  BY <1>2 DEF Ring
<1>4. next_' = [next_ EXCEPT ![r] = next_[a], ![a] = r] /\ nexus_' = [nexus_ EXCEPT ![a] = Nil, ![r] = n]
  BY DEF Extend
<1>5. /\ list_' = [list_ EXCEPT ![n] = r]
      /\ driven_' = [driven_ EXCEPT ![n] = IF kind[r] = "input" THEN @ ELSE "NO_GUESS"]
      /\ kind' = kind
  BY DEF Extend
<1>6. next_'[r] = next_[a] /\ next_'[a] = r /\ \A k \in Links \ {a, r} : next_'[k] = next_[k]
  BY <1>2, <1>3, <1>4 DEF TypeOK
<1>7. nexus_'[r] = n /\ nexus_'[a] = Nil /\ \A k \in Links \ {a, r} : nexus_'[k] = nexus_[k]
  BY <1>2, <1>3, <1>4 DEF TypeOK
<1>8. /\ list_'[n] = r /\ driven_'[n] = IF kind[r] = "input" THEN driven_[n] ELSE "NO_GUESS"
      /\ \A m \in Nexuses \ {n} : list_'[m] = list_[m] /\ driven_'[m] = driven_[m]
  BY <1>2, <1>5 DEF TypeOK
<1>9. Partition(joined') /\ \A T \in joined' : (T \in joined /\ T \cap U = {}) \/ T = U
  BY <1>1, <1>2, PartitionJoined
<1>10. Ring(next_', U)
  BY <1>2, <1>3, <1>6, RingExtended
<1>11. Known(nexus_', list_', driven_', kind', n, U)
  <2>1. \A k \in S : nexus_[k] = IF k = a THEN n ELSE Nil
    BY DEF Known
  <2>2. \A k \in U : nexus_'[k] = IF k = r THEN n ELSE Nil
    BY <1>2, <1>3, <1>7, <2>1
  <2>3. Right(kind, driven_'[n], U)
    <3>1. Right(kind, driven_[n], S)
      BY DEF Known
    <3>2. CASE kind[r] = "input"
      BY <1>3, <1>8, <3>1, <3>2, RightInputs
    <3>3. CASE kind[r] # "input"
      BY <1>8, <3>3 DEF Right
    <3>4. QED
      BY <3>2, <3>3
  <2>4. QED
    BY <1>5, <1>8, <2>2, <2>3 DEF Known
<1>12. Net(next_', nexus_', list_', driven_', kind', U)
  BY <1>10, <1>11 DEF Net
<1>13. TypeOK'
  <2>1. next_' \in [Links -> Links \cup {Nil}] /\ nexus_' \in [Links -> Nexuses \cup {Nil}]
    BY <1>2, <1>3, <1>4 DEF TypeOK
  <2>2. list_' \in [Nexuses -> Links \cup {Nil}]
        /\ driven_' \in [Nexuses -> Constant \cup {"NO_GUESS", "VAR"}]
        /\ kind' \in [Links -> Kinds \cup {"subst", "input"}] /\ pins' \in Wirings
    BY <1>2, <1>5 DEF TypeOK
  <2>3. ASSUME NEW m \in Nexuses, list_'[m] # Nil PROVE next_'[list_'[m]] # Nil
    <3>1. CASE m = n
      BY <1>2, <1>3, <1>6, <1>8, <3>1
    <3>2. CASE m # n
      BY <1>1, <1>2, <1>6, <1>8, <2>3, <3>2 DEF TypeOK
    <3>3. QED
      BY <3>1, <3>2
  <2>4. QED
    BY <1>9, <2>1, <2>2, <2>3 DEF TypeOK, Partition
<1>14. \A m \in Nexuses : list_[m] \in S => m = n
  BY <1>2, NexusAssumption DEF NexusInv, PointBack, Known
<1>15. \A k \in Links \ U : next_'[k] = next_[k] /\ nexus_'[k] = nexus_[k] /\ kind'[k] = kind[k]
  BY <1>2, <1>5, <1>6, <1>7
<1>16. /\ \A m \in Nexuses : list_[m] \in Links \ U => list_'[m] = list_[m] /\ driven_'[m] = driven_[m]
      /\ \A m \in Nexuses : list_'[m] \in Links \ U => list_'[m] = list_[m]
  BY <1>2, <1>8
<1>17. \A m \in Nexuses : list_'[m] \in U => nexus_'[list_'[m]] = m
  BY <1>1, <1>7, <1>8, <1>14
<1>18. \A m \in Nexuses : list_'[m] = Nil => driven_'[m] = "NO_GUESS"
  BY <1>2, <1>8 DEF NexusInv, NoGuess
<1>19. U \in SUBSET Links
  BY <1>2
<1> HIDE DEF U
<1>20. \A T \in joined' : \/ T \in joined /\ T \cap U = {}
                         \/ Net(next_', nexus_', list_', driven_', kind', T)
  BY <1>9, <1>12
<1>21. QED
  BY <1>9, <1>13, <1>15, <1>16, <1>17, <1>18, <1>19, <1>20, NetsChanged

LEMMA SpliceStep ==
  ASSUME NexusInv,
         NEW n \in Nexuses, NEW S \in joined,
         Ring(next_, S), Known(nexus_, list_, driven_, kind, n, S),
         NEW rn \in Nexuses, NEW R \in joined,
         Ring(next_, R), Known(nexus_, list_, driven_, kind, rn, R),
         n # rn, Splice(n, rn), UNCHANGED <<kind, pins>>,
         Merged(joined, joined', S, R)
  PROVE  NexusInv'
<1> DEFINE a == list_[n]
           b == list_[rn]
           U == S \cup R
<1>1. \A m \in Nexuses : (list_[m] \in S => m = n) /\ (list_[m] \in R => m = rn)
  BY NexusAssumption DEF NexusInv, PointBack, Known, Partition
<1>2. /\ TypeOK /\ Partition(joined) /\ n # Nil /\ rn # Nil /\ Nil \notin Links
      /\ S \in SUBSET Links /\ R \in SUBSET Links /\ a \in S /\ b \in R
  BY NexusAssumption DEF NexusInv, Partition, Known
<1>3. next_[a] \in S /\ next_[b] \in R /\ S \cap R = {} /\ a # b
  <2>1. S # R
    BY <1>1, <1>2
  <2>2. QED
    BY <1>2, <2>1 DEF Ring, Partition
<1>4. next_' = [next_ EXCEPT ![a] = next_[b], ![b] = next_[a]] /\ nexus_' = [nexus_ EXCEPT ![a] = Nil, ![b] = n]
  BY DEF Splice
<1>5. /\ list_' = [list_ EXCEPT ![n] = b, ![rn] = Nil]
      /\ driven_' = [driven_ EXCEPT ![n] = IF driven_[rn] # "z" THEN "NO_GUESS" ELSE @,
                                     ![rn] = "NO_GUESS"]
      /\ kind' = kind
  BY DEF Splice
<1>6. next_'[a] = next_[b] /\ next_'[b] = next_[a] /\ \A k \in Links \ {a, b} : next_'[k] = next_[k]
  BY <1>2, <1>3, <1>4 DEF TypeOK
<1>7. nexus_'[b] = n /\ nexus_'[a] = Nil /\ \A k \in Links \ {a, b} : nexus_'[k] = nexus_[k]
  BY <1>2, <1>3, <1>4 DEF TypeOK
<1>8. /\ list_'[n] = b /\ driven_'[n] = IF driven_[rn] # "z" THEN "NO_GUESS" ELSE driven_[n]
      /\ list_'[rn] = Nil /\ driven_'[rn] = "NO_GUESS"
      /\ \A m \in Nexuses \ {n, rn} : list_'[m] = list_[m] /\ driven_'[m] = driven_[m]
  BY <1>2, <1>5 DEF TypeOK
<1>9. Partition(joined') /\ \A T \in joined' : (T \in joined /\ T \cap U = {}) \/ T = U
  BY <1>2, PartitionJoined
<1>10. Ring(next_', U)
  BY <1>2, <1>3, <1>6, RingsSpliced
<1>11. Known(nexus_', list_', driven_', kind', n, U)
  <2>1. /\ \A k \in S : nexus_[k] = IF k = a THEN n ELSE Nil
        /\ \A k \in R : nexus_[k] = IF k = b THEN rn ELSE Nil
    BY DEF Known
  <2>2. \A k \in U : nexus_'[k] = IF k = b THEN n ELSE Nil
    BY <1>2, <1>3, <1>7, <2>1
  <2>3. Right(kind, driven_'[n], U)
    <3>1. Right(kind, driven_[n], S) /\ Right(kind, driven_[rn], R)
      BY DEF Known
    <3>2. CASE driven_[rn] = "z"
      BY <1>8, <3>1, <3>2, RightMerged
    <3>3. CASE driven_[rn] # "z"
      BY <1>8, <3>3 DEF Right
    <3>4. QED
      BY <3>2, <3>3
  <2>4. QED
    BY <1>2, <1>5, <1>8, <2>2, <2>3 DEF Known
<1>12. Net(next_', nexus_', list_', driven_', kind', U)
  BY <1>10, <1>11 DEF Net
<1>13. TypeOK'
  <2>1. next_' \in [Links -> Links \cup {Nil}] /\ nexus_' \in [Links -> Nexuses \cup {Nil}]
    BY <1>2, <1>3, <1>4 DEF TypeOK
  <2>2. list_' \in [Nexuses -> Links \cup {Nil}]
        /\ driven_' \in [Nexuses -> Constant \cup {"NO_GUESS", "VAR"}]
        /\ kind' \in [Links -> Kinds \cup {"subst", "input"}] /\ pins' \in Wirings
    BY <1>2, <1>5 DEF TypeOK
  <2>3. ASSUME NEW m \in Nexuses, list_'[m] # Nil PROVE next_'[list_'[m]] # Nil
    <3>1. CASE m = n
      BY <1>2, <1>3, <1>6, <1>8, <3>1
    <3>2. CASE m # n
      BY <1>1, <1>2, <1>6, <1>8, <2>3, <3>2 DEF TypeOK
    <3>3. QED
      BY <3>1, <3>2
  <2>4. QED
    BY <1>9, <2>1, <2>2, <2>3 DEF TypeOK, Partition
<1>14. \A k \in Links \ U : next_'[k] = next_[k] /\ nexus_'[k] = nexus_[k] /\ kind'[k] = kind[k]
  BY <1>2, <1>5, <1>6, <1>7
<1>15. /\ \A m \in Nexuses : list_[m] \in Links \ U => list_'[m] = list_[m] /\ driven_'[m] = driven_[m]
      /\ \A m \in Nexuses : list_'[m] \in Links \ U => list_'[m] = list_[m]
  BY <1>2, <1>8
<1>16. \A m \in Nexuses : list_'[m] \in U => nexus_'[list_'[m]] = m
  BY <1>1, <1>2, <1>7, <1>8
<1>17. \A m \in Nexuses : list_'[m] = Nil => driven_'[m] = "NO_GUESS"
  BY <1>2, <1>8 DEF NexusInv, NoGuess
<1>18. U \in SUBSET Links
  BY <1>2
<1> HIDE DEF U
<1>19. \A T \in joined' : \/ T \in joined /\ T \cap U = {}
                         \/ Net(next_', nexus_', list_', driven_', kind', T)
  BY <1>9, <1>12
<1>20. QED
  BY <1>9, <1>13, <1>14, <1>15, <1>16, <1>17, <1>18, <1>19, NetsChanged

\* Two links without a nexus are connected.
LEMMA PairStep ==
  ASSUME NexusInv, NEW n \in New, NEW l \in Links, NEW r \in Links, l # r,
         next_[l] = Nil, next_[r] = Nil,
         next_' = [next_ EXCEPT ![l] = r, ![r] = l], nexus_' = [nexus_ EXCEPT ![r] = n],
         list_' = [list_ EXCEPT ![n] = r], driven_' = [driven_ EXCEPT ![n] = "NO_GUESS"],
         kind' = kind, pins' = pins, Merged(joined, joined', {l}, {r})
  PROVE  NexusInv'
<1> DEFINE U == {l} \cup {r}
<1>1. /\ {l} \in joined /\ nexus_[l] = Nil /\ (\A m \in Nexuses : list_[m] # l)
      /\ {r} \in joined /\ nexus_[r] = Nil /\ (\A m \in Nexuses : list_[m] # r)
  BY LooseLink
<1>2. /\ TypeOK /\ Partition(joined) /\ n # Nil /\ Nil \notin Links
      /\ n \in Nexuses /\ list_[n] = Nil
  BY NexusAssumption DEF NexusInv, New
<1>3. next_'[l] = r /\ next_'[r] = l /\ \A k \in Links \ {l, r} : next_'[k] = next_[k]
  BY <1>2 DEF TypeOK
<1>4. nexus_'[r] = n /\ \A k \in Links \ {r} : nexus_'[k] = nexus_[k]
  BY <1>2 DEF TypeOK
<1>5. /\ list_'[n] = r /\ driven_'[n] = "NO_GUESS"
      /\ \A m \in Nexuses \ {n} : list_'[m] = list_[m] /\ driven_'[m] = driven_[m]
  BY <1>2 DEF TypeOK
<1>6. Partition(joined') /\ \A T \in joined' : (T \in joined /\ T \cap U = {}) \/ T = U
  BY <1>1, <1>2, PartitionJoined
<1>7. Ring(next_', U)
  <2>1. Ring(next_', {l, r})
    BY <1>3, RingOfTwo
  <2>2. {l, r} = U
    OBVIOUS
  <2>3. QED
    BY <2>1, <2>2
<1>8. Known(nexus_', list_', driven_', kind', n, U)
  <2>1. Right(kind', driven_'[n], U)
    BY <1>5 DEF Right
  <2>2. QED
    BY <1>1, <1>4, <1>5, <2>1 DEF Known
<1>9. Net(next_', nexus_', list_', driven_', kind', U)
  BY <1>2, <1>7, <1>8 DEF Net
<1>10. TypeOK'
  <2>1. next_' \in [Links -> Links \cup {Nil}] /\ nexus_' \in [Links -> Nexuses \cup {Nil}]
    BY <1>2 DEF TypeOK
  <2>2. list_' \in [Nexuses -> Links \cup {Nil}]
        /\ driven_' \in [Nexuses -> Constant \cup {"NO_GUESS", "VAR"}]
        /\ kind' \in [Links -> Kinds \cup {"subst", "input"}] /\ pins' \in Wirings
    BY <1>2 DEF TypeOK
  <2>3. ASSUME NEW m \in Nexuses, list_'[m] # Nil PROVE next_'[list_'[m]] # Nil
    <3>1. CASE m = n
      BY <1>2, <1>3, <1>5, <3>1
    <3>2. CASE m # n
      BY <1>1, <1>2, <1>3, <1>5, <2>3, <3>2 DEF TypeOK
    <3>3. QED
      BY <3>1, <3>2
  <2>4. QED
    BY <1>6, <2>1, <2>2, <2>3 DEF TypeOK, Partition
<1>11. \A k \in Links \ U : next_'[k] = next_[k] /\ nexus_'[k] = nexus_[k] /\ kind'[k] = kind[k]
  BY <1>3, <1>4
<1>12. /\ \A m \in Nexuses : list_[m] \in Links \ U => list_'[m] = list_[m] /\ driven_'[m] = driven_[m]
       /\ \A m \in Nexuses : list_'[m] \in Links \ U => list_'[m] = list_[m]
  BY <1>2, <1>5
<1>13. \A m \in Nexuses : list_'[m] \in U => nexus_'[list_'[m]] = m
  BY <1>1, <1>4, <1>5
<1>14. \A m \in Nexuses : list_'[m] = Nil => driven_'[m] = "NO_GUESS"
  BY <1>2, <1>5 DEF NexusInv, NoGuess
<1>15. \A T \in joined' : \/ T \in joined /\ T \cap U = {}
                         \/ Net(next_', nexus_', list_', driven_', kind', T)
  BY <1>6, <1>9
<1>16. U \in SUBSET Links
  OBVIOUS
<1> HIDE DEF U
<1>17. QED
  BY <1>6, <1>10, <1>11, <1>12, <1>13, <1>14, <1>15, <1>16, NetsChanged

LEMMA NexusStep ==
  ASSUME NexusInv, NEW l \in Links, nexus(l)
  PROVE  NexusInv'
<1> DEFINE U == {l}
<1>1. /\ {l} \in joined /\ nexus_[l] = Nil /\ (\A m \in Nexuses : list_[m] # l)
  BY LooseLink DEF nexus
<1>2. PICK n \in New : /\ list_' = [list_ EXCEPT ![n] = l]
                      /\ nexus_' = [nexus_ EXCEPT ![l] = n]
                      /\ driven_' = [driven_ EXCEPT ![n] = "NO_GUESS"]
  BY DEF nexus
<1>3. /\ TypeOK /\ Partition(joined) /\ n # Nil /\ Nil \notin Links
      /\ n \in Nexuses /\ list_[n] = Nil
  BY NexusAssumption DEF NexusInv, New
<1>4. next_' = [next_ EXCEPT ![l] = l] /\ kind' = kind /\ pins' = pins /\ joined' = joined
  BY DEF nexus
<1>5. /\ next_'[l] = l /\ \A k \in Links \ {l} : next_'[k] = next_[k]
      /\ nexus_'[l] = n /\ \A k \in Links \ {l} : nexus_'[k] = nexus_[k]
  BY <1>2, <1>3, <1>4 DEF TypeOK
<1>6. /\ list_'[n] = l /\ driven_'[n] = "NO_GUESS"
      /\ \A m \in Nexuses \ {n} : list_'[m] = list_[m] /\ driven_'[m] = driven_[m]
  BY <1>2, <1>3 DEF TypeOK
<1>7. Partition(joined') /\ \A T \in joined' : (T \in joined /\ T \cap U = {}) \/ T = U
  BY <1>1, <1>3, <1>4 DEF Partition
<1>8. Net(next_', nexus_', list_', driven_', kind', U)
  <2>1. Right(kind', driven_'[n], U)
    BY <1>6 DEF Right
  <2>2. Known(nexus_', list_', driven_', kind', n, U)
    BY <1>5, <1>6, <2>1 DEF Known
  <2>3. Ring(next_', U)
    BY <1>5, RingOfOne
  <2>4. QED
    BY <1>3, <2>2, <2>3 DEF Net
<1>9. TypeOK'
  <2>1. next_' \in [Links -> Links \cup {Nil}] /\ nexus_' \in [Links -> Nexuses \cup {Nil}]
    BY <1>2, <1>3, <1>4 DEF TypeOK
  <2>2. list_' \in [Nexuses -> Links \cup {Nil}]
        /\ driven_' \in [Nexuses -> Constant \cup {"NO_GUESS", "VAR"}]
        /\ kind' \in [Links -> Kinds \cup {"subst", "input"}] /\ pins' \in Wirings
    BY <1>2, <1>3, <1>4 DEF TypeOK
  <2>3. ASSUME NEW m \in Nexuses, list_'[m] # Nil PROVE next_'[list_'[m]] # Nil
    BY <1>1, <1>3, <1>5, <1>6, <2>3 DEF TypeOK
  <2>4. QED
    BY <1>7, <2>1, <2>2, <2>3 DEF TypeOK, Partition
<1>10. \A k \in Links \ U : next_'[k] = next_[k] /\ nexus_'[k] = nexus_[k] /\ kind'[k] = kind[k]
  BY <1>4, <1>5
<1>11. /\ \A m \in Nexuses : list_[m] \in Links \ U => list_'[m] = list_[m] /\ driven_'[m] = driven_[m]
       /\ \A m \in Nexuses : list_'[m] \in Links \ U => list_'[m] = list_[m]
  BY <1>3, <1>6
<1>12. \A m \in Nexuses : list_'[m] \in U => nexus_'[list_'[m]] = m
  BY <1>1, <1>5, <1>6
<1>13. \A m \in Nexuses : list_'[m] = Nil => driven_'[m] = "NO_GUESS"
  BY <1>3, <1>6 DEF NexusInv, NoGuess
<1>14. \A T \in joined' : \/ T \in joined /\ T \cap U = {}
                         \/ Net(next_', nexus_', list_', driven_', kind', T)
  BY <1>7, <1>8
<1>15. U \in SUBSET Links
  OBVIOUS
<1> HIDE DEF U
<1>16. QED
  BY <1>7, <1>9, <1>10, <1>11, <1>12, <1>13, <1>14, <1>15, NetsChanged

\* A link is taken out of a ring with others; a new link may have its address.
LEMMA RemoveStep ==
  ASSUME NexusInv, NEW l \in Links, next_[l] \notin {Nil, l}, Remove(l),
         NEW n \in Nexuses, NEW S \in joined, l \in S,
         Ring(next_, S), Known(nexus_, list_, driven_, kind, n, S),
         find_nexus_(l) = n, Circle(l) = S, Parted(joined, joined', S, l),
         NEW k \in Kinds \cup {"subst", "input"}, kind' = [kind EXCEPT ![l] = k], pins' = pins
  PROVE  NexusInv'
<1> DEFINE a == list_[n]
           prev == CHOOSE p \in Links : next_[p] = l /\ LeadsTo(l, p)
<1>1. PICK p \in S : p = prev /\ next_[p] = l
  <2>1. \A p \in Links : LeadsTo(l, p) <=> p \in S
    BY DEF Circle
  <2>2. \E p \in S : next_[p] = l
    BY RingPrevious
  <2>3. S \subseteq Links
    BY DEF NexusInv, Partition
  <2>4. prev \in Links /\ next_[prev] = l /\ LeadsTo(l, prev)
    BY <2>1, <2>2, <2>3
  <2>5. QED
    BY <2>1, <2>4
<1>2. /\ TypeOK /\ Partition(joined) /\ n # Nil /\ Nil \notin Links
      /\ S \in SUBSET Links /\ a \in S
  BY NexusAssumption DEF NexusInv, Partition, Known
<1>3. p # l /\ next_[l] \in S \ {l}
  BY <1>1 DEF Ring
<1>4. /\ next_' = [next_ EXCEPT ![p] = next_[l], ![l] = Nil]
      /\ list_' = [list_ EXCEPT ![n] = IF @ = l THEN p ELSE @]
      /\ nexus_' = IF a = l THEN [nexus_ EXCEPT ![p] = n, ![l] = Nil] ELSE nexus_
      /\ driven_' = [driven_ EXCEPT ![n] = IF kind[l] = "input" THEN @ ELSE "NO_GUESS"]
  BY <1>1 DEF Remove
<1>5. next_'[p] = next_[l] /\ next_'[l] = Nil /\ \A m \in Links \ {p, l} : next_'[m] = next_[m]
  BY <1>2, <1>3, <1>4 DEF TypeOK
<1>6. \A m \in S : nexus_[m] = IF m = a THEN n ELSE Nil
  BY DEF Known
<1>7. /\ list_'[n] = (IF a = l THEN p ELSE a) /\ list_'[n] \in S \ {l}
      /\ driven_'[n] = IF kind[l] = "input" THEN driven_[n] ELSE "NO_GUESS"
      /\ \A m \in Nexuses \ {n} : list_'[m] = list_[m] /\ driven_'[m] = driven_[m]
  BY <1>2, <1>3, <1>4 DEF TypeOK
<1>8. \A m \in S \ {l} : nexus_'[m] = IF m = list_'[n] THEN n ELSE Nil
  BY <1>2, <1>3, <1>4, <1>6, <1>7 DEF TypeOK
<1>9. nexus_'[l] = Nil /\ \A m \in Links \ S : nexus_'[m] = nexus_[m]
  BY <1>2, <1>3, <1>4, <1>6 DEF TypeOK
<1>10. \A m \in Links \ {l} : kind'[m] = kind[m]
  BY <1>2 DEF TypeOK
<1>11. /\ Partition(joined')
       /\ \A T \in joined' : (T \in joined /\ T \cap S = {}) \/ (T = S \ {l} /\ T # {}) \/ T = {l}
  BY <1>2, PartitionParted
<1>12. Ring(next_', S \ {l})
  <2>1. /\ \A m \in S \ {p, l} : next_'[m] = next_[m]
        /\ next_'[p] = next_[l] /\ next_[p] = l /\ next_[l] # l
    BY <1>1, <1>2, <1>3, <1>5
  <2>2. QED
    BY <2>1, RingShortened
<1>13. Right(kind', driven_'[n], S \ {l})
  <2>1. Right(kind, driven_[n], S)
    BY DEF Known
  <2>2. Right(kind, driven_'[n], S \ {l})
    <3>1. CASE kind[l] = "input"
      <4>1. \A m \in (S \ (S \ {l})) \cup ((S \ {l}) \ S) : kind[m] = "input"
        BY <3>1
      <4>2. Right(kind, driven_[n], S \ {l})
        BY <2>1, <4>1, RightInputs
      <4>3. QED
        BY <1>7, <3>1, <4>2
    <3>2. CASE kind[l] # "input"
      BY <1>7, <3>2 DEF Right
    <3>3. QED
      BY <3>1, <3>2
  <2>3. \A m \in S \ {l} : kind'[m] = kind[m]
    BY <1>2, <1>10
  <2>4. QED
    BY <2>2, <2>3, RightSame
<1>14. Net(next_', nexus_', list_', driven_', kind', S \ {l})
  <2>1. Known(nexus_', list_', driven_', kind', n, S \ {l})
    BY <1>7, <1>8, <1>13 DEF Known
  <2>2. QED
    BY <1>12, <2>1 DEF Net
<1>15. Net(next_', nexus_', list_', driven_', kind', {l})
  BY <1>5, <1>9 DEF Net
<1>16. \A m \in Nexuses : list_[m] \in S => m = n
  BY <1>2, NexusAssumption DEF NexusInv, PointBack, Known
<1>17. TypeOK'
  <2>1. next_' \in [Links -> Links \cup {Nil}] /\ nexus_' \in [Links -> Nexuses \cup {Nil}]
    BY <1>2, <1>3, <1>4 DEF TypeOK
  <2>2. list_' \in [Nexuses -> Links \cup {Nil}]
        /\ driven_' \in [Nexuses -> Constant \cup {"NO_GUESS", "VAR"}]
        /\ kind' \in [Links -> Kinds \cup {"subst", "input"}] /\ pins' \in Wirings
    BY <1>2, <1>4 DEF TypeOK
  <2>3. ASSUME NEW m \in Nexuses, list_'[m] # Nil PROVE next_'[list_'[m]] # Nil
    <3>1. CASE m = n
      <4>1. next_'[list_'[n]] \in S \ {l}
        BY <1>7, <1>12 DEF Ring
      <4>2. QED
        BY <1>2, <3>1, <4>1
    <3>2. CASE m # n
      BY <1>2, <1>5, <1>7, <1>16, <2>3, <3>2 DEF TypeOK
    <3>3. QED
      BY <3>1, <3>2
  <2>4. QED
    BY <1>11, <2>1, <2>2, <2>3 DEF TypeOK, Partition
<1>18. \A m \in Links \ S : next_'[m] = next_[m] /\ nexus_'[m] = nexus_[m] /\ kind'[m] = kind[m]
  BY <1>2, <1>5, <1>9, <1>10
<1>19. /\ \A m \in Nexuses : list_[m] \in Links \ S => list_'[m] = list_[m] /\ driven_'[m] = driven_[m]
       /\ \A m \in Nexuses : list_'[m] \in Links \ S => list_'[m] = list_[m]
  BY <1>2, <1>7
<1>20. \A m \in Nexuses : list_'[m] \in S => nexus_'[list_'[m]] = m
  BY <1>7, <1>8, <1>16
<1>21. \A m \in Nexuses : list_'[m] = Nil => driven_'[m] = "NO_GUESS"
  BY <1>2, <1>7 DEF NexusInv, NoGuess
<1>22. \A T \in joined' : \/ T \in joined /\ T \cap S = {}
                         \/ Net(next_', nexus_', list_', driven_', kind', T)
  BY <1>11, <1>14, <1>15
<1>23. QED
  BY <1>2, <1>11, <1>17, <1>18, <1>19, <1>20, <1>21, <1>22, NetsChanged

\* The only link of a ring is destroyed, and its nexus with it.
LEMMA DestroyLastStep ==
  ASSUME NexusInv, NEW l \in Links, next_[l] = l,
         NEW n \in Nexuses, NEW S \in joined, l \in S,
         Ring(next_, S), Known(nexus_, list_, driven_, kind, n, S),
         next_' = [next_ EXCEPT ![l] = Nil], nexus_' = [nexus_ EXCEPT ![l] = Nil],
         list_' = [list_ EXCEPT ![n] = Nil], driven_' = [driven_ EXCEPT ![n] = "NO_GUESS"],
         Parted(joined, joined', S, l),
         NEW k \in Kinds \cup {"subst", "input"}, kind' = [kind EXCEPT ![l] = k], pins' = pins
  PROVE  NexusInv'
<1>1. S = {l} /\ list_[n] = l
  <2>1. {l} \in SUBSET S /\ {l} # {} /\ \A m \in {l} : next_[m] \in {l}
    OBVIOUS
  <2>2. S = {l}
    BY <2>1 DEF Ring
  <2>3. QED
    BY <2>2 DEF Known
<1>2. TypeOK /\ Partition(joined) /\ Nil \notin Links /\ S \in SUBSET Links
  BY NexusAssumption DEF NexusInv, Partition
<1>3. /\ next_'[l] = Nil /\ \A m \in Links \ {l} : next_'[m] = next_[m]
      /\ nexus_'[l] = Nil /\ \A m \in Links \ {l} : nexus_'[m] = nexus_[m]
      /\ \A m \in Links \ {l} : kind'[m] = kind[m]
  BY <1>2 DEF TypeOK
<1>4. /\ list_'[n] = Nil /\ driven_'[n] = "NO_GUESS"
      /\ \A m \in Nexuses \ {n} : list_'[m] = list_[m] /\ driven_'[m] = driven_[m]
  BY <1>2 DEF TypeOK
<1>5. /\ Partition(joined')
      /\ \A T \in joined' : (T \in joined /\ T \cap S = {}) \/ (T = S \ {l} /\ T # {}) \/ T = {l}
  BY <1>2, PartitionParted
<1>6. Net(next_', nexus_', list_', driven_', kind', {l})
  BY <1>3 DEF Net
<1>7. \A m \in Nexuses : list_[m] \in S => m = n
  BY <1>1, <1>2 DEF NexusInv, PointBack, Known
<1>8. TypeOK'
  <2>1. next_' \in [Links -> Links \cup {Nil}] /\ nexus_' \in [Links -> Nexuses \cup {Nil}]
    BY <1>2 DEF TypeOK
  <2>2. list_' \in [Nexuses -> Links \cup {Nil}]
        /\ driven_' \in [Nexuses -> Constant \cup {"NO_GUESS", "VAR"}]
        /\ kind' \in [Links -> Kinds \cup {"subst", "input"}] /\ pins' \in Wirings
    BY <1>2 DEF TypeOK
  <2>3. ASSUME NEW m \in Nexuses, list_'[m] # Nil PROVE next_'[list_'[m]] # Nil
    BY <1>1, <1>2, <1>3, <1>4, <1>7, <2>3 DEF TypeOK
  <2>4. QED
    BY <1>5, <2>1, <2>2, <2>3 DEF TypeOK, Partition
<1>9. \A m \in Links \ S : next_'[m] = next_[m] /\ nexus_'[m] = nexus_[m] /\ kind'[m] = kind[m]
  BY <1>1, <1>3
<1>10. /\ \A m \in Nexuses : list_[m] \in Links \ S => list_'[m] = list_[m] /\ driven_'[m] = driven_[m]
       /\ \A m \in Nexuses : list_'[m] \in Links \ S => list_'[m] = list_[m]
  BY <1>1, <1>2, <1>4
<1>11. \A m \in Nexuses : list_'[m] \in S => nexus_'[list_'[m]] = m
  BY <1>1, <1>2, <1>4, <1>7
<1>12. \A m \in Nexuses : list_'[m] = Nil => driven_'[m] = "NO_GUESS"
  BY <1>2, <1>4 DEF NexusInv, NoGuess
<1>13. \A T \in joined' : \/ T \in joined /\ T \cap S = {}
                         \/ Net(next_', nexus_', list_', driven_', kind', T)
  BY <1>1, <1>5, <1>6
<1>14. QED
  BY <1>2, <1>5, <1>8, <1>9, <1>10, <1>11, <1>12, <1>13, NetsChanged

\* Nexuses are asked for their values, and leave what is right.
LEMMA QueryStep ==
  ASSUME NexusInv, UNCHANGED <<kind, pins, next_, nexus_, list_, joined>>,
         driven_' \in [Nexuses -> Constant \cup {"NO_GUESS", "VAR"}],
         \A n \in Nexuses :
           \/ driven_'[n] = driven_[n]
           \/ list_[n] # Nil /\ Right(kind, driven_'[n], LinksOf(n))
  PROVE  NexusInv'
<1>1. TypeOK /\ Partition(joined)
  BY DEF NexusInv
<1>2. TypeOK' /\ Partition(joined')
  BY <1>1 DEF TypeOK
<1>3. PointBack' /\ NoGuess'
  BY DEF NexusInv, PointBack, NoGuess
<1>4. ASSUME NEW S \in joined, NEW n \in Nexuses, Ring(next_, S),
             Known(nexus_, list_, driven_, kind, n, S)
      PROVE  Known(nexus_', list_', driven_', kind', n, S)
  <2>1. LinksOf(n) = S
    BY <1>1, <1>4, CircleIsRing DEF LinksOf, Known, Partition
  <2>2. Right(kind, driven_'[n], S)
    BY <1>4, <2>1 DEF Known
  <2>3. QED
    BY <1>4, <2>2 DEF Known
<1>5. ASSUME NEW S \in joined PROVE Net(next_', nexus_', list_', driven_', kind', S)
  <2>1. Net(next_, nexus_, list_, driven_, kind, S)
    BY DEF NexusInv, Nets
  <2>2. QED
    BY <1>4, <2>1 DEF Net
<1>6. Nets'
  BY <1>5 DEF Nets
<1>7. QED
  BY <1>2, <1>3, <1>6 DEF NexusInv

-----------------------------------------------------------------------------
LEMMA JoinMerges ==
  ASSUME NexusInv, NEW l, NEW r, Join(l, r), NEW S \in joined, l \in S, NEW R \in joined, r \in R
  PROVE  Merged(joined, joined', S, R) /\ Merged(joined, joined', R, S)
<1>1. (CHOOSE T \in joined : l \in T) = S /\ (CHOOSE T \in joined : r \in T) = R
  BY Chosen DEF NexusInv
<1>2. joined' = (joined \ {S, R}) \cup {S \cup R}
  BY <1>1 DEF Join
<1>3. S \cup R = R \cup S
  OBVIOUS
<1>4. QED
  BY <1>2, <1>3 DEF Merged

LEMMA PartParts ==
  ASSUME NexusInv, NEW l, Part(l), NEW S \in joined, l \in S
  PROVE  Parted(joined, joined', S, l)
<1>1. (CHOOSE T \in joined : l \in T) = S
  BY Chosen DEF NexusInv
<1>2. QED
  BY <1>1 DEF Part, Parted

LEMMA ConnectStep ==
  ASSUME NexusInv, NEW l \in Links, NEW r \in Links, connect(l, r)
  PROVE  NexusInv'
<1>1. l # r /\ Join(l, r) /\ kind' = kind /\ pins' = pins
  BY DEF connect
<1>2. CASE next_[l] # Nil
  <2>1. PICK S \in joined, n \in Nexuses :
          /\ l \in S /\ Ring(next_, S) /\ Known(nexus_, list_, driven_, kind, n, S)
          /\ find_nexus_(l) = n /\ Circle(l) = S
    BY <1>2, NetOfLink
  <2>2. ConnectTo(n, r)
    BY <1>2, <2>1 DEF connect
  <2>3. CASE next_[r] = Nil
    <3>1. {r} \in joined /\ r \in {r}
      BY <2>3, LooseLink
    <3>2. Merged(joined, joined', S, {r})
      BY <1>1, <2>1, <3>1, JoinMerges
    <3>3. Extend(n, r)
      BY <2>2, <2>3 DEF ConnectTo
    <3>4. QED
      BY <1>1, <2>1, <2>3, <3>2, <3>3, ExtendStep
  <2>4. CASE next_[r] # Nil
    <3>1. PICK R \in joined, rn \in Nexuses :
            /\ r \in R /\ Ring(next_, R) /\ Known(nexus_, list_, driven_, kind, rn, R)
            /\ find_nexus_(r) = rn /\ Circle(r) = R
      BY <2>4, NetOfLink
    <3>2. Merged(joined, joined', S, R)
      BY <1>1, <2>1, <3>1, JoinMerges
    <3>3. CASE rn = n
      <4>1. UNCHANGED <<next_, nexus_, list_, driven_>>
        BY <2>2, <2>4, <3>1, <3>3 DEF ConnectTo
      <4>2. list_[n] \in S \cap R
        BY <2>1, <3>1, <3>3 DEF Known
      <4>3. S = R
        BY <4>2 DEF NexusInv, Partition
      <4>4. joined' = joined
        BY <3>2, <4>3 DEF Merged
      <4>5. QED
        BY <1>1, <4>1, <4>4 DEF NexusInv, TypeOK, Nets, PointBack, NoGuess
    <3>4. CASE rn # n
      <4>1. Splice(n, rn)
        BY <2>2, <2>4, <3>1, <3>4 DEF ConnectTo
      <4>2. QED
        BY <1>1, <2>1, <3>1, <3>2, <3>4, <4>1, SpliceStep
    <3>5. QED
      BY <3>3, <3>4
  <2>5. QED
    BY <2>3, <2>4
<1>3. CASE next_[l] = Nil /\ next_[r] # Nil
  <2>1. PICK R \in joined, n \in Nexuses :
          /\ r \in R /\ Ring(next_, R) /\ Known(nexus_, list_, driven_, kind, n, R)
          /\ find_nexus_(r) = n /\ Circle(r) = R
    BY <1>3, NetOfLink
  <2>2. {l} \in joined /\ l \in {l}
    BY <1>3, LooseLink
  <2>3. Merged(joined, joined', R, {l})
    BY <1>1, <2>1, <2>2, JoinMerges
  <2>4. Extend(n, l)
    BY <1>3, <2>1 DEF connect, ConnectTo
  <2>5. QED
    BY <1>1, <1>3, <2>1, <2>3, <2>4, ExtendStep
<1>4. CASE next_[l] = Nil /\ next_[r] = Nil
  <2>1. {l} \in joined /\ l \in {l} /\ {r} \in joined /\ r \in {r}
    BY <1>4, LooseLink
  <2>2. Merged(joined, joined', {l}, {r})
    BY <1>1, <2>1, JoinMerges
  <2>3. PICK n \in New :
          /\ next_' = [next_ EXCEPT ![l] = r, ![r] = l]
          /\ nexus_' = [nexus_ EXCEPT ![r] = n]
          /\ list_' = [list_ EXCEPT ![n] = r]
          /\ driven_' = [driven_ EXCEPT ![n] = "NO_GUESS"]
    BY <1>4 DEF connect
  <2>4. QED
    BY <1>1, <1>4, <2>2, <2>3, PairStep
<1>5. QED
  BY <1>2, <1>3, <1>4

LEMMA UnlinkStep ==
  ASSUME NexusInv, NEW l \in Links, unlink(l)
  PROVE  NexusInv'
<1>1. next_[l] \notin {Nil, l} /\ Remove(l) /\ Part(l) /\ kind' = kind /\ pins' = pins
  BY DEF unlink
<1>2. PICK S \in joined, n \in Nexuses :
        /\ l \in S /\ Ring(next_, S) /\ Known(nexus_, list_, driven_, kind, n, S)
        /\ find_nexus_(l) = n /\ Circle(l) = S
  BY <1>1, NetOfLink
<1>3. Parted(joined, joined', S, l)
  BY <1>1, <1>2, PartParts
<1>4. kind[l] \in Kinds \cup {"subst", "input"} /\ kind' = [kind EXCEPT ![l] = kind[l]]
  BY <1>1 DEF NexusInv, TypeOK
<1>5. QED
  BY <1>1, <1>2, <1>3, <1>4, RemoveStep

LEMMA DestroyStep ==
  ASSUME NexusInv, NEW l \in Links, Destroy(l)
  PROVE  NexusInv'
<1>1. next_[l] # Nil /\ Part(l)
  BY DEF Destroy
<1>2. PICK k \in Kinds \cup {"subst", "input"} : kind' = [kind EXCEPT ![l] = k] /\ pins' = pins
  BY DEF Destroy
<1>3. PICK S \in joined, n \in Nexuses :
        /\ l \in S /\ Ring(next_, S) /\ Known(nexus_, list_, driven_, kind, n, S)
        /\ find_nexus_(l) = n /\ Circle(l) = S
  BY <1>1, NetOfLink
<1>4. Parted(joined, joined', S, l)
  BY <1>1, <1>3, PartParts
<1>5. CASE next_[l] = l
  <2>1. /\ next_' = [next_ EXCEPT ![l] = Nil] /\ nexus_' = [nexus_ EXCEPT ![l] = Nil]
        /\ list_' = [list_ EXCEPT ![n] = Nil] /\ driven_' = [driven_ EXCEPT ![n] = "NO_GUESS"]
    BY <1>3, <1>5 DEF Destroy
  <2>2. QED
    BY <1>2, <1>3, <1>4, <1>5, <2>1, DestroyLastStep
<1>6. CASE next_[l] # l
  <2>1. Remove(l)
    BY <1>6 DEF Destroy
  <2>2. QED
    BY <1>1, <1>2, <1>3, <1>4, <1>6, <2>1, RemoveStep
<1>7. QED
  BY <1>5, <1>6

LEMMA AskStep ==
  ASSUME NexusInv, NEW n \in Nexuses, drivers_constant(n) \/ driven_value(n)
  PROVE  NexusInv'
<1>1. UNCHANGED <<kind, pins, next_, nexus_, list_, joined>>
  BY DEF drivers_constant, driven_value
<1>2. driven_ \in [Nexuses -> Constant \cup {"NO_GUESS", "VAR"}]
  BY DEF NexusInv, TypeOK
<1>3. ASSUME NEW m \in Nexuses, list_[m] # Nil
      PROVE  Right(kind, driven_[m], LinksOf(m))
  BY <1>3, NetOfNexus DEF Known
<1>4. CASE drivers_constant(n)
  <2>1. driven_' = [m \in Nexuses |-> IF m \in Asked(n) THEN Guess(m) ELSE driven_[m]]
    BY <1>4 DEF drivers_constant
  <2>2. \A m \in Asked(n) : m \in Nexuses /\ list_[m] # Nil
    BY DEF Asked, New
  <2>3. \A m \in Asked(n) : /\ Right(kind, Guess(m), LinksOf(m))
                            /\ Guess(m) \in Constant \cup {"NO_GUESS", "VAR"}
    BY <1>3, <2>2, GuessRight
  <2>4. driven_' \in [Nexuses -> Constant \cup {"NO_GUESS", "VAR"}]
    BY <1>2, <2>1, <2>3
  <2>5. QED
    BY <1>1, <2>1, <2>2, <2>3, <2>4, QueryStep
<1>5. CASE driven_value(n) /\ driven_[n] # "NO_GUESS"
  <2>1. driven_' = driven_
    BY <1>2, <1>5 DEF driven_value
  <2>2. QED
    BY <1>1, <1>2, <2>1, QueryStep
<1>6. CASE driven_value(n) /\ driven_[n] = "NO_GUESS"
  <2>1. PICK g : g = IF {l \in LinksOf(n) : kind[l] \in Constant} # {}
                       THEN kind[CHOOSE l \in {m \in LinksOf(n) : kind[m] \in Constant} : TRUE]
                       ELSE "z"
    OBVIOUS
  <2>2. list_[n] # Nil /\ driven_' = [driven_ EXCEPT ![n] = g]
    BY <1>2, <1>6, <2>1 DEF driven_value
  <2>3. Guess(n) = "NO_GUESS"
    <3>1. n \in Asked(n)
      BY <2>2 DEF Asked, New
    <3>2. QED
      BY <1>6, <3>1 DEF driven_value
  <2>4. Right(kind, g, LinksOf(n)) /\ g \in Constant
    BY <1>3, <2>1, <2>2, <2>3, ValueRight
  <2>5. driven_' \in [Nexuses -> Constant \cup {"NO_GUESS", "VAR"}]
    BY <1>2, <2>2, <2>4
  <2>6. \A m \in Nexuses : \/ driven_'[m] = driven_[m]
                           \/ list_[m] # Nil /\ Right(kind, driven_'[m], LinksOf(m))
    BY <1>2, <2>2, <2>4
  <2>7. QED
    BY <1>1, <2>5, <2>6, QueryStep
<1>7. QED
  BY <1>4, <1>5, <1>6

LEMMA NexusInvStep == NexusInv /\ [Next]_vars => NexusInv'
<1> SUFFICES ASSUME NexusInv, [Next]_vars PROVE NexusInv'
  OBVIOUS
<1>1. CASE UNCHANGED vars
  BY <1>1 DEF vars, NexusInv, TypeOK, Nets, PointBack, NoGuess
<1>2. ASSUME NEW l \in Links, NEW r \in Links, connect(l, r) PROVE NexusInv'
  BY <1>2, ConnectStep
<1>3. ASSUME NEW l \in Links, nexus(l) \/ unlink(l) \/ Destroy(l) PROVE NexusInv'
  BY <1>3, NexusStep, UnlinkStep, DestroyStep
<1>4. ASSUME NEW n \in Nexuses, drivers_constant(n) \/ driven_value(n) PROVE NexusInv'
  BY <1>4, AskStep
<1>5. QED
  BY <1>1, <1>2, <1>3, <1>4 DEF Next

-----------------------------------------------------------------------------
(***************************************************************************)
(* The theorems.                                                           *)
(***************************************************************************)

LEMMA Circles == NexusInv => CirclesAreNets
<1> SUFFICES ASSUME NexusInv PROVE CirclesAreNets
  OBVIOUS
<1>1. ASSUME NEW l \in Links, next_[l] # Nil
      PROVE  /\ Circle(l) \in joined
             /\ \E n \in Nexuses :
                  /\ list_[n] \in Circle(l)
                  /\ \A m \in Circle(l) : nexus_[m] = IF m = list_[n] THEN n ELSE Nil
  BY <1>1, NetOfLink DEF Known
<1>2. QED
  BY <1>1 DEF CirclesAreNets, CirclesAreJoined, OneBackPointer

LEMMA Driven == NexusInv => DrivenIsCurrent
<1> SUFFICES ASSUME NexusInv, NEW n \in Nexuses, driven_[n] # "NO_GUESS"
             PROVE  IF driven_[n] = "VAR"
                    THEN \/ \E l \in LinksOf(n) : kind[l] \in {"var", "subst"}
                         \/ \E l, m \in ConstantDrivers(LinksOf(n)) : l # m
                    ELSE /\ \A l \in LinksOf(n) : kind[l] # "var"
                         /\ \A l, m \in Drivers(LinksOf(n)) : l = m
                         /\ driven_[n] = Value(LinksOf(n))
  BY DEF DrivenIsCurrent
<1>1. list_[n] # Nil
  BY DEF NexusInv, NoGuess
<1>2. PICK S \in joined : Known(nexus_, list_, driven_, kind, n, S) /\ LinksOf(n) = S
  BY <1>1, NetOfNexus
<1>3. Right(kind, driven_[n], S)
  BY <1>2 DEF Known
<1>4. CASE driven_[n] = "VAR"
  BY <1>2, <1>3, <1>4 DEF Right, Constant, ConstantDrivers
<1>5. CASE driven_[n] # "VAR"
  <2>1. /\ \A l \in S : kind[l] # "var"
        /\ \A l, m \in Drives(kind, S) : l = m
        /\ \A l \in Drives(kind, S) : driven_[n] = Shown(kind[l])
        /\ Drives(kind, S) = {} => driven_[n] = "z"
    BY <1>3, <1>5 DEF Right
  <2>2. Drivers(S) = Drives(kind, S)
    BY DEF Drivers, Drives
  <2>3. CASE Drivers(S) = {}
    BY <1>2, <1>5, <2>1, <2>2, <2>3 DEF Value
  <2>4. CASE Drivers(S) # {}
    <3>1. PICK l \in Drivers(S) : l = CHOOSE m \in Drivers(S) : TRUE
      BY <2>4
    <3>2. Value(S) = Shown(kind[l])
      BY <2>4, <3>1 DEF Value, Shown
    <3>3. QED
      BY <1>2, <1>5, <2>1, <2>2, <3>1, <3>2
  <2>5. QED
    BY <2>3, <2>4
<1>6. QED
  BY <1>4, <1>5

\* Two links share a circle exactly if they are connected, and one link of it
\* points back, after any sequence of Nexus::connect, unlink and ~Link.
THEOREM CirclesTheorem == Spec => []CirclesAreNets
BY NexusInvInit, NexusInvStep, Circles, PTL DEF Spec

\* The value that Nexus::driven_value finds cached is the value of the drivers
\* that the nexus has now, NetSubstitutes left aside, which it passes over.
THEOREM DrivenTheorem == Spec => []DrivenIsCurrent
BY NexusInvInit, NexusInvStep, Driven, PTL DEF Spec
=============================================================================
