---------------------------- MODULE SignalProofs ----------------------------
(***************************************************************************)
(* A signal has the value that the language gives it, for every width, for *)
(* variables and nets, and whatever bits have a structural driver; and its *)
(* value-change callbacks are called, whatever they add and remove.        *)
(*                                                                         *)
(* ValueIsRight speaks of one of three values per bit, so it is not        *)
(* inductive: Layers says where each of them is kept while another one     *)
(* hides it, and Links that a link to the source covers the whole signal.  *)
(*                                                                         *)
(* EachIsCalled speaks of the end of a walk. Owed says of each moment that *)
(* a callback still to be called is ahead of the walk, unless it has       *)
(* nothing more to report, and Ahead is stated without induction: by all   *)
(* sets that are closed under the links.                                   *)
(***************************************************************************)
EXTENDS Signal, SequenceTheorems, TLAPS

\* The masks are those of the bits that are forced and assigned, the values
\* are kept where they will be found, and a driven bit of a net always has its
\* driven value underneath.
Layers ==
  \A i \in Bits :
    /\ (i \in force_mask) = (fo[i] # Nil) /\ (i \in force_mask => force4[i] = fo[i])
    /\ (i \in assign_mask) = (ca[i] # Nil) /\ (i \in assign_mask => bits4[i] = ca[i])
    /\ i \notin force_mask \cup assign_mask => bits4[i] = hold[i]
    /\ ~Variable /\ i \in driver_mask => bits4[i] = hold[i]

\* A net is not assigned; a linked force is a force of every bit that the
\* source still writes; and the source is linked to one port at most.
Links ==
  /\ ~Variable => assign_mask = {} /\ ~cassign_link
  /\ force_link = folink /\ (force_link => force_mask = Bits)
  /\ ~(force_link /\ cassign_link)

SignalInv == TypeOK /\ Layers /\ Links

\* A vector with some bits taken from another.
LEMMA PutType ==
  ASSUME NEW S, NEW p \in SUBSET Bits, NEW v \in [Bits -> S], NEW w \in [Bits -> S]
  PROVE  /\ Put(v, p, w) \in [Bits -> S]
         /\ \A i \in Bits : Put(v, p, w)[i] = IF i \in p THEN w[i] ELSE v[i]
BY DEF Put

LEMMA PutVector ==
  ASSUME NEW p \in SUBSET Bits, NEW v \in Vector, NEW w \in Vector
  PROVE  /\ Put(v, p, w) \in Vector
         /\ \A i \in Bits : Put(v, p, w)[i] = IF i \in p THEN w[i] ELSE v[i]
BY DEF Put, Vector

\* What is stored is a vector.
LEMMA StoredIsVector == Stored \subseteq Vector /\ AllX \in Vector
BY DEF Stored, Vector, Bit, AllX, X

\* The value the filter sends is a vector.
LEMMA FilteredType ==
  ASSUME TypeOK, NEW b \in Vector, NEW m \in SUBSET Bits, m # {} => force4 # Nil
  PROVE  /\ Filtered(b, m) \in Vector
         /\ \A i \in Bits : Filtered(b, m)[i] = IF i \in m THEN force4[i] ELSE b[i]
BY DEF TypeOK, Filtered, Vector

\* The signal starts out right.
LEMMA SignalInit == Init => SignalInv
<1> SUFFICES ASSUME Init PROVE SignalInv
  OBVIOUS
<1>1. TypeOK
  <2>1. driver_mask \in SUBSET Bits
    BY DriversAssumption DEF Init
  <2>2. ca \in [Bits -> Bit \cup {Nil}] /\ fo \in [Bits -> Bit \cup {Nil}]
    BY DEF Init
  <2>3. QED
    BY <2>1, <2>2, StoredIsVector DEF Init, TypeOK
<1>2. Layers
  BY DEF Init, Layers, AllX
<1>3. Links
  BY DEF Init, Links
<1>4. QED
  BY <1>1, <1>2, <1>3 DEF SignalInv

-----------------------------------------------------------------------------
(***************************************************************************)
(* What the filter does: it sends the bits that it is given, or it sends   *)
(* nothing because a force hides them all, or because nothing has changed. *)
(***************************************************************************)

\* The bits p of b were sent through the mask m, and the callbacks called.
Sends(b, m, p) ==
  /\ \A i \in Bits : seen'[i] = IF i \in p THEN Filtered(b, m)[i] ELSE seen[i]
  /\ told' = Filtered(b, m)

\* Nothing was sent.
Quiet == seen' = seen /\ told' = told

\* What the filter assigns has its type.
FilterTyped == seen' \in Vector /\ told' \in Vector /\ force_propagate' \in BOOLEAN

LEMMA StopEffect == ASSUME TypeOK, Stop PROVE FilterTyped /\ Quiet
BY DEF TypeOK, Stop, FilterTyped, Quiet

LEMMA FilterMaskEffect ==
  ASSUME TypeOK, NEW b \in Vector, NEW m \in SUBSET Bits, m # {} => force4 # Nil,
         NEW p \in SUBSET Bits, filter_mask_(b, m, p)
  PROVE  FilterTyped /\ (Sends(b, m, p) \/ (Quiet /\ p \subseteq m))
<1>1. Filtered(b, m) \in Vector
  BY FilteredType
<1>2. seen \in Vector /\ told \in Vector /\ force_propagate \in BOOLEAN
  BY DEF TypeOK
<1>3. (force_propagate /\ m = {}) \in BOOLEAN
  OBVIOUS
<1>4. force_propagate' \in BOOLEAN
  BY <1>3 DEF filter_mask_
<1>5. CASE m = {} \/ force_propagate \/ p \ m # {}
  <2>1. seen' = Put(seen, p, Filtered(b, m)) /\ told' = Filtered(b, m)
    BY <1>5 DEF filter_mask_
  <2>2. /\ Put(seen, p, Filtered(b, m)) \in Vector
        /\ \A i \in Bits : Put(seen, p, Filtered(b, m))[i]
                             = IF i \in p THEN Filtered(b, m)[i] ELSE seen[i]
    BY <1>1, <1>2, PutVector
  <2>3. QED
    BY <1>1, <1>4, <2>1, <2>2 DEF FilterTyped, Sends
<1>6. CASE ~(m = {} \/ force_propagate \/ p \ m # {})
  BY <1>2, <1>4, <1>6 DEF filter_mask_, FilterTyped, Quiet
<1>7. QED
  BY <1>5, <1>6

LEMMA FromSignalEffect ==
  ASSUME TypeOK, NEW b \in Vector, NEW m \in SUBSET Bits, m # {} => force4 # Nil,
         filter_vec4_from_signal(b, m, b # bits4)
  PROVE  /\ FilterTyped /\ fil_needs_init' \in BOOLEAN
         /\ Sends(b, m, Bits) \/ (Quiet /\ (b = bits4 \/ m = Bits))
<1>1. CASE ~(b # bits4) /\ ~fil_needs_init
  <2>1. Stop /\ fil_needs_init' = fil_needs_init
    BY <1>1 DEF filter_vec4_from_signal
  <2>2. QED
    BY <1>1, <2>1, StopEffect DEF TypeOK
<1>2. CASE ~(~(b # bits4) /\ ~fil_needs_init)
  <2>1. fil_needs_init' = FALSE /\ filter_mask_(b, m, Bits)
    BY <1>2 DEF filter_vec4_from_signal
  <2>2. FilterTyped /\ (Sends(b, m, Bits) \/ (Quiet /\ Bits \subseteq m))
    BY <2>1, FilterMaskEffect
  <2>3. QED
    BY <2>1, <2>2
<1>3. QED
  BY <1>1, <1>2

\* Port 0 of a variable: the bits that are not assigned are stored.
LEMMA Port0Effect ==
  ASSUME TypeOK, NEW p \in SUBSET Bits, NEW v \in Vector,
         NEW m \in SUBSET Bits, m # {} => force4 # Nil, recv_port0(p, v, m)
  PROVE  /\ bits4' \in Vector /\ needs_init' \in BOOLEAN /\ fil_needs_init' \in BOOLEAN
         /\ \A i \in Bits : bits4'[i] = IF i \in p \ assign_mask THEN v[i] ELSE bits4[i]
         /\ FilterTyped
         /\ Sends(bits4', m, Bits) \/ (Quiet /\ (bits4' = bits4 \/ m = Bits))
<1> DEFINE open == p \ assign_mask
           b == Put(bits4, open, v)
<1>1. b \in Vector /\ \A i \in Bits : b[i] = IF i \in open THEN v[i] ELSE bits4[i]
  <2>1. open \in SUBSET Bits /\ bits4 \in Vector
    BY DEF TypeOK
  <2> HIDE DEF open
  <2>2. QED
    BY <2>1, PutVector
<1>2. bits4' = b
  BY DEF recv_port0
<1>3. CASE open # {} /\ (needs_init \/ b # bits4)
  <2>1. needs_init' = FALSE /\ filter_vec4_from_signal(b, m, b # bits4)
    BY <1>3 DEF recv_port0
  <2> HIDE DEF b
  <2>2. QED
    BY <1>1, <1>2, <2>1, FromSignalEffect
<1>4. CASE ~(open # {} /\ (needs_init \/ b # bits4))
  <2>1. Stop /\ needs_init' = needs_init /\ fil_needs_init' = fil_needs_init
    BY <1>4 DEF recv_port0
  <2>2. b = bits4
    <3>1. CASE open = {}
      BY <3>1 DEF TypeOK, Vector, Put
    <3>2. QED
      BY <1>4, <3>1
  <2> HIDE DEF b
  <2>3. QED
    BY <1>1, <1>2, <2>1, <2>2, StopEffect DEF TypeOK
<1>5. QED
  BY <1>3, <1>4

\* Port 1 of a variable: every bit of the part is stored, and assigned.
LEMMA Port1Effect ==
  ASSUME TypeOK, NEW p \in SUBSET Bits, NEW v \in Vector, recv_port1(p, v)
  PROVE  /\ bits4' \in Vector /\ needs_init' \in BOOLEAN /\ fil_needs_init' \in BOOLEAN
         /\ assign_mask' = assign_mask \cup p
         /\ \A i \in Bits : bits4'[i] = IF i \in p THEN v[i] ELSE bits4[i]
         /\ FilterTyped
         /\ \/ Sends(bits4', force_mask, Bits)
            \/ Quiet /\ (bits4' = bits4 \/ force_mask = Bits)
<1> DEFINE b == Put(bits4, p, v)
<1>1. b \in Vector /\ \A i \in Bits : b[i] = IF i \in p THEN v[i] ELSE bits4[i]
  BY PutVector DEF TypeOK
<1>2. /\ bits4' = b /\ assign_mask' = assign_mask \cup p /\ needs_init' = needs_init
      /\ filter_vec4_from_signal(b, force_mask, b # bits4)
  BY DEF recv_port1
<1>3. force_mask \in SUBSET Bits /\ (force_mask # {} => force4 # Nil)
  BY DEF TypeOK
<1> HIDE DEF b
<1>4. QED
  BY <1>1, <1>2, <1>3, FromSignalEffect DEF TypeOK

\* A net: what is sent are the bits stored, or all of them.
LEMMA NetBitsEffect ==
  ASSUME TypeOK, NEW p \in SUBSET Bits, NEW v \in Vector, NetBits(p, v)
  PROVE  /\ bits4' \in Vector /\ fil_needs_init' \in BOOLEAN
         /\ \A i \in Bits : bits4'[i] = IF i \in p THEN v[i] ELSE bits4[i]
         /\ FilterTyped
         /\ \/ \E s \in SUBSET Bits :
                 /\ p \subseteq s
                 /\ Sends(bits4', force_mask, s) \/ (Quiet /\ s \subseteq force_mask)
            \/ Quiet /\ bits4' = bits4
<1> DEFINE b == Put(bits4, p, v)
           s == IF driver_mask = Bits THEN p ELSE Bits
<1>1. b \in Vector /\ \A i \in Bits : b[i] = IF i \in p THEN v[i] ELSE bits4[i]
  BY PutVector DEF TypeOK
<1>2. force_mask \in SUBSET Bits /\ (force_mask # {} => force4 # Nil)
  BY DEF TypeOK
<1>3. s \in SUBSET Bits /\ p \subseteq s
  OBVIOUS
<1>4. CASE b = bits4 /\ ~fil_needs_init
  <2>1. Stop /\ bits4' = bits4 /\ fil_needs_init' = fil_needs_init
    BY <1>4 DEF NetBits
  <2> HIDE DEF b, s
  <2>2. QED
    BY <1>1, <1>4, <2>1, StopEffect DEF TypeOK
<1>5. CASE ~(b = bits4 /\ ~fil_needs_init)
  <2>1. bits4' = b /\ fil_needs_init' = FALSE /\ filter_mask_(b, force_mask, s)
    BY <1>5 DEF NetBits
  <2> HIDE DEF b, s
  <2>2. FilterTyped /\ (Sends(b, force_mask, s) \/ (Quiet /\ s \subseteq force_mask))
    BY <1>1, <1>2, <1>3, <2>1, FilterMaskEffect
  <2>3. QED
    BY <1>1, <1>3, <2>1, <2>2
<1>6. QED
  BY <1>4, <1>5

-----------------------------------------------------------------------------
(***************************************************************************)
(* Force and release.                                                      *)
(***************************************************************************)

LEMMA ValueType ==
  ASSUME TypeOK
  PROVE  Value \in Vector /\ \A i \in Bits : Value[i] = IF i \in force_mask THEN force4[i] ELSE bits4[i]
<1>1. force_mask \in SUBSET Bits /\ (force_mask # {} => force4 # Nil) /\ bits4 \in Vector
  BY DEF TypeOK
<1>2. QED
  BY <1>1, FilteredType DEF Value

\* Two vectors with the same bits are the same.
LEMMA SameBits ==
  ASSUME NEW v \in Vector, NEW w \in Vector, \A i \in Bits : v[i] = w[i]
  PROVE  v = w
BY DEF Vector

LEMMA ForceEffect ==
  ASSUME TypeOK, NEW p \in SUBSET Bits, NEW v \in Vector, force_vec4(p, v)
  PROVE  /\ force_mask' = force_mask \cup p /\ force4' \in Vector /\ force4' # Nil
         /\ \A i \in p : force4'[i] = v[i]
         /\ \A i \in force_mask \ p : force4'[i] = force4[i]
         /\ FilterTyped
         /\ \A i \in Bits : seen'[i] = IF i \in p THEN v[i] ELSE Value[i]
         /\ \A i \in Bits : told'[i] = IF i \in force_mask' THEN force4'[i] ELSE bits4[i]
<1> DEFINE forced == Put(Value, p, v)
<1>1. /\ forced \in Vector
      /\ \A i \in Bits : forced[i] = IF i \in p THEN v[i] ELSE Value[i]
  BY ValueType, PutVector
<1>2. /\ force_mask' = force_mask \cup p
      /\ force4' = IF force4 = Nil THEN forced ELSE Put(force4, p, v)
      /\ force_propagate' = TRUE
      /\ seen' = forced
      /\ told' = [i \in Bits |-> IF i \in force_mask' THEN force4'[i] ELSE bits4[i]]
  BY DEF force_vec4
<1>3. /\ force4 = Nil => force_mask = {}
      /\ force_mask \subseteq Bits /\ bits4 \in Vector
  BY DEF TypeOK
<1> HIDE DEF forced
<1>4. /\ force4' \in Vector
      /\ \A i \in p : force4'[i] = v[i]
      /\ \A i \in force_mask \ p : force4'[i] = force4[i]
  <2>1. CASE force4 = Nil
    BY <1>1, <1>2, <1>3, <2>1
  <2>2. CASE force4 # Nil
    <3>1. force4 \in Vector
      BY <2>2 DEF TypeOK
    <3>2. /\ Put(force4, p, v) \in Vector
          /\ \A i \in Bits : Put(force4, p, v)[i] = IF i \in p THEN v[i] ELSE force4[i]
      BY <3>1, PutVector
    <3>3. QED
      BY <1>2, <1>3, <2>2, <3>2
  <2>3. QED
    BY <2>1, <2>2
<1>5. force4' # Nil
  BY <1>4, NilAssumption
<1>6. told' \in Vector /\ \A i \in Bits : told'[i] = IF i \in force_mask' THEN force4'[i] ELSE bits4[i]
  BY <1>2, <1>3, <1>4 DEF Vector
<1>7. QED
  BY <1>1, <1>2, <1>4, <1>5, <1>6 DEF FilterTyped

LEMMA ReleaseRegEffect ==
  ASSUME TypeOK, NEW p \in SUBSET Bits, release_reg(p)
  PROVE  /\ force_mask' = force_mask \ p
         /\ bits4' \in Vector /\ needs_init' \in BOOLEAN /\ fil_needs_init' \in BOOLEAN
         /\ \A i \in Bits : bits4'[i] = IF i \in p \ assign_mask THEN Value[i] ELSE bits4[i]
         /\ FilterTyped
         /\ \/ Sends(bits4', force_mask \ p, Bits)
            \/ Quiet /\ (bits4' = bits4 \/ force_mask \ p = Bits)
<1>1. force_mask' = force_mask \ p /\ recv_port0(p, Value, force_mask \ p)
  BY DEF release_reg
<1>2. force_mask \ p \in SUBSET Bits /\ (force_mask \ p # {} => force4 # Nil)
  BY DEF TypeOK
<1>3. Value \in Vector
  BY ValueType
<1>4. QED
  BY <1>1, <1>2, <1>3, Port0Effect

\* A net sends what is released unless the bits stay what they are.
LEMMA ReleaseNetEffect ==
  ASSUME TypeOK, NEW p \in Parts, release_net(p)
  PROVE  /\ force_mask' = force_mask \ p
         /\ bits4' \in Vector /\ needs_init' \in BOOLEAN /\ fil_needs_init' \in BOOLEAN
         /\ \A i \in Bits : bits4'[i] = IF i \in p \ driver_mask THEN Value[i] ELSE bits4[i]
         /\ FilterTyped /\ told' = Filtered(bits4', force_mask \ p)
         /\ \/ \E s \in SUBSET Bits : p \subseteq s /\ Sends(bits4', force_mask \ p, s)
            \/ seen' = seen /\ force4 = Nil
            \/ seen' = seen /\ \A i \in p : bits4'[i] = force4[i]
<1> DEFINE m == force_mask \ p
           q == p \ driver_mask
           b == Put(bits4, q, Value)
           differs == IF force4 = Nil THEN p = Bits \/ \E i \in p : b[i] # X
                      ELSE \E i \in p : b[i] # force4[i]
           s == IF driver_mask = Bits THEN p ELSE Bits
           goes == differs /\ (m = {} \/ force_propagate \/ s \ m # {})
<1>1. /\ bits4' = b /\ force_mask' = m
      /\ fil_needs_init' = FALSE
      /\ force_propagate' = (force_propagate /\ (~differs \/ m = {}))
      /\ seen' = IF goes THEN Put(seen, s, Filtered(b, m)) ELSE seen
      /\ told' = Filtered(b, m) /\ needs_init' = needs_init
  BY DEF release_net
<1>2. p \in SUBSET Bits /\ p # {}
  BY DEF Parts
<1>3. m \in SUBSET Bits /\ (m # {} => force4 # Nil) /\ q \in SUBSET Bits
  BY <1>2 DEF TypeOK
<1>4. p \subseteq s /\ s \in SUBSET Bits /\ s \ m # {}
  BY <1>2
<1>5. b \in Vector /\ \A i \in Bits : b[i] = IF i \in q THEN Value[i] ELSE bits4[i]
  <2> HIDE DEF q
  <2>1. QED
    BY <1>3, ValueType, PutVector DEF TypeOK
<1>6. goes = differs
  BY <1>4
<1>7. ~differs => force4 = Nil \/ \A i \in p : b[i] = force4[i]
  OBVIOUS
<1>8. (force_propagate /\ (~differs \/ m = {})) \in BOOLEAN
  OBVIOUS
<1> HIDE DEF m, b, differs, s, goes
<1>9. Filtered(b, m) \in Vector
  BY <1>3, <1>5, FilteredType
<1>10. /\ Put(seen, s, Filtered(b, m)) \in Vector
       /\ \A i \in Bits : Put(seen, s, Filtered(b, m))[i]
                            = IF i \in s THEN Filtered(b, m)[i] ELSE seen[i]
  BY <1>4, <1>9, PutVector DEF TypeOK
<1>11. FilterTyped
  BY <1>1, <1>8, <1>9, <1>10 DEF FilterTyped, TypeOK
<1>12. /\ Filtered(bits4', m) = Filtered(b, m)
       /\ \/ \E t \in SUBSET Bits : p \subseteq t /\ Sends(bits4', m, t)
          \/ seen' = seen /\ force4 = Nil
          \/ seen' = seen /\ \A i \in p : bits4'[i] = force4[i]
  <2>1. CASE differs
    <3>1. Sends(bits4', m, s)
      BY <1>1, <1>6, <1>10, <2>1 DEF Sends
    <3>2. QED
      BY <1>1, <1>4, <3>1
  <2>2. CASE ~differs
    BY <1>1, <1>6, <1>7, <2>2
  <2>3. QED
    BY <2>1, <2>2
<1>13. needs_init' \in BOOLEAN
  BY <1>1 DEF TypeOK
<1>14. QED
  BY <1>1, <1>5, <1>11, <1>12, <1>13 DEF m

-----------------------------------------------------------------------------
(***************************************************************************)
(* Every variable keeps its type.                                          *)
(***************************************************************************)

\* What the variables become that the filter does not write.
RestTyped ==
  /\ bits4' \in Vector /\ hold' \in Vector
  /\ needs_init' \in BOOLEAN /\ fil_needs_init' \in BOOLEAN
  /\ assign_mask' \subseteq Bits /\ force_mask' \subseteq Bits /\ driver_mask' \subseteq Bits
  /\ force4' \in Vector \cup {Nil} /\ (force_mask' # {} => force4' # Nil)
  /\ cassign_link' \in BOOLEAN /\ force_link' \in BOOLEAN /\ folink' \in BOOLEAN
  /\ src' \in Stored
  /\ ca' \in [Bits -> Bit \cup {Nil}] /\ fo' \in [Bits -> Bit \cup {Nil}]

LEMMA Typed == ASSUME FilterTyped, RestTyped PROVE TypeOK'
BY DEF FilterTyped, RestTyped, TypeOK

\* The value after a step.
LEMMA ValueNext ==
  ASSUME TypeOK'
  PROVE  /\ Value' \in Vector
         /\ \A i \in Bits : Value'[i] = IF i \in force_mask' THEN force4'[i] ELSE bits4'[i]
BY DEF TypeOK, Value, Filtered, Vector

\* What is seen and told bit by bit is the value.
LEMMA SeenNext ==
  ASSUME TypeOK', \A i \in Bits : seen'[i] = Value'[i] /\ told'[i] = Value'[i]
  PROVE  SeenIsValue'
<1>1. seen' \in Vector /\ told' \in Vector
  BY DEF TypeOK
<1>2. QED
  BY <1>1, ValueNext, SameBits DEF SeenIsValue

LEMMA StoreTypes ==
  ASSUME TypeOK, NEW p \in Parts, NEW v \in Stored, of_STORE_VEC4(p, v)
  PROVE  TypeOK'
<1>1. p \in SUBSET Bits /\ v \in Vector
  BY StoredIsVector DEF Parts
<1>2. force_mask \in SUBSET Bits /\ (force_mask # {} => force4 # Nil)
  BY DEF TypeOK
<1>3. /\ bits4' \in Vector /\ needs_init' \in BOOLEAN /\ fil_needs_init' \in BOOLEAN
      /\ FilterTyped
  BY <1>1, <1>2, Port0Effect DEF of_STORE_VEC4
<1>4. hold' \in Vector
  BY <1>1 DEF of_STORE_VEC4, TypeOK, Vector
<1>5. RestTyped
  BY <1>3, <1>4 DEF of_STORE_VEC4, TypeOK, RestTyped
<1>6. QED
  BY <1>3, <1>5, Typed

LEMMA AssignTypes ==
  ASSUME TypeOK, NEW p \in Parts, NEW v \in Stored, NEW link \in BOOLEAN, assign(p, v, link)
  PROVE  TypeOK'
<1>1. p \in SUBSET Bits /\ v \in Vector
  BY StoredIsVector DEF Parts
<1>2. /\ bits4' \in Vector /\ needs_init' \in BOOLEAN /\ fil_needs_init' \in BOOLEAN
      /\ assign_mask' = assign_mask \cup p /\ FilterTyped
  BY <1>1, Port1Effect DEF assign
<1>3. ca' \in [Bits -> Bit \cup {Nil}]
  BY <1>1 DEF assign, TypeOK, Vector, Put
<1>4. RestTyped
  BY <1>1, <1>2, <1>3 DEF assign, TypeOK, RestTyped
<1>5. QED
  BY <1>2, <1>4, Typed

LEMMA DeassignTypes == ASSUME TypeOK, NEW p \in Parts, of_DEASSIGN(p) PROVE TypeOK'
<1>1. hold' \in Vector /\ ca' \in [Bits -> Bit \cup {Nil}]
  BY DEF of_DEASSIGN, TypeOK, Vector
<1>2. assign_mask' \subseteq Bits
  BY DEF of_DEASSIGN, TypeOK
<1>3. QED
  BY <1>1, <1>2 DEF of_DEASSIGN, TypeOK, fil

LEMMA ForceTypes ==
  ASSUME TypeOK, NEW p \in Parts, NEW v \in Stored, NEW link \in BOOLEAN, force(p, v, link)
  PROVE  TypeOK'
<1>1. p \in SUBSET Bits /\ v \in Vector
  BY StoredIsVector DEF Parts
<1>2. force_mask' = force_mask \cup p /\ force4' \in Vector /\ force4' # Nil /\ FilterTyped
  BY <1>1, ForceEffect DEF force
<1>3. fo' \in [Bits -> Bit \cup {Nil}]
  BY <1>1 DEF force, TypeOK, Vector, Put
<1>4. force_link' \in BOOLEAN /\ folink' \in BOOLEAN
  BY Zenon DEF force
<1>5. RestTyped
  BY <1>1, <1>2, <1>3, <1>4 DEF force, TypeOK, RestTyped, fun
<1>6. QED
  BY <1>2, <1>5, Typed

LEMMA ReleaseTypes == ASSUME TypeOK, NEW p \in Parts, release(p) PROVE TypeOK'
<1>1. p \in SUBSET Bits
  BY DEF Parts
<1>2. /\ force_mask' = force_mask \ p
      /\ bits4' \in Vector /\ needs_init' \in BOOLEAN /\ fil_needs_init' \in BOOLEAN
      /\ FilterTyped
  <2>1. CASE Variable
    BY <1>1, <2>1, ReleaseRegEffect DEF release
  <2>2. CASE ~Variable
    BY <2>2, ReleaseNetEffect DEF release
  <2>3. QED
    BY <2>1, <2>2
<1>3. hold' \in Vector /\ fo' \in [Bits -> Bit \cup {Nil}]
  BY DEF release, TypeOK, Vector
<1>4. folink' \in BOOLEAN /\ force_link' \in BOOLEAN
  BY Zenon DEF release
<1>5. RestTyped
  BY <1>1, <1>2, <1>3, <1>4 DEF release, TypeOK, RestTyped
<1>6. QED
  BY <1>2, <1>5, Typed

LEMMA DrivesTypes ==
  ASSUME TypeOK, NEW p \in SUBSET Bits, NEW v \in Stored, Drives(p, v), hold' \in Vector
  PROVE  TypeOK'
<1>1. v \in Vector
  BY StoredIsVector
<1>2. bits4' \in Vector /\ fil_needs_init' \in BOOLEAN /\ FilterTyped
  BY <1>1, NetBitsEffect DEF Drives
<1>3. RestTyped
  BY <1>2 DEF Drives, TypeOK, RestTyped, fun
<1>4. QED
  BY <1>2, <1>3, Typed

\* What the drivers and VPI put into a net.
LEMMA DrivenHold ==
  ASSUME TypeOK, NEW p \in Parts, NEW v \in Stored
  PROVE  /\ p \cap driver_mask \in SUBSET Bits /\ p \ driver_mask \in SUBSET Bits
         /\ filter_vec4(p, v) \/ assign_variable(p, v) => hold' \in Vector
<1>1. v \in Vector /\ hold \in Vector /\ p \in SUBSET Bits
  BY StoredIsVector DEF TypeOK, Parts
<1>2. p \cap driver_mask \in SUBSET Bits /\ p \ driver_mask \in SUBSET Bits
  BY <1>1
<1>3. ASSUME filter_vec4(p, v) PROVE hold' \in Vector
  BY <1>1, <1>3 DEF filter_vec4, Put, Vector
<1>4. ASSUME assign_variable(p, v) PROVE hold' \in Vector
  BY <1>1, <1>4 DEF assign_variable, Vector
<1>5. QED
  BY <1>2, <1>3, <1>4

LEMMA SourceTypes == ASSUME TypeOK, NEW v \in Stored, SourceChanges(v) PROVE TypeOK'
<1>1. v \in Vector /\ Bits \in SUBSET Bits
  BY StoredIsVector
<1>2. ca' \in [Bits -> Bit \cup {Nil}] /\ fo' \in [Bits -> Bit \cup {Nil}]
  BY <1>1 DEF SourceChanges, TypeOK, Vector
<1>3. CASE force_link
  <2>1. force_vec4(Bits, v) /\ UNCHANGED <<bits4, fun, fil_needs_init>>
    BY <1>3 DEF SourceChanges
  <2>2. force_mask' = force_mask \cup Bits /\ force4' \in Vector /\ force4' # Nil /\ FilterTyped
    BY <1>1, <2>1, ForceEffect
  <2>3. RestTyped
    BY <1>2, <2>1, <2>2 DEF SourceChanges, TypeOK, RestTyped, fun
  <2>4. QED
    BY <2>2, <2>3, Typed
<1>4. CASE ~force_link /\ cassign_link
  <2>1. recv_port1(Bits, v) /\ UNCHANGED <<cassign_link, force_mask, force4>>
    BY <1>4 DEF SourceChanges
  <2>2. /\ bits4' \in Vector /\ needs_init' \in BOOLEAN /\ fil_needs_init' \in BOOLEAN
        /\ assign_mask' = assign_mask \cup Bits /\ FilterTyped
    BY <1>1, <2>1, Port1Effect
  <2>3. RestTyped
    BY <1>2, <2>1, <2>2 DEF SourceChanges, TypeOK, RestTyped
  <2>4. QED
    BY <2>2, <2>3, Typed
<1>5. CASE ~force_link /\ ~cassign_link
  <2>1. UNCHANGED <<bits4, fun, fil, seen, told>>
    BY <1>5 DEF SourceChanges
  <2>2. QED
    BY <1>2, <2>1 DEF SourceChanges, TypeOK, fun, fil
<1>6. QED
  BY <1>3, <1>4, <1>5

LEMMA TypesStep == TypeOK /\ [Next]_vars => TypeOK'
<1> SUFFICES ASSUME TypeOK, [Next]_vars PROVE TypeOK'
  OBVIOUS
<1>1. ASSUME NEW p \in Parts, NEW v \in Stored,
             of_STORE_VEC4(p, v) \/ filter_vec4(p, v) \/ assign_variable(p, v)
      PROVE  TypeOK'
  BY <1>1, StoreTypes, DrivesTypes, DrivenHold DEF filter_vec4, assign_variable
<1>2. ASSUME NEW p \in Parts, NEW v \in Stored, NEW link \in BOOLEAN,
             assign(p, v, link) \/ force(p, v, link)
      PROVE  TypeOK'
  BY <1>2, AssignTypes, ForceTypes
<1>3. ASSUME NEW p \in Parts, of_DEASSIGN(p) \/ release(p) PROVE TypeOK'
  BY <1>3, DeassignTypes, ReleaseTypes
<1>4. ASSUME NEW v \in Stored, SourceChanges(v) PROVE TypeOK'
  BY <1>4, SourceTypes
<1>5. CASE UNCHANGED vars
  BY <1>5 DEF vars, fun, fil, ideal, TypeOK
<1>6. QED
  BY <1>1, <1>2, <1>3, <1>4, <1>5 DEF Next

\* Every variable of a signal keeps its type; in particular there is a forced
\* value wherever a bit is masked.
THEOREM SignalTypes == Spec => []TypeOK
<1>1. Init => TypeOK
  BY SignalInit DEF SignalInv
<1>2. QED
  BY <1>1, TypesStep, PTL DEF Spec

-----------------------------------------------------------------------------
(***************************************************************************)
(* The value.                                                              *)
(***************************************************************************)

\* Layers of one bit.
LayersAt(i) ==
  /\ (i \in force_mask) = (fo[i] # Nil) /\ (i \in force_mask => force4[i] = fo[i])
  /\ (i \in assign_mask) = (ca[i] # Nil) /\ (i \in assign_mask => bits4[i] = ca[i])
  /\ i \notin force_mask \cup assign_mask => bits4[i] = hold[i]
  /\ ~Variable /\ i \in driver_mask => bits4[i] = hold[i]

LEMMA LayersByBit == (Layers <=> \A i \in Bits : LayersAt(i))
BY DEF Layers, LayersAt

LEMMA NotNil == \A v \in Vector : \A i \in Bits : v[i] # Nil
BY NilAssumption DEF Vector

LEMMA StoreLayers ==
  ASSUME SignalInv, NEW p \in Parts, NEW v \in Stored, of_STORE_VEC4(p, v)
  PROVE  Layers' /\ Links'
<1>1. p \in SUBSET Bits /\ v \in Vector /\ TypeOK
  BY StoredIsVector DEF Parts, SignalInv
<1>2. force_mask \in SUBSET Bits /\ (force_mask # {} => force4 # Nil)
  BY <1>1 DEF TypeOK
<1>3. \A i \in Bits : bits4'[i] = IF i \in p \ assign_mask THEN v[i] ELSE bits4[i]
  BY <1>1, <1>2, Port0Effect DEF of_STORE_VEC4
<1>4. ASSUME NEW i \in Bits PROVE LayersAt(i)'
  <2>1. LayersAt(i)
    BY LayersByBit DEF SignalInv
  <2>2. hold'[i] = IF i \in p /\ ca[i] = Nil /\ fo[i] = Nil THEN v[i] ELSE hold[i]
    BY DEF of_STORE_VEC4
  <2>3. QED
    BY <1>3, <2>1, <2>2 DEF LayersAt, of_STORE_VEC4
<1>5. Links'
  BY DEF SignalInv, Links, of_STORE_VEC4
<1>6. QED
  BY <1>4, <1>5 DEF Layers, LayersAt

LEMMA AssignLayers ==
  ASSUME SignalInv, NEW p \in Parts, NEW v \in Stored, NEW link \in BOOLEAN, assign(p, v, link)
  PROVE  Layers' /\ Links'
<1>1. p \in SUBSET Bits /\ v \in Vector /\ TypeOK
  BY StoredIsVector DEF Parts, SignalInv
<1>2. /\ \A i \in Bits : bits4'[i] = IF i \in p THEN v[i] ELSE bits4[i]
      /\ assign_mask' = assign_mask \cup p
  BY <1>1, Port1Effect DEF assign
<1>3. ASSUME NEW i \in Bits PROVE LayersAt(i)'
  <2>1. LayersAt(i)
    BY LayersByBit DEF SignalInv
  <2>2. ca'[i] = (IF i \in p THEN v[i] ELSE ca[i]) /\ v[i] # Nil
    BY <1>1, NotNil DEF assign, Put
  <2>3. Variable
    BY DEF assign
  <2>4. QED
    BY <1>2, <2>1, <2>2, <2>3 DEF LayersAt, assign
<1>4. Links'
  BY DEF SignalInv, Links, assign
<1>5. QED
  BY <1>3, <1>4 DEF Layers, LayersAt

LEMMA DeassignLayers ==
  ASSUME SignalInv, NEW p \in Parts, of_DEASSIGN(p)
  PROVE  Layers' /\ Links'
<1>1. ASSUME NEW i \in Bits PROVE LayersAt(i)'
  <2>1. LayersAt(i)
    BY LayersByBit DEF SignalInv
  <2>2. /\ hold'[i] = IF i \in p /\ ca[i] # Nil THEN ca[i] ELSE hold[i]
        /\ ca'[i] = IF i \in p THEN Nil ELSE ca[i]
        /\ assign_mask' = assign_mask \ p
    BY DEF of_DEASSIGN
  <2>3. QED
    BY <2>1, <2>2 DEF LayersAt, of_DEASSIGN, fil
<1>2. Links'
  BY DEF SignalInv, Links, of_DEASSIGN, fil
<1>3. QED
  BY <1>1, <1>2 DEF Layers, LayersAt

\* A constant that replaces a link leaves it linked: only where that does not
\* happen is a linked force what the program asked for.
LEMMA ForceLayers ==
  ASSUME SignalInv, ~Relink,
         NEW p \in Parts, NEW v \in Stored, NEW link \in BOOLEAN, force(p, v, link)
  PROVE  Layers' /\ Links'
<1>1. p \in SUBSET Bits /\ v \in Vector /\ TypeOK
  BY StoredIsVector DEF Parts, SignalInv
<1>2. /\ force_mask' = force_mask \cup p
      /\ \A i \in p : force4'[i] = v[i]
      /\ \A i \in force_mask \ p : force4'[i] = force4[i]
  BY <1>1, ForceEffect DEF force
<1>3. ASSUME NEW i \in Bits PROVE LayersAt(i)'
  <2>1. LayersAt(i)
    BY LayersByBit DEF SignalInv
  <2>2. fo'[i] = (IF i \in p THEN v[i] ELSE fo[i]) /\ v[i] # Nil
    BY <1>1, NotNil DEF force, Put
  <2>3. QED
    BY <1>2, <2>1, <2>2 DEF LayersAt, force, fun
<1>4. Links'
  <2>1. force_link' = folink' /\ (force_link' => link)
    <3>1. force_link => link
      BY DEF force
    <3>2. QED
      BY <3>1 DEF force
  <2>2. force_mask' \subseteq Bits
    BY <1>1, <1>2 DEF TypeOK
  <2>3. link => p = Bits /\ ~cassign_link
    BY DEF force
  <2>4. QED
    BY <1>2, <2>1, <2>2, <2>3 DEF SignalInv, Links, force, fun
<1>5. QED
  BY <1>3, <1>4 DEF Layers, LayersAt

LEMMA ReleaseLayers ==
  ASSUME SignalInv, ~Relink, NEW p \in Parts, release(p)
  PROVE  Layers' /\ Links'
<1>1. p \in SUBSET Bits /\ TypeOK
  BY DEF Parts, SignalInv
<1>2. /\ force_mask' = force_mask \ p
      /\ \A i \in Bits :
           bits4'[i] = IF i \in p \ (IF Variable THEN assign_mask ELSE driver_mask)
                         THEN Value[i] ELSE bits4[i]
  <2>1. CASE Variable
    BY <1>1, <2>1, ReleaseRegEffect DEF release
  <2>2. CASE ~Variable
    BY <1>1, <2>2, ReleaseNetEffect DEF release
  <2>3. QED
    BY <2>1, <2>2
<1>3. ASSUME NEW i \in Bits PROVE LayersAt(i)'
  <2>1. LayersAt(i) /\ (~Variable => assign_mask = {})
    BY LayersByBit DEF SignalInv, Links
  <2>2. /\ hold'[i] = IF /\ i \in p /\ fo[i] # Nil /\ ca[i] = Nil
                         /\ Variable \/ i \notin driver_mask
                        THEN fo[i] ELSE hold[i]
        /\ fo'[i] = IF i \in p THEN Nil ELSE fo[i]
    BY DEF release
  <2>3. Value[i] = IF i \in force_mask THEN force4[i] ELSE bits4[i]
    BY <1>1, ValueType
  <2>4. /\ force4' = force4 /\ assign_mask' = assign_mask /\ ca' = ca
        /\ driver_mask' = driver_mask
    BY DEF release
  <2>5. CASE Variable
    BY <1>2, <2>1, <2>2, <2>3, <2>4, <2>5 DEF LayersAt
  <2>6. CASE ~Variable
    BY <1>2, <2>1, <2>2, <2>3, <2>4, <2>6 DEF LayersAt
  <2>7. QED
    BY <2>5, <2>6
<1>4. Links'
  <2>1. force_link' = FALSE /\ folink' = FALSE
    BY DEF release, SignalInv, Links
  <2>2. QED
    BY <2>1 DEF release, SignalInv, Links
<1>5. QED
  BY <1>3, <1>4 DEF Layers, LayersAt

LEMMA DrivesLayers ==
  ASSUME SignalInv, NEW p \in Parts, NEW v \in Stored, filter_vec4(p, v) \/ assign_variable(p, v)
  PROVE  Layers' /\ Links'
<1>1. v \in Vector /\ TypeOK
  BY StoredIsVector DEF SignalInv
<1>2. PICK q \in SUBSET Bits :
         /\ Drives(q, v)
         /\ \/ q = p \cap driver_mask /\ hold' = Put(hold, q, v)
            \/ /\ q = p \ driver_mask
               /\ hold' = [i \in Bits |-> IF i \in q /\ fo[i] = Nil THEN v[i] ELSE hold[i]]
  BY <1>1, DrivenHold DEF filter_vec4, assign_variable
<1>3. \A i \in Bits : bits4'[i] = IF i \in q THEN v[i] ELSE bits4[i]
  BY <1>1, <1>2, NetBitsEffect DEF Drives
<1>4. ASSUME NEW i \in Bits PROVE LayersAt(i)'
  <2>1. LayersAt(i) /\ assign_mask = {}
    BY <1>2, LayersByBit DEF SignalInv, Links, Drives
  <2>2. \/ q = p \cap driver_mask /\ hold'[i] = IF i \in q THEN v[i] ELSE hold[i]
        \/ q = p \ driver_mask /\ hold'[i] = IF i \in q /\ fo[i] = Nil THEN v[i] ELSE hold[i]
    BY <1>2 DEF Put
  <2>3. UNCHANGED <<assign_mask, force_mask, force4, driver_mask, ca, fo>>
    BY <1>2 DEF Drives, fun
  <2>4. QED
    BY <1>3, <2>1, <2>2, <2>3 DEF LayersAt
<1>5. Links'
  BY <1>2 DEF SignalInv, Links, Drives, fun
<1>6. QED
  BY <1>4, <1>5 DEF Layers, LayersAt

LEMMA SourceLayers ==
  ASSUME SignalInv, NEW v \in Stored, SourceChanges(v)
  PROVE  Layers' /\ Links'
<1>1. v \in Vector /\ TypeOK /\ Bits \in SUBSET Bits
  BY StoredIsVector DEF SignalInv
<1>2. force_mask \subseteq Bits /\ assign_mask \subseteq Bits
  BY <1>1 DEF TypeOK
<1>3. CASE force_link
  <2>1. force_vec4(Bits, v) /\ UNCHANGED <<bits4, fun, fil_needs_init>>
    BY <1>3 DEF SourceChanges
  <2>2. force_mask' = Bits /\ force_mask = Bits /\ \A i \in Bits : force4'[i] = v[i]
    BY <1>1, <1>2, <1>3, <2>1, ForceEffect, ZenonT(30) DEF SignalInv, Links
  <2>3. ~cassign_link /\ folink
    BY <1>3 DEF SignalInv, Links
  <2>4. ASSUME NEW i \in Bits PROVE LayersAt(i)'
    <3>1. LayersAt(i)
      BY LayersByBit DEF SignalInv
    <3>2. fo'[i] = v[i] /\ v[i] # Nil
      BY <1>1, <2>2, <2>3, <3>1, NotNil DEF SourceChanges, LayersAt
    <3>3. QED
      BY <2>1, <2>2, <2>3, <3>1, <3>2 DEF LayersAt, SourceChanges, fun
  <2>5. Links'
    BY <2>1, <2>2, <2>3 DEF SignalInv, Links, SourceChanges, fun
  <2>6. QED
    BY <2>4, <2>5 DEF Layers, LayersAt
<1>4. CASE ~force_link /\ cassign_link
  <2>1. recv_port1(Bits, v) /\ UNCHANGED <<cassign_link, force_mask, force4>>
    BY <1>4 DEF SourceChanges
  <2>2. assign_mask' = Bits /\ \A i \in Bits : bits4'[i] = v[i]
    BY <1>1, <1>2, <2>1, Port1Effect
  <2>3. Variable /\ ~folink
    BY <1>4 DEF SignalInv, Links
  <2>4. ASSUME NEW i \in Bits PROVE LayersAt(i)'
    <3>1. LayersAt(i)
      BY LayersByBit DEF SignalInv
    <3>2. ca'[i] = v[i] /\ v[i] # Nil
      BY <1>1, <1>4, NotNil DEF SourceChanges
    <3>3. QED
      BY <2>1, <2>2, <2>3, <3>1, <3>2 DEF LayersAt, SourceChanges
  <2>5. Links'
    BY <1>4, <2>1, <2>2, <2>3 DEF SignalInv, Links, SourceChanges
  <2>6. QED
    BY <2>4, <2>5 DEF Layers, LayersAt
<1>5. CASE ~force_link /\ ~cassign_link
  <2>1. UNCHANGED <<bits4, fun, fil, hold, ca, fo, folink, driver_mask>>
    BY <1>5 DEF SourceChanges, SignalInv, Links
  <2>2. QED
    BY <2>1 DEF SignalInv, Layers, Links, fun, fil
<1>6. QED
  BY <1>3, <1>4, <1>5

\* A signal has its forced value, else the assigned, else the stored or driven
\* one, after every sequence of stores, assignments, forces, releases and
\* changes of the source, whatever the width, the drivers and the overlaps.  A
\* linked force must not be replaced by a constant or released in part: there
\* the link stays although the force it served is gone.
THEOREM SignalHasItsValue == ASSUME ~Relink PROVE Spec => []ValueIsRight
<1>1. SignalInv /\ [Next]_vars => SignalInv'
  <2> SUFFICES ASSUME SignalInv, [Next]_vars PROVE SignalInv'
    OBVIOUS
  <2>1. TypeOK'
    BY TypesStep DEF SignalInv
  <2>2. ASSUME NEW p \in Parts, NEW v \in Stored,
               of_STORE_VEC4(p, v) \/ filter_vec4(p, v) \/ assign_variable(p, v)
        PROVE  Layers' /\ Links'
    BY <2>2, StoreLayers, DrivesLayers
  <2>3. ASSUME NEW p \in Parts, NEW v \in Stored, NEW link \in BOOLEAN,
               assign(p, v, link) \/ force(p, v, link)
        PROVE  Layers' /\ Links'
    BY <2>3, AssignLayers, ForceLayers
  <2>4. ASSUME NEW p \in Parts, of_DEASSIGN(p) \/ release(p) PROVE Layers' /\ Links'
    BY <2>4, DeassignLayers, ReleaseLayers
  <2>5. ASSUME NEW v \in Stored, SourceChanges(v) PROVE Layers' /\ Links'
    BY <2>5, SourceLayers
  <2>6. ASSUME UNCHANGED vars PROVE Layers' /\ Links'
    BY <2>6 DEF vars, fun, fil, ideal, SignalInv, Layers, Links
  <2>7. Layers' /\ Links'
    BY <2>2, <2>3, <2>4, <2>5, <2>6 DEF Next
  <2>8. QED
    BY <2>1, <2>7 DEF SignalInv
<1>2. SignalInv => ValueIsRight
  BY ValueType DEF SignalInv, Layers, ValueIsRight
<1>3. QED
  BY <1>1, <1>2, SignalInit, PTL DEF Spec

-----------------------------------------------------------------------------
(***************************************************************************)
(* What the fan-out and the callbacks are told.                            *)
(***************************************************************************)

\* A signal that is not forced while it is assigned, as every net is.  A link
\* is there only as long as something is forced or assigned.
Apart ==
  /\ force_mask = {} \/ assign_mask = {}
  /\ force_link => force_mask # {}
  /\ cassign_link => assign_mask # {}
  /\ ~Variable => assign_mask = {} /\ ~cassign_link

Told == TypeOK /\ Apart /\ SeenIsValue

\* Whatever is sent through the mask of the next state is the next value.
LEMMA SendsValue ==
  ASSUME TypeOK, TypeOK', NEW s \in SUBSET Bits, Sends(bits4', force_mask', s),
         force4' = force4, \A i \in Bits \ s : seen[i] = Value'[i]
  PROVE  SeenIsValue'
<1>1. \A i \in Bits : Filtered(bits4', force_mask')[i] = Value'[i]
  BY ValueNext DEF Filtered
<1>2. \A i \in Bits : seen'[i] = Value'[i] /\ told'[i] = Value'[i]
  BY <1>1 DEF Sends
<1>3. QED
  BY <1>2, SeenNext

\* Where nothing is sent, no bit of the value changes.
LEMMA QuietValue ==
  ASSUME Told, TypeOK', Quiet, \A i \in Bits : Value'[i] = Value[i]
  PROVE  SeenIsValue'
BY SeenNext DEF Quiet, Told, SeenIsValue

LEMMA StoreTold ==
  ASSUME Told, NEW p \in Parts, NEW v \in Stored, of_STORE_VEC4(p, v)
  PROVE  Apart' /\ SeenIsValue'
<1>1. p \in SUBSET Bits /\ v \in Vector /\ TypeOK /\ TypeOK'
  BY StoredIsVector, StoreTypes DEF Parts, Told
<1>2. force_mask \in SUBSET Bits /\ (force_mask # {} => force4 # Nil)
  BY <1>1 DEF TypeOK
<1>3. Sends(bits4', force_mask, Bits) \/ (Quiet /\ (bits4' = bits4 \/ force_mask = Bits))
  BY <1>1, <1>2, Port0Effect DEF of_STORE_VEC4
<1>4. force4' = force4 /\ force_mask' = force_mask
  BY DEF of_STORE_VEC4
<1>5. bits4' = bits4 \/ force_mask = Bits => \A i \in Bits : Value'[i] = Value[i]
  BY <1>1, <1>4, ValueType, ValueNext
<1>6. SeenIsValue'
  <2>1. CASE Sends(bits4', force_mask, Bits)
    BY <1>1, <1>4, <2>1, SendsValue
  <2>2. CASE ~Sends(bits4', force_mask, Bits)
    BY <1>1, <1>3, <1>5, <2>2, QuietValue
  <2>3. QED
    BY <2>1, <2>2
<1>7. Apart'
  BY DEF of_STORE_VEC4, Told, Apart
<1>8. QED
  BY <1>6, <1>7

LEMMA AssignTold ==
  ASSUME Told, ~Variable \/ ~Overlap,
         NEW p \in Parts, NEW v \in Stored, NEW link \in BOOLEAN, assign(p, v, link)
  PROVE  Apart' /\ SeenIsValue'
<1>1. p \in SUBSET Bits /\ p # {} /\ v \in Vector /\ TypeOK /\ TypeOK'
  BY StoredIsVector, AssignTypes DEF Parts, Told
<1>2. /\ assign_mask' = assign_mask \cup p
      /\ \/ Sends(bits4', force_mask, Bits)
         \/ Quiet /\ (bits4' = bits4 \/ force_mask = Bits)
  BY <1>1, Port1Effect DEF assign
<1>3. force4' = force4 /\ force_mask' = force_mask /\ force_mask = {} /\ Variable
  BY DEF assign
<1>4. bits4' = bits4 \/ force_mask = Bits => \A i \in Bits : Value'[i] = Value[i]
  BY <1>1, <1>3, ValueType, ValueNext
<1>5. SeenIsValue'
  <2>1. CASE Sends(bits4', force_mask, Bits)
    BY <1>1, <1>3, <2>1, SendsValue
  <2>2. CASE ~Sends(bits4', force_mask, Bits)
    BY <1>1, <1>2, <1>4, <2>2, QuietValue
  <2>3. QED
    BY <2>1, <2>2
<1>6. Apart'
  BY <1>1, <1>2, <1>3 DEF assign, Told, Apart
<1>7. QED
  BY <1>5, <1>6

LEMMA DeassignTold == ASSUME Told, NEW p \in Parts, of_DEASSIGN(p) PROVE Apart' /\ SeenIsValue'
<1>1. /\ assign_mask' = assign_mask \ p /\ cassign_link' = FALSE /\ Variable
      /\ UNCHANGED <<bits4, force_mask, force4, force_link, seen, told>>
  BY DEF of_DEASSIGN, fil
<1>2. QED
  BY <1>1 DEF Told, Apart, SeenIsValue, Value, Filtered

\* A force, by the program or by the source it is linked to.
LEMMA ForcedTold ==
  ASSUME Told, NEW p \in SUBSET Bits, NEW v \in Vector, force_vec4(p, v),
         bits4' = bits4, TypeOK'
  PROVE  SeenIsValue'
<1>1. TypeOK
  BY DEF Told
<1>2. /\ force_mask' = force_mask \cup p
      /\ \A i \in p : force4'[i] = v[i]
      /\ \A i \in force_mask \ p : force4'[i] = force4[i]
      /\ \A i \in Bits : seen'[i] = IF i \in p THEN v[i] ELSE Value[i]
      /\ \A i \in Bits : told'[i] = IF i \in force_mask' THEN force4'[i] ELSE bits4[i]
  BY <1>1, ForceEffect
<1>3. ASSUME NEW i \in Bits PROVE seen'[i] = Value'[i] /\ told'[i] = Value'[i]
  <2>1. /\ Value[i] = IF i \in force_mask THEN force4[i] ELSE bits4[i]
        /\ Value'[i] = IF i \in force_mask' THEN force4'[i] ELSE bits4[i]
    BY <1>1, ValueType, ValueNext
  <2>2. QED
    BY <1>2, <2>1
<1>4. QED
  BY <1>3, SeenNext

LEMMA ForceTold ==
  ASSUME Told, ~Variable \/ ~Overlap,
         NEW p \in Parts, NEW v \in Stored, NEW link \in BOOLEAN, force(p, v, link)
  PROVE  Apart' /\ SeenIsValue'
<1>1. p \in SUBSET Bits /\ p # {} /\ v \in Vector /\ TypeOK' /\ TypeOK
  BY StoredIsVector, ForceTypes DEF Parts, Told
<1>2. SeenIsValue'
  BY <1>1, ForcedTold DEF force
<1>3. force_mask' = force_mask \cup p
  BY <1>1, ForceEffect DEF force
<1>4. assign_mask = {}
  BY DEF force, Told, Apart
<1>5. Apart'
  BY <1>1, <1>3, <1>4 DEF force, Told, Apart, fun
<1>6. QED
  BY <1>2, <1>5

LEMMA ReleaseTold ==
  ASSUME Told, NEW p \in Parts, release(p)
  PROVE  Apart' /\ SeenIsValue'
<1>1. p \in SUBSET Bits /\ p # {} /\ TypeOK' /\ TypeOK
  BY ReleaseTypes DEF Parts, Told
<1>2. force4' = force4 /\ force_link' = FALSE /\ UNCHANGED <<assign_mask, cassign_link>>
  BY DEF release
<1>3. \A i \in Bits : /\ Value[i] = IF i \in force_mask THEN force4[i] ELSE bits4[i]
                      /\ Value'[i] = IF i \in force_mask' THEN force4[i] ELSE bits4'[i]
                      /\ seen[i] = Value[i]
  BY <1>1, <1>2, ValueType, ValueNext DEF Told, SeenIsValue
<1>4. force_mask' = force_mask \ p /\ SeenIsValue'
  <2>1. CASE Variable
    <3>1. /\ force_mask' = force_mask \ p
          /\ \A i \in Bits : bits4'[i] = IF i \in p \ assign_mask THEN Value[i] ELSE bits4[i]
          /\ Sends(bits4', force_mask \ p, Bits) \/ Quiet
      BY <1>1, <2>1, ReleaseRegEffect DEF release
    <3>2. \A i \in Bits : Value'[i] = Value[i]
      BY <1>3, <3>1 DEF Told, Apart
    <3>3. CASE Sends(bits4', force_mask \ p, Bits)
      BY <1>1, <1>2, <3>1, <3>3, SendsValue
    <3>4. CASE Quiet
      BY <1>1, <3>1, <3>2, <3>4, QuietValue
    <3>5. QED
      BY <3>1, <3>3, <3>4
  <2>2. CASE ~Variable
    <3>1. /\ force_mask' = force_mask \ p
          /\ \A i \in Bits : bits4'[i] = IF i \in p \ driver_mask THEN Value[i] ELSE bits4[i]
          /\ told' = Filtered(bits4', force_mask \ p)
          /\ \/ \E s \in SUBSET Bits : p \subseteq s /\ Sends(bits4', force_mask \ p, s)
             \/ seen' = seen /\ force4 = Nil
             \/ seen' = seen /\ \A i \in p : bits4'[i] = force4[i]
      BY <1>1, <2>2, ReleaseNetEffect DEF release
    <3>2. \A i \in Bits \ p : Value'[i] = Value[i]
      BY <1>3, <3>1
    <3>3. \A i \in Bits : told'[i] = Value'[i]
      BY <1>1, <1>2, <3>1, ValueNext DEF Filtered
    <3>4. ASSUME NEW s \in SUBSET Bits, p \subseteq s, Sends(bits4', force_mask \ p, s)
          PROVE  SeenIsValue'
      BY <1>1, <1>2, <1>3, <3>1, <3>2, <3>4, SendsValue
    <3>5. CASE seen' = seen /\ force4 = Nil
      <4>1. force_mask = {}
        BY <1>1, <3>5 DEF TypeOK
      <4>2. \A i \in Bits : Value'[i] = Value[i]
        BY <1>3, <3>1, <4>1
      <4>3. QED
        BY <1>1, <1>3, <3>1, <3>3, <3>5, <4>2, SeenNext
    <3>6. CASE seen' = seen /\ \A i \in p : bits4'[i] = force4[i]
      <4>1. \A i \in Bits : Value'[i] = Value[i]
        BY <1>3, <3>1, <3>6
      <4>2. QED
        BY <1>1, <1>3, <3>1, <3>3, <3>6, <4>1, SeenNext
    <3>7. QED
      BY <3>1, <3>4, <3>5, <3>6
  <2>3. QED
    BY <2>1, <2>2
<1>5. Apart'
  BY <1>2, <1>4 DEF Told, Apart
<1>6. QED
  BY <1>4, <1>5

LEMMA DrivesTold ==
  ASSUME Told, NEW p \in SUBSET Bits, NEW v \in Stored, Drives(p, v), hold' \in Vector
  PROVE  Apart' /\ SeenIsValue'
<1>1. v \in Vector /\ TypeOK' /\ TypeOK
  BY StoredIsVector, DrivesTypes DEF Told
<1>2. /\ UNCHANGED <<assign_mask, cassign_link, force_mask, force4, force_link>>
      /\ NetBits(p, v)
  BY DEF Drives, fun
<1>3. /\ \A i \in Bits : bits4'[i] = IF i \in p THEN v[i] ELSE bits4[i]
      /\ \/ \E s \in SUBSET Bits :
              /\ p \subseteq s
              /\ Sends(bits4', force_mask, s) \/ (Quiet /\ s \subseteq force_mask)
         \/ Quiet /\ bits4' = bits4
  BY <1>1, <1>2, NetBitsEffect
<1>4. \A i \in Bits : /\ Value[i] = IF i \in force_mask THEN force4[i] ELSE bits4[i]
                      /\ Value'[i] = IF i \in force_mask THEN force4[i] ELSE bits4'[i]
                      /\ seen[i] = Value[i]
  BY <1>1, <1>2, ValueType, ValueNext DEF Told, SeenIsValue
<1>5. ASSUME NEW s \in SUBSET Bits, p \subseteq s, Sends(bits4', force_mask, s)
      PROVE  SeenIsValue'
  BY <1>1, <1>2, <1>3, <1>4, <1>5, SendsValue
<1>6. ASSUME Quiet, p \subseteq force_mask \/ bits4' = bits4 PROVE SeenIsValue'
  BY <1>1, <1>3, <1>4, <1>6, QuietValue
<1>7. SeenIsValue'
  BY <1>3, <1>5, <1>6
<1>8. QED
  BY <1>2, <1>7 DEF Told, Apart

LEMMA SourceTold == ASSUME Told, NEW v \in Stored, SourceChanges(v) PROVE Apart' /\ SeenIsValue'
<1>1. v \in Vector /\ TypeOK' /\ TypeOK /\ Bits \in SUBSET Bits
  BY StoredIsVector, SourceTypes DEF Told
<1>2. CASE force_link
  <2>1. force_vec4(Bits, v) /\ UNCHANGED <<bits4, fun, force_link>>
    BY <1>2 DEF SourceChanges
  <2>2. SeenIsValue'
    BY <1>1, <2>1, ForcedTold
  <2>3. force_mask' = force_mask \cup Bits
    BY <1>1, <2>1, ForceEffect
  <2>4. QED
    BY <1>2, <2>1, <2>2, <2>3 DEF Told, Apart, fun
<1>3. CASE ~force_link /\ cassign_link
  <2>1. /\ recv_port1(Bits, v)
        /\ UNCHANGED <<cassign_link, force_mask, force4, force_link>>
    BY <1>3 DEF SourceChanges
  <2>2. /\ assign_mask' = assign_mask \cup Bits
        /\ \/ Sends(bits4', force_mask, Bits)
           \/ Quiet /\ (bits4' = bits4 \/ force_mask = Bits)
    BY <1>1, <2>1, Port1Effect
  <2>3. bits4' = bits4 \/ force_mask = Bits => \A i \in Bits : Value'[i] = Value[i]
    BY <1>1, <2>1, ValueType, ValueNext
  <2>4. CASE Sends(bits4', force_mask, Bits)
    BY <1>1, <1>3, <2>1, <2>2, <2>4, SendsValue DEF Told, Apart
  <2>5. CASE Quiet /\ (bits4' = bits4 \/ force_mask = Bits)
    BY <1>1, <1>3, <2>1, <2>2, <2>3, <2>5, QuietValue DEF Told, Apart
  <2>6. QED
    BY <2>2, <2>4, <2>5
<1>4. CASE ~force_link /\ ~cassign_link
  <2>1. UNCHANGED <<bits4, fun, fil, seen, told>>
    BY <1>4 DEF SourceChanges
  <2>2. QED
    BY <2>1 DEF Told, Apart, SeenIsValue, Value, Filtered, fun, fil
<1>5. QED
  BY <1>2, <1>3, <1>4

\* The fan-out and the value-change callbacks have been told the value that
\* the signal has: always for a net, and for a variable that is never forced
\* while it is assigned.  No shortcut for a write that changes nothing, or
\* that a force hides, keeps a change from them, whatever the width and the
\* drivers, and even where links are replaced.
THEOREM FanOutHasTheValue == ASSUME ~Variable \/ ~Overlap PROVE Spec => []SeenIsValue
<1>1. Init => Told
  <2> SUFFICES ASSUME Init PROVE Told
    OBVIOUS
  <2>1. TypeOK
    BY SignalInit DEF SignalInv
  <2>2. Apart
    BY DEF Init, Apart
  <2>3. SeenIsValue
    BY <2>1, ValueType, SameBits DEF TypeOK, Init, SeenIsValue
  <2>4. QED
    BY <2>1, <2>2, <2>3 DEF Told
<1>2. Told /\ [Next]_vars => Told'
  <2> SUFFICES ASSUME Told, [Next]_vars PROVE Told'
    OBVIOUS
  <2>1. TypeOK' /\ TypeOK
    BY TypesStep DEF Told
  <2>2. ASSUME NEW p \in Parts, NEW v \in Stored,
               of_STORE_VEC4(p, v) \/ filter_vec4(p, v) \/ assign_variable(p, v)
        PROVE  Apart' /\ SeenIsValue'
    BY <2>1, <2>2, StoreTold, DrivesTold, DrivenHold DEF filter_vec4, assign_variable
  <2>3. ASSUME NEW p \in Parts, NEW v \in Stored, NEW link \in BOOLEAN,
               assign(p, v, link) \/ force(p, v, link)
        PROVE  Apart' /\ SeenIsValue'
    BY <2>3, AssignTold, ForceTold
  <2>4. ASSUME NEW p \in Parts, of_DEASSIGN(p) \/ release(p) PROVE Apart' /\ SeenIsValue'
    BY <2>4, DeassignTold, ReleaseTold
  <2>5. ASSUME NEW v \in Stored, SourceChanges(v) PROVE Apart' /\ SeenIsValue'
    BY <2>5, SourceTold
  <2>6. ASSUME UNCHANGED vars PROVE Apart' /\ SeenIsValue'
    BY <2>6 DEF vars, fun, fil, Told, Apart, SeenIsValue, Value, Filtered
  <2>7. Apart' /\ SeenIsValue'
    BY <2>2, <2>3, <2>4, <2>5, <2>6 DEF Next
  <2>8. QED
    BY <2>1, <2>7 DEF Told
<1>3. Told => SeenIsValue
  BY DEF Told
<1>4. QED
  BY <1>1, <1>2, <1>3, PTL DEF Spec

-----------------------------------------------------------------------------
(***************************************************************************)
(* The value-change callbacks of a signal (module VpiCallback), for any    *)
(* callbacks and changes and, unless callbacks are removed, walks within   *)
(* walks.                                                                  *)
(***************************************************************************)
CONSTANTS Cbs, PartCbs, MaxChanges, MaxDepth, Removes

VARIABLES vpi_callbacks_, next, alive, made, cb_rtn, value_bits_, value, walks, changes, removed

Cb == INSTANCE VpiCallback

\* What can be reached by nx from a: d is in every set that is closed under nx
\* and has a.
ClosedBy(nx, S) == \A c \in S : nx[c] \in S \cup {Nil}
Ahead(nx, a, d) == \A S \in SUBSET Cb!All : a \in S \cup {Nil} /\ ClosedBy(nx, S) => d \in S

\* The links nx from h on are a list of the callbacks in A.
Chain(h, nx, A) ==
  /\ h \in A \cup {Nil}
  /\ \A c \in A : nx[c] \in A \cup {Nil}
  /\ \A c \in Cb!All \ A : nx[c] = Nil
  /\ \A c, d \in A : nx[c] = nx[d] /\ nx[c] # Nil => c = d
  /\ \A c \in A : nx[c] # Nil => nx[c] # h
  /\ \A d \in A : Ahead(nx, h, d)

WalkSet ==
  [cur : Cb!All \cup {Nil}, prev : Cb!All \cup {Nil}, next : Cb!All \cup {Nil},
   calling : BOOLEAN, owed : SUBSET Cb!All]

ListTyped == Cb!TypeOK /\ walks \in Seq(WalkSet) /\ removed \in [Cb!All -> Nat]

\* Who has a function is allocated, and loses it only by vpi_remove_cb.
Functions ==
  /\ \A c \in Cb!All : cb_rtn[c] => c \in alive
  /\ ~Removes => \A c \in alive : cb_rtn[c]

\* What a walk holds in its local variables.
Holds(w, h, nx, A) ==
  IF w.calling THEN w.cur \in A /\ nx[w.cur] = w.next
  ELSE (w.prev = Nil /\ w.next = h) \/ (w.prev \in A /\ nx[w.prev] = w.next)

\* Only the innermost walk is not in a callback.
Walkers ==
  \A i \in 1..Len(walks) :
    /\ i < Len(walks) => walks[i].calling
    /\ Holds(walks[i], vpi_callbacks_, next, alive)

\* A callback that walk i is still to call is ahead of it, has been removed, or
\* has nothing new to report, unless a later walk is to call it.
Owes(i, c) ==
  \/ Ahead(next, walks[i].next, c)
  \/ ~cb_rtn[c]
  \/ c \in PartCbs /\ (~Cb!ready(c, value) \/ \E j \in (i + 1)..Len(walks) : c \in walks[j].owed)

Owed == \A i \in 1..Len(walks) : \A c \in walks[i].owed : c \in made /\ Owes(i, c)

\* A callback that was removed before this change is ahead of the walk.
Reaped ==
  \A c \in alive : ~cb_rtn[c] =>
    removed[c] = changes \/ (walks # << >> /\ Ahead(next, walks[1].next, c))

ListInv == ListTyped /\ Chain(vpi_callbacks_, next, alive) /\ Functions /\ Walkers /\ Owed /\ Reaped

-----------------------------------------------------------------------------
LEMMA AheadOfNil ==
  ASSUME NEW nx, NEW d
  PROVE  ~Ahead(nx, Nil, d)
<1>1. {} \in SUBSET Cb!All /\ ClosedBy(nx, {})
  BY DEF ClosedBy
<1>2. QED
  BY <1>1 DEF Ahead

LEMMA AheadHere ==
  ASSUME NEW nx, NEW c \in Cb!All, c # Nil
  PROVE  Ahead(nx, c, c)
BY DEF Ahead

LEMMA AheadOn ==
  ASSUME NEW nx, NEW c \in Cb!All, NEW d, Ahead(nx, c, d), d # c
  PROVE  Ahead(nx, nx[c], d)
<1> SUFFICES ASSUME NEW S \in SUBSET Cb!All, nx[c] \in S \cup {Nil}, ClosedBy(nx, S)
             PROVE  d \in S
  BY DEF Ahead
<1>1. S \cup {c} \in SUBSET Cb!All /\ ClosedBy(nx, S \cup {c})
  BY DEF ClosedBy
<1>2. d \in S \cup {c}
  BY <1>1 DEF Ahead
<1>3. QED
  BY <1>2

LEMMA AheadAdded ==
  ASSUME NEW nx \in [Cb!All -> Cb!All \cup {Nil}], NEW c \in Cb!All, nx[c] = Nil, NEW h,
         NEW a, NEW d, Ahead(nx, a, d)
  PROVE  Ahead([nx EXCEPT ![c] = h], a, d)
<1> DEFINE x == [nx EXCEPT ![c] = h]
<1> SUFFICES ASSUME NEW S \in SUBSET Cb!All, a \in S \cup {Nil}, ClosedBy(x, S)
             PROVE  d \in S
  BY DEF Ahead
<1>1. \A e \in S : nx[e] = Nil \/ nx[e] = x[e]
  OBVIOUS
<1>2. ClosedBy(nx, S)
  BY <1>1 DEF ClosedBy
<1>3. QED
  BY <1>2 DEF Ahead

LEMMA ChainAdded ==
  ASSUME NEW nx \in [Cb!All -> Cb!All \cup {Nil}], NEW A \in SUBSET Cb!All, NEW h, Chain(h, nx, A),
         NEW c \in Cb!All, c \notin A, Nil \notin Cb!All
  PROVE  Chain(c, [nx EXCEPT ![c] = h], A \cup {c})
<1> DEFINE x == [nx EXCEPT ![c] = h]
<1>1. nx[c] = Nil /\ x[c] = h /\ \A e \in Cb!All \ {c} : x[e] = nx[e]
  BY DEF Chain
<1>2. \A d \in A : Ahead(x, c, d)
  <2> SUFFICES ASSUME NEW d \in A, NEW S \in SUBSET Cb!All, c \in S \cup {Nil}, ClosedBy(x, S)
               PROVE  d \in S
    BY DEF Ahead
  <2>1. c \in S /\ h \in S \cup {Nil}
    BY <1>1 DEF ClosedBy
  <2>2. Ahead(x, h, d)
    BY <1>1, AheadAdded DEF Chain
  <2>3. QED
    BY <2>1, <2>2 DEF Ahead
<1>3. Ahead(x, c, c)
  BY AheadHere
<1>4. h \in A \cup {Nil} /\ h # c
  BY DEF Chain
<1>5. \A e \in A : nx[e] \in A \cup {Nil} /\ (nx[e] # Nil => nx[e] # h)
  BY DEF Chain
<1>6. \A e \in A \cup {c} : x[e] \in A \cup {Nil} /\ x[e] # c
  BY <1>1, <1>4, <1>5
<1>7. \A e \in Cb!All \ (A \cup {c}) : x[e] = Nil
  BY <1>1 DEF Chain
<1>8. \A e, f \in A \cup {c} : x[e] = x[f] /\ x[e] # Nil => e = f
  BY <1>1, <1>5 DEF Chain
<1> HIDE DEF x
<1>9. Chain(c, x, A \cup {c})
  BY <1>2, <1>3, <1>6, <1>7, <1>8 DEF Chain
<1>10. QED
  BY <1>9 DEF x

\* The links without callback c, which p comes before if it is not Nil.
Without(nx, p, c) ==
  IF p = Nil THEN [nx EXCEPT ![c] = Nil] ELSE [nx EXCEPT ![p] = nx[c], ![c] = Nil]

LEMMA WithoutLinks ==
  ASSUME NEW nx \in [Cb!All -> Cb!All \cup {Nil}], NEW c \in Cb!All, NEW p \in Cb!All \cup {Nil},
         p # c, Nil \notin Cb!All
  PROVE  /\ Without(nx, p, c) \in [Cb!All -> Cb!All \cup {Nil}]
         /\ Without(nx, p, c)[c] = Nil
         /\ p # Nil => Without(nx, p, c)[p] = nx[c]
         /\ \A e \in Cb!All \ {c, p} : Without(nx, p, c)[e] = nx[e]
BY DEF Without

LEMMA AheadWithout ==
  ASSUME NEW nx \in [Cb!All -> Cb!All \cup {Nil}], NEW c \in Cb!All, NEW p \in Cb!All \cup {Nil},
         p # c, Nil \notin Cb!All, p # Nil => nx[p] = c,
         NEW d, Ahead(nx, c, d), d # c
  PROVE  Ahead(Without(nx, p, c), nx[c], d)
<1> DEFINE x == Without(nx, p, c)
<1> SUFFICES ASSUME NEW S \in SUBSET Cb!All, nx[c] \in S \cup {Nil}, ClosedBy(x, S)
             PROVE  d \in S
  BY DEF Ahead
<1>1. \A e \in S \cup {c} : nx[e] \in S \cup {c, Nil}
  <2> SUFFICES ASSUME NEW e \in S, e # c, e # p PROVE nx[e] \in S \cup {Nil}
    OBVIOUS
  <2>1. x[e] = nx[e] /\ x[e] \in S \cup {Nil}
    BY WithoutLinks DEF ClosedBy
  <2>2. QED
    BY <2>1
<1>2. S \cup {c} \in SUBSET Cb!All /\ ClosedBy(nx, S \cup {c})
  BY <1>1 DEF ClosedBy
<1>3. d \in S \cup {c}
  BY <1>2 DEF Ahead
<1>4. QED
  BY <1>3

LEMMA ChainWithout ==
  ASSUME NEW nx \in [Cb!All -> Cb!All \cup {Nil}], NEW A \in SUBSET Cb!All, NEW h, Chain(h, nx, A),
         NEW c \in A, NEW p \in A \cup {Nil}, Nil \notin Cb!All,
         p = Nil => h = c, p # Nil => nx[p] = c
  PROVE  Chain(IF p = Nil THEN nx[c] ELSE h, Without(nx, p, c), A \ {c})
<1> DEFINE x == Without(nx, p, c)
           g == IF p = Nil THEN nx[c] ELSE h
<1>1. \A e \in A : nx[e] \in A \cup {Nil} /\ (nx[e] # Nil => nx[e] # h)
  BY DEF Chain
<1>2. \A e, f \in A : nx[e] = nx[f] /\ nx[e] # Nil => e = f
  BY DEF Chain
<1>3. nx[c] # c
  <2>1. CASE p = Nil
    BY <2>1, <1>1
  <2>2. CASE p # Nil
    <3> SUFFICES ASSUME nx[c] = c PROVE FALSE
      OBVIOUS
    <3>1. p = c
      BY <2>2, <1>2
    <3>2. Cb!All \ {c} \in SUBSET Cb!All /\ h \in Cb!All \cup {Nil} /\ h # c
      BY <1>1, <2>2 DEF Chain
    <3>3. ClosedBy(nx, A \ {c})
      BY <1>1, <1>2 DEF ClosedBy
    <3>4. Ahead(nx, h, c) /\ h \in (A \ {c}) \cup {Nil} /\ A \ {c} \in SUBSET Cb!All
      BY <3>2 DEF Chain
    <3>5. QED
      BY <3>3, <3>4 DEF Ahead
  <2>3. QED
    BY <2>1, <2>2
<1>4. p # c
  BY <1>3
<1>5. /\ x[c] = Nil /\ (p # Nil => x[p] = nx[c])
      /\ \A e \in Cb!All \ {c, p} : x[e] = nx[e]
  BY <1>4, WithoutLinks
<1>6. \A e \in A \ {c, p} : nx[e] # c
  BY <1>1, <1>2
<1>7. \A e \in A \ {c} : x[e] \in (A \ {c}) \cup {Nil}
  BY <1>1, <1>3, <1>5, <1>6
<1>8. g \in (A \ {c}) \cup {Nil}
  <2>1. CASE p = Nil
    BY <2>1, <1>1, <1>3
  <2>2. CASE p # Nil
    <3>1. h # c
      BY <2>2, <1>1
    <3>2. QED
      BY <2>2, <3>1 DEF Chain
  <2>3. QED
    BY <2>1, <2>2
<1>9. \A e \in Cb!All \ (A \ {c}) : x[e] = Nil
  BY <1>5 DEF Chain
<1>10. \A e, f \in A \ {c} : x[e] = x[f] /\ x[e] # Nil => e = f
  <2>1. \A e \in A \ {c} : x[e] = IF e = p THEN nx[c] ELSE nx[e]
    BY <1>5
  <2>2. \A e \in A \ {c} : nx[e] # Nil => nx[e] # nx[c]
    BY <1>2
  <2> HIDE DEF x
  <2>3. QED
    BY <2>1, <2>2, <1>2
<1>11. \A e \in A \ {c} : x[e] # Nil => x[e] # g
  <2>1. CASE p = Nil
    BY <2>1, <1>2, <1>5
  <2>2. CASE p # Nil
    BY <2>2, <1>1, <1>5
  <2>3. QED
    BY <2>1, <2>2
<1>12. \A d \in A \ {c} : Ahead(x, g, d)
  <2> SUFFICES ASSUME NEW d \in A \ {c}, NEW S \in SUBSET Cb!All, g \in S \cup {Nil}, ClosedBy(x, S)
               PROVE  d \in S
    BY DEF Ahead
  <2>1. Ahead(nx, h, d)
    BY DEF Chain
  <2>2. CASE p = Nil
    <3>1. Ahead(x, nx[c], d)
      BY <2>1, <2>2, <1>4, AheadWithout
    <3>2. QED
      BY <2>2, <3>1 DEF Ahead
  <2>3. CASE p # Nil /\ p \in S
    <3>1. nx[c] \in S \cup {Nil}
      BY <2>3, <1>5 DEF ClosedBy
    <3>2. \A e \in S \cup {c} : nx[e] \in S \cup {c, Nil}
      BY <2>3, <3>1, <1>5 DEF ClosedBy
    <3>3. S \cup {c} \in SUBSET Cb!All /\ ClosedBy(nx, S \cup {c}) /\ h \in S \cup {c, Nil}
      BY <3>2, <2>3 DEF ClosedBy
    <3>4. QED
      BY <2>1, <3>3 DEF Ahead
  <2>4. CASE p # Nil /\ p \notin S
    <3> DEFINE R == (S \cap A) \ {c}
    <3>1. \A e \in R : x[e] = nx[e] /\ nx[e] \in S \cup {Nil} /\ nx[e] \in A \cup {Nil} /\ nx[e] # c
      BY <2>4, <1>1, <1>5, <1>6 DEF ClosedBy
    <3>2. h \in S \cup {Nil} /\ h \in A \cup {Nil} /\ h # c
      BY <2>4, <1>1 DEF Chain
    <3>3. R \in SUBSET Cb!All /\ ClosedBy(nx, R) /\ h \in R \cup {Nil}
      BY <3>1, <3>2 DEF ClosedBy
    <3>4. QED
      BY <2>1, <3>3 DEF Ahead
  <2>5. QED
    BY <2>2, <2>3, <2>4
<1> HIDE DEF x, g
<1>13. Chain(g, x, A \ {c})
  BY <1>7, <1>8, <1>9, <1>10, <1>11, <1>12 DEF Chain
<1>14. QED
  BY <1>13 DEF x, g

-----------------------------------------------------------------------------
(***************************************************************************)
(* The steps.                                                              *)
(***************************************************************************)

LEMMA ListInit ==
  ASSUME Cb!VpiCallbackAssumptions, Cb!Init
  PROVE  ListInv
<1> USE DEF Cb!VpiCallbackAssumptions, Cb!Init, Cb!list
<1>1. ListTyped
  BY DEF ListTyped, Cb!TypeOK, Cb!All, Cb!Values, Cb!Bits
<1>2. Chain(vpi_callbacks_, next, alive)
  BY DEF Chain
<1>3. Functions /\ Reaped
  BY DEF Functions, Reaped
<1>4. Walkers /\ Owed
  BY DEF Walkers, Owed
<1>5. QED
  BY <1>1, <1>2, <1>3, <1>4 DEF ListInv

\* The facts about the innermost walk.
LEMMA TopFacts ==
  ASSUME ListInv, walks # << >>
  PROVE  /\ Len(walks) \in 1..Len(walks) /\ Len(walks) \in Nat /\ Len(walks) > 0
         /\ Cb!Top = walks[Len(walks)] /\ Cb!Top \in WalkSet
         /\ Holds(Cb!Top, vpi_callbacks_, next, alive)
<1>1. Len(walks) \in 1..Len(walks) /\ Len(walks) \in Nat /\ Len(walks) > 0
  BY DEF ListInv, ListTyped
<1>2. QED
  BY <1>1 DEF ListInv, ListTyped, Walkers, Cb!Top

\* A new innermost walk in the place of the old one.
LEMMA TopSet ==
  ASSUME ListInv, walks # << >>, NEW w \in WalkSet, Cb!SetTop(w)
  PROVE  /\ walks' \in Seq(WalkSet) /\ Len(walks') = Len(walks) /\ walks' # << >>
         /\ walks'[Len(walks)] = w
         /\ \A i \in 1..Len(walks) : i # Len(walks) => walks'[i] = walks[i]
BY TopFacts DEF ListInv, ListTyped, Cb!SetTop

LEMMA RegisterStep ==
  ASSUME Cb!VpiCallbackAssumptions, ListInv, NEW c \in Cb!All, Cb!vpi_register_cb(c)
  PROVE  ListInv'
<1> USE DEF Cb!vpi_register_cb
<1>1. ListTyped /\ Chain(vpi_callbacks_, next, alive) /\ Functions /\ Walkers /\ Owed /\ Reaped
  BY DEF ListInv
<1>2. /\ next \in [Cb!All -> Cb!All \cup {Nil}] /\ alive \in SUBSET Cb!All /\ Nil \notin Cb!All
      /\ c \notin made /\ c \notin alive /\ cb_rtn \in [Cb!All -> BOOLEAN]
  BY <1>1 DEF ListTyped, Cb!TypeOK, Cb!VpiCallbackAssumptions, Cb!All
<1>3. ListTyped'
  BY <1>1 DEF ListTyped, Cb!TypeOK, Cb!Values, Cb!Part, Cb!Bits
<1>4. Chain(vpi_callbacks_, next, alive)'
  BY <1>1, <1>2, ChainAdded
<1>5. Functions'
  BY <1>1, <1>2 DEF Functions
<1>6. next[c] = Nil /\ \A e \in alive : next'[e] = next[e]
  BY <1>1, <1>2 DEF Chain
<1>7. \A a, d : Ahead(next, a, d) => Ahead(next', a, d)
  BY <1>2, <1>6, AheadAdded
<1>8. Walkers'
  <2> SUFFICES ASSUME NEW i \in 1..Len(walks)
               PROVE  /\ i < Len(walks) => walks[i].calling
                      /\ Holds(walks[i], vpi_callbacks_', next', alive')
    BY DEF Walkers
  <2>1. (i < Len(walks) => walks[i].calling) /\ Holds(walks[i], vpi_callbacks_, next, alive)
    BY <1>1 DEF Walkers
  <2>2. walks[i].calling
    BY <2>1 DEF Cb!InUserCode, Cb!Top, ListInv, ListTyped
  <2>3. QED
    BY <1>6, <2>1, <2>2 DEF Holds
<1>9. Owed'
  <2> SUFFICES ASSUME NEW i \in 1..Len(walks), NEW d \in walks[i].owed
               PROVE  d \in made' /\ Owes(i, d)'
    BY DEF Owed
  <2>1. d \in made /\ Owes(i, d) /\ d # c
    BY <1>1, <1>2 DEF Owed
  <2>2. made \subseteq Cb!All
    BY <1>1 DEF ListTyped, Cb!TypeOK
  <2>3. (cb_rtn'[d] = cb_rtn[d]) /\ (d \in PartCbs => value_bits_'[d] = value_bits_[d])
    BY <1>1, <1>2, <2>1, <2>2 DEF ListTyped, Cb!TypeOK
  <2>4. QED
    BY <1>7, <2>1, <2>3 DEF Owes, Cb!ready
<1>10. Reaped'
  BY <1>1, <1>2, <1>7 DEF Reaped
<1>11. QED
  BY <1>3, <1>4, <1>5, <1>8, <1>9, <1>10 DEF ListInv

LEMMA RemoveStep ==
  ASSUME Cb!VpiCallbackAssumptions, ListInv, NEW c \in Cb!All, Cb!vpi_remove_cb(c)
  PROVE  ListInv'
<1> USE DEF Cb!vpi_remove_cb
<1>1. ListTyped /\ Chain(vpi_callbacks_, next, alive) /\ Functions /\ Walkers /\ Owed /\ Reaped
  BY DEF ListInv
<1>2. ListTyped'
  BY <1>1 DEF ListTyped, Cb!TypeOK
<1>3. Chain(vpi_callbacks_, next, alive)' /\ Walkers'
  BY <1>1 DEF Walkers
<1>4. Functions'
  BY <1>1 DEF Functions, ListTyped, Cb!TypeOK
<1>5. Owed'
  <2> SUFFICES ASSUME NEW i \in 1..Len(walks), NEW d \in walks[i].owed
               PROVE  d \in made' /\ Owes(i, d)'
    BY DEF Owed
  <2>1. d \in made /\ Owes(i, d)
    BY <1>1 DEF Owed
  <2>2. ~cb_rtn[d] => ~cb_rtn'[d]
    BY <1>1, <2>1 DEF ListTyped, Cb!TypeOK
  <2>3. QED
    BY <2>1, <2>2 DEF Owes, Cb!ready
<1>6. Reaped'
  BY <1>1 DEF Reaped, ListTyped, Cb!TypeOK
<1>7. QED
  BY <1>2, <1>3, <1>4, <1>5, <1>6 DEF ListInv

LEMMA ChangeStep ==
  ASSUME Cb!VpiCallbackAssumptions, ListInv, MaxDepth = 1 \/ ~Removes, NEW v \in Cb!Values, Cb!change(v)
  PROVE  ListInv'
<1> USE DEF Cb!change, Cb!list
<1>1. ListTyped /\ Chain(vpi_callbacks_, next, alive) /\ Functions /\ Walkers /\ Owed /\ Reaped
  BY DEF ListInv
<1> DEFINE called == {c \in alive : cb_rtn[c] /\ Cb!ready(c, v)}
           w == Cb!Walk(vpi_callbacks_, called)
<1>2. vpi_callbacks_ = Nil => alive = {}
  BY <1>1, AheadOfNil DEF Chain
<1>3. /\ w \in WalkSet /\ w.next = vpi_callbacks_ /\ ~w.calling /\ w.prev = Nil /\ w.owed = called
  BY <1>1 DEF ListTyped, Cb!TypeOK, Cb!Walk, WalkSet
<1>4. /\ walks \in Seq(WalkSet) /\ Len(walks) \in Nat
      /\ alive \subseteq made /\ made \subseteq Cb!All /\ changes \in Nat
  BY <1>1 DEF ListTyped, Cb!TypeOK, Cb!VpiCallbackAssumptions
<1> HIDE DEF w, called
<1>5. CASE vpi_callbacks_ = Nil
  <2>1. walks' = walks
    BY <1>5
  <2>2. ListTyped'
    BY <1>1, <2>1 DEF ListTyped, Cb!TypeOK, Cb!VpiCallbackAssumptions
  <2>3. Chain(vpi_callbacks_, next, alive)' /\ Walkers' /\ Functions'
    BY <1>1, <2>1 DEF Walkers, Functions
  <2>4. Owed' /\ Reaped'
    BY <1>1, <1>2, <1>4, <1>5, <2>1 DEF Owed, Owes, Reaped, Functions
  <2>5. QED
    BY <2>2, <2>3, <2>4 DEF ListInv
<1>6. CASE vpi_callbacks_ # Nil
  <2>1. /\ walks' = Append(walks, w)
        /\ Len(walks') = Len(walks) + 1 /\ walks'[Len(walks) + 1] = w
        /\ \A i \in 1..Len(walks) : walks'[i] = walks[i]
        /\ walks' \in Seq(WalkSet) /\ walks' # << >>
    BY <1>3, <1>4, <1>6 DEF w, called
  <2>2. ListTyped'
    BY <1>1, <1>4, <2>1 DEF ListTyped, Cb!TypeOK, Cb!VpiCallbackAssumptions
  <2>3. Chain(vpi_callbacks_, next, alive)' /\ Functions'
    BY <1>1 DEF Functions
  <2>4. Walkers'
    <3> SUFFICES ASSUME NEW i \in 1..(Len(walks) + 1)
                 PROVE  /\ i < Len(walks) + 1 => walks'[i].calling
                        /\ Holds(walks'[i], vpi_callbacks_, next, alive)
      BY <2>1 DEF Walkers
    <3>1. CASE i = Len(walks) + 1
      BY <3>1, <1>3, <2>1 DEF Holds
    <3>2. CASE i # Len(walks) + 1
      <4>1. i \in 1..Len(walks) /\ walks'[i] = walks[i]
        BY <3>2, <1>4, <2>1
      <4>2. walks[i].calling
        <5>1. CASE i = Len(walks)
          BY <4>1, <5>1 DEF Cb!InUserCode, Cb!Top
        <5>2. CASE i # Len(walks)
          BY <1>1, <1>4, <4>1, <5>2 DEF Walkers
        <5>3. QED
          BY <5>1, <5>2
      <4>3. QED
        BY <4>1, <4>2, <1>1 DEF Walkers, Holds
    <3>3. QED
      BY <3>1, <3>2
  <2>5. Owed'
    <3> SUFFICES ASSUME NEW i \in 1..(Len(walks) + 1), NEW c \in walks'[i].owed
                 PROVE  c \in made /\ Owes(i, c)'
      BY <2>1 DEF Owed
    <3>1. CASE i = Len(walks) + 1
      <4>1. c \in alive /\ Ahead(next, vpi_callbacks_, c)
        BY <3>1, <2>1, <1>3, <1>1 DEF called, Chain
      <4>2. QED
        BY <3>1, <4>1, <1>3, <1>4, <2>1 DEF Owes
    <3>2. CASE i # Len(walks) + 1
      <4>1. i \in 1..Len(walks) /\ walks'[i] = walks[i]
        BY <3>2, <1>4, <2>1
      <4>2. c \in made /\ Owes(i, c)
        BY <1>1, <4>1 DEF Owed
      <4>3. CASE Ahead(next, walks[i].next, c) \/ ~cb_rtn[c]
        BY <4>1, <4>2, <4>3 DEF Owes
      <4>4. CASE c \in PartCbs /\ ~Cb!ready(c, v)
        BY <4>2, <4>4 DEF Owes, Cb!ready
      <4>5. CASE cb_rtn[c] /\ c \in PartCbs /\ Cb!ready(c, v)
        <5>1. c \in w.owed
          BY <4>2, <4>5, <1>1, <1>3, <1>4 DEF Functions, called
        <5>2. Len(walks) + 1 \in (i + 1)..Len(walks') /\ c \in walks'[Len(walks) + 1].owed
          BY <5>1, <4>1, <2>1, <1>4
        <5>3. QED
          BY <4>2, <4>5, <5>2 DEF Owes
      <4>6. QED
        BY <4>2, <4>3, <4>4, <4>5 DEF Owes
    <3>3. QED
      BY <3>1, <3>2
  <2>6. Reaped'
    <3> SUFFICES ASSUME NEW c \in alive, ~cb_rtn[c]
                 PROVE  Ahead(next, walks'[1].next, c)
      BY <2>1 DEF Reaped
    <3>1. Len(walks) = 0
      BY <1>1, <1>4 DEF Functions
    <3>2. walks'[1].next = vpi_callbacks_
      BY <3>1, <2>1, <1>3
    <3>3. QED
      BY <3>2, <1>1 DEF Chain
  <2>7. QED
    BY <2>2, <2>3, <2>4, <2>5, <2>6 DEF ListInv
<1>7. QED
  BY <1>5, <1>6

\* Whatever the innermost walk does, it is the last one that owes.
LEMMA OwedLater ==
  ASSUME ListInv, walks # << >>, NEW w \in WalkSet, Cb!SetTop(w),
         \A c \in Cb!All : ~cb_rtn[c] => ~cb_rtn'[c],
         made' = made, value' = value, w.owed \subseteq Cb!Top.owed,
         \A i \in 1..Len(walks) : i # Len(walks) => \A c :
           Ahead(next, walks[i].next, c) => Ahead(next', walks[i].next, c) \/ ~cb_rtn'[c],
         \A c \in PartCbs : value_bits_'[c] = value_bits_[c] \/ ~Cb!ready(c, value)',
         \A c \in Cb!Top.owed : c \notin w.owed /\ c \in PartCbs => ~Cb!ready(c, value)',
         \A c \in w.owed : Ahead(next, Cb!Top.next, c) =>
           Ahead(next', w.next, c) \/ ~cb_rtn'[c] \/ (c \in PartCbs /\ ~Cb!ready(c, value)')
  PROVE  Owed'
<1> SUFFICES ASSUME NEW i \in 1..Len(walks), NEW c \in walks'[i].owed
             PROVE  c \in made /\ Owes(i, c)'
  BY TopSet DEF Owed
<1>1. /\ Len(walks) \in Nat /\ Len(walks') = Len(walks) /\ walks'[Len(walks)] = w
      /\ \A j \in 1..Len(walks) : j # Len(walks) => walks'[j] = walks[j]
      /\ Cb!Top = walks[Len(walks)]
  BY TopSet, TopFacts
<1>2. c \in walks[i].owed
  BY <1>1
<1>3. c \in made /\ Owes(i, c) /\ c \in Cb!All
  BY <1>2 DEF ListInv, Owed, ListTyped, Cb!TypeOK
<1>4. ~cb_rtn[c] => ~cb_rtn'[c]
  BY <1>3
<1>5. c \in PartCbs /\ ~Cb!ready(c, value) => ~Cb!ready(c, value)'
  BY DEF Cb!ready
<1>6. Ahead(next, walks[i].next, c) =>
        Ahead(next', walks'[i].next, c) \/ ~cb_rtn'[c] \/ (c \in PartCbs /\ ~Cb!ready(c, value)')
  <2>1. CASE i = Len(walks)
    BY <2>1, <1>1
  <2>2. CASE i # Len(walks)
    BY <2>2, <1>1
  <2>3. QED
    BY <2>1, <2>2
<1>7. ASSUME c \in PartCbs, NEW j \in (i + 1)..Len(walks), c \in walks[j].owed
      PROVE  c \in walks'[j].owed \/ ~Cb!ready(c, value)'
  <2>1. CASE j = Len(walks)
    BY <2>1, <1>1, <1>7
  <2>2. CASE j # Len(walks)
    BY <2>2, <1>1, <1>7
  <2>3. QED
    BY <2>1, <2>2
<1>8. QED
  BY <1>1, <1>3, <1>4, <1>5, <1>6, <1>7 DEF Owes

LEMMA WalkersLater ==
  ASSUME ListInv, walks # << >>, NEW w \in WalkSet, Cb!SetTop(w),
         UNCHANGED <<vpi_callbacks_, next, alive>>,
         Holds(w, vpi_callbacks_, next, alive)
  PROVE  Walkers'
BY TopSet, TopFacts DEF ListInv, Walkers

\* A step of the innermost walk that leaves the list alone.
LEMMA WalkedStep ==
  ASSUME ListInv, walks # << >>, NEW w \in WalkSet, Cb!SetTop(w),
         UNCHANGED <<vpi_callbacks_, next, alive, made, cb_rtn, value, changes, removed>>,
         value_bits_' \in [PartCbs -> Cb!Bits],
         Holds(w, vpi_callbacks_, next, alive), Owed',
         \A c \in alive : ~cb_rtn[c] /\ Ahead(next, Cb!Top.next, c) => Ahead(next, w.next, c)
  PROVE  ListInv'
<1>1. /\ walks' \in Seq(WalkSet) /\ Len(walks') = Len(walks) /\ walks' # << >>
      /\ walks'[Len(walks)] = w /\ Len(walks) \in Nat /\ Len(walks) > 0
      /\ \A i \in 1..Len(walks) : i # Len(walks) => walks'[i] = walks[i]
      /\ Cb!Top = walks[Len(walks)]
  BY TopSet, TopFacts
<1>2. ListTyped'
  BY <1>1 DEF ListInv, ListTyped, Cb!TypeOK
<1>3. Chain(vpi_callbacks_, next, alive)' /\ Functions'
  BY DEF ListInv, Functions
<1>4. Walkers'
  BY WalkersLater
<1>5. Reaped'
  <2> SUFFICES ASSUME NEW c \in alive, ~cb_rtn[c]
               PROVE  removed[c] = changes \/ Ahead(next, walks'[1].next, c)
    BY <1>1 DEF Reaped
  <2>1. removed[c] = changes \/ Ahead(next, walks[1].next, c)
    BY DEF ListInv, Reaped
  <2>2. CASE Len(walks) = 1
    BY <2>1, <2>2, <1>1
  <2>3. CASE Len(walks) # 1
    BY <2>1, <2>3, <1>1
  <2>4. QED
    BY <2>2, <2>3
<1>6. QED
  BY <1>2, <1>3, <1>4, <1>5 DEF ListInv

LEMMA ReturnStep ==
  ASSUME Cb!VpiCallbackAssumptions, ListInv, Cb!return
  PROVE  ListInv'
<1> USE DEF Cb!return, Cb!list
<1> DEFINE w == [Cb!Top EXCEPT !.calling = FALSE, !.prev = Cb!Top.cur]
<1>1. /\ Cb!Top \in WalkSet /\ Holds(Cb!Top, vpi_callbacks_, next, alive)
  BY TopFacts
<1>2. /\ w \in WalkSet /\ w.next = Cb!Top.next /\ w.owed = Cb!Top.owed
      /\ ~w.calling /\ w.prev = Cb!Top.cur
  BY <1>1 DEF WalkSet
<1>3. Cb!SetTop(w) /\ walks # << >>
  OBVIOUS
<1> HIDE DEF w
<1>4. Holds(w, vpi_callbacks_, next, alive)
  BY <1>1, <1>2 DEF Holds
<1>5. Owed'
  BY <1>2, <1>3, OwedLater
<1>6. value_bits_' \in [PartCbs -> Cb!Bits]
  BY DEF ListInv, ListTyped, Cb!TypeOK
<1>7. QED
  BY <1>2, <1>3, <1>4, <1>5, <1>6, WalkedStep

\* The next callback of the walk.
LEMMA NextFacts ==
  ASSUME Cb!VpiCallbackAssumptions, ListInv, Cb!Walking, Cb!Top.next \in alive
  PROVE  /\ walks # << >> /\ Cb!Top.next \in Cb!All /\ Cb!Top.next # Nil
         /\ next[Cb!Top.next] \in alive \cup {Nil} /\ alive \subseteq Cb!All
         /\ \A d : Ahead(next, Cb!Top.next, d) /\ d # Cb!Top.next => Ahead(next, next[Cb!Top.next], d)
<1>1. walks # << >> /\ alive \subseteq Cb!All /\ Nil \notin Cb!All
  BY DEF ListInv, ListTyped, Cb!TypeOK, Cb!Walking, Cb!VpiCallbackAssumptions, Cb!All
<1>2. next[Cb!Top.next] \in alive \cup {Nil}
  BY DEF ListInv, Chain
<1>3. QED
  BY <1>1, <1>2, AheadOn

LEMMA CallStep ==
  ASSUME Cb!VpiCallbackAssumptions, ListInv, Cb!call
  PROVE  ListInv'
<1> USE DEF Cb!call, Cb!list
<1> DEFINE c == Cb!Top.next
           w == [Cb!Top EXCEPT !.cur = c, !.next = next[c], !.calling = TRUE, !.owed = @ \ {c}]
<1>1. /\ Cb!Top \in WalkSet /\ walks # << >> /\ c \in Cb!All /\ next[c] \in alive \cup {Nil}
      /\ alive \subseteq Cb!All
      /\ \A d : Ahead(next, c, d) /\ d # c => Ahead(next, next[c], d)
  BY TopFacts, NextFacts DEF Cb!Walking
<1>2. /\ w \in WalkSet /\ w.next = next[c] /\ w.owed = Cb!Top.owed \ {c}
      /\ w.calling /\ w.cur = c
  BY <1>1 DEF WalkSet
<1>3. Cb!SetTop(w) /\ c \in alive /\ cb_rtn[c]
  OBVIOUS
<1>4. /\ value_bits_ \in [PartCbs -> Cb!Bits] /\ value \in Cb!Values
      /\ Cb!Part(value) \in Cb!Bits
  BY DEF ListInv, ListTyped, Cb!TypeOK, Cb!Part, Cb!Values
<1>a. value_bits_' = IF c \in PartCbs THEN [value_bits_ EXCEPT ![c] = Cb!Part(value)] ELSE value_bits_
  OBVIOUS
<1>b. /\ value' = value /\ made' = made /\ cb_rtn' = cb_rtn /\ next' = next
  OBVIOUS
<1> HIDE DEF w, c, Cb!call
<1>c. /\ value_bits_' \in [PartCbs -> Cb!Bits]
      /\ \A d \in PartCbs : d # c => value_bits_'[d] = value_bits_[d]
      /\ c \in PartCbs => value_bits_'[c] = Cb!Part(value)
  BY <1>4, <1>a
<1>5. \A d \in PartCbs : d = c => ~Cb!ready(d, value)'
  BY <1>b, <1>c DEF Cb!ready
<1> USE DEF c, Cb!call
<1>6. Holds(w, vpi_callbacks_, next, alive)
  BY <1>2, <1>3 DEF Holds
<1>7. Owed'
  <2>1. /\ \A d \in PartCbs : value_bits_'[d] = value_bits_[d] \/ ~Cb!ready(d, value)'
        /\ \A d \in Cb!Top.owed : d \notin w.owed /\ d \in PartCbs => ~Cb!ready(d, value)'
    BY <1>2, <1>c, <1>5
  <2>2. \A d \in w.owed : Ahead(next, Cb!Top.next, d) => Ahead(next', w.next, d)
    BY <1>1, <1>2, <1>b
  <2> HIDE DEF c, Cb!call
  <2>3. QED
    BY <1>1, <1>2, <1>3, <1>b, <2>1, <2>2, OwedLater
<1>8. QED
  BY <1>1, <1>2, <1>3, <1>c, <1>6, <1>7, WalkedStep

LEMMA PassStep ==
  ASSUME Cb!VpiCallbackAssumptions, ListInv, Cb!pass
  PROVE  ListInv'
<1> USE DEF Cb!pass, Cb!list
<1> DEFINE c == Cb!Top.next
           w == [Cb!Top EXCEPT !.cur = c, !.next = next[c], !.prev = c]
<1>1. /\ Cb!Top \in WalkSet /\ walks # << >> /\ c \in Cb!All /\ next[c] \in alive \cup {Nil}
      /\ alive \subseteq Cb!All
      /\ \A d : Ahead(next, c, d) /\ d # c => Ahead(next, next[c], d)
  BY TopFacts, NextFacts DEF Cb!Walking
<1>2. /\ w \in WalkSet /\ w.next = next[c] /\ w.owed = Cb!Top.owed
      /\ ~w.calling /\ w.prev = c
  BY <1>1 DEF WalkSet, Cb!Walking
<1>3. Cb!SetTop(w) /\ c \in alive /\ cb_rtn[c] /\ c \in PartCbs /\ ~Cb!ready(c, value)
  BY DEF Cb!ready
<1>a. /\ value' = value /\ made' = made /\ cb_rtn' = cb_rtn /\ next' = next /\ value_bits_' = value_bits_
  OBVIOUS
<1>4. \A d : Cb!ready(d, value)' <=> Cb!ready(d, value)
  BY <1>a DEF Cb!ready
<1>5. value_bits_' \in [PartCbs -> Cb!Bits]
  BY <1>a DEF ListInv, ListTyped, Cb!TypeOK
<1> HIDE DEF w
<1>6. Holds(w, vpi_callbacks_, next, alive)
  BY <1>2, <1>3 DEF Holds
<1>7. Owed'
  <2>1. \A d \in w.owed : Ahead(next, Cb!Top.next, d) =>
          Ahead(next', w.next, d) \/ (d \in PartCbs /\ ~Cb!ready(d, value)')
    BY <1>1, <1>2, <1>3, <1>4, <1>a
  <2> HIDE DEF c, Cb!pass
  <2>2. QED
    BY <1>1, <1>2, <1>3, <1>a, <2>1, OwedLater
<1>8. QED
  BY <1>1, <1>2, <1>3, <1>5, <1>6, <1>7, WalkedStep

LEMMA ReapStep ==
  ASSUME Cb!VpiCallbackAssumptions, ListInv, MaxDepth = 1 \/ ~Removes, Cb!reap
  PROVE  ListInv'
<1> USE DEF Cb!reap, Cb!list
<1> DEFINE c == Cb!Top.next
           p == Cb!Top.prev
           w == [Cb!Top EXCEPT !.cur = c, !.next = next[c]]
<1>1. /\ Cb!Top \in WalkSet /\ walks # << >> /\ c \in Cb!All /\ next[c] \in alive \cup {Nil}
      /\ alive \subseteq Cb!All /\ Nil \notin Cb!All
      /\ Holds(Cb!Top, vpi_callbacks_, next, alive)
  BY TopFacts, NextFacts DEF Cb!Walking, Cb!VpiCallbackAssumptions, Cb!All
<1>2. /\ w \in WalkSet /\ w.next = next[c] /\ w.owed = Cb!Top.owed
      /\ ~w.calling /\ w.prev = p
  BY <1>1 DEF WalkSet, Cb!Walking
<1>3. Cb!SetTop(w) /\ c \in alive /\ ~cb_rtn[c] /\ Removes /\ MaxDepth = 1
  BY DEF ListInv, Functions
<1>4. Len(walks) = 1
  <2>1. Len(walks) <= MaxDepth /\ Len(walks) \in Nat /\ Len(walks) > 0
    BY <1>1, TopFacts DEF ListInv, ListTyped, Cb!TypeOK
  <2> HIDE DEF Cb!reap, c, p, w
  <2>2. Len(walks) <= 1
    BY <2>1, <1>3
  <2>3. QED
    BY <2>1, <2>2
<1>5. p = Nil => vpi_callbacks_ = c
  BY <1>1 DEF Holds, Cb!Walking
<1>6. p # Nil => p \in alive /\ next[p] = c
  BY <1>1 DEF Holds, Cb!Walking
<1>7. next \in [Cb!All -> Cb!All \cup {Nil}] /\ Chain(vpi_callbacks_, next, alive)
  BY DEF ListInv, ListTyped, Cb!TypeOK
<1>8. /\ vpi_callbacks_' = IF p = Nil THEN next[c] ELSE vpi_callbacks_
      /\ next' = Without(next, p, c)
  BY DEF Cb!Unlink, Without
<1>9. Chain(vpi_callbacks_, next, alive)'
  BY <1>1, <1>3, <1>5, <1>6, <1>7, <1>8, ChainWithout
<1>10. p # c
  <2>1. CASE p = Nil
    BY <2>1, <1>1
  <2>2. CASE p # Nil
    <3>1. next'[c] = Nil
      BY <1>7, <1>1, <2>2, <1>6 DEF Cb!Unlink
    <3>2. p = c => next[c] = c
      BY <1>6, <2>2
    <3>3. next[c] # c
      <4> SUFFICES ASSUME next[c] = c PROVE FALSE
        OBVIOUS
      <4>1. vpi_callbacks_ # c /\ vpi_callbacks_ \in alive \cup {Nil}
        BY <1>1, <1>3, <1>7 DEF Chain
      <4>2. ClosedBy(next, alive \ {c}) /\ alive \ {c} \in SUBSET Cb!All
        BY <1>1, <1>3, <1>7 DEF Chain, ClosedBy
      <4>3. Ahead(next, vpi_callbacks_, c)
        BY <1>3, <1>7 DEF Chain
      <4>4. QED
        BY <4>1, <4>2, <4>3 DEF Ahead
    <3>4. QED
      BY <3>2, <3>3
  <2>3. QED
    BY <2>1, <2>2
<1>11. \A d : Ahead(next, c, d) /\ d # c => Ahead(next', next[c], d)
  BY <1>1, <1>6, <1>7, <1>8, <1>10, AheadWithout
<1>12. /\ vpi_callbacks_' \in Cb!All \cup {Nil} /\ next' \in [Cb!All -> Cb!All \cup {Nil}]
  BY <1>1, <1>6, <1>7, <1>8, <1>10, WithoutLinks DEF Chain
<1>13. /\ walks' \in Seq(WalkSet) /\ Len(walks') = 1 /\ walks' # << >> /\ walks'[1] = w
       /\ walks[1] = Cb!Top
  BY <1>1, <1>2, <1>3, <1>4, TopSet, TopFacts
<1>14. ListTyped'
  BY <1>12, <1>13, <1>4 DEF ListInv, ListTyped, Cb!TypeOK
<1>15. Functions'
  BY <1>3 DEF ListInv, Functions
<1>16. next'[c] = Nil /\ (p # Nil => next'[p] = next[c])
  BY <1>1, <1>6, <1>7, <1>8, <1>10, WithoutLinks
<1> HIDE DEF w
<1>17. Walkers'
  <2>1. Holds(w, vpi_callbacks_', next', alive')
    BY <1>2, <1>6, <1>8, <1>10, <1>16 DEF Holds
  <2>2. QED
    BY <2>1, <1>13 DEF Walkers
<1>18. Owed'
  BY <1>1, <1>2, <1>3, <1>4, <1>11, OwedLater
<1>19. Reaped'
  <2> SUFFICES ASSUME NEW d \in alive, d # c, ~cb_rtn[d]
               PROVE  removed[d] = changes \/ Ahead(next', w.next, d)
    BY <1>13 DEF Reaped
  <2>1. removed[d] = changes \/ Ahead(next, c, d)
    BY <1>13 DEF ListInv, Reaped
  <2>2. QED
    BY <2>1, <1>2, <1>11
<1>20. QED
  BY <1>9, <1>14, <1>15, <1>17, <1>18, <1>19 DEF ListInv

LEMMA LeaveStep ==
  ASSUME Cb!VpiCallbackAssumptions, ListInv, MaxDepth = 1 \/ ~Removes, Cb!leave
  PROVE  ListInv'
<1> USE DEF Cb!leave, Cb!list
<1>1. /\ walks # << >> /\ Len(walks) \in Nat /\ Len(walks) > 0 /\ walks \in Seq(WalkSet)
      /\ Cb!Top = walks[Len(walks)] /\ Cb!Top.next = Nil
  BY TopFacts DEF Cb!Walking, ListInv, ListTyped
<1>2. /\ walks' \in Seq(WalkSet) /\ Len(walks') = Len(walks) - 1
      /\ \A i \in 1..(Len(walks) - 1) : walks'[i] = walks[i]
  <2>1. walks' = SubSeq(walks, 1, Len(walks) - 1)
    OBVIOUS
  <2> HIDE DEF Cb!leave
  <2>2. \A n \in Nat : n < Len(walks) =>
          /\ SubSeq(walks, 1, n) \in Seq(WalkSet) /\ Len(SubSeq(walks, 1, n)) = n
          /\ \A i \in 1..n : SubSeq(walks, 1, n)[i] = walks[i]
    <3> SUFFICES ASSUME NEW n \in Nat, n < Len(walks)
                 PROVE  /\ SubSeq(walks, 1, n) \in Seq(WalkSet) /\ Len(SubSeq(walks, 1, n)) = n
                        /\ \A i \in 1..n : SubSeq(walks, 1, n)[i] = walks[i]
      OBVIOUS
    <3>1. \A i \in 1..n : walks[i] \in WalkSet
      BY <1>1
    <3>2. QED
      BY <3>1, <1>1, SubSeqProperties
  <2>3. PICK n \in Nat : n = Len(walks) - 1 /\ n < Len(walks)
    <3>1. \A k \in Nat : k > 0 => k - 1 \in Nat /\ k - 1 < k
      OBVIOUS
    <3>2. Len(walks) - 1 \in Nat /\ Len(walks) - 1 < Len(walks)
      BY <3>1, <1>1
    <3>3. QED
      BY <3>2
  <2>4. QED
    BY <2>1, <2>2, <2>3
<1>3. ListTyped'
  BY <1>1, <1>2 DEF ListInv, ListTyped, Cb!TypeOK, Cb!VpiCallbackAssumptions
<1>4. Chain(vpi_callbacks_, next, alive)' /\ Functions'
  BY DEF ListInv, Functions
<1>5. Walkers'
  BY <1>1, <1>2 DEF ListInv, Walkers
<1>6. \A c \in Cb!Top.owed : ~cb_rtn[c] \/ (c \in PartCbs /\ ~Cb!ready(c, value))
  BY <1>1, AheadOfNil DEF ListInv, Owed, Owes
<1>7. Owed'
  <2> SUFFICES ASSUME NEW i \in 1..(Len(walks) - 1), NEW c \in walks[i].owed
               PROVE  c \in made /\ Owes(i, c)'
    BY <1>2 DEF Owed
  <2>1. c \in made /\ Owes(i, c)
    BY <1>1 DEF ListInv, Owed
  <2>2. \A j \in (i + 1)..Len(walks) : j # Len(walks) => j \in (i + 1)..Len(walks') /\ walks'[j] = walks[j]
    BY <1>1, <1>2
  <2>3. Cb!ready(c, value)' <=> Cb!ready(c, value)
    BY DEF Cb!ready
  <2>4. CASE Ahead(next, walks[i].next, c) \/ ~cb_rtn[c] \/ (c \in PartCbs /\ ~Cb!ready(c, value))
    BY <2>1, <2>3, <2>4, <1>2 DEF Owes
  <2>5. ASSUME NEW j \in (i + 1)..Len(walks), c \in walks[j].owed, c \in PartCbs
        PROVE  Owes(i, c)'
    <3>1. CASE j = Len(walks)
      BY <3>1, <2>5, <1>1, <1>6, <2>3 DEF Owes
    <3>2. CASE j # Len(walks)
      BY <3>2, <2>2, <2>5 DEF Owes
    <3>3. QED
      BY <3>1, <3>2
  <2>6. QED
    BY <2>1, <2>4, <2>5 DEF Owes
<1>8. Reaped'
  <2> SUFFICES ASSUME NEW c \in alive, ~cb_rtn[c]
               PROVE  removed[c] = changes \/ (walks' # << >> /\ Ahead(next, walks'[1].next, c))
    BY DEF Reaped
  <2>1. removed[c] = changes \/ Ahead(next, walks[1].next, c)
    BY DEF ListInv, Reaped
  <2>2. CASE Len(walks) = 1
    BY <2>1, <2>2, <1>1, AheadOfNil
  <2>3. CASE Len(walks) # 1
    <3> HIDE DEF Cb!leave
    <3>1. Len(walks') > 0 /\ walks'[1] = walks[1]
      BY <2>3, <1>1, <1>2
    <3>2. walks' # << >>
      BY <3>1, <1>2
    <3>3. QED
      BY <3>1, <3>2, <2>1
  <2>4. QED
    BY <2>2, <2>3
<1>9. QED
  BY <1>3, <1>4, <1>5, <1>7, <1>8 DEF ListInv

LEMMA ListStep ==
  ASSUME Cb!VpiCallbackAssumptions, MaxDepth = 1 \/ ~Removes, ListInv, [Cb!Next]_Cb!vars
  PROVE  ListInv'
<1>1. CASE UNCHANGED Cb!vars
  <2> USE <1>1 DEF Cb!vars, Cb!list
  <2>1. ListTyped' /\ Chain(vpi_callbacks_, next, alive)' /\ Functions'
    BY DEF ListInv, ListTyped, Cb!TypeOK, Functions
  <2>2. Walkers' /\ Owed' /\ Reaped'
    BY DEF ListInv, Walkers, Owed, Owes, Reaped, Cb!ready
  <2>3. QED
    BY <2>1, <2>2 DEF ListInv
<1>2. CASE Cb!Done
  BY <1>1, <1>2 DEF Cb!Done
<1>3. CASE \E c \in Cb!All : Cb!vpi_register_cb(c)
  BY <1>3, RegisterStep
<1>4. CASE \E c \in Cb!All : Cb!vpi_remove_cb(c)
  BY <1>4, RemoveStep
<1>5. CASE \E v \in Cb!Values : Cb!change(v)
  BY <1>5, ChangeStep
<1>6. CASE Cb!return \/ Cb!call \/ Cb!pass \/ Cb!reap \/ Cb!leave
  BY <1>6, ReturnStep, CallStep, PassStep, ReapStep, LeaveStep
<1>7. QED
  BY <1>1, <1>2, <1>3, <1>4, <1>5, <1>6 DEF Cb!Next

LEMMA ListHolds ==
  ASSUME Cb!VpiCallbackAssumptions, ListInv
  PROVE  Cb!TypeOK /\ Cb!EachIsCalled /\ Cb!ListIsSound
<1>1. ListTyped /\ Chain(vpi_callbacks_, next, alive) /\ Functions /\ Walkers /\ Owed /\ Reaped
  BY DEF ListInv
<1>2. alive \subseteq Cb!All /\ Len(walks) \in Nat /\ Nil \notin Cb!All
  BY <1>1 DEF ListTyped, Cb!TypeOK, Cb!VpiCallbackAssumptions, Cb!All
<1>3. Cb!EachIsCalled
  <2> SUFFICES ASSUME NEW i \in 1..Len(walks), walks[i].next = Nil, ~walks[i].calling,
                      NEW c \in walks[i].owed
               PROVE  ~cb_rtn[c] \/ (c \in PartCbs /\ ~Cb!ready(c, value))
    BY DEF Cb!EachIsCalled
  <2>1. i = Len(walks)
    BY <1>1, <1>2 DEF Walkers
  <2>2. QED
    BY <2>1, <1>1, <1>2, AheadOfNil DEF Owed, Owes
<1>4. Cb!ListIsWhole
  <2>1. ClosedBy(next, alive) /\ vpi_callbacks_ \in alive \cup {Nil} /\ alive \in SUBSET Cb!All
    BY <1>1, <1>2 DEF Chain, ClosedBy
  <2>2. \A d \in Cb!All : d \in Cb!From(vpi_callbacks_) <=> Ahead(next, vpi_callbacks_, d)
    BY DEF Cb!From, Cb!Closed, Ahead, ClosedBy
  <2>3. \A d \in Cb!All : Ahead(next, vpi_callbacks_, d) => d \in alive
    BY <2>1 DEF Ahead
  <2>4. \A d \in alive : Ahead(next, vpi_callbacks_, d)
    BY <1>1 DEF Chain
  <2>5. Cb!From(vpi_callbacks_) \subseteq Cb!All
    BY DEF Cb!From
  <2>6. QED
    BY <2>2, <2>3, <2>4, <2>5, <1>2 DEF Cb!ListIsWhole
<1>5. Cb!NoStaleCallback
  <2> SUFFICES ASSUME NEW i \in 1..Len(walks)
               PROVE  /\ walks[i].next \in alive \cup {Nil}
                      /\ walks[i].calling => walks[i].cur \in alive
                      /\ ~walks[i].calling =>
                           walks[i].prev = Nil \/ (walks[i].prev \in alive /\ next[walks[i].prev] = walks[i].next)
    BY DEF Cb!NoStaleCallback
  <2>1. Holds(walks[i], vpi_callbacks_, next, alive)
    BY <1>1 DEF Walkers
  <2>2. vpi_callbacks_ \in alive \cup {Nil} /\ \A c \in alive : next[c] \in alive \cup {Nil}
    BY <1>1 DEF Chain
  <2>3. QED
    BY <2>1, <2>2 DEF Holds
<1>6. Cb!ReapedByNextChange
  BY <1>1 DEF Reaped, Cb!ReapedByNextChange
<1>7. QED
  BY <1>1, <1>3, <1>4, <1>5, <1>6 DEF ListTyped, Cb!ListIsSound

\* vvp/vpi_callback.cc: the list of callbacks stays whole and what a walk holds
\* of it valid, whatever its callbacks add and remove; every callback that is
\* there when the signal changes and has something to report is called; and one
\* that was removed is deleted by the next change. Callbacks are not removed
\* where they change the signal from within a walk.
THEOREM CallbacksAreCalled ==
  ASSUME Cb!VpiCallbackAssumptions, MaxDepth = 1 \/ ~Removes
  PROVE  Cb!Spec => [](Cb!TypeOK /\ Cb!EachIsCalled /\ Cb!ListIsSound)
<1>1. Cb!Init => ListInv
  BY ListInit
<1>2. ListInv /\ [Cb!Next]_Cb!vars => ListInv'
  BY ListStep
<1>3. ListInv => Cb!TypeOK /\ Cb!EachIsCalled /\ Cb!ListIsSound
  BY ListHolds
<1>4. QED
  BY <1>1, <1>2, <1>3, PTL DEF Cb!Spec

================================================================================
