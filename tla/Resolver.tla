------------------------------ MODULE Resolver ------------------------------
(***************************************************************************)
(* The resolver of a net with several drivers: resolv_tri and the wired    *)
(* logic of resolv_triand and resolv_trior.  The values received from the  *)
(* drivers are the leaves of a quaternary tree in one array, val; only the *)
(* branch above the input that changed is evaluated again, and not past a  *)
(* node that keeps its value.                                              *)
(*                                                                         *)
(* A vector is a function on the bits; Nil is the vector of size zero that *)
(* val_ holds before the first value arrives.                              *)
(*                                                                         *)
(* History variables, which the code does not have: driven, the last value *)
(* of each driver on the bits that it drives; seen, the last value sent to *)
(* the net.                                                                *)
(***************************************************************************)
EXTENDS Strength, FiniteSets, Sequences, SequencesExt

CONSTANTS
  NPorts,     \* the number of drivers
  Width,      \* the number of bits of the net
  Kinds,      \* the classes of resolver that are checked
  Scalars,    \* the values with strength that drivers have
  Plain,      \* the vec4 bits that drivers have
  Nil

ASSUME PortsAssumption == NPorts \in Nat \ {0}
ASSUME WidthAssumption == Width \in Nat \ {0}
ASSUME KindsAssumption ==
  Kinds \subseteq {"tri", "tri0", "tri1", "triand", "trior"}
ASSUME ValuesAssumption == Scalars \subseteq Scalar /\ Plain \subseteq Bit4

VARIABLES kind, val, driven, seen

vars == <<kind, val, driven, seen>>

Ports == 0 .. NPorts - 1
Bits == 0 .. Width - 1
Vec8 == [Bits -> Scalar]
Vec4 == [Bits -> Bit4]

(***************************************************************************)
(* The tree: level 0 is the leaves, and the last level is the output.      *)
(***************************************************************************)
Span[l \in Nat] == IF l = 0 THEN NPorts ELSE (Span[l - 1] + 3) \div 4

Depth == CHOOSE d \in 0 .. NPorts : Span[d] = 1 /\ \A l \in 0 .. d - 1 : Span[l] > 1

Base[l \in Nat] == IF l = 0 THEN 0 ELSE Base[l - 1] + Span[l - 1]

Nodes == 0 .. Base[Depth]

\* The ancestor of the leaf p at level l.
Above(p, l) == Base[l] + p \div 4 ^ l

\* The nodes of level l - 1 that the ancestor of p at level l resolves.
Group(p, l) ==
  LET first == Base[l - 1] + 4 * (p \div 4 ^ l)
      last == Base[l] - 1
  IN  [k \in 1 .. (IF first + 3 <= last THEN 4 ELSE last - first + 1) |-> first + k - 1]

Wired == kind \in {"triand", "trior"}

hiz_value ==
  CASE kind = "tri0" -> vvp_scalar("0", 5, 5)
    [] kind = "tri1" -> vvp_scalar("1", 5, 5)
    [] OTHER -> HiZ

\* wired_logic_math_ on one bit; win is the bit that decides the outcome.
WiredBit(win, a, b) ==
  CASE a = "z" -> b
    [] a # "z" /\ b = "z" -> a
    [] a # "z" /\ b # "z" /\ win \in {a, b} -> win
    [] a # "z" /\ b # "z" /\ win \notin {a, b} /\ "x" \in {a, b} -> "x"
    [] OTHER -> IF win = "0" THEN "1" ELSE "0"

ResolveBit(a, b) ==
  CASE kind = "triand" -> WiredBit("0", a, b)
    [] kind = "trior" -> WiredBit("1", a, b)
    [] OTHER -> resolve(a, b)

ResolveVec(a, b) ==
  CASE a = Nil -> b
    [] a # Nil /\ b = Nil -> a
    [] OTHER -> [i \in Bits |-> ResolveBit(a[i], b[i])]

\* Mutant of Pull: only bits that nothing drives are pulled.
PullUndriven(v) == [i \in Bits |-> IF is_hiz(v[i]) THEN hiz_value ELSE v[i]]

Pull(v) == [i \in Bits |-> resolve(v[i], hiz_value)]

-----------------------------------------------------------------------------
Init ==
  /\ kind \in Kinds
  /\ val = [n \in Nodes |-> Nil]
  /\ driven = [p \in Ports |-> <<>>]
  /\ seen = Nil

\* The walk from leaf p, whose value is new, towards the output: the array
\* after level l, and whether the walk goes on.
Resolved(p, bit) ==
  LET Walk[l \in Nat] ==
        IF l = 0
        THEN [val |-> [val EXCEPT ![p] = bit], go |-> TRUE]
        ELSE LET w == Walk[l - 1]
                 g == Group(p, l)
                 out == FoldLeft(LAMBDA a, n : ResolveVec(a, w.val[n]), Nil, g)
                 op == Above(p, l)
             IN  IF w.go /\ w.val[op] # out
                 THEN [val |-> [w.val EXCEPT ![op] = out], go |-> TRUE]
                 ELSE [w EXCEPT !.go = FALSE]
  IN  Walk[Depth]

\* Mutant of Receive: the pull is put on the input instead of the output.
ReceivePulled(p, bit) ==
  /\ IF val[p] = bit
     THEN UNCHANGED <<val, seen>>
     ELSE LET in == IF Wired \/ is_hiz(hiz_value) THEN bit ELSE Pull(bit)
              r == Resolved(p, in)
          IN  val' = r.val /\ seen' = IF r.go THEN r.val[Base[Depth]] ELSE seen
  /\ UNCHANGED kind

\* A value of the resolver's own kind of vector arrives from driver p.
Receive(p, bit) ==
  /\ IF val[p] = bit
     THEN UNCHANGED <<val, seen>>
     ELSE LET r == Resolved(p, bit)
              root == Base[Depth]
              out == IF Wired \/ is_hiz(hiz_value) THEN r.val[root] ELSE Pull(r.val[root])
          IN  IF r.go
              THEN val' = [r.val EXCEPT ![root] = out] /\ seen' = out
              ELSE val' = r.val /\ UNCHANGED seen
  /\ UNCHANGED kind

\* A bit of a driver as the resolver keeps it: vec4 values are strong in a
\* resolv_tri, and strengths are reduced away in wired logic.
In4(b) == IF Wired THEN b ELSE vvp_scalar(b, 6, 6)
In8(b) == IF Wired THEN value4(b) ELSE b

recv_vec4_(p, v) == Receive(p, [i \in Bits |-> In4(v[i])])
recv_vec8_(p, v) == Receive(p, [i \in Bits |-> In8(v[i])])

\* The driver p sent the bits v, as the resolver keeps them, at base.
Drives(p, v, base) ==
  driven' = [driven EXCEPT ![p] = [i \in {base + k : k \in DOMAIN v} |-> v[i - base]]]

\* The vector that a part v at base stands for, padded with the value z.
Padded(v, base, z) ==
  [i \in Bits |-> IF i - base \in DOMAIN v THEN v[i - base] ELSE z]

recv_vec4_pv_(p, v, base) == recv_vec4_(p, Padded(v, base, "z"))
recv_vec8_pv_(p, v, base) == recv_vec8_(p, Padded(v, base, HiZ))

Sent4(p, v, b) == Drives(p, [k \in DOMAIN v |-> In4(v[k])], b)
Sent8(p, v, b) == Drives(p, [k \in DOMAIN v |-> In8(v[k])], b)

Next ==
  \E p \in Ports :
    \/ \E v \in [Bits -> Plain] : recv_vec4_(p, v) /\ Sent4(p, v, 0)
    \/ \E v \in [Bits -> Scalars] : recv_vec8_(p, v) /\ Sent8(p, v, 0)
    \/ \E w \in 1 .. Width - 1 : \E v \in [0 .. w - 1 -> Plain], b \in 0 .. Width - w :
         recv_vec4_pv_(p, v, b) /\ Sent4(p, v, b)
    \/ \E w \in 1 .. Width - 1 : \E v \in [0 .. w - 1 -> Scalars], b \in 0 .. Width - w :
         recv_vec8_pv_(p, v, b) /\ Sent8(p, v, b)

Spec == Init /\ [][Next]_vars

\* count_drivers for one bit: how many drivers have the value b there.
count_drivers(i, b) ==
  Cardinality({p \in Ports : val[p] # Nil
                 /\ (IF Wired THEN val[p][i] ELSE value4(val[p][i])) = b})

-----------------------------------------------------------------------------
\* The array holds vectors of the resolver's own kind.
TypeOK ==
  /\ kind \in Kinds
  /\ val \in [Nodes -> (IF Wired THEN Vec4 ELSE Vec8) \cup {Nil}]
  /\ seen = Nil \/ seen = val[Base[Depth]]

Driving(i) == {p \in Ports : i \in DOMAIN driven[p]}
DrivenBits(i) == {driven[p][i] : p \in Driving(i)}

\* What the drivers of a wired net give bit i, of the set of their bits.
WiredValue(win, S) ==
  CASE S \subseteq {"z"} -> "z"
    [] win \in S -> win
    [] win \notin S /\ "x" \in S -> "x"
    [] OTHER -> IF win = "0" THEN "1" ELSE "0"

\* resolv_triand, resolv_trior: whatever the order in which the drivers
\* changed, and although only one branch of the tree is evaluated, the net
\* has the value that all the drivers together give it.
WiredIsRight ==
  Wired /\ seen # Nil =>
    \A i \in Bits :
      seen[i] = WiredValue(IF kind = "triand" THEN "0" ELSE "1", DrivenBits(i))

\* resolv_tri: the range of levels of the net is exactly the range that the
\* levels of its drivers, and the pull of a tri0 or tri1 net, can leave.
StrengthIsRight ==
  ~Wired /\ seen # Nil =>
    \A i \in Bits :
      <<Level0(seen[i]), Level1(seen[i])>>
        = RangeOf(DrivenBits(i) \cup {HiZ, hiz_value})

\* Both kinds: the net has the value that all of its drivers give it.
OutputIsRight == WiredIsRight /\ StrengthIsRight

\* resolv_tri::count_drivers and resolv_wired_logic::count_drivers: the
\* leaves of the tree are what the drivers last sent, so $countdrivers
\* counts the drivers of each value.
CountsDrivers ==
  \A i \in Bits : \A b \in {"0", "1", "x"} :
    count_drivers(i, b)
      = Cardinality({p \in Driving(i) :
                       (IF Wired THEN driven[p][i] ELSE value4(driven[p][i])) = b})
=============================================================================
