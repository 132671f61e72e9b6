------------------------------ MODULE Strength ------------------------------
(***************************************************************************)
(* The scalar with strength, vvp_scalar_t: the eight bits VSSSvsss are the *)
(* fields v1, s1 (the end of the range that is closest to supply1) and v0, *)
(* s0 (the end that is closest to supply0).  The field v is 1 for a drive  *)
(* to one; the strengths go from 0, high impedance, to 7, supply.          *)
(***************************************************************************)
EXTENDS Integers

Bit4 == {"0", "1", "x", "z"}
Scalar == [v1 : 0 .. 1, s1 : 0 .. 7, v0 : 0 .. 1, s0 : 0 .. 7]

HiZ == [v1 |-> 0, s1 |-> 0, v0 |-> 0, s0 |-> 0]
is_hiz(a) == a.s1 = 0 /\ a.s0 = 0

\* The constructor from a bit and the two drive strengths.
vvp_scalar(bit, str0, str1) ==
  IF bit = "z" \/ (str0 = 0 /\ str1 = 0) THEN HiZ
  ELSE CASE bit = "0" -> [v1 |-> 0, s1 |-> str0, v0 |-> 0, s0 |-> str0]
         [] bit = "1" -> [v1 |-> 1, s1 |-> str1, v0 |-> 1, s0 |-> str1]
         [] bit = "x" -> [v1 |-> 1, s1 |-> str1, v0 |-> 0, s0 |-> str0]

\* vvp_scalar_t::value
value4(a) ==
  CASE is_hiz(a) -> "z"
    [] ~is_hiz(a) /\ a.v1 = 0 /\ a.v0 = 0 -> "0"
    [] ~is_hiz(a) /\ a.v1 = 1 /\ a.v0 = 1 -> "1"
    [] OTHER -> "x"

UNAMBIG(a) == a.v1 = a.v0 /\ a.s1 = a.s0

\* The signed levels of the two ends: sv1 and sv0 of the code.
Level1(a) == IF a.v1 = 1 THEN a.s1 ELSE -a.s1
Level0(a) == IF a.v0 = 1 THEN a.s0 ELSE -a.s0

Largest(S) == CHOOSE l \in S : \A m \in S : m <= l
Smallest(S) == CHOOSE l \in S : \A m \in S : l <= m

\* Two unambiguous values: the stronger, or x.
ResolveUnambiguous(a, b) ==
  CASE b.s0 > a.s0 -> b
    [] b.s0 = a.s0 -> [a EXCEPT !.v1 = 1, !.v0 = 0]
    [] OTHER -> a

\* a is unambiguous and sweeps up the weaker parts of b.
Sweep(a, b) ==
  LET e1 == IF a.s1 > b.s1 THEN a ELSE b
      e0 == IF a.s0 > b.s0 THEN a ELSE b
  IN  [v1 |-> e1.v1, s1 |-> e1.s1, v0 |-> e0.v0, s0 |-> e0.s0]

\* Two ambiguous values: the range that holds both.
Widen(a, b) ==
  LET sv == {Level1(a), Level0(a), Level1(b), Level0(b)}
      sv1 == Largest(sv)
      sv0 == Smallest(sv)
      res == [v1 |-> IF sv1 > 0 \/ (a.v1 = 1 /\ b.v1 = 1) THEN 1 ELSE 0,
              s1 |-> IF sv1 > 0 THEN sv1 ELSE -sv1,
              v0 |-> IF sv0 > 0 THEN 1 ELSE 0,
              s0 |-> IF sv0 > 0 THEN sv0 ELSE -sv0]
  IN  IF is_hiz(res) THEN HiZ ELSE res

fully_featured_resolv_(a, b) ==
  CASE UNAMBIG(a) /\ UNAMBIG(b) -> ResolveUnambiguous(a, b)
    [] UNAMBIG(a) /\ ~UNAMBIG(b) -> Sweep(a, b)
    [] ~UNAMBIG(a) /\ UNAMBIG(b) -> Sweep(b, a)
    [] OTHER -> Widen(a, b)

resolve(a, b) ==
  CASE is_hiz(a) -> b
    [] ~is_hiz(a) /\ (is_hiz(b) \/ a = b) -> a
    [] OTHER -> fully_featured_resolv_(a, b)

(***************************************************************************)
(* What a set of drivers means, without the encoding: each driver is at    *)
(* one level of its range, the strongest level wins, and two levels of one *)
(* strength and opposite values leave everything between them open.        *)
(***************************************************************************)
Magnitude(l) == IF l < 0 THEN -l ELSE l
Levels(a) == Level0(a) .. Level1(a)
Weakest(a) == Smallest({Magnitude(l) : l \in Levels(a)})

\* The levels that can win among the drivers of the set D.
Possible(D) ==
  {l \in UNION {Levels(d) : d \in D} : \A d \in D : Weakest(d) <= Magnitude(l)}

\* The range that the drivers of D, at least one, can leave a net in.
RangeOf(D) == <<Smallest(Possible(D)), Largest(Possible(D))>>
=============================================================================
