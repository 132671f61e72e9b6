------------------------------- MODULE Signal -------------------------------
(***************************************************************************)
(* One static vector signal of the vvp runtime: a variable, which is the   *)
(* functor vvp_fun_signal4_sa and the filter vvp_wire_vec4 over the same   *)
(* bits, or a net, which is the filter behind its driver.  Threads, VPI    *)
(* calls and other nets store into it, assign and deassign it, force and   *)
(* release it, wholly or in part; a continuous assignment or a force may   *)
(* be linked to a source signal, which then writes it whenever it changes. *)
(*                                                                         *)
(* A part is the set of its bits.  A vector is a function on the bits; a   *)
(* mask is a set of bits, empty when the code has a vector of size zero.   *)
(*                                                                         *)
(* History variables, which no guard of the code reads: seen, the value    *)
(* that the fan-out was last sent; told, the value at the last call of the *)
(* value-change callbacks; and, per bit, what the language gives the       *)
(* signal: hold (stored or driven), ca (continuously assigned), fo         *)
(* (forced), with folink when the force follows the source.                *)
(***************************************************************************)
EXTENDS Integers

CONSTANTS
  Width,      \* the number of bits
  Variable,   \* TRUE: a variable; FALSE: a net
  DriverSets, \* a net: the possible sets of bits with a structural driver
  Overlap,    \* continuous assignments and forces of one signal overlap
  Relink,     \* a force that is linked may be replaced or released in part
  Nil

ASSUME WidthAssumption == Width \in Nat \ {0}
ASSUME FlagsAssumption == {Variable, Overlap, Relink} \subseteq BOOLEAN

Bits == 0 .. Width - 1
X == 2                       \* BIT4_X, and the BIT4_Z of an undriven net
Bit == {0, 1, X}
Vector == [Bits -> Bit]
Stored == [Bits -> {0, 1}]   \* the values that are written
Parts == (SUBSET Bits) \ {{}}

ASSUME DriversAssumption == DriverSets \subseteq SUBSET Bits
ASSUME NilAssumption == Nil \notin Bit /\ Nil \notin Vector

VARIABLES
  bits4,          \* bits4_, shared by functor and filter
  needs_init,     \* needs_init_ of the functor
  fil_needs_init, \* needs_init_ of the filter
  assign_mask, force_mask, force4, force_propagate,
  cassign_link, force_link,   \* the source is linked to that port
  src,            \* the value of the source signal
  driver_mask,    \* a net: the bits with a structural driver
  seen, told, hold, ca, fo, folink

fun == <<needs_init, assign_mask, cassign_link>>
fil == <<fil_needs_init, force_mask, force4, force_propagate, force_link>>
ideal == <<hold, ca, fo, folink>>
vars == <<bits4, fun, fil, src, driver_mask, seen, told, ideal>>

\* The vector v with the bits of p taken from w.
Put(v, p, w) == [i \in Bits |-> IF i \in p THEN w[i] ELSE v[i]]

AllX == [i \in Bits |-> X]

Init ==
  /\ bits4 = AllX /\ seen = AllX /\ told = AllX /\ hold = AllX
  /\ needs_init = TRUE /\ fil_needs_init = TRUE
  /\ assign_mask = {} /\ force_mask = {} /\ force4 = Nil /\ force_propagate = FALSE
  /\ cassign_link = FALSE /\ force_link = FALSE /\ folink = FALSE
  /\ src \in Stored
  /\ driver_mask \in IF Variable THEN {Bits} ELSE DriverSets
  /\ ca = [i \in Bits |-> Nil] /\ fo = [i \in Bits |-> Nil]

\* filtered_value_, vec4_value: the value with mask m and driven bits b.
Filtered(b, m) == [i \in Bits |-> IF i \in m THEN force4[i] ELSE b[i]]

Value == Filtered(bits4, force_mask)

-----------------------------------------------------------------------------
(***************************************************************************)
(* The filter between the functor and its fan-out.                         *)
(***************************************************************************)

Stop == UNCHANGED <<force_propagate, seen, told>>

\* Mutant of filter_mask_: forced bits do not keep their forced value.
FilterUnforced(b, m, p) ==
  /\ force_propagate' = (force_propagate /\ m = {})
  /\ seen' = Put(seen, p, b)
  /\ told' = Filtered(b, m)

\* The bits p of b go through the force mask m: nothing is sent when all of
\* them are forced and the forced value is known to have been sent.
filter_mask_(b, m, p) ==
  /\ force_propagate' = (force_propagate /\ m = {})
  /\ IF m = {} \/ force_propagate \/ p \ m # {}
       THEN seen' = Put(seen, p, Filtered(b, m)) /\ told' = Filtered(b, m)
       ELSE UNCHANGED <<seen, told>>

\* The functor has stored b already and knows whether that changed anything.
filter_vec4_from_signal(b, m, changed) ==
  IF ~changed /\ ~fil_needs_init
    THEN Stop /\ UNCHANGED fil_needs_init
    ELSE fil_needs_init' = FALSE /\ filter_mask_(b, m, Bits)

-----------------------------------------------------------------------------
(***************************************************************************)
(* A variable.                                                             *)
(***************************************************************************)

\* recv_vec4 and recv_vec4_pv on port 0, with the force mask m.
recv_port0(p, v, m) ==
  LET open == p \ assign_mask
      b == Put(bits4, open, v)
  IN  /\ bits4' = b
      /\ IF open # {} /\ (needs_init \/ b # bits4)
           THEN needs_init' = FALSE /\ filter_vec4_from_signal(b, m, b # bits4)
           ELSE Stop /\ UNCHANGED <<needs_init, fil_needs_init>>

\* The same on port 1, the port of continuous assignments.
recv_port1(p, v) ==
  LET b == Put(bits4, p, v)
  IN  /\ bits4' = b
      /\ assign_mask' = assign_mask \cup p
      /\ filter_vec4_from_signal(b, force_mask, b # bits4)
      /\ UNCHANGED needs_init

of_STORE_VEC4(p, v) ==
  /\ Variable
  /\ recv_port0(p, v, force_mask)
  /\ hold' = [i \in Bits |-> IF i \in p /\ ca[i] = Nil /\ fo[i] = Nil THEN v[i] ELSE hold[i]]
  /\ UNCHANGED <<assign_mask, cassign_link, force_mask, force4, force_link, src,
                 driver_mask, ca, fo, folink>>

\* "assign a = ..." with a constant, or with the source signal: the old link
\* is removed, the value written, and the new link made.
assign(p, v, link) ==
  /\ Variable /\ (Overlap \/ force_mask = {})
  /\ link => p = Bits /\ v = src /\ ~force_link
  /\ cassign_link' = link
  /\ recv_port1(p, v)
  /\ ca' = Put(ca, p, v)
  /\ UNCHANGED <<force_mask, force4, force_link, src, driver_mask,
                 hold, fo, folink>>

\* Deassigning a part under a link ends the program with a message.  A part
\* of nothing assigned is not deassigned: set_bit of a mask of size zero is
\* an assertion that fails.
of_DEASSIGN(p) ==
  /\ Variable /\ (cassign_link => p = Bits) /\ (p = Bits \/ assign_mask # {})
  /\ assign_mask' = assign_mask \ p
  /\ cassign_link' = FALSE
  /\ hold' = [i \in Bits |-> IF i \in p /\ ca[i] # Nil THEN ca[i] ELSE hold[i]]
  /\ ca' = [i \in Bits |-> IF i \in p THEN Nil ELSE ca[i]]
  /\ UNCHANGED <<bits4, needs_init, fil, src, driver_mask, seen, told, fo, folink>>

-----------------------------------------------------------------------------
(***************************************************************************)
(* Force and release.                                                      *)
(***************************************************************************)

\* vvp_net_t::force_vec4 with the vector the opcodes make: the value the
\* signal has, with the forced part.  It goes to the fan-out at once.
force_vec4(p, v) ==
  LET forced == Put(Value, p, v)
  IN  /\ force_mask' = force_mask \cup p
      /\ force4' = IF force4 = Nil THEN forced ELSE Put(force4, p, v)
      /\ force_propagate' = TRUE
      /\ seen' = forced
      /\ told' = [i \in Bits |-> IF i \in force_mask' THEN force4'[i] ELSE bits4[i]]

\* "force a = ...": the value is forced, and a new link replaces the old one.
\* A constant makes no link, and leaves the old one as it is.
force(p, v, link) ==
  /\ Overlap \/ assign_mask = {}
  /\ link => p = Bits /\ v = src /\ ~cassign_link
  /\ force_link /\ ~link => Relink
  /\ force_vec4(p, v)
  /\ force_link' = (force_link \/ link)
  /\ fo' = Put(fo, p, v) /\ folink' = link
  /\ UNCHANGED <<bits4, fun, fil_needs_init, src, driver_mask, hold, ca>>

\* Mutant of release_reg: the forced value is not stored.
ReleaseRegOnly(p) ==
  /\ force_mask' = force_mask \ p
  /\ UNCHANGED <<bits4, needs_init, fil_needs_init, force_propagate, seen, told>>

\* A variable keeps its value: the forced value is stored like any other.
release_reg(p) ==
  /\ force_mask' = force_mask \ p
  /\ recv_port0(p, Value, force_mask \ p)

\* A net reverts to its driven value, and a bit without a driver keeps the
\* forced one.  It is sent unless force4_ has the same bits.
release_net(p) ==
  LET m == force_mask \ p
      b == Put(bits4, p \ driver_mask, Value)
      differs == IF force4 = Nil THEN p = Bits \/ \E i \in p : b[i] # X
                 ELSE \E i \in p : b[i] # force4[i]
      sent == IF driver_mask = Bits THEN p ELSE Bits
  IN  /\ bits4' = b /\ force_mask' = m
      /\ fil_needs_init' = FALSE
      /\ force_propagate' = (force_propagate /\ (~differs \/ m = {}))
      /\ seen' = IF differs /\ (m = {} \/ force_propagate \/ sent \ m # {})
                   THEN Put(seen, sent, Filtered(b, m)) ELSE seen
      /\ told' = Filtered(b, m)
      /\ UNCHANGED needs_init

\* do_release_vec and the releases of VPI.
release(p) ==
  /\ force_link /\ p # Bits => Relink
  /\ force_link' = FALSE
  /\ IF Variable THEN release_reg(p) ELSE release_net(p)
  /\ hold' = [i \in Bits |-> IF /\ i \in p /\ fo[i] # Nil /\ ca[i] = Nil
                                /\ Variable \/ i \notin driver_mask
                               THEN fo[i] ELSE hold[i]]
  /\ fo' = [i \in Bits |-> IF i \in p THEN Nil ELSE fo[i]]
  /\ folink' = (folink /\ p # Bits)
  /\ UNCHANGED <<assign_mask, cassign_link, force4, src, driver_mask, ca>>

-----------------------------------------------------------------------------
(***************************************************************************)
(* A net, and the source of the links.                                     *)
(***************************************************************************)

\* What filter_vec4 and assign_variable have in common: the bits p that are
\* accepted are stored, and a change is filtered and sent.
NetBits(p, v) ==
  LET b == Put(bits4, p, v)
      sent == IF driver_mask = Bits THEN p ELSE Bits
  IN  IF b = bits4 /\ ~fil_needs_init
        THEN Stop /\ UNCHANGED <<bits4, fil_needs_init>>
        ELSE /\ bits4' = b /\ fil_needs_init' = FALSE
             /\ filter_mask_(b, force_mask, sent)

Drives(p, v) ==
  /\ ~Variable
  /\ NetBits(p, v)
  /\ UNCHANGED <<fun, force_mask, force4, force_link, src, driver_mask,
                 ca, fo, folink>>

\* The structural driver: the bits that have none do not take its value.
filter_vec4(p, v) ==
  /\ Drives(p \cap driver_mask, v)
  /\ hold' = Put(hold, p \cap driver_mask, v)

\* vpi_put_value to a variable that a structural driver turned into a net.
assign_variable(p, v) ==
  /\ driver_mask # Bits
  /\ Drives(p \ driver_mask, v)
  /\ hold' = [i \in Bits |-> IF i \in p \ driver_mask /\ fo[i] = Nil THEN v[i] ELSE hold[i]]

\* The source signal changes.  It is linked to one port at most.
SourceChanges(v) ==
  /\ v # src
  /\ src' = v
  /\ IF force_link
       THEN force_vec4(Bits, v) /\ UNCHANGED <<bits4, fun, fil_needs_init>>
       ELSE IF cassign_link
       THEN recv_port1(Bits, v) /\ UNCHANGED <<cassign_link, force_mask, force4>>
       ELSE UNCHANGED <<bits4, fun, fil, seen, told>>
  /\ ca' = IF cassign_link THEN v ELSE ca
  /\ fo' = IF folink THEN [i \in Bits |-> IF fo[i] # Nil THEN v[i] ELSE Nil] ELSE fo
  /\ UNCHANGED <<force_link, driver_mask, hold, folink>>

Next ==
  \/ \E p \in Parts, v \in Stored :
       \/ of_STORE_VEC4(p, v) \/ filter_vec4(p, v) \/ assign_variable(p, v)
       \/ \E link \in BOOLEAN : assign(p, v, link) \/ force(p, v, link)
  \/ \E p \in Parts : of_DEASSIGN(p) \/ release(p)
  \/ \E v \in Stored : SourceChanges(v)

Spec == Init /\ [][Next]_vars

-----------------------------------------------------------------------------
(***************************************************************************)
(* Properties.                                                             *)
(***************************************************************************)

\* Every variable has its type.
TypeOK ==
  /\ bits4 \in Vector /\ seen \in Vector /\ told \in Vector /\ hold \in Vector
  /\ needs_init \in BOOLEAN /\ fil_needs_init \in BOOLEAN /\ force_propagate \in BOOLEAN
  /\ assign_mask \subseteq Bits /\ force_mask \subseteq Bits /\ driver_mask \subseteq Bits
  /\ force4 \in Vector \cup {Nil} /\ (force_mask # {} => force4 # Nil)
  /\ cassign_link \in BOOLEAN /\ force_link \in BOOLEAN /\ folink \in BOOLEAN
  /\ src \in Stored
  /\ ca \in [Bits -> Bit \cup {Nil}] /\ fo \in [Bits -> Bit \cup {Nil}]

\* However stores, drivers, continuous assignments, forces, their links and
\* their removals follow each other, a bit has its forced value if it is
\* forced, else the one continuously assigned, else the one last stored or
\* driven, where a variable that is released or deassigned keeps its value.
ValueIsRight ==
  \A i \in Bits :
    Value[i] = IF fo[i] # Nil THEN fo[i] ELSE IF ca[i] # Nil THEN ca[i] ELSE hold[i]

\* The fan-out has been sent the value that the signal has, and the callbacks
\* have been called for it: no shortcut for a write that changes nothing hides
\* a change that a mask or a release makes.
SeenIsValue == seen = Value /\ told = Value
=============================================================================
