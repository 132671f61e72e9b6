------------------------------- MODULE Nexus --------------------------------
(***************************************************************************)
(* The nexus of the netlist, net_link.cc and link_const.cc: the links that *)
(* are connected form a circular list. The nexus points to the last link   *)
(* of the list and only that link points back to the nexus. The nexus      *)
(* caches what is known of its value in driven_.                           *)
(*                                                                         *)
(* A link has one of these kinds: "input", "passive", "var" (a driver that *)
(* is not constant: the target of a procedural assignment, a tran, a port  *)
(* of the root module, the output of a gate), a constant driver "0", "1",  *)
(* "x" or "z", a net with a pull, "pull0" or "pull1", or "subst", pin 0 of *)
(* a NetSubstitute, which is constant if the nexuses of its pins 1 and 2   *)
(* are.                                                                    *)
(***************************************************************************)
EXTENDS Naturals, FiniteSets

CONSTANTS
  Links,
  Nexuses,   \* the addresses of nexus objects
  Kinds,     \* the kinds of the links that are not pins of a NetSubstitute
  Wirings,   \* the NetSubstitutes there may be: pin 0 of each to its pins 1 and 2
  Nil

Constant == {"0", "1", "x", "z"}
Pull == {"pull0", "pull1"}
PullValue == [k \in Pull |-> IF k = "pull0" THEN "0" ELSE "1"]

\* Each link can have a nexus of its own.
ASSUME NexusAssumption ==
  /\ Kinds \subseteq {"input", "passive", "var"} \cup Constant \cup Pull
  /\ Cardinality(Nexuses) = Cardinality(Links)
  /\ Nil \notin Links \cup Nexuses
  /\ \A w \in Wirings : \E S \in SUBSET Links : w \in [S -> Links \X Links]

VARIABLES
  kind,      \* the kind of each link
  pins,      \* pins 1 and 2 of the NetSubstitute whose pin 0 is the link
  next_,     \* the next link of the circle, Nil if the link has no nexus
  nexus_,    \* the back pointer of the last link
  list_,     \* the last link of each nexus, Nil if the nexus does not exist
  driven_,   \* "NO_GUESS", "VAR" or a value
  joined     \* history: the sets of links that are connected

vars == <<kind, pins, next_, nexus_, list_, driven_, joined>>

\* The links of the NetSubstitutes, which nothing unlinks or deletes.
Pins == DOMAIN pins \cup UNION {{pins[l][1], pins[l][2]} : l \in DOMAIN pins}

\* The constructor connects pins 1 and 2 before pin 0 is used.
Built(l) == l \in DOMAIN pins => next_[pins[l][1]] # Nil /\ next_[pins[l][2]] # Nil

Init ==
  /\ pins \in Wirings
  /\ kind \in {[l \in Links |-> CASE l \in DOMAIN pins -> "subst"
                                [] l \in Pins \ DOMAIN pins -> "input"
                                [] OTHER -> k[l]] : k \in [Links -> Kinds]}
  /\ next_ = [l \in Links |-> Nil] /\ nexus_ = [l \in Links |-> Nil]
  /\ list_ = [n \in Nexuses |-> Nil] /\ driven_ = [n \in Nexuses |-> "NO_GUESS"]
  /\ joined = {{l} : l \in Links}

\* The way from l leads to m: each set that has l and not m is left on the way.
LeadsTo(l, m) ==
  \A S \in SUBSET (Links \ {m}) : l \in S => \E k \in S : next_[k] \notin S \cup {Nil}

\* The same of the way that ends at a link with a back pointer.
Meets(l, m) ==
  \A S \in SUBSET (Links \ {m}) :
    l \in S => \E k \in S : nexus_[k] = Nil /\ next_[k] \notin S \cup {Nil}

Circle(l) == {m \in Links : LeadsTo(l, m)}

find_nexus_(l) ==
  IF nexus_[l] # Nil THEN nexus_[l]
  ELSE nexus_[CHOOSE m \in Links : nexus_[m] # Nil /\ Meets(l, m)]

LinksOf(n) == Circle(list_[n])
New == {n \in Nexuses : list_[n] = Nil}

Join(l, r) ==
  LET of(m) == CHOOSE S \in joined : m \in S
  IN joined' = (joined \ {of(l), of(r)}) \cup {of(l) \cup of(r)}

\* Nexus::connect for a link r that has no nexus: it becomes the last link.
\* Only a driver makes the guess void.
Extend(n, r) ==
  /\ next_' = [next_ EXCEPT ![r] = next_[list_[n]], ![list_[n]] = r]
  /\ nexus_' = [nexus_ EXCEPT ![list_[n]] = Nil, ![r] = n]
  /\ list_' = [list_ EXCEPT ![n] = r]
  /\ driven_' = [driven_ EXCEPT ![n] = IF kind[r] = "input" THEN @ ELSE "NO_GUESS"]

\* Mutant of Splice: the guess of the longer nexus is kept.
SpliceKeepsGuess(n, rn) ==
  /\ next_' = [next_ EXCEPT ![list_[n]] = next_[list_[rn]], ![list_[rn]] = next_[list_[n]]]
  /\ nexus_' = [nexus_ EXCEPT ![list_[n]] = Nil, ![list_[rn]] = n]
  /\ list_' = [list_ EXCEPT ![n] = list_[rn], ![rn] = Nil]
  /\ driven_' = [driven_ EXCEPT ![rn] = "NO_GUESS"]

\* Mutant of Splice: the joined circle is not closed.
SpliceOpen(n, rn) ==
  /\ next_' = [next_ EXCEPT ![list_[n]] = next_[list_[rn]]]
  /\ nexus_' = [nexus_ EXCEPT ![list_[n]] = Nil, ![list_[rn]] = n]
  /\ list_' = [list_ EXCEPT ![n] = list_[rn], ![rn] = Nil]
  /\ driven_' = [driven_ EXCEPT ![n] = IF driven_[rn] # "z" THEN "NO_GUESS" ELSE @,
                                ![rn] = "NO_GUESS"]

\* Nexus::connect of two nexuses: the circles are opened and joined, and the
\* nexus rn is deleted. The guess survives if nothing drives rn.
Splice(n, rn) ==
  /\ next_' = [next_ EXCEPT ![list_[n]] = next_[list_[rn]], ![list_[rn]] = next_[list_[n]]]
  /\ nexus_' = [nexus_ EXCEPT ![list_[n]] = Nil, ![list_[rn]] = n]
  /\ list_' = [list_ EXCEPT ![n] = list_[rn], ![rn] = Nil]
  /\ driven_' = [driven_ EXCEPT ![n] = IF driven_[rn] # "z" THEN "NO_GUESS" ELSE @,
                                ![rn] = "NO_GUESS"]

\* Nexus::connect(r) of nexus n.
ConnectTo(n, r) ==
  IF next_[r] = Nil THEN Extend(n, r)
  ELSE IF find_nexus_(r) = n THEN UNCHANGED <<next_, nexus_, list_, driven_>>
  ELSE Splice(n, find_nexus_(r))

\* connect(l, r): a nexus of l or of r is used again, or one is made of both.
connect(l, r) ==
  /\ l # r /\ Built(l) /\ Built(r)
  /\ CASE next_[l] # Nil -> ConnectTo(find_nexus_(l), r)
       [] next_[l] = Nil /\ next_[r] # Nil -> ConnectTo(find_nexus_(r), l)
       [] OTHER ->
            \E n \in New :
              /\ next_' = [next_ EXCEPT ![l] = r, ![r] = l]
              /\ nexus_' = [nexus_ EXCEPT ![r] = n]
              /\ list_' = [list_ EXCEPT ![n] = r]
              /\ driven_' = [driven_ EXCEPT ![n] = "NO_GUESS"]
  /\ Join(l, r)
  /\ UNCHANGED <<kind, pins>>

\* Link::nexus(): a link that has none gets a nexus of its own.
nexus(l) ==
  /\ next_[l] = Nil /\ Built(l)
  /\ \E n \in New :
       /\ list_' = [list_ EXCEPT ![n] = l]
       /\ nexus_' = [nexus_ EXCEPT ![l] = n]
       /\ driven_' = [driven_ EXCEPT ![n] = "NO_GUESS"]
  /\ next_' = [next_ EXCEPT ![l] = l]
  /\ UNCHANGED <<kind, pins, joined>>

\* Nexus::unlink of a link that has others beside it.
Remove(l) ==
  LET n == find_nexus_(l)
      prev == CHOOSE p \in Links : next_[p] = l /\ LeadsTo(l, p) IN
  /\ next_' = [next_ EXCEPT ![prev] = next_[l], ![l] = Nil]
  /\ list_' = [list_ EXCEPT ![n] = IF @ = l THEN prev ELSE @]
  /\ nexus_' = IF list_[n] = l THEN [nexus_ EXCEPT ![prev] = n, ![l] = Nil] ELSE nexus_
  /\ driven_' = [driven_ EXCEPT ![n] = IF kind[l] = "input" THEN @ ELSE "NO_GUESS"]

Part(l) ==
  LET S == CHOOSE S \in joined : l \in S
  IN joined' = (joined \ {S}) \cup ({S \ {l}, {l}} \ {{}})

\* Link::unlink(), which leaves a link alone that is the only one.
unlink(l) ==
  /\ next_[l] \notin {Nil, l} /\ l \notin Pins
  /\ Remove(l) /\ Part(l)
  /\ UNCHANGED <<kind, pins>>

\* Link::~Link(): the only link takes its nexus with it. The storage of the
\* link becomes a link of some kind again.
Destroy(l) ==
  /\ next_[l] # Nil /\ l \notin Pins
  /\ IF next_[l] = l
       THEN /\ next_' = [next_ EXCEPT ![l] = Nil]
            /\ nexus_' = [nexus_ EXCEPT ![l] = Nil]
            /\ list_' = [list_ EXCEPT ![find_nexus_(l)] = Nil]
            /\ driven_' = [driven_ EXCEPT ![find_nexus_(l)] = "NO_GUESS"]
       ELSE Remove(l)
  /\ Part(l)
  /\ kind' \in {[kind EXCEPT ![l] = k] : k \in Kinds}
  /\ UNCHANGED pins

\* Of the links S of a nexus, those that drive a constant.
ConstantDrivers(S) == {l \in S : kind[l] \in Constant \cup Pull \cup {"subst"}}

\* The link l makes its nexus vary, if the nexuses K are the constant ones.
VariesAt(l, K) ==
  \/ kind[l] = "var"
  \/ kind[l] = "subst" /\ \E i \in 1 .. 2 : find_nexus_(pins[l][i]) \notin K

Varies(S, K) ==
  \/ \E l \in S : VariesAt(l, K)
  \/ \E l, m \in ConstantDrivers(S) : l # m

\* The nexuses that are constant and can be a NetSubstitute's input: those
\* without one first, and then those whose NetSubstitutes they feed.
Steady ==
  LET K[i \in 0 .. Cardinality(DOMAIN pins)] ==
        IF i = 0
        THEN {}
        ELSE {m \in Nexuses \ New :
                IF driven_[m] = "NO_GUESS" THEN ~Varies(LinksOf(m), K[i - 1])
                ELSE driven_[m] # "VAR"}
  IN  K[Cardinality(DOMAIN pins)]

\* In the list of nexus n link k comes before link l.
Before(n, k, l) ==
  k # l /\ \E S \in SUBSET (LinksOf(n) \ {l}) :
    {next_[list_[n]], k} \subseteq S /\ \A m \in S \ {k} : next_[m] \in S

\* The nexuses that a pass over the links of n asks in turn: of the
\* NetSubstitutes up to the first link that varies, the second input only if
\* the first is constant.
Asks(n) ==
  LET links == LinksOf(n)
      steady == Steady
      passed == {l \in links \cap DOMAIN pins :
                   \A k \in links : Before(n, k, l) => ~VariesAt(k, steady)}
      first(l) == find_nexus_(pins[l][1]) IN
  IF driven_[n] # "NO_GUESS" THEN {}
  ELSE {first(l) : l \in passed} \cup
       {find_nexus_(pins[l][2]) : l \in {m \in passed : first(m) \in steady}}

\* All the nexuses that are asked if n is.
Asked(n) ==
  LET asks == [k \in Nexuses \ New |-> Asks(k)] IN
  {m \in DOMAIN asks :
     \A S \in SUBSET DOMAIN asks : n \in S /\ (\A k \in S : asks[k] \subseteq S) => m \in S}

\* The recursion ends: no nexus hangs on itself.
Returns(n) == \A m \in Asked(n) : \A k \in Asks(m) : m \notin Asked(k)

\* What drivers_constant leaves in driven_: the value of a pull on the net, VAR
\* if the nexus is not constant.
Guess(n) ==
  LET links == LinksOf(n)
      pulls == {l \in links : kind[l] \in Pull} IN
  IF driven_[n] # "NO_GUESS" THEN driven_[n]
  ELSE IF Varies(links, Steady) THEN "VAR"
  ELSE IF pulls # {} THEN PullValue[kind[CHOOSE l \in pulls : TRUE]]
  ELSE "NO_GUESS"

\* Nexus::drivers_constant(), with the guesses it leaves in this and in other
\* nexuses.
drivers_constant(n) ==
  /\ list_[n] # Nil /\ Returns(n)
  /\ driven_' = [m \in Nexuses |-> IF m \in Asked(n) THEN Guess(m) ELSE driven_[m]]
  /\ UNCHANGED <<kind, pins, next_, nexus_, list_, joined>>

\* Nexus::driven_value(), asked after drivers_constant has said that the nexus
\* is constant: the value of a constant driver, or z.  It passes over a
\* NetSubstitute.
driven_value(n) ==
  /\ list_[n] # Nil /\ driven_[n] # "VAR" /\ Returns(n)
  /\ \A m \in Asked(n) : Guess(m) = driven_[m]
  /\ LET constants == {l \in LinksOf(n) : kind[l] \in Constant} IN
       driven_' = [driven_ EXCEPT ![n] =
         IF @ # "NO_GUESS" THEN @
         ELSE IF constants # {} THEN kind[CHOOSE l \in constants : TRUE]
         ELSE "z"]
  /\ UNCHANGED <<kind, pins, next_, nexus_, list_, joined>>

Next ==
  \/ \E l, r \in Links : connect(l, r)
  \/ \E l \in Links : nexus(l) \/ unlink(l) \/ Destroy(l)
  \/ \E n \in Nexuses : drivers_constant(n) \/ driven_value(n)

Spec == Init /\ [][Next]_vars

-----------------------------------------------------------------------------
TypeOK ==
  /\ kind \in [Links -> Kinds \cup {"subst", "input"}] /\ pins \in Wirings
  /\ next_ \in [Links -> Links \cup {Nil}]
  /\ nexus_ \in [Links -> Nexuses \cup {Nil}]
  /\ list_ \in [Nexuses -> Links \cup {Nil}]
  /\ driven_ \in [Nexuses -> Constant \cup {"NO_GUESS", "VAR"}]
  /\ \A n \in Nexuses : list_[n] # Nil => next_[list_[n]] # Nil
  /\ joined \subseteq SUBSET Links

\* Of the links of a nexus the last one, and only it, points back, so that
\* find_nexus_ ends and gives the same answer from each of them.
OneBackPointer ==
  \A l \in Links : next_[l] # Nil =>
    LET circle == Circle(l) IN
    \E n \in Nexuses :
      /\ list_[n] \in circle
      /\ \A m \in circle : nexus_[m] = IF m = list_[n] THEN n ELSE Nil

\* Two links are in one circle exactly if they have been connected, whatever
\* nexuses were merged and links removed in between (connect, unlink).
CirclesAreJoined ==
  \A l \in Links : next_[l] # Nil => Circle(l) \in joined

\* After any sequence of connects, unlinks and destructors two links share a
\* circle exactly if they are connected, and each circle has one link that
\* points back to the nexus.
CirclesAreNets == CirclesAreJoined /\ OneBackPointer

\* The value of a nexus with the links S, of all its drivers but the
\* NetSubstitutes: a constant z drives nothing.
Drivers(S) == {l \in S : kind[l] \in (Constant \cup Pull) \ {"z"}}
Value(S) ==
  IF Drivers(S) = {} THEN "z"
  ELSE LET k == kind[CHOOSE l \in Drivers(S) : TRUE]
       IN IF k \in Pull THEN PullValue[k] ELSE k

\* Nexus::drivers_constant, driven_value, connect, unlink: however the links
\* have been connected and removed since the guess was made, the value that a
\* nexus caches is the value of its drivers now, none of which varies, and VAR
\* is cached only for a nexus that varies.  Of a nexus that a NetSubstitute
\* drives it says less, as driven_value passes over it: the cached value is
\* that of the other drivers, and VAR may be older than the inputs.
DrivenIsCurrent ==
  \A n \in {m \in Nexuses : driven_[m] # "NO_GUESS"} :
    LET links == LinksOf(n) IN
    IF driven_[n] = "VAR"
    THEN \/ \E l \in links : kind[l] \in {"var", "subst"}
         \/ \E l, m \in ConstantDrivers(links) : l # m
    ELSE /\ \A l \in links : kind[l] # "var"
         /\ \A l, m \in Drivers(links) : l = m
         /\ driven_[n] = Value(links)
=============================================================================
