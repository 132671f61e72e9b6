----------------------------- MODULE MCVThread -----------------------------
(***************************************************************************)
(* Designs for VThread, one per top module: ForkM, DisableM, CallM and     *)
(* DetachedM.  The other scopes belong to one of them: F is a fork, B a    *)
(* named block, fn a function, bf a block inside the function.             *)
(***************************************************************************)
EXTENDS VThread

S(op, arg, n) == [op |-> op, arg |-> arg, n |-> n]
Do(op) == S(op, Nil, 0)

DesignRoots ==
  [m \in Modules |-> IF m = "ForkM" THEN <<1>> ELSE <<1, 2>>]

DesignCode == [s \in Scopes |->
  CASE
  \* Forks of all kinds, wait fork, disable fork, events and delays; only the
  \* block, which never holds a detached thread, is disabled.
       s = "ForkM" -> {S("join", "ForkF", 2), S("join_any", "ForkF", 2),
                       S("join_none", "ForkF", 1), Do("wait_fork"), Do("disable_fork"),
                       Do("delay"), S("disable", "ForkB", 0)}
    [] s = "ForkF" -> {S("join", "ForkB", 1), S("wait", "e", 0), Do("delay0"),
                       S("event", "e", 0)}
    [] s = "ForkB" -> {Do("delay"), S("wait", "e", 0), S("event", "e", 0),
                       S("flow", "ForkB", 0), Do("vpi")}
  \* Joined forks, nested, and blocks; any thread disables any of their scopes.
    [] s = "DisableM" -> {S("join", "DisableF", 2), Do("delay"), S("disable", "DisableF", 0),
                          S("event", "e", 0)}
    [] s = "DisableF" -> {S("join", "DisableF", 1), S("join", "DisableB", 1),
                          S("wait", "e", 0), Do("delay"),
                          S("disable", "DisableB", 0), S("disable", "DisableF", 0)}
    [] s = "DisableB" -> {Do("delay0"), S("wait", "e", 0), S("flow", "DisableF", 0),
                          S("disable", "DisableB", 0), Do("vpi")}
  \* Function calls, stopped inside the function or not, with blocks in it; the
  \* block that makes the call is disabled from outside.
    [] s = "CallM" -> {S("join", "CallB", 1), S("callf", "fn", 0), Do("delay"),
                       S("disable", "CallB", 0)}
    [] s = "CallB" -> {S("callf", "fn", 0), Do("delay0"), Do("jmp"), S("disable", "CallB", 0)}
    [] s = "fn" -> {S("join", "bf", 1), S("flow", "fn", 0), Do("jmp"), S("callf", "fn", 0)}
    [] s = "bf" -> {S("flow", "bf", 0), S("disable", "bf", 0), Do("jmp"), Do("vpi")}
  \* A named fork with join_none is disabled; its parent goes on to a block, or
  \* to wait fork.
    [] s = "DetachedM" -> {S("join_none", "DetachedF", 1), S("join", "DetachedB", 1),
                           Do("wait_fork"), Do("delay"), S("disable", "DetachedF", 0)}
    [] s \in {"DetachedF", "DetachedB"} -> {Do("delay")}]
=============================================================================
