CONSTANTS
  Tid = {1, 2, 3, 4}
  Modules = {"DetachedM"}
  Scopes = {"DetachedM", "DetachedF", "DetachedB"}
  Roots <- DesignRoots
  Events = {"e"}
  Code <- DesignCode
  Nil = Nil

SPECIFICATION Spec
INVARIANT NoAssertFails
