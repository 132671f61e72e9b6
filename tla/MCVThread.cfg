CONSTANTS
  Tid = {1, 2, 3, 4, 5}
  Modules = {"ForkM", "DisableM", "CallM"}
  Scopes = {"ForkM", "ForkF", "ForkB", "DisableM", "DisableF", "DisableB",
            "CallM", "CallB", "fn", "bf"}
  Roots <- DesignRoots
  Events = {"e"}
  Code <- DesignCode
  Nil = Nil

SPECIFICATION Spec
INVARIANTS NoAssertFails FlagsAreTrue Family Balanced WaitsCanEnd FramesExist NoneForgotten
