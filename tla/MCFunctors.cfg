CONSTANTS
  NPorts = 5
  Width = 1
  Kinds = {"tri1", "triand", "trior"}
  Scalars <- Even
  Plain = {"0"}
  Nil = Nil
SPECIFICATION MCSpec
INVARIANTS NetIsResolved DriversCounted
PROPERTIES TableFollowed
