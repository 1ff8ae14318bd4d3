SPECIFICATION Spec
CONSTANTS
  Devices = {d1, d2}
  Edits = {e1, e2, e3}
  Gone = Gone
  Text = TRUE
  MaxRetries = 2
  Mishaps = {"fault", "restart", "delete", "full"}
  MaxMishaps = 1
SYMMETRY Sym
CONSTRAINT OneMishapOrThreeEdits
INVARIANTS
  TypeOK
  LostOnlyIfExposed
  AtRestIsLatest
PROPERTIES
  NoSilentOverwrite
