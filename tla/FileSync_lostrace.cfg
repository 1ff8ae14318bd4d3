SPECIFICATION Spec
CONSTANTS
  Devices = {d1, d2}
  Edits = {e1, e2}
  Gone = Gone
  Text = FALSE
  MaxRetries = 2
  Mishaps = {}
  MaxMishaps = 0
SYMMETRY Sym
INVARIANT NoEditLost
