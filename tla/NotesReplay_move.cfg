SPECIFICATION Spec
CONSTANTS
  d1 = d1
  d2 = d2
  Devices = {d1, d2}
  MaxChanges = 2
  MaxMishaps = 0
  Mishaps = {}
CHECK_DEADLOCK FALSE
INVARIANT EditKeepsPlace
