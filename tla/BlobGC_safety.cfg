SPECIFICATION Spec
CONSTANTS
  d1 = d1
  d2 = d2
  d3 = d3
  f1 = f1
  h1 = h1
  h2 = h2
  NoContent = NoContent
  Devices = {d1, d2, d3}
  Sweepers = {d3}
  Files = {f1}
  Hashes = {h1, h2}
  Jobs <- OneFile
  SnapshotKeep = 1
  MaxFaults = 1
  MaxEdits = 1
SYMMETRY Symmetry
CONSTRAINT OneMishap
INVARIANTS
  TypeOK
  LostOnlyIfExposed
CHECK_DEADLOCK FALSE
