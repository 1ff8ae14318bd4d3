SPECIFICATION FairSpec
CONSTANTS
  d1 = d1
  d2 = d2
  d3 = d3
  f1 = f1
  h1 = h1
  h2 = h2
  NoContent = NoContent
  Devices = {d1}
  Sweepers = {d1}
  Files = {f1}
  Hashes = {h1, h2}
  Jobs <- OneJob
  SnapshotKeep = 1
  MaxFaults = 0
  MaxEdits = 1
PROPERTIES
  OrphansCollected
CHECK_DEADLOCK FALSE
