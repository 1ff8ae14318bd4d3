SPECIFICATION FairSpec
CONSTANTS
  Devices = {d1, d2}
  Edits = {e1, e2}
  Gone = Gone
  Text = FALSE
  MaxRetries = 2
  Mishaps = {"full"}
  MaxMishaps = 1
PROPERTIES
  Converges
  EditsSurface
