SPECIFICATION FairSpec
CONSTANTS
  r1 = r1
  r2 = r2
  a = a
  b = b
  e1 = e1
  Req = {r1, r2}
  Body <- MCBody
  Ext = {e1}
  Text0 = t0
  Nothing = nothing
  MaxStops = 1
  MaxResend = 1
CHECK_DEADLOCK FALSE
INVARIANT TypeOK
INVARIANT AckedOverExpected
INVARIANT DisplacedSurfaces
INVARIANT AckedBodyStands
INVARIANT SyncedCoversSaves
PROPERTY Settles
