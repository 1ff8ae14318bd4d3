SPECIFICATION Spec
CONSTANTS
  d1 = d1
  d2 = d2
  Devices = {d1, d2}
  MaxChanges = 3
  MaxMishaps = 1
  Mishaps = {"stop", "keep", "age"}
SYMMETRY DeviceSymmetry
CONSTRAINT FewWithMishap
CHECK_DEADLOCK FALSE
INVARIANT TypeOK
INVARIANT TreeIsLog
INVARIANT SyncedIsCommitted
INVARIANT DevicesAgree
INVARIANT RetentionIsFresh
PROPERTY NeverOlder
