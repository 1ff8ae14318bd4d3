SPECIFICATION Spec
CONSTANTS
  Req = {"r1", "r2"}
  Fresh = {"s1", "s2"}
  Names = {"a", "A"}
  Key <- MCKey
  MaxStops = 1
  MaxWipes = 1
  MaxActs = 1
CHECK_DEADLOCK FALSE
INVARIANTS TypeOK IdKeepsEntry RecoveredFirst
PROPERTIES RejectedIsUndone
