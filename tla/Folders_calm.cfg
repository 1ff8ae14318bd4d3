SPECIFICATION Spec
CONSTANTS
 d1 = d1
 d2 = d2
 Devices = {d1, d2}
 Names = {"a", "c"}
 Acts = {"create","move","movefile","remove","edit"}
 MaxActs = 2
 MaxLog = 8
SYMMETRY Symm
CONSTRAINT Calm
CHECK_DEADLOCK FALSE
INVARIANTS TypeOK IndexIsTree NoEcho Agree
