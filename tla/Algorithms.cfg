SPECIFICATION Spec
CONSTANT NaN = NaN
INVARIANTS
  NoPanic
  ConditioningKeeps
  TestsAgree
  ScansAgree
  BatteryAgrees
  JudgementsSound
CHECK_DEADLOCK FALSE
