CONSTANTS
  None = None
  Seeding <- TwoScenarios
SPECIFICATION Spec
INVARIANT RepairLeavesNothingPartial
CHECK_DEADLOCK FALSE
