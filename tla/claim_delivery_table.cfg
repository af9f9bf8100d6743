CONSTANTS
  r1 = r1  r2 = r2  q1 = q1  s1 = s1  s2 = s2  None = None
  Runner <- Runners  Assigner <- Assigners  Session <- Sessions
SPECIFICATION Spec
PROPERTY FollowsTheTable
CHECK_DEADLOCK FALSE
