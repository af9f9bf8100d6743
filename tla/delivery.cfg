CONSTANTS
  r1 = r1  r2 = r2  q1 = q1  s1 = s1  s2 = s2  None = None
  Runner = {r1}  Assigner = {}  Session <- Sessions
SPECIFICATION MCFairSpec
INVARIANTS SessionsMatchIntents ProcessedIsRecorded
PROPERTIES CaptureIsRecorded
CHECK_DEADLOCK FALSE
