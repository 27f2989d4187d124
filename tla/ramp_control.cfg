CONSTANTS
  Never = never
  Steps = 3
  StepTime = 1
  PauseTime = 1
  FailuresToPause = 2
  MaxSells = 1
  MaxTime = 3
SPECIFICATION Spec
INVARIANT RampEarned
PROPERTY PauseHonoured
