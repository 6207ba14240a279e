SPECIFICATION Spec
CONSTANTS
  Task = {deposit, routing}
  Combined = {deposit}
  MinIdle = 1
  MaxIdle = 2
  WindowIdle = 3
  OpenFor = 2
  DrainLimit = 1
  MaxRows = 1
  MaxDue = 1
  Slack = 1
INVARIANTS TypeOK NotifiedIsScanned DeadlineIsKept GapIsBounded RunnerBacklogIsDrained
PROPERTIES QuietBudget IdleCycleRests
