SPECIFICATION FairSpec
CONSTANTS
  Case = {c1}
  Worker = {w1, w2}
  Nobody = Nobody
  World <- StartFacts
  MaxAttempts = 2
  MaxCommands = 2
  MaxLapses = 1
PROPERTIES ImplementsLifecycle NotLeftOpen BookedIsSettled
CHECK_DEADLOCK FALSE
