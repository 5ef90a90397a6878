SPECIFICATION WatcherSpec
CONSTANTS
  a1 = a1
  a2 = a2
  w1 = w1
  w2 = w2
  Actors <- TwoActors
  Workers <- OneWorker
  MaxCommands = 2
  MaxClock = 3
  MaxFaults = 1
INVARIANT RestartTakesEffect
CHECK_DEADLOCK FALSE
