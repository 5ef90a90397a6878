SPECIFICATION FairWatcherSpec
CONSTANTS
  a1 = a1
  a2 = a2
  w1 = w1
  w2 = w2
  Actors <- TwoActors
  Workers <- TwoWorkers
  MaxCommands = 2
  MaxClock = 3
  MaxFaults = 1
INVARIANTS WatcherConsistent
PROPERTY Settles
CHECK_DEADLOCK FALSE
