SPECIFICATION FairSpec
CONSTANTS
  NoMessage = NoMessage  Nothing = Nothing
  IntMax = 127
  Waits = {0, 100, 200}
  Rounds = 20
  Ports = {0, 1, 8080, 65535, 65536, 65537}
  Returns <- SomeReturns
  Counts <- SomeCounts
INVARIANTS TypeOK NoOrphans FailuresNamed ListensAsAsked StatsAreKernels StoppedWhenSaid WorksOnlyStarted
PROPERTY EndsInTime
