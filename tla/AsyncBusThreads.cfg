SPECIFICATION Spec
CONSTANTS
  r1 = r1  r2 = r2  a = a
  NoId = NoId  NoText = NoText  NoOne = NoOne  NoTime = NoTime
  Requests = {r1, r2}
  Names = {a}
  Messages <- SilentMessages
  WorkerIds <- NoIdOnly
  NestedIds = {}
  Timeouts = {1}
  MaxClock = 2
  Horizon = 4
SYMMETRY Symmetry
INVARIANT OneThreadInBus
