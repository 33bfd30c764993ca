SPECIFICATION Spec
CONSTANTS
  r1 = r1  r2 = r2  a = a
  NoId = NoId  NoText = NoText  NoOne = NoOne  NoTime = NoTime
  Requests = {r1, r2}
  Names = {a}
  Messages <- ClashingMessages
  WorkerIds = {}
  NestedIds = {2}
  Timeouts = {1}
  MaxClock = 2
  Horizon = 4
SYMMETRY Symmetry
INVARIANTS TypeOK FiledIsUnset UnsetIsFiled OwnReply OwnFailure KeptPromise TimeoutNotEarly
PROPERTIES SettledIsFinal FailureIsReported CallsSpec
