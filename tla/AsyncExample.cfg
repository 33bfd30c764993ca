SPECIFICATION ExampleSpec
CONSTANTS
  NoId = NoId  NoText = NoText  NoOne = NoOne  NoTime = NoTime
  Requests = {1, 2, 3}
  Names = {}
  Messages <- RequestTexts
  WorkerIds <- NoIdOnly
  NestedIds = {}
  Timeouts = {1}
  MaxClock = 2
  Horizon = 4
INVARIANT ResultsAreOwn
PROPERTIES UsesAsyncBus Terminates
