SPECIFICATION FairSpec
CONSTANTS
  App = App
  NumWorkers = 1
  Apps <- MCApps
  NoThread = NoThread
  NumSlots = 2
  MaxDepth = 3
  MaxGen = 2
  Calls <- OrderedCalls
  Results = {"OK"}
INVARIANTS ClosedEmpty
PROPERTIES CallsReturn ShutdownEnds NoStarvation ImplementsService
