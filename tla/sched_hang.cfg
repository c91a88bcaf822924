SPECIFICATION FairSpec
CONSTANTS
  App = App
  NumWorkers = 1
  Apps <- MCApps
  NoThread = NoThread
  NumSlots = 2
  MaxDepth = 3
  MaxGen = 3
  Calls <- AppActivatesOnMain
  Results = {"OK"}
PROPERTIES CallsReturn
CHECK_DEADLOCK FALSE
