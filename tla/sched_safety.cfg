SPECIFICATION Spec
CONSTANTS
  App = App
  NumWorkers = 1
  Apps <- MCApps
  NoThread = NoThread
  NumSlots = 2
  MaxDepth = 3
  MaxGen = 2
  Calls <- MixedCalls
  Results = {"OK", "ERROR"}
INVARIANTS SchedulerInv NoLostWakeup NoDanglingCommand NotStranded ActivationHeld
CHECK_DEADLOCK FALSE
