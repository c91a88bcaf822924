SPECIFICATION FairSpec
CONSTANTS
  Nodes = {"ab", "b", ""}
  Messages <- MCMessages
  Processes = 2
  Capacity = 2
  Units = 3
  NameFrom <- MCNameFrom
  MaxGaps = 2
CHECK_DEADLOCK FALSE
INVARIANTS Mirror Truthful
PROPERTIES Delivered
