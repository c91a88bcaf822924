SPECIFICATION FairSpec
CONSTANTS
  N = 3
  MaxForks = 2
  MaxFd = 7
  MaxInits = 2
INVARIANTS ForkInv ChannelIntact
PROPERTIES Settles
CHECK_DEADLOCK FALSE
